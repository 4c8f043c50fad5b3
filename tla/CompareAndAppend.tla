-------------------------- MODULE CompareAndAppend --------------------------
(***************************************************************************)
(* What an event store promises to those who decide on a stream: it grows  *)
(* only at its end, by whole appends, and an append that was decided on a  *)
(* version goes right behind that version or fails.                        *)
(***************************************************************************)
EXTENDS Naturals, Sequences

VARIABLE appended   \* the messages of the stream, each with its append

Init == appended = <<>>

\* The messages of one append follow one another, and the first of them stands
\* where the decision expected it, unless no version was to be checked.
Extend ==
  \E size \in 1..Len(appended') - Len(appended) :
    /\ Len(appended') = Len(appended) + size
    /\ SubSeq(appended', 1, Len(appended)) = appended
    /\ \A i \in 1..size :
         LET m == appended'[Len(appended) + i]
         IN  /\ m.nr = i
             /\ m.size = size
             /\ m.by = appended'[Len(appended) + 1].by
             /\ m.compared => m.seen = Len(appended)

Spec == Init /\ [][Extend]_appended

=============================================================================
