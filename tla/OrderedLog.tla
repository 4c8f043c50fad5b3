----------------------------- MODULE OrderedLog -----------------------------
(***************************************************************************)
(* What a message source promises its consumers: a totally ordered log     *)
(* that only grows at its end, and readers that are each given a prefix.   *)
(***************************************************************************)
CONSTANTS Readers,
          Before(_, _)   \* the order of the log

VARIABLES published, delivered

vars == <<published, delivered>>

Init ==
  /\ published = {}
  /\ delivered = [r \in Readers |-> {}]

\* Nothing is published in front of what already is.
Publish ==
  /\ published \subseteq published'
  /\ \A new \in published' \ published, old \in published : Before(old, new)
  /\ UNCHANGED delivered

\* The reader is given the log up to one of the messages it was not given yet.
Deliver(r) ==
  /\ \E last \in published \ delivered[r] :
       delivered' = [delivered EXCEPT ![r] =
                       {m \in published : ~Before(last, m)}]
  /\ UNCHANGED published

Next == Publish \/ \E r \in Readers : Deliver(r)

Spec == Init /\ [][Next]_vars

=============================================================================
