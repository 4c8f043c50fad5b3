------------------------ MODULE ExactlyOnceProcessing ------------------------
(***************************************************************************)
(* What an async processor promises: it handles the messages of the log in *)
(* order, each of them once.  Messages are numbered from 1.                *)
(***************************************************************************)
EXTENDS Integers

VARIABLES published,     \* how many messages there are to read
          handled,       \* messages whose handling has taken effect
          handledAgain   \* those for which it has taken effect twice

vars == <<published, handled, handledAgain>>

Init == published = 0 /\ handled = {} /\ handledAgain = {}

Publish ==
  /\ published' = published + 1
  /\ UNCHANGED <<handled, handledAgain>>

\* The next messages, up to any that is published, take effect together.
Handle ==
  \E last \in 1..published :
    /\ last \notin handled
    /\ handled' = 1..last
    /\ UNCHANGED <<published, handledAgain>>

Next == Publish \/ Handle

Spec == Init /\ [][Next]_vars

=============================================================================
