------------------------- MODULE CheckpointRegister -------------------------
(***************************************************************************)
(* What a checkpointer promises the instances of a processor: one register *)
(* that an instance moves on only from the value it holds itself.          *)
(***************************************************************************)
EXTENDS Naturals

CONSTANT Instances

VARIABLES value,   \* the checkpoint, 0 while there is none
          held,    \* what each instance takes the checkpoint for
          transactional   \* whether it is moved in a transaction

vars == <<value, held, transactional>>

Init ==
  /\ value = 0
  /\ held = [i \in Instances |-> 0]
  /\ transactional \in BOOLEAN

\* An instance is told the checkpoint, or forgets it.
Read(i) ==
  /\ \E c \in {0, value} : held' = [held EXCEPT ![i] = c]
  /\ UNCHANGED <<value, transactional>>

\* The instance may not learn that it has moved the checkpoint.
Advance(i) ==
  /\ held[i] = value
  /\ value' > value
  /\ \E c \in {held[i], value'} : held' = [held EXCEPT ![i] = c]
  /\ UNCHANGED transactional

\* The instance takes over what it is about to move the checkpoint to, and the
\* transaction is rolled back.
Overrun(i) ==
  /\ transactional /\ held[i] = value
  /\ held' = [held EXCEPT ![i] = held'[i]]
  /\ held'[i] > value
  /\ UNCHANGED <<value, transactional>>

Reset == value' = 0 /\ UNCHANGED <<held, transactional>>

Next ==
  \/ \E i \in Instances : Read(i) \/ Advance(i) \/ Overrun(i)
  \/ Reset

Spec == Init /\ [][Next]_vars

=============================================================================
