------------------------- MODULE Projections_proofs -------------------------
(***************************************************************************)
(* Proofs about Projections, for any number of appends, rebuilds,          *)
(* registrations and changes of the status: what the projection's lock     *)
(* protects, and what a rebuild leaves in the read model.                  *)
(***************************************************************************)
EXTENDS Projections, TLAPS

(* Who has the lock alone has it alone. *)
LockInv ==
  /\ exclusive # "nobody" => \A n \in Appends : ~Sharing(n)
  /\ rebuild = "starting" <=> exclusive = "rebuild"

(* Transactions have their numbers in the order in which they begin, and the  *)
(* checkpoint is below all that are open.                                     *)
OrderInv ==
  /\ \A n, m \in Appends :
       m < n /\ append[n].state # "none" => append[m].state # "none"
  /\ \A n \in Appends :
       n <= checkpoint => append[n].state \in {"committed", "rolledBack"}

LogInv ==
  /\ TypeOK
  /\ LockInv
  /\ OrderInv
  /\ InlineOnlyWhileActive
  /\ RebuildHandlesEverything

-----------------------------------------------------------------------------

(* The transaction of n is in a state, and its knowledge stale or not; the    *)
(* others are as they were.                                                   *)
Becomes(n, state, stale) ==
  /\ append' \in [Appends -> Append]
  /\ append'[n].state = state
  /\ append'[n].stale = stale
  /\ \A m \in Appends \ {n} : append'[m] = append[m]

LEMMA AppendBecomes ==
  ASSUME TypeOK, NEW n \in Appends, NEW r \in Append,
         append' = [append EXCEPT ![n] = r]
  PROVE  Becomes(n, r.state, r.stale)
  BY DEF TypeOK, Becomes

LEMMA StateChanges ==
  ASSUME TypeOK, NEW n \in Appends, NEW s \in {"committed"} \cup Open,
         append' = [append EXCEPT ![n].state = s]
  PROVE  Becomes(n, s, append[n].stale)
  <1>1. append[n] \in Append
    BY DEF TypeOK
  <1>2. [append[n] EXCEPT !.state = s] \in Append
    BY <1>1 DEF Append
  <1>3. append' = [append EXCEPT ![n] = [append[n] EXCEPT !.state = s]]
    BY <1>1 DEF TypeOK, Append
  <1>4. /\ [append[n] EXCEPT !.state = s].state = s
        /\ [append[n] EXCEPT !.state = s].stale = append[n].stale
    BY <1>1 DEF Append
  <1>5. QED BY <1>2, <1>3, <1>4, AppendBecomes

(* What each step of a transaction makes of it *)
LEMMA StepsBecome ==
  ASSUME TypeOK, NEW n \in Appends
  PROVE  /\ Begin(n) => Becomes(n, "appended", append[n].stale)
         /\ Ask(n) => Becomes(n, "asking", append[n].stale)
         /\ Try(n) => \/ exclusive # "nobody" /\ Becomes(n, "refused", FALSE)
                      \/ exclusive = "nobody" /\ Becomes(n, "passed", FALSE)
                      \/ /\ exclusive = "nobody"
                         /\ Becomes(n, "handled", ~CountsAsActive(status))
         /\ Commit(n) => Becomes(n, "committed", append[n].stale)
         /\ Rollback(n) => Becomes(n, "rolledBack", FALSE)
  <1>1. Begin(n) => Becomes(n, "appended", append[n].stale)
    BY StateChanges DEF Begin, Open
  <1>2. ASSUME Ask(n) PROVE Becomes(n, "asking", append[n].stale)
    <2>1. append[n] \in Append /\ status \in Status
      BY DEF TypeOK
    <2> DEFINE r == [append[n] EXCEPT !.state = "asking", !.saw = status]
    <2>2. r \in Append /\ r.state = "asking" /\ r.stale = append[n].stale
      BY <2>1 DEF Append, Open
    <2>3. append' = [append EXCEPT ![n] = r]
      BY <1>2, <2>1 DEF Ask, TypeOK, Append
    <2>4. QED BY <2>2, <2>3, AppendBecomes
  <1>3. ASSUME NEW s \in {"refused", "passed", "handled", "rolledBack"}, NEW b \in BOOLEAN,
               append' = [append EXCEPT ![n] = In(s, b)]
        PROVE  Becomes(n, s, b)
    <2>1. In(s, b) \in Append /\ In(s, b).state = s /\ In(s, b).stale = b
      BY DEF In, Append, Status, Open
    <2>2. QED BY <1>3, <2>1, AppendBecomes
  <1>4. (~CountsAsActive(status)) \in BOOLEAN
    OBVIOUS
  <1>5. Try(n) => \/ exclusive # "nobody" /\ Becomes(n, "refused", FALSE)
                  \/ exclusive = "nobody" /\ Becomes(n, "passed", FALSE)
                  \/ /\ exclusive = "nobody"
                     /\ Becomes(n, "handled", ~CountsAsActive(status))
    BY <1>3, <1>4 DEF Try
  <1>6. Commit(n) => Becomes(n, "committed", append[n].stale)
    BY StateChanges DEF Commit
  <1>7. Rollback(n) => Becomes(n, "rolledBack", FALSE)
    BY <1>3 DEF Rollback
  <1>8. QED BY <1>1, <1>2, <1>5, <1>6, <1>7

-----------------------------------------------------------------------------
(* The step of a transaction, from what it makes of the transaction alone *)

(* Neither open nor begun again: where an append ends, it stays. *)
LEMMA AppendKeepsOrder ==
  ASSUME OrderInv, NEW n \in Appends, NEW s, NEW b, Becomes(n, s, b),
         s \in Open \cup {"committed", "rolledBack"},
         append[n].state = "none" =>
           \A m \in Appends : m < n => append[m].state # "none",
         ~(n <= checkpoint), UNCHANGED checkpoint
  PROVE  OrderInv'
  <1>1. \A m \in Appends : append'[m].state = IF m = n THEN s ELSE append[m].state
    BY DEF Becomes
  <1>2. s # "none"
    BY DEF Open
  <1>3. \A k, m \in Appends : m < k /\ append'[k].state # "none" => append'[m].state # "none"
    BY <1>1, <1>2 DEF OrderInv
  <1>4. \A k \in Appends :
          k <= checkpoint' => append'[k].state \in {"committed", "rolledBack"}
    BY <1>1 DEF OrderInv
  <1>5. QED BY <1>3, <1>4 DEF OrderInv

LEMMA AppendKeepsLock ==
  ASSUME LockInv, NEW n \in Appends, NEW s, NEW b, Becomes(n, s, b),
         s \in {"handled", "passed"} => exclusive = "nobody",
         UNCHANGED <<exclusive, rebuild>>
  PROVE  LockInv'
  <1>1. \A m \in Appends : append'[m].state = IF m = n THEN s ELSE append[m].state
    BY DEF Becomes
  <1>2. QED BY <1>1 DEF LockInv, Sharing

LEMMA AppendKeepsProtection ==
  ASSUME InlineOnlyWhileActive, NEW n \in Appends, NEW s, NEW b, Becomes(n, s, b),
         s = "handled" /\ ~b => CountsAsActive(status), UNCHANGED status
  PROVE  InlineOnlyWhileActive'
  <1>1. \A m \in Appends : m # n => append'[m] = append[m]
    BY DEF Becomes
  <1>2. append'[n].state = s /\ append'[n].stale = b
    BY DEF Becomes
  <1>3. CountsAsActive(status') = CountsAsActive(status)
    BY DEF CountsAsActive
  <1>4. QED BY <1>1, <1>2, <1>3 DEF InlineOnlyWhileActive

LEMMA AppendKeepsProjected ==
  ASSUME TypeOK, RebuildHandlesEverything, NEW n \in Appends, NEW s, NEW b,
         Becomes(n, s, b), ~(n <= checkpoint), UNCHANGED <<checkpoint, truncates>>,
         \A m \in Appends : projected'[m] >= projected[m],
         projected' \in [Appends -> Nat]
  PROVE  RebuildHandlesEverything'
  <1>1. \A m \in Appends : m # n => append'[m] = append[m]
    BY DEF Becomes
  <1>2. \A m \in Appends : projected[m] \in Nat /\ projected'[m] \in Nat
    BY DEF TypeOK
  <1>3. ASSUME ~truncates', NEW m \in Committed', m <= checkpoint'
        PROVE  projected'[m] > 0
    <2>1. m \in Appends /\ m # n /\ append'[m].state = "committed"
      BY <1>3 DEF Committed
    <2>2. m \in Committed
      BY <1>1, <2>1 DEF Committed
    <2>3. projected[m] > 0
      BY <1>3, <2>2 DEF RebuildHandlesEverything
    <2>4. QED BY <1>2, <2>1, <2>3
  <1>4. QED BY <1>3 DEF RebuildHandlesEverything

(* A transaction that has not ended is above the checkpoint. *)
LEMMA UnendedIsAbove ==
  ASSUME OrderInv, NEW n \in Appends,
         append[n].state \notin {"committed", "rolledBack"}
  PROVE  ~(n <= checkpoint)
  BY DEF OrderInv

(* What an append may become by a step of its own *)
Begun == Open \cup {"committed", "rolledBack"}

Found(n, s, b) ==
  /\ Becomes(n, s, b)
  /\ s \in {"handled", "passed"} => exclusive = "nobody"
  /\ s = "handled" /\ ~b => CountsAsActive(status)

LEMMA StepKeepsLogInv ==
  ASSUME LogInv, NEW n \in Appends, Step(n)
  PROVE  LogInv'
  <1>1. PICK s \in Begun, b \in BOOLEAN : Found(n, s, b)
    <2>1. append[n].stale \in BOOLEAN
      BY DEF LogInv, TypeOK, Append
    <2>2. TypeOK
      BY DEF LogInv
    <2>3. {"appended", "asking", "refused", "passed", "handled", "committed", "rolledBack"}
            \subseteq Begun
      BY DEF Begun, Open
    <2>4. \/ Found(n, "appended", append[n].stale)
          \/ Found(n, "asking", append[n].stale)
          \/ Found(n, "refused", FALSE)
          \/ Found(n, "passed", FALSE)
          \/ Found(n, "handled", ~CountsAsActive(status))
          \/ Found(n, "committed", append[n].stale)
          \/ Found(n, "rolledBack", FALSE)
      BY <2>2, StepsBecome DEF Step, Found
    <2>5. (~CountsAsActive(status)) \in BOOLEAN
      OBVIOUS
    <2>6. QED BY Zenon, <2>1, <2>3, <2>4, <2>5
  <1>2. /\ UNCHANGED <<status, exclusive, rebuild, checkpoint, truncates, others, counters>>
        /\ append[n].state \notin {"committed", "rolledBack"}
        /\ append[n].state = "none" =>
             \A m \in Appends : m < n => append[m].state # "none"
    <2>1. UNCHANGED <<status, exclusive, rebuild, checkpoint, truncates, others, counters>>
      BY DEF Step, Begin, Ask, Try, Commit, Rollback
    <2>2. append[n].state \notin {"committed", "rolledBack"}
      BY DEF Step, Begin, Ask, Try, Commit, Rollback, IsOpen, Open
    <2>3. append[n].state = "none" => \A m \in 1..(n - 1) : append[m].state # "none"
      BY DEF Step, Begin, Ask, Try, Commit, Rollback, IsOpen, Open
    <2>4. \A m \in Appends : m < n => m \in 1..(n - 1)
      BY BoundsAreNumbers DEF Appends
    <2>5. QED BY <2>1, <2>2, <2>3, <2>4
  <1>3. /\ projected' \in [Appends -> Nat]
        /\ \A m \in Appends : projected'[m] >= projected[m]
    <2>1. projected \in [Appends -> Nat]
      BY DEF LogInv, TypeOK
    <2>2. projected' = projected \/ projected' = [projected EXCEPT ![n] = @ + 1]
      BY DEF Step, Begin, Ask, Try, Commit, Rollback
    <2>3. QED BY <2>1, <2>2
  <1>4. ~(n <= checkpoint)
    BY <1>2, UnendedIsAbove DEF LogInv
  <1>5. TypeOK'
    BY <1>1, <1>2, <1>3 DEF LogInv, TypeOK, Found, Becomes, others, counters
  <1>6. LockInv'
    BY <1>1, <1>2, AppendKeepsLock DEF LogInv, Found
  <1>7. OrderInv'
    BY <1>1, <1>2, <1>4, AppendKeepsOrder DEF LogInv, Found, Begun
  <1>8. InlineOnlyWhileActive'
    BY <1>1, <1>2, AppendKeepsProtection DEF LogInv, Found
  <1>9. RebuildHandlesEverything'
    BY <1>1, <1>2, <1>3, <1>4, AppendKeepsProjected DEF LogInv, Found
  <1>10. QED BY <1>5, <1>6, <1>7, <1>8, <1>9 DEF LogInv

-----------------------------------------------------------------------------
(* The steps that leave the appends alone *)

LEMMA LockIsFreeMeans ==
  ASSUME LockIsFree
  PROVE  /\ exclusive = "nobody"
         /\ \A n \in Appends : append[n].state \notin {"handled", "passed"}
  BY DEF LockIsFree, Sharing

LEMMA RegistrationKeepsLogInv ==
  ASSUME LogInv, Register \/ EndRegistration
  PROVE  LogInv'
  <1>1. CASE Register
    <2>1. TypeOK' /\ OrderInv' /\ InlineOnlyWhileActive' /\ RebuildHandlesEverything'
      BY <1>1 DEF Register, LogInv, TypeOK, OrderInv, InlineOnlyWhileActive,
                  RebuildHandlesEverything, Committed, others
    <2>2. LockInv'
      BY <1>1, LockIsFreeMeans DEF Register, LogInv, LockInv, Sharing
    <2>3. QED BY <2>1, <2>2 DEF LogInv
  <1>2. CASE EndRegistration
    <2>1. /\ UNCHANGED <<append, projected, rebuild, checkpoint, truncates, others, counters>>
          /\ exclusive = "registration" /\ exclusive' = "nobody"
          /\ status' = status \/ (status = "none" /\ status' = "active")
      BY <1>2 DEF EndRegistration
    <2>2. TypeOK' /\ OrderInv' /\ RebuildHandlesEverything' /\ LockInv'
      BY <2>1 DEF LogInv, TypeOK, OrderInv, RebuildHandlesEverything, Committed,
                  LockInv, Sharing, Status, others, counters
    <2>3. InlineOnlyWhileActive'
      BY <2>1 DEF LogInv, InlineOnlyWhileActive, CountsAsActive
    <2>4. QED BY <2>2, <2>3 DEF LogInv
  <1>3. QED BY <1>1, <1>2

LEMMA ChangeKeepsLogInv ==
  ASSUME LogInv, NEW to \in {"active", "inactive"}, Change(to)
  PROVE  LogInv'
  <1>1. TypeOK' /\ OrderInv' /\ RebuildHandlesEverything' /\ LockInv'
    BY DEF Change, LogInv, TypeOK, OrderInv, RebuildHandlesEverything, Committed,
           LockInv, Sharing, Status
  <1>2. InlineOnlyWhileActive'
    BY LockIsFreeMeans DEF Change, InlineOnlyWhileActive
  <1>3. QED BY <1>1, <1>2 DEF LogInv

(* What can be read is committed, and nothing below it is open. *)
LEMMA AvailableMeans ==
  ASSUME LogInv, NEW last \in Available
  PROVE  /\ last \in Appends /\ last > checkpoint /\ append[last].state = "committed"
         /\ \A m \in Appends :
              m <= last => append[m].state \in {"committed", "rolledBack"}
         /\ \A m \in Committed : m > checkpoint /\ m <= last => m \in Available
  <1>1. /\ last \in Appends /\ append[last].state = "committed" /\ last > checkpoint
        /\ \A m \in 1..last : ~IsOpen(m)
    BY DEF Available, Committed, IsReadable
  <1>2. \A m \in Appends : m <= last => m \in 1..last
    BY <1>1, BoundsAreNumbers DEF Appends
  <1>3. ASSUME NEW m \in Appends, m <= last
        PROVE  append[m].state \in {"committed", "rolledBack"}
    <2>1. append[m].state \notin Open
      BY <1>1, <1>2, <1>3 DEF IsOpen
    <2>2. m = last \/ m < last
      BY <1>1, <1>3, BoundsAreNumbers DEF Appends
    <2>3. append[m].state # "none"
      BY <1>1, <2>2 DEF LogInv, OrderInv
    <2>4. append[m] \in Append
      BY DEF LogInv, TypeOK
    <2>5. QED BY <2>1, <2>3, <2>4 DEF Append
  <1>4. ASSUME NEW m \in Committed, m > checkpoint, m <= last
        PROVE  m \in Available
    <2>1. \A k \in 1..m : k \in 1..last
      BY <1>1, <1>4, BoundsAreNumbers DEF Appends, Committed
    <2>2. QED BY <1>1, <1>4, <2>1 DEF Available, IsReadable
  <1>5. QED BY <1>1, <1>3, <1>4

LEMMA BatchKeepsLogInv ==
  ASSUME LogInv, HandleBatch
  PROVE  LogInv'
  <1>1. PICK last \in Available :
          /\ projected' = [n \in Appends |->
                             IF n \in Available /\ n <= last
                               THEN projected[n] + 1
                               ELSE projected[n]]
          /\ checkpoint' = last
    BY DEF HandleBatch
  <1>2. /\ UNCHANGED <<status, exclusive, append, rebuild, truncates, others, counters>>
        /\ rebuild = "processing"
    BY DEF HandleBatch
  <1>3. /\ projected \in [Appends -> Nat] /\ checkpoint \in 0..MaxAppends
        /\ last \in Appends
    BY AvailableMeans DEF LogInv, TypeOK
  <1>4. TypeOK'
    BY <1>1, <1>2, <1>3, BoundsAreNumbers DEF LogInv, TypeOK, Appends, others, counters
  <1>5. LockInv' /\ InlineOnlyWhileActive'
    BY <1>2 DEF LogInv, LockInv, Sharing, InlineOnlyWhileActive
  <1>6. OrderInv'
    BY <1>1, <1>2, AvailableMeans DEF LogInv, OrderInv
  <1>7. ASSUME ~truncates', NEW n \in Committed', n <= checkpoint'
        PROVE  projected'[n] > 0
    <2>1. n \in Committed /\ n \in Appends /\ n <= last
      BY <1>1, <1>2, <1>7 DEF Committed
    <2>2. projected[n] \in Nat /\ n \in Int /\ checkpoint \in Int
      BY <1>3, <2>1, BoundsAreNumbers DEF Appends
    <2>3. CASE n <= checkpoint
      <3>1. projected[n] > 0
        BY <1>2, <1>7, <2>1, <2>3 DEF LogInv, RebuildHandlesEverything
      <3>2. QED BY <1>1, <2>1, <2>2, <3>1
    <2>4. CASE n > checkpoint
      <3>1. n \in Available
        BY <2>1, <2>4, AvailableMeans
      <3>2. QED BY <1>1, <2>1, <2>2, <3>1
    <2>5. QED BY <2>2, <2>3, <2>4
  <1>8. QED BY <1>4, <1>5, <1>6, <1>7 DEF LogInv, RebuildHandlesEverything

LEMMA RebuildKeepsLogInv ==
  ASSUME LogInv, Rebuilding
  PROVE  LogInv'
  <1>1. CASE TakeLock
    <2>1. TypeOK' /\ OrderInv' /\ InlineOnlyWhileActive' /\ RebuildHandlesEverything'
      BY <1>1 DEF TakeLock, LogInv, TypeOK, OrderInv, InlineOnlyWhileActive,
                  RebuildHandlesEverything, Committed, Phase, others
    <2>2. LockInv'
      BY <1>1, LockIsFreeMeans DEF TakeLock, LogInv, LockInv, Sharing
    <2>3. QED BY <2>1, <2>2 DEF LogInv
  <1>2. CASE Start
    <2>1. TypeOK' /\ OrderInv'
      BY <1>2 DEF Start, LogInv, TypeOK, OrderInv, Phase, Status, counters
    <2>2. \A n \in Appends : append'[n].state \notin {"handled", "passed"}
      BY <1>2 DEF Start, LogInv, LockInv, Sharing
    <2>3. LockInv' /\ InlineOnlyWhileActive'
      BY <1>2, <2>2 DEF Start, LockInv, InlineOnlyWhileActive
    <2>4. RebuildHandlesEverything'
      BY <1>2 DEF Start, LogInv, RebuildHandlesEverything, Committed
    <2>5. QED BY <2>1, <2>3, <2>4 DEF LogInv
  <1>3. CASE FailStart
    BY <1>3 DEF FailStart, LogInv, TypeOK, OrderInv, LockInv, Sharing, Phase,
                InlineOnlyWhileActive, RebuildHandlesEverything, Committed, counters
  <1>8. CASE ReleaseFailed
    <2>1. /\ UNCHANGED <<exclusive, append, projected, rebuild, checkpoint, truncates,
                         counters>>
          /\ unreleased \in Nat /\ unreleased > 0 /\ unreleased' = unreleased - 1
          /\ status' \in {"none", "active"}
          /\ activated' \in BOOLEAN
      BY <1>8 DEF ReleaseFailed, LogInv, TypeOK
    <2>2. TypeOK' /\ OrderInv' /\ LockInv' /\ RebuildHandlesEverything'
      BY <2>1 DEF LogInv, TypeOK, OrderInv, LockInv, Sharing, Status,
                  RebuildHandlesEverything, Committed, counters
    <2>3. InlineOnlyWhileActive'
      BY <2>1 DEF InlineOnlyWhileActive, CountsAsActive
    <2>4. QED BY <2>2, <2>3 DEF LogInv
  <1>4. CASE HandleBatch
    BY <1>4, BatchKeepsLogInv
  <1>5. CASE NoMessagesLeft \/ FailBatch \/ Crash
    BY <1>5 DEF NoMessagesLeft, FailBatch, Crash, LogInv, TypeOK, OrderInv, LockInv,
                Sharing, Phase, InlineOnlyWhileActive, RebuildHandlesEverything,
                Committed, others, counters
  <1>6. CASE Release
    BY <1>6 DEF Release, LogInv, TypeOK, OrderInv, LockInv, Sharing, Phase, Status,
                InlineOnlyWhileActive, RebuildHandlesEverything, Committed,
                CountsAsActive, others, counters
  <1>7. QED BY <1>1, <1>2, <1>3, <1>4, <1>5, <1>6, <1>8 DEF Rebuilding

LEMMA InitEstablishesLogInv == Init => LogInv
  <1> SUFFICES ASSUME Init PROVE LogInv
    OBVIOUS
  <1>1. /\ In("none", FALSE) \in Append
        /\ In("none", FALSE).state = "none"
    BY DEF In, Append, Status
  <1>2. \A n \in Appends : append[n].state = "none"
    BY <1>1 DEF Init
  <1>3. TypeOK
    <2>1. append \in [Appends -> Append] /\ projected \in [Appends -> Nat]
      BY <1>1 DEF Init
    <2>2. truncates \in BOOLEAN
      BY TruncatingIsBoolean DEF Init
    <2>3. checkpoint \in 0..MaxAppends
      BY BoundsAreNumbers DEF Init
    <2>4. {rebuilds, registered, changes} \subseteq Nat
      BY DEF Init
    <2>5. QED BY <2>1, <2>2, <2>3, <2>4 DEF Init, TypeOK, Status, Phase
  <1>4. LockInv
    BY DEF Init, LockInv
  <1>5. OrderInv
    <2>1. \A n \in Appends : ~(n <= checkpoint)
      BY BoundsAreNumbers DEF Init, Appends
    <2>2. QED BY <1>2, <2>1 DEF OrderInv
  <1>6. InlineOnlyWhileActive /\ RebuildHandlesEverything
    BY <1>2 DEF InlineOnlyWhileActive, RebuildHandlesEverything, Committed
  <1>7. QED BY <1>3, <1>4, <1>5, <1>6 DEF LogInv

LEMMA NextKeepsLogInv == LogInv /\ [Next]_vars => LogInv'
  <1> SUFFICES ASSUME LogInv, [Next]_vars PROVE LogInv'
    OBVIOUS
  <1>1. ASSUME NEW n \in Appends, Step(n) PROVE LogInv'
    BY <1>1, StepKeepsLogInv
  <1>2. CASE Register \/ EndRegistration
    BY <1>2, RegistrationKeepsLogInv
  <1>3. ASSUME NEW to \in {"active", "inactive"}, Change(to) PROVE LogInv'
    BY <1>3, ChangeKeepsLogInv
  <1>4. CASE Rebuilding
    BY <1>4, RebuildKeepsLogInv
  <1>5. CASE UNCHANGED vars
    BY <1>5 DEF vars, others, counters, LogInv, TypeOK, LockInv, Sharing, OrderInv,
                InlineOnlyWhileActive, RebuildHandlesEverything, Committed
  <1>6. QED BY <1>1, <1>2, <1>3, <1>4, <1>5 DEF Next

LEMMA LogInvAlways == Spec => []LogInv
  BY InitEstablishesLogInv, NextKeepsLogInv, PTL DEF Spec

(* Every variable keeps its type. *)
THEOREM ProjectionTypes == Spec => []TypeOK
  <1>1. LogInv => TypeOK
    BY DEF LogInv
  <1>2. QED BY <1>1, LogInvAlways, PTL

(* The projection stays active while an append that has handled its event     *)
(* inline is open, unless the append looked at an older status.               *)
THEOREM InlineHandlingIsProtected == Spec => []InlineOnlyWhileActive
  <1>1. LogInv => InlineOnlyWhileActive
    BY DEF LogInv
  <1>2. QED BY <1>1, LogInvAlways, PTL

(* A projection that is not emptied holds every committed event up to the     *)
(* checkpoint of its rebuild.                                                 *)
THEOREM RebuildsPassNothingOver == Spec => []RebuildHandlesEverything
  <1>1. LogInv => RebuildHandlesEverything
    BY DEF LogInv
  <1>2. QED BY <1>1, LogInvAlways, PTL

-----------------------------------------------------------------------------
(* Nothing is projected twice, as long as nobody makes a projection active     *)
(* while a rebuild goes through the log.                                      *)

(* A projection with a rebuild at work has a row, and the row says so until    *)
(* somebody else makes the projection active.                                 *)
StatusInv ==
  rebuild = "processing" =>
    status # "none" /\ (CountsAsActive(status) => activated)

(* What an append has written is seen when it commits. *)
UnseenInv ==
  \A n \in Appends : append[n].state # "committed" => projected[n] = 0

(* What a rebuild has before it is not in the read model yet. *)
AheadInv ==
  truncates /\ rebuild = "processing" /\ ~activated =>
    \A n \in Appends : n > checkpoint => projected[n] = 0 \/ append[n].stale

OnceInv ==
  /\ StatusInv
  /\ UnseenInv
  /\ AheadInv
  /\ NothingIsProjectedTwice

(* An append that did not commit keeps what the read model holds of it.       *)
LEMMA UncommittedKeepsOnceInv ==
  ASSUME LogInv, OnceInv, NEW n \in Appends, NEW s, s # "committed", NEW b,
         Becomes(n, s, b), append[n].state # "committed",
         UNCHANGED <<status, projected, rebuild, checkpoint, truncates, activated>>
  PROVE  OnceInv'
  <1>1. \A m \in Appends : m # n => append'[m] = append[m]
    BY DEF Becomes
  <1>2. append'[n].state = s /\ projected[n] = 0
    BY DEF Becomes, OnceInv, UnseenInv
  <1>3. StatusInv' /\ UnseenInv'
    BY <1>1, <1>2 DEF OnceInv, StatusInv, UnseenInv, CountsAsActive
  <1>4. AheadInv'
    BY <1>1, <1>2 DEF OnceInv, AheadInv
  <1>5. NothingIsProjectedTwice'
    BY <1>1, <1>2 DEF OnceInv, NothingIsProjectedTwice
  <1>6. QED BY <1>3, <1>4, <1>5 DEF OnceInv

(* An append that handled its event while nobody rebuilt adds it once. *)
LEMMA CommitKeepsOnceInv ==
  ASSUME LogInv, OnceInv, NEW n \in Appends, Commit(n)
  PROVE  OnceInv'
  <1>1. /\ append[n].state \in {"handled", "passed", "refused"}
        /\ UNCHANGED <<status, exclusive, rebuild, checkpoint, truncates, others, counters>>
        /\ projected' = IF append[n].state = "handled"
                          THEN [projected EXCEPT ![n] = @ + 1]
                          ELSE projected
    BY DEF Commit
  <1>2. /\ append'[n].state = "committed" /\ append'[n].stale = append[n].stale
        /\ \A m \in Appends : m # n => append'[m] = append[m]
    BY StepsBecome DEF LogInv, Becomes
  <1>3. projected \in [Appends -> Nat] /\ projected[n] = 0
    BY <1>1 DEF LogInv, TypeOK, OnceInv, UnseenInv
  <1>4. /\ projected'[n] \in {0, 1}
        /\ projected'[n] = 1 => append[n].state = "handled"
        /\ \A m \in Appends : m # n => projected'[m] = projected[m]
    BY <1>1, <1>3
  <1>5. StatusInv' /\ UnseenInv'
    BY <1>1, <1>2, <1>4 DEF OnceInv, StatusInv, UnseenInv, others, CountsAsActive
  <1>6. rebuild = "processing" /\ ~activated => projected'[n] = 0 \/ append[n].stale
    <2>1. rebuild = "processing" /\ ~activated => ~CountsAsActive(status)
      BY DEF OnceInv, StatusInv
    <2>2. append[n].state = "handled" /\ ~append[n].stale => CountsAsActive(status)
      BY DEF LogInv, InlineOnlyWhileActive
    <2>3. QED BY <1>4, <2>1, <2>2
  <1>7. AheadInv'
    BY <1>1, <1>2, <1>4, <1>6 DEF OnceInv, AheadInv, others
  <1>8. NothingIsProjectedTwice'
    BY <1>1, <1>2, <1>4 DEF OnceInv, NothingIsProjectedTwice, others
  <1>9. QED BY <1>5, <1>7, <1>8 DEF OnceInv

LEMMA StepKeepsOnceInv ==
  ASSUME LogInv, OnceInv, NEW n \in Appends, Step(n)
  PROVE  OnceInv'
  <1>1. CASE Commit(n)
    BY <1>1, CommitKeepsOnceInv
  <1>2. CASE ~Commit(n)
    <2>1. /\ append[n].state # "committed"
          /\ UNCHANGED <<status, projected, rebuild, checkpoint, truncates, activated>>
      BY <1>2 DEF Step, Begin, Ask, Try, Rollback, IsOpen, Open, others
    <2>2. \/ Becomes(n, "appended", append[n].stale)
          \/ Becomes(n, "asking", append[n].stale)
          \/ Becomes(n, "refused", FALSE)
          \/ Becomes(n, "passed", FALSE)
          \/ Becomes(n, "handled", ~CountsAsActive(status))
          \/ Becomes(n, "rolledBack", FALSE)
      BY <1>2, StepsBecome DEF Step, LogInv
    <2>3. QED BY <2>1, <2>2, UncommittedKeepsOnceInv
  <1>3. QED BY <1>1, <1>2

LEMMA BatchKeepsOnceInv ==
  ASSUME LogInv, OnceInv, HandleBatch
  PROVE  OnceInv'
  <1>1. PICK last \in Available :
          /\ projected' = [n \in Appends |->
                             IF n \in Available /\ n <= last
                               THEN projected[n] + 1
                               ELSE projected[n]]
          /\ checkpoint' = last
    BY DEF HandleBatch
  <1>2. /\ UNCHANGED <<status, exclusive, append, rebuild, truncates, others, counters>>
        /\ rebuild = "processing"
    BY DEF HandleBatch
  <1>3. /\ \A n \in Appends : projected[n] \in Nat /\ n \in Int
        /\ checkpoint \in Int /\ last \in Int /\ last > checkpoint
    BY AvailableMeans, BoundsAreNumbers DEF LogInv, TypeOK, Appends
  <1>4. StatusInv'
    BY <1>2 DEF OnceInv, StatusInv, CountsAsActive, others
  <1>5. \A n \in Appends :
          \/ projected'[n] = projected[n]
          \/ /\ append[n].state = "committed" /\ n > checkpoint /\ n <= last
             /\ projected'[n] = projected[n] + 1
    BY <1>1 DEF Available, Committed
  <1>6. UnseenInv'
    BY <1>2, <1>5 DEF OnceInv, UnseenInv
  <1>7. AheadInv'
    BY <1>1, <1>2, <1>3, <1>5 DEF OnceInv, AheadInv, others
  <1>8. NothingIsProjectedTwice'
    BY <1>2, <1>3, <1>5 DEF OnceInv, AheadInv, NothingIsProjectedTwice, others
  <1>9. QED BY <1>4, <1>6, <1>7, <1>8 DEF OnceInv

(* Whoever makes the projection active while a rebuild goes through the log is *)
(* noticed; a registration leaves the row of the projection as it is.         *)
LEMMA OthersKeepStatusInv ==
  ASSUME LogInv, StatusInv, ~Start, ~HandleBatch,
         \/ Register \/ EndRegistration
         \/ \E to \in {"active", "inactive"} : Change(to)
         \/ Rebuilding
         \/ UNCHANGED vars
  PROVE  StatusInv'
  <1>1. CASE \/ Register \/ TakeLock \/ FailStart \/ NoMessagesLeft \/ FailBatch
             \/ Release \/ Crash \/ UNCHANGED vars
    <2>1. \/ rebuild' # "processing"
          \/ UNCHANGED <<rebuild, status, activated>>
      BY <1>1 DEF Register, TakeLock, FailStart, NoMessagesLeft, FailBatch, Release,
                  Crash, vars, others
    <2>2. QED BY <2>1 DEF StatusInv, CountsAsActive
  <1>2. CASE EndRegistration
    <2>1. /\ UNCHANGED <<rebuild, activated>>
          /\ status' = status \/ status = "none"
      BY <1>2 DEF EndRegistration, others
    <2>2. QED BY <2>1 DEF StatusInv, CountsAsActive
  <1>3. ASSUME NEW to \in {"active", "inactive"}, Change(to)
        PROVE  StatusInv'
    <2>1. /\ rebuild' = rebuild /\ status' = to
          /\ to = "active" /\ rebuild = "processing" => activated'
      BY <1>3 DEF Change
    <2>2. QED BY <2>1 DEF StatusInv, CountsAsActive
  <1>4. CASE ReleaseFailed
    BY <1>4 DEF ReleaseFailed, StatusInv
  <1>5. QED BY <1>1, <1>2, <1>3, <1>4 DEF Rebuilding

LEMMA OthersKeepOnceInv ==
  ASSUME LogInv, OnceInv,
         \/ Register \/ EndRegistration
         \/ \E to \in {"active", "inactive"} : Change(to)
         \/ Rebuilding
         \/ UNCHANGED vars
  PROVE  OnceInv'
  <1>1. CASE Start
    <2>1. /\ UNCHANGED <<append, checkpoint, truncates>>
          /\ status' = "async_processing"
          /\ projected' = IF truncates THEN [n \in Appends |-> 0] ELSE projected
      BY <1>1 DEF Start
    <2>2. StatusInv' /\ UnseenInv'
      BY <2>1 DEF OnceInv, StatusInv, UnseenInv, CountsAsActive
    <2>3. AheadInv' /\ NothingIsProjectedTwice'
      BY <2>1 DEF AheadInv, NothingIsProjectedTwice
    <2>4. QED BY <2>2, <2>3 DEF OnceInv
  <1>2. CASE HandleBatch
    BY <1>2, BatchKeepsOnceInv
  <1>3. CASE ~Start /\ ~HandleBatch
    <2>1. /\ UNCHANGED <<append, projected, checkpoint, truncates>>
          /\ rebuild' = "processing" => rebuild = "processing"
      BY <1>3 DEF Register, EndRegistration, Change, Rebuilding, TakeLock, FailStart,
                  ReleaseFailed, NoMessagesLeft, FailBatch, Release, Crash, vars
    <2>5. activated => activated'
      <3>1. UNCHANGED others => activated' = activated
        BY DEF others
      <3>2. \/ UNCHANGED others \/ activated' = activated
            \/ \E b \in BOOLEAN : activated' = (activated \/ b)
        BY <1>3 DEF Register, EndRegistration, Change, Rebuilding, TakeLock, FailStart,
                    ReleaseFailed, NoMessagesLeft, FailBatch, Release, Crash, vars
      <3>3. QED BY <3>1, <3>2
    <2>2. UnseenInv' /\ AheadInv' /\ NothingIsProjectedTwice'
      BY <2>1, <2>5 DEF OnceInv, UnseenInv, AheadInv, NothingIsProjectedTwice
    <2>3. StatusInv'
      BY <1>3, OthersKeepStatusInv DEF OnceInv
    <2>4. QED BY <2>2, <2>3 DEF OnceInv
  <1>4. QED BY <1>1, <1>2, <1>3

(* A projection that a rebuild empties first holds no event twice, through     *)
(* crashes, failures and rollbacks of any number of rebuilds and appends,      *)
(* unless the append handled it on a stale snapshot, or the projection was    *)
(* made active while the rebuild went through the log: by an operator, or by   *)
(* the close of an earlier start that had failed.                             *)
THEOREM RebuildsProjectOnce == Spec => []NothingIsProjectedTwice
  <1>1. Init => OnceInv
    <2> SUFFICES ASSUME Init PROVE OnceInv
      OBVIOUS
    <2>1. \A n \in Appends : projected[n] = 0
      BY DEF Init
    <2>2. rebuild = "none"
      BY DEF Init
    <2>3. QED BY <2>1, <2>2 DEF OnceInv, StatusInv, UnseenInv, AheadInv,
                                NothingIsProjectedTwice
  <1>2. LogInv /\ OnceInv /\ [Next]_vars => OnceInv'
    BY StepKeepsOnceInv, OthersKeepOnceInv DEF Next
  <1>3. OnceInv => NothingIsProjectedTwice
    BY DEF OnceInv
  <1>4. QED BY <1>1, <1>2, <1>3, LogInvAlways, PTL DEF Spec
=============================================================================
