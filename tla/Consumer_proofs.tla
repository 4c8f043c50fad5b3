-------------------------- MODULE Consumer_proofs --------------------------
(***************************************************************************)
(* Proofs about Consumer, for any processors, size of chunks, kinds of     *)
(* sources, faults, and number of messages and of starts.                  *)
(***************************************************************************)
EXTENDS Consumer, FiniteSetTheorems, SequenceTheorems, WellFoundedInduction,
        TLAPS

-----------------------------------------------------------------------------
(* Helpers *)

\* A set of numbers that has a member has a least one.
LEMMA MinIsLeast ==
  ASSUME NEW S \in SUBSET Nat, S # {}
  PROVE  Min(S) \in S /\ \A x \in S : Min(S) <= x
<1> DEFINE R == OpToRel(<, Nat)
<1>1. IsWellFoundedOn(R, Nat)
  BY NatLessThanWellFounded
<1>2. \A x, y \in Nat : y < x => <<y, x>> \in R
  BY DEF OpToRel
<1> HIDE DEF R
<1>3. PICK x \in S : \A y \in S : ~(<<y, x>> \in R)
  BY <1>1, WFMin
<1>4. \A y \in S : x <= y
  <2> SUFFICES ASSUME NEW y \in S PROVE x <= y
    OBVIOUS
  <2>1. ~(y < x)
    BY <1>2, <1>3, Zenon
  <2> QED
    BY <2>1
<1> QED
  BY <1>4 DEF Min

\* A sequence is one of what is in it.
LEMMA SeqOfElements ==
  ASSUME NEW S, NEW T, NEW s \in Seq(S), \A k \in 1..Len(s) : s[k] \in T
  PROVE  s \in Seq(T)
<1>1. s \in [1..Len(s) -> T] /\ Len(s) \in Nat
  OBVIOUS
<1> QED
  BY <1>1

-----------------------------------------------------------------------------
(* Types *)

Run == [phase : Phases, aborted : BOOLEAN, drained : BOOLEAN,
        positions : [Processors -> Nat \cup {END, NotStarted}],
        promised : Nat, subscribed : BOOLEAN, at : Nat, horizon : Nat,
        left : BOOLEAN, given : BOOLEAN, resumable : BOOLEAN,
        chunk : Seq(Nat), caughtUp : BOOLEAN, pending : SUBSET Processors,
        carryOn : BOOLEAN, rejected : BOOLEAN]

\* What a run knows of the log is there.
RunOK ==
  /\ run \in Run
  /\ \A p \in Processors :
       run.positions[p] \in (0..LogEnd) \cup {END, NotStarted}
  /\ run.phase \in {"started", "reading", "handling"} =>
       \A p \in Processors : run.positions[p] \in 0..LogEnd
  /\ run.promised <= LogEnd /\ run.at <= LogEnd /\ run.horizon <= LogEnd
  /\ run.subscribed => /\ run.phase \in {"reading", "handling"}
                       /\ run.at <= run.horizon
  /\ run.chunk \in Seq(1..LogEnd) /\ Len(run.chunk) <= BatchSize

\* A change ends at or after each of its messages, and is there as a whole.
LogOK ==
  /\ log \in Seq(Nat) /\ LogEnd \in Nat /\ LogEnd <= MaxMessages
  /\ \A k \in 1..LogEnd : log[k] \in k..LogEnd

StoreOK ==
  /\ setup \in Setups
  /\ checkpoint \in [Processors -> 0..LogEnd]
  /\ processor \in [Processors -> [active : BOOLEAN, checkpoint : 0..LogEnd]]
  /\ handled \in [Processors -> Seq(1..LogEnd)]
  /\ since \in [Processors -> 0..LogEnd]
  /\ isRunning \in BOOLEAN /\ stopping \in BOOLEAN /\ starts \in 0..MaxStarts

TypeInv == LogOK /\ StoreOK /\ RunOK

LEMMA TypeInvIsEnough == TypeInv => TypeOK
<1> SUFFICES ASSUME TypeInv PROVE TypeOK
  OBVIOUS
<1>1. log \in Seq(1..MaxMessages)
  <2>1. \A k \in 1..Len(log) : log[k] \in 1..MaxMessages
    BY ConsumerAssumption DEF TypeInv, LogOK, LogEnd
  <2> QED
    BY <2>1, SeqOfElements DEF TypeInv, LogOK
<1>2. run.positions \in [Processors -> Positions]
  BY ConsumerAssumption DEF TypeInv, LogOK, RunOK, Run, Positions
<1>3. run.at \in 0..run.horizon \/ ~run.subscribed
  BY DEF TypeInv, RunOK, Run
<1> QED
  BY <1>1, <1>2, <1>3 DEF TypeInv, LogOK, StoreOK, RunOK, Run, TypeOK

LEMMA NoRunType == NoRun \in Run
BY DEF Run, NoRun, Phases

LEMMA NoRunIsOne == LogOK /\ run = NoRun => RunOK
<1> SUFFICES ASSUME LogOK, run = NoRun PROVE RunOK
  OBVIOUS
<1>1. \A p \in Processors : run.positions[p] = NotStarted
  BY DEF NoRun
<1> QED
  BY <1>1, NoRunType, ConsumerAssumption DEF RunOK, NoRun, LogOK

LEMMA InitTypes == Init => TypeInv
<1> SUFFICES ASSUME Init PROVE TypeInv
  OBVIOUS
<1>1. LogOK
  BY ConsumerAssumption DEF Init, LogOK, LogEnd
<1>2. StoreOK
  <2>1. LogEnd = 0
    BY DEF Init, LogEnd
  <2>2. checkpoint \in [Processors -> 0..LogEnd]
    BY <2>1 DEF Init
  <2>3. since \in [Processors -> 0..LogEnd]
    BY <2>1 DEF Init
  <2>4. processor
          \in [Processors -> [active : BOOLEAN, checkpoint : 0..LogEnd]]
    BY <2>1 DEF Init, Inactive
  <2>5. handled \in [Processors -> Seq(1..LogEnd)]
    BY DEF Init
  <2>6. starts \in 0..MaxStarts /\ setup \in Setups
    BY ConsumerAssumption DEF Init
  <2>7. isRunning \in BOOLEAN /\ stopping \in BOOLEAN
    BY DEF Init
  <2> QED
    BY <2>2, <2>3, <2>4, <2>5, <2>6, <2>7 DEF StoreOK
<1> QED
  BY <1>1, <1>2, NoRunIsOne DEF Init, TypeInv

\* The log and the stores stay as they are: what a step does is in the run.
LEMMA RunMoves ==
  ASSUME TypeInv, UNCHANGED <<setup, store, processor, stopping, starts>>,
         isRunning' \in BOOLEAN, RunOK'
  PROVE  TypeInv'
BY DEF TypeInv, LogOK, StoreOK, store, LogEnd

\* A run that ends begins anew.
LEMMA LeavingTypes ==
  ASSUME TypeInv, NEW drained \in BOOLEAN, Leave(drained), log' = log
  PROVE  RunOK' /\ isRunning' \in BOOLEAN
<1>1. run' = [NoRun EXCEPT !.phase = "closing", !.drained = drained]
  BY DEF Leave
<1>2. run' \in Run
  <2>1. "closing" \in Phases
    BY DEF Phases
  <2> QED
    BY ONLY <1>1, <2>1, NoRunType, drained \in BOOLEAN DEF Run
<1>3. /\ run'.phase = "closing" /\ ~run'.subscribed
      /\ run'.promised = 0 /\ run'.at = 0 /\ run'.horizon = 0
      /\ run'.chunk = <<>>
      /\ \A p \in Processors : run'.positions[p] = NotStarted
  BY <1>1 DEF NoRun
<1>4. isRunning' \in BOOLEAN
  BY DEF Leave
<1> QED
  BY <1>2, <1>3, <1>4, ConsumerAssumption DEF RunOK, TypeInv, LogOK, LogEnd

\* Where a source goes on from and what a query brings is there.
LEMMA SourceStaysInLog ==
  ASSUME LogOK, NEW position \in 0..LogEnd
  PROVE  /\ After(position) \in position..LogEnd
         /\ Horizon(position) \in position..LogEnd
         /\ position < LogEnd => Horizon(position) > position
<1>1. After(position) \in position..LogEnd
  BY DEF LogOK, After
<1>2. CASE position = LogEnd
  BY <1>1, <1>2 DEF Horizon, LogOK
<1>3. CASE position # LogEnd /\ Changes
  BY <1>1, <1>3 DEF Horizon, LogOK
<1>4. CASE position # LogEnd /\ ~Changes
  <2> DEFINE S == {position + BatchSize, LogEnd}
  <2>1. S \in SUBSET Nat /\ S # {}
    BY ConsumerAssumption DEF LogOK
  <2>2. Min(S) \in S /\ Min(S) <= LogEnd
    BY <2>1, MinIsLeast
  <2>3. Horizon(position) = Min(S)
    BY <1>4 DEF Horizon
  <2> QED
    BY <1>1, <1>4, <2>2, <2>3, ConsumerAssumption DEF LogOK
<1> QED
  BY <1>2, <1>3, <1>4

\* Parts of a chunk are made of its messages.
LEMMA PrefixTypes ==
  ASSUME NEW S, NEW s \in Seq(S), NEW i \in DOMAIN s
  PROVE  /\ SubSeq(s, 1, i) \in Seq(S)
         /\ SubSeq(s, 1, i - 1) \in Seq(S)
<1>1. i \in 1..Len(s) /\ Len(s) \in Nat
  OBVIOUS
<1> QED
  BY <1>1, SubSeqProperties

LEMMA PartTypes ==
  ASSUME RunOK, NEW p
  PROVE  PartOf(p) \in Seq(1..LogEnd)
<1>1. /\ PassedBy(p) \subseteq 1..Len(run.chunk)
      /\ run.chunk \in Seq(1..LogEnd) /\ Len(run.chunk) \in Nat
  BY DEF RunOK, PassedBy
<1>2. Cardinality(PassedBy(p)) \in Nat
  <2>1. IsFiniteSet(1..Len(run.chunk))
    BY <1>1, FS_Interval
  <2>2. IsFiniteSet(PassedBy(p))
    BY <1>1, <2>1, FS_Subset
  <2> QED
    BY <2>2, FS_CardinalityType
<1> DEFINE m == Cardinality(PassedBy(p)) + 1
<1>3. /\ m \in Int /\ Len(run.chunk) \in Int
      /\ \A i \in m..Len(run.chunk) : run.chunk[i] \in 1..LogEnd
  <2>1. \A i \in 1..Len(run.chunk) : run.chunk[i] \in 1..LogEnd
    BY <1>1, ElementOfSeq
  <2>2. \A i \in m..Len(run.chunk) : i \in 1..Len(run.chunk)
    BY <1>1, <1>2
  <2> QED
    BY <1>1, <1>2, <2>1, <2>2
<1> HIDE DEF m
<1>4. SubSeq(run.chunk, m, Len(run.chunk)) \in Seq(1..LogEnd)
  BY <1>3, SubSeqProperties
<1> QED
  BY <1>4 DEF PartOf, m

\* Every step keeps the types.
LEMMA TypesAreKept == TypeInv /\ [Next]_vars => TypeInv'
<1> SUFFICES ASSUME TypeInv, [Next]_vars PROVE TypeInv'
  OBVIOUS
<1>t. /\ LogOK /\ StoreOK /\ RunOK /\ run \in Run
      /\ LogEnd \in Nat /\ run.at \in 0..LogEnd
      /\ run.phase \in Phases
  BY DEF TypeInv, LogOK, RunOK, Run
<1>u. run \in Run
  BY <1>t
<1>p. Phases = {"ended", "starting", "started", "reading", "handling",
                "closing"}
  BY DEF Phases
\* A step that leaves the log and the stores alone.
<1>r. ASSUME UNCHANGED <<setup, store, processor, stopping, starts>>,
             isRunning' = isRunning,
             run' \in Run,
             run'.positions = run.positions, run'.chunk = run.chunk,
             \/ run'.phase = run.phase
             \/ /\ run'.phase \in {"reading", "handling"}
                /\ run.phase \in {"started", "reading", "handling"},
             run'.promised <= LogEnd, run'.at <= LogEnd,
             run'.horizon <= LogEnd,
             run'.subscribed => run'.at <= run'.horizon,
             run'.subscribed => run.subscribed \/ run.phase = "reading"
      PROVE  TypeInv'
  <2>1. LogEnd' = LogEnd
    BY <1>r DEF store, LogEnd
  <2>2. RunOK'
    BY <1>r, <1>t, <2>1 DEF RunOK
  <2>3. isRunning' \in BOOLEAN
    BY <1>r, <1>t DEF StoreOK
  <2> QED
    BY <1>r, <2>2, <2>3, RunMoves
\* A step after which there is no run.
<1>n. ASSUME LogOK', run' = NoRun PROVE RunOK'
  <2>1. run'.positions = [p \in Processors |-> NotStarted]
    BY <1>n DEF NoRun
  <2>2. /\ run'.phase = "ended" /\ ~run'.subscribed
        /\ run'.promised = 0 /\ run'.at = 0 /\ run'.horizon = 0
        /\ run'.chunk = <<>>
    BY <1>n DEF NoRun
  <2> QED
    BY <1>n, <2>1, <2>2, NoRunType, ConsumerAssumption DEF RunOK, LogOK
\* A step that ends the run early.
<1>l. ASSUME NEW drained \in BOOLEAN, Leave(drained),
             UNCHANGED <<setup, store, processor, stopping, starts>>
      PROVE  TypeInv'
  BY <1>l, LeavingTypes, RunMoves DEF store
<1>1. CASE Start
  <2>1. run' = [NoRun EXCEPT !.phase = "starting"]
    BY <1>1 DEF Start
  <2>2. run' \in Run
    BY ONLY <2>1, <1>p, NoRunType DEF Run
  <2>3. /\ run'.phase = "starting" /\ ~run'.subscribed
        /\ run'.promised = 0 /\ run'.at = 0 /\ run'.horizon = 0
        /\ run'.chunk = <<>>
        /\ \A p \in Processors : run'.positions[p] = NotStarted
    BY <2>1 DEF NoRun
  <2>4. LogEnd' = LogEnd
    BY <1>1 DEF Start, store, LogEnd
  <2>5. RunOK'
    BY <2>2, <2>3, <2>4, <1>t, ConsumerAssumption DEF RunOK
  <2>6. processor'
          \in [Processors -> [active : BOOLEAN, checkpoint : 0..LogEnd]]
    BY <1>1, <1>t DEF Start, StoreOK
  <2>7. starts' \in 0..MaxStarts
    BY <1>1, <1>t, ConsumerAssumption DEF Start, StoreOK
  <2>8. LogOK'
    BY <1>1, <1>t, <2>4 DEF Start, store, LogOK
  <2>9. StoreOK'
    BY <1>1, <1>t, <2>4, <2>6, <2>7 DEF Start, store, StoreOK
  <2> QED
    BY <2>5, <2>8, <2>9 DEF TypeInv
<1>2. ASSUME NEW p \in Processors, StartProcessor(p) PROVE TypeInv'
  <2> DEFINE last == IF processor[p].checkpoint # 0
                     THEN processor[p].checkpoint ELSE checkpoint[p]
             position == IF last # 0 THEN last ELSE StartFrom[p]
  <2>1. last \in 0..LogEnd /\ position \in (0..LogEnd) \cup {END}
    BY <1>t, ConsumerAssumption DEF StoreOK
  <2>2. /\ processor' = [processor EXCEPT ![p].checkpoint = last]
        /\ run' = [run EXCEPT !.positions[p] = position]
        /\ In("starting")
        /\ UNCHANGED <<setup, store, isRunning, stopping, starts>>
    BY <1>2 DEF StartProcessor
  <2> HIDE DEF last, position
  <2>3. LogEnd' = LogEnd
    BY <2>2 DEF store, LogEnd
  <2>4. processor'
          \in [Processors -> [active : BOOLEAN, checkpoint : 0..LogEnd]]
    BY <2>1, <2>2, <1>t DEF StoreOK
  <2>5. /\ run' = [run EXCEPT !.positions = [@ EXCEPT ![p] = position]]
        /\ [run.positions EXCEPT ![p] = position]
             \in [Processors -> (0..LogEnd) \cup {END, NotStarted}]
    BY <2>1, <2>2, <1>t DEF RunOK, Run
  <2>6. run' \in Run
    <3>1. [run.positions EXCEPT ![p] = position]
            \in [Processors -> Nat \cup {END, NotStarted}]
      BY <2>5
    <3> QED
      BY ONLY <2>5, <3>1, <1>u DEF Run
  <2>7. /\ run'.positions = [run.positions EXCEPT ![p] = position]
        /\ run'.phase = run.phase /\ run'.chunk = run.chunk
        /\ run'.promised = run.promised /\ run'.at = run.at
        /\ run'.horizon = run.horizon /\ run'.subscribed = run.subscribed
    BY <2>5, <1>t DEF Run
  <2>8. RunOK'
    BY <2>2, <2>3, <2>5, <2>6, <2>7, <1>t DEF RunOK, In
  <2>9. LogOK' /\ StoreOK'
    BY <2>2, <2>3, <2>4, <1>t DEF store, LogOK, StoreOK
  <2> QED
    BY <2>8, <2>9 DEF TypeInv
<1>3. CASE FailStart
  BY <1>3, <1>l DEF FailStart
<1>4. CASE ResolvePositions
  <2> DEFINE atEnd == {p \in Processors : run.positions[p] = END}
             Resolved(positions) ==
               [p \in Processors |-> IF p \in atEnd THEN LogEnd
                                     ELSE positions[p]]
  <2>1. /\ run' = [run EXCEPT !.phase = "started", !.positions = Resolved(@)]
        /\ since' = Resolved(since)
        /\ \A p \in Processors : run.positions[p] # NotStarted
        /\ UNCHANGED <<setup, log, checkpoint, handled, processor, isRunning,
                       stopping, starts>>
    BY <1>4 DEF ResolvePositions
  <2>2. Resolved(run.positions) \in [Processors -> 0..LogEnd]
    BY <2>1, <1>t DEF RunOK
  <2>3. Resolved(since) \in [Processors -> 0..LogEnd]
    BY <1>t DEF StoreOK
  <2> HIDE DEF Resolved, atEnd
  <2>4. LogEnd' = LogEnd
    BY <2>1 DEF LogEnd
  <2>5. run' \in Run
    <3>1. /\ Resolved(run.positions)
               \in [Processors -> Nat \cup {END, NotStarted}]
          /\ "started" \in Phases
      BY <2>2, <1>p
    <3> QED
      BY ONLY <2>1, <3>1, <1>u DEF Run
  <2>6. /\ run'.positions = Resolved(run.positions)
        /\ run'.phase = "started" /\ run'.chunk = run.chunk
        /\ run'.promised = run.promised /\ run'.at = run.at
        /\ run'.horizon = run.horizon /\ run'.subscribed = run.subscribed
    BY <2>1, <1>t DEF Run
  <2>7. RunOK'
    <3>1. ~run.subscribed
      BY <1>4, <1>t DEF ResolvePositions, In, RunOK
    <3> QED
      BY <2>2, <2>4, <2>5, <2>6, <3>1, <1>t DEF RunOK
  <2>8. LogOK' /\ StoreOK'
    BY <2>1, <2>3, <2>4, <1>t DEF LogOK, StoreOK
  <2> QED
    BY <2>7, <2>8 DEF TypeInv
<1>5. CASE ReportStarted
  <2>1. run' = [run EXCEPT !.phase = "reading", !.promised = LogEnd,
                           !.at = EarliestPosition(run.positions)]
    BY <1>5 DEF ReportStarted
  <2>2. EarliestPosition(run.positions) \in 0..LogEnd
    <3>1. \A p \in Processors : run.positions[p] \in 0..LogEnd
      BY <1>5, <1>t DEF ReportStarted, In, RunOK
    <3>2. /\ {run.positions[p] : p \in Processors} \in SUBSET Nat
          /\ {run.positions[p] : p \in Processors} # {}
      BY <3>1, ConsumerAssumption
    <3> QED
      BY <3>1, <3>2, MinIsLeast DEF EarliestPosition
  <2>3. /\ run' \in Run
        /\ run'.phase = "reading" /\ run.phase = "started"
        /\ run'.promised = LogEnd /\ run'.at \in 0..LogEnd
        /\ run'.positions = run.positions /\ run'.chunk = run.chunk
        /\ run'.horizon = run.horizon /\ run'.subscribed = run.subscribed
    <3>1. run.phase = "started"
      BY <1>5 DEF ReportStarted, In
    <3>2. EarliestPosition(run.positions) \in Nat /\ "reading" \in Phases
      BY <2>2, <1>p
    <3>3. LogEnd \in Nat
      BY <1>t
    <3>4. /\ run' \in Run
          /\ run'.phase = "reading"
          /\ run'.promised = LogEnd
          /\ run'.at = EarliestPosition(run.positions)
          /\ run'.positions = run.positions /\ run'.chunk = run.chunk
          /\ run'.horizon = run.horizon /\ run'.subscribed = run.subscribed
      BY ONLY <2>1, <3>2, <3>3, <1>u DEF Run
    <3> QED
      BY <2>2, <3>1, <3>4
  <2>4. run.horizon <= LogEnd
    BY <1>t DEF RunOK
  <2>5. ~run.subscribed
    BY <1>5, <1>t DEF ReportStarted, In, RunOK
  <2> QED
    BY <1>5, <1>r, <1>t, <2>3, <2>4, <2>5 DEF ReportStarted
<1>6. CASE Subscribe
  <2>1. After(run.at) \in 0..LogEnd
    BY <1>t, SourceStaysInLog
  <2>2. run' = [run EXCEPT !.subscribed = TRUE, !.at = After(@),
                     !.horizon = After(run.at), !.left = TRUE, !.given = FALSE]
    BY <1>6 DEF Subscribe
  <2>3. /\ run' \in Run
        /\ run'.phase = run.phase /\ run'.promised = run.promised
        /\ run'.at = After(run.at) /\ run'.horizon = After(run.at)
        /\ run'.positions = run.positions /\ run'.chunk = run.chunk
    <3>1. After(run.at) \in Nat
      BY <2>1
    <3> QED
      BY ONLY <2>2, <3>1, <1>u DEF Run
  <2>4. run.promised <= LogEnd
    BY <1>t DEF RunOK
  <2> QED
    <3>1. /\ run'.promised <= LogEnd /\ run'.at <= LogEnd
          /\ run'.horizon <= LogEnd /\ run'.at <= run'.horizon
      BY <1>t, <2>1, <2>3, <2>4
    <3>2. /\ run.phase = "reading"
          /\ UNCHANGED <<setup, store, processor, isRunning, stopping, starts>>
      BY <1>6 DEF Subscribe, In
    <3> QED
      BY <1>r, <2>3, <3>1, <3>2
<1>7. CASE Query
  <2>1. Horizon(run.at) \in run.at..LogEnd
    BY <1>t, SourceStaysInLog
  <2>2. AnyLeft(run.at) \in BOOLEAN
    <3>1. CASE Changes
      <4>1. CASE run.at < LogEnd
        BY <3>1, <4>1 DEF AnyLeft
      <4>2. CASE ~(run.at < LogEnd)
        BY <3>1, <4>2 DEF AnyLeft
      <4> QED
        BY <4>1, <4>2
    <3>2. CASE ~Changes
      <4>1. CASE Horizon(run.at) < LogEnd
        BY <3>2, <4>1 DEF AnyLeft
      <4>2. CASE ~(Horizon(run.at) < LogEnd)
        BY <3>2, <4>2 DEF AnyLeft
      <4> QED
        BY <4>1, <4>2
    <3> QED
      BY <3>1, <3>2
  <2>3. run' = [run EXCEPT !.horizon = Horizon(run.at),
                           !.left = AnyLeft(run.at)]
    BY <1>7 DEF Query
  <2>4. /\ run' \in Run
        /\ run'.phase = run.phase /\ run'.promised = run.promised
        /\ run'.at = run.at /\ run'.horizon = Horizon(run.at)
        /\ run'.positions = run.positions /\ run'.chunk = run.chunk
    <3>1. Horizon(run.at) \in Nat
      BY <2>1, <1>t
    <3> QED
      BY ONLY <2>2, <2>3, <3>1, <1>u DEF Run
  <2> QED
    BY <1>7, <1>r, <1>t, <2>1, <2>4 DEF Query, RunOK
<1>8. CASE Pull
  <2>1. /\ run' = [run EXCEPT !.at = @ + 1, !.chunk = Append(@, run.at + 1),
                              !.given = TRUE, !.resumable = TRUE]
        /\ run.at < run.horizon /\ HasRoom
        /\ UNCHANGED <<setup, store, processor, isRunning, stopping, starts>>
    BY <1>8 DEF Pull, Reads
  <2>2. /\ run.at + 1 \in 1..LogEnd
        /\ Len(run.chunk) < BatchSize
    BY <2>1, <1>t, ConsumerAssumption DEF RunOK, Run, HasRoom
  <2>3. /\ Append(run.chunk, run.at + 1) \in Seq(1..LogEnd)
        /\ Append(run.chunk, run.at + 1) \in Seq(Nat)
        /\ Len(Append(run.chunk, run.at + 1)) = Len(run.chunk) + 1
    BY <2>2, <1>t DEF RunOK, Run
  <2>4. /\ run' \in Run
        /\ run'.phase = run.phase /\ run'.promised = run.promised
        /\ run'.at = run.at + 1 /\ run'.horizon = run.horizon
        /\ run'.positions = run.positions
        /\ run'.chunk = Append(run.chunk, run.at + 1)
        /\ run'.subscribed = run.subscribed
    <3> DEFINE chunk == Append(run.chunk, run.at + 1)
               next == run.at + 1
    <3>1. chunk \in Seq(Nat) /\ next \in Nat
      BY <2>2, <2>3
    <3>2. run' = [run EXCEPT !.at = next, !.chunk = chunk,
                             !.given = TRUE, !.resumable = TRUE]
      BY <2>1
    <3> HIDE DEF chunk, next
    <3>3. /\ run' \in Run
          /\ run'.phase = run.phase /\ run'.promised = run.promised
          /\ run'.at = next /\ run'.horizon = run.horizon
          /\ run'.positions = run.positions /\ run'.chunk = chunk
          /\ run'.subscribed = run.subscribed
      BY ONLY <3>1, <3>2, <1>u DEF Run
    <3> QED
      BY <3>3 DEF chunk, next
  <2>5. LogEnd' = LogEnd
    BY <2>1 DEF store, LogEnd
  <2>6. RunOK'
    <3>1. /\ run'.chunk \in Seq(1..LogEnd)
          /\ Len(run'.chunk) <= BatchSize
      BY <2>2, <2>3, <2>4, <1>t, ConsumerAssumption DEF Run
    <3>2. run'.at <= LogEnd /\ run'.at <= run'.horizon
      BY <2>1, <2>2, <2>4, <1>t DEF Run
    <3> QED
      BY <2>4, <2>5, <3>1, <3>2, <1>t DEF RunOK
  <2> QED
    BY <2>1, <2>6, <1>t, RunMoves DEF StoreOK
<1>9. CASE CatchUp
  <2>1. run' = [run EXCEPT !.caughtUp = TRUE, !.left = TRUE,
                           !.resumable = ~Changes \/ run.given]
    BY <1>9 DEF CatchUp
  <2>2. /\ run' \in Run
        /\ run'.phase = run.phase /\ run'.promised = run.promised
        /\ run'.at = run.at /\ run'.horizon = run.horizon
        /\ run'.positions = run.positions /\ run'.chunk = run.chunk
        /\ run'.subscribed = run.subscribed
    BY <2>1, <1>t DEF Run
  <2> QED
    BY <1>9, <1>r, <1>t, <2>2 DEF CatchUp, RunOK
<1>10. CASE Break
  <2>1. run' = [run EXCEPT !.subscribed = FALSE]
    BY <1>10 DEF Break
  <2>2. /\ run' \in Run
        /\ run'.phase = run.phase /\ run'.promised = run.promised
        /\ run'.at = run.at /\ run'.horizon = run.horizon
        /\ run'.positions = run.positions /\ run'.chunk = run.chunk
        /\ ~run'.subscribed
    BY <2>1, <1>t DEF Run
  <2> QED
    BY <1>10, <1>r, <1>t, <2>2 DEF Break, RunOK
<1>11. CASE FailSource
  BY <1>11, <1>l DEF FailSource
<1>12. CASE Flush
  <2>0. UNCHANGED <<setup, store, processor, stopping, starts>>
    BY <1>12 DEF Flush
  <2>1. CASE Leave(TRUE) \/ Leave(FALSE)
    BY <2>0, <2>1, <1>l
  <2>2. CASE run' = [run EXCEPT !.caughtUp = FALSE] /\ isRunning' = isRunning
    <3>1. /\ run' \in Run
          /\ run'.phase = run.phase /\ run'.promised = run.promised
          /\ run'.at = run.at /\ run'.horizon = run.horizon
          /\ run'.positions = run.positions /\ run'.chunk = run.chunk
          /\ run'.subscribed = run.subscribed
      BY <2>2, <1>t DEF Run
    <3> QED
      BY <1>r, <1>t, <2>0, <2>2, <3>1 DEF RunOK
  <2>3. CASE /\ run' = [run EXCEPT !.phase = "handling", !.pending = Active,
                                   !.carryOn = FALSE, !.rejected = FALSE]
             /\ isRunning' = isRunning
    <3>1. Active \subseteq Processors
      BY DEF Active
    <3>2. /\ run' \in Run
          /\ run'.phase = "handling" /\ run'.promised = run.promised
          /\ run'.at = run.at /\ run'.horizon = run.horizon
          /\ run'.positions = run.positions /\ run'.chunk = run.chunk
          /\ run'.subscribed = run.subscribed
      BY <2>3, <3>1, <1>t, <1>p DEF Run
    <3>3. run.phase = "reading"
      BY <1>12 DEF Flush, In
    <3> QED
      BY <1>r, <1>t, <2>0, <2>3, <3>2, <3>3 DEF RunOK
  <2> QED
    BY <1>12, <2>1, <2>2, <2>3 DEF Flush
\* What a processor handles is of the log.
<1>h. ASSUME NEW p \in Processors, NEW done \in Seq(1..LogEnd),
             NEW active \in BOOLEAN, Handles(p, done, active),
             UNCHANGED <<setup, log, since, isRunning, stopping, starts>>
      PROVE  TypeInv'
  <2> DEFINE last == IF done = <<>> THEN processor[p].checkpoint
                     ELSE done[Len(done)]
             stored == IF done = <<>> THEN checkpoint[p] ELSE last
             answer == [active |-> active, checkpoint |-> last]
  <2>1. last \in 0..LogEnd /\ stored \in 0..LogEnd
    <3>1. CASE done = <<>>
      BY <3>1, <1>t DEF StoreOK
    <3>2. CASE done # <<>>
      <4>1. Len(done) \in 1..Len(done)
        BY <3>2
      <4> QED
        BY <3>2, <4>1, <1>t
    <3> QED
      BY <3>1, <3>2
  <2>2. answer \in [active : BOOLEAN, checkpoint : 0..LogEnd]
    BY <2>1
  <2>3. /\ handled' = [handled EXCEPT ![p] = @ \o done]
        /\ checkpoint' = [checkpoint EXCEPT ![p] = stored]
        /\ processor' = [processor EXCEPT ![p] = answer]
        /\ run' = [run EXCEPT !.pending = @ \ {p}, !.carryOn = @ \/ active]
    BY <1>h DEF Handles
  <2> HIDE DEF last, stored, answer
  <2>4. handled' \in [Processors -> Seq(1..LogEnd)]
    BY <2>3, <1>t DEF StoreOK
  <2>5. /\ checkpoint' \in [Processors -> 0..LogEnd]
        /\ processor'
             \in [Processors -> [active : BOOLEAN, checkpoint : 0..LogEnd]]
    BY <2>1, <2>2, <2>3, <1>t DEF StoreOK
  <2>6. LogEnd' = LogEnd
    BY <1>h DEF LogEnd
  <2>7. /\ run' \in Run
        /\ run'.phase = run.phase /\ run'.promised = run.promised
        /\ run'.at = run.at /\ run'.horizon = run.horizon
        /\ run'.positions = run.positions /\ run'.chunk = run.chunk
        /\ run'.subscribed = run.subscribed
    BY <2>3, <1>t DEF Run
  <2>8. RunOK'
    BY <2>6, <2>7, <1>t DEF RunOK
  <2>9. LogOK' /\ StoreOK'
    BY <1>h, <1>t, <2>4, <2>5, <2>6 DEF LogOK, StoreOK
  <2> QED
    BY <2>8, <2>9 DEF TypeInv
<1>13. ASSUME NEW p \in Processors, HandleBatch(p) PROVE TypeInv'
  <2>1. PartOf(p) \in Seq(1..LogEnd)
    BY <1>t, PartTypes
  <2> QED
    BY <1>13, <1>h, <2>1 DEF HandleBatch
<1>14. ASSUME NEW p \in Processors, StopInBatch(p) PROVE TypeInv'
  <2>1. PartOf(p) \in Seq(1..LogEnd)
    BY <1>t, PartTypes
  <2>2. PICK i \in DOMAIN PartOf(p) :
          \/ Handles(p, SubSeq(PartOf(p), 1, i), FALSE)
          \/ Handles(p, SubSeq(PartOf(p), 1, i - 1), FALSE)
    BY <1>14 DEF StopInBatch
  <2>3. /\ SubSeq(PartOf(p), 1, i) \in Seq(1..LogEnd)
        /\ SubSeq(PartOf(p), 1, i - 1) \in Seq(1..LogEnd)
    BY <2>1, <2>2, PrefixTypes
  <2> QED
    BY <1>14, <1>h, <2>2, <2>3 DEF StopInBatch
<1>15. ASSUME NEW p \in Processors, RejectBatch(p) PROVE TypeInv'
  <2>1. run' = [run EXCEPT !.pending = @ \ {p}, !.rejected = TRUE]
    BY <1>15 DEF RejectBatch
  <2>2. /\ run' \in Run
        /\ run'.phase = run.phase /\ run'.promised = run.promised
        /\ run'.at = run.at /\ run'.horizon = run.horizon
        /\ run'.positions = run.positions /\ run'.chunk = run.chunk
        /\ run'.subscribed = run.subscribed
    BY <2>1, <1>t DEF Run
  <2> QED
    BY <1>15, <1>r, <1>t, <2>2 DEF RejectBatch, RunOK
<1>16. CASE EndBatch
  <2>0. UNCHANGED <<setup, store, processor, stopping, starts>>
    BY <1>16 DEF EndBatch
  <2>1. CASE Leave(TRUE) \/ Leave(FALSE)
    BY <2>0, <2>1, <1>l
  <2>2. CASE /\ run' = [run EXCEPT !.phase = "reading", !.chunk = <<>>,
                                   !.caughtUp = FALSE]
             /\ isRunning' = isRunning
    <3>1. <<>> \in Seq(Nat) /\ <<>> \in Seq(1..LogEnd) /\ Len(<<>>) = 0
      OBVIOUS
    <3>2. /\ run' \in Run
          /\ run'.phase = "reading" /\ run'.promised = run.promised
          /\ run'.at = run.at /\ run'.horizon = run.horizon
          /\ run'.positions = run.positions /\ run'.chunk = <<>>
          /\ run'.subscribed = run.subscribed
      BY <2>2, <3>1, <1>t, <1>p DEF Run
    <3>3. run.phase = "handling"
      BY <1>16 DEF EndBatch, In
    <3>4. LogEnd' = LogEnd
      BY <2>0 DEF store, LogEnd
    <3>5. RunOK'
      BY <3>1, <3>2, <3>3, <3>4, <1>t, ConsumerAssumption DEF RunOK
    <3> QED
      BY <2>0, <2>2, <3>5, <1>t, RunMoves DEF StoreOK
  <2> QED
    BY <1>16, <2>1, <2>2 DEF EndBatch
<1>17. CASE Abort
  BY <1>17, <1>l DEF Abort
<1>18. CASE CloseProcessors
  <2>1. LogEnd' = LogEnd
    BY <1>18 DEF CloseProcessors, store, LogEnd
  <2>2. processor'
          \in [Processors -> [active : BOOLEAN, checkpoint : 0..LogEnd]]
    BY <1>18, <1>t DEF CloseProcessors, StoreOK
  <2>3. LogOK' /\ StoreOK'
    BY <1>18, <1>t, <2>1, <2>2 DEF CloseProcessors, store, LogOK, StoreOK
  <2> QED
    BY <1>18, <1>n, <2>3 DEF CloseProcessors, TypeInv
<1>19. CASE Stop
  <2>1. run' = [run EXCEPT !.aborted = TRUE]
    BY <1>19 DEF Stop
  <2>2. /\ run' \in Run
        /\ run'.phase = run.phase /\ run'.promised = run.promised
        /\ run'.at = run.at /\ run'.horizon = run.horizon
        /\ run'.positions = run.positions /\ run'.chunk = run.chunk
        /\ run'.subscribed = run.subscribed
    BY <2>1, <1>t DEF Run
  <2>3. LogEnd' = LogEnd
    BY <1>19 DEF Stop, store, LogEnd
  <2>4. RunOK' /\ LogOK'
    BY <1>19, <2>2, <2>3, <1>t DEF Stop, store, RunOK, LogOK
  <2>5. StoreOK'
    BY <1>19, <2>3, <1>t DEF Stop, store, StoreOK
  <2> QED
    BY <2>4, <2>5 DEF TypeInv
<1>20. CASE ReturnFromStop
  <2>1. LogEnd' = LogEnd
    BY <1>20 DEF ReturnFromStop, store, LogEnd
  <2> QED
    BY <1>20, <2>1 DEF ReturnFromStop, store, TypeInv, LogOK, StoreOK, RunOK
<1>21. CASE Publish
  <2>1. PICK size \in 1..MaxChange :
          /\ LogEnd + size <= MaxMessages
          /\ log' = log \o [i \in 1..size |-> LogEnd + size]
    BY <1>21 DEF Publish
  <2> DEFINE change == [i \in 1..size |-> LogEnd + size]
  <2>2. change \in Seq(Nat) /\ Len(change) = size
    BY <2>1, <1>t, ConsumerAssumption
  <2>3. /\ log' \in Seq(Nat) /\ LogEnd' = LogEnd + size
        /\ \A k \in 1..LogEnd : log'[k] = log[k]
        /\ \A k \in LogEnd + 1 .. LogEnd + size : log'[k] = LogEnd + size
    <3>1. /\ \A i \in 1..size : change[i] = LogEnd + size
          /\ log \in Seq(Nat) /\ LogEnd = Len(log) /\ size \in Nat
      BY <2>1, <1>t DEF LogOK, LogEnd
    <3> HIDE DEF change
    <3>2. /\ log' \in Seq(Nat) /\ Len(log') = Len(log) + Len(change)
          /\ \A k \in 1..Len(log) + Len(change) :
               log'[k] = IF k <= Len(log) THEN log[k]
                         ELSE change[k - Len(log)]
      BY <2>1, <2>2, <3>1, ConcatProperties DEF change
    <3>3. \A k \in LogEnd + 1 .. LogEnd + size : k - LogEnd \in 1..size
      BY <3>1, <1>t
    <3>4. /\ \A k \in 1..LogEnd : k \in 1..LogEnd + size
          /\ \A k \in LogEnd + 1 .. LogEnd + size : k \in 1..LogEnd + size
      BY <3>1, <1>t
    <3>5. LogEnd' = LogEnd + size
      BY <2>2, <3>1, <3>2 DEF LogEnd
    <3>6. \A k \in 1..LogEnd : log'[k] = log[k]
      BY <2>2, <3>1, <3>2, <3>4
    <3>7. ASSUME NEW k \in LogEnd + 1 .. LogEnd + size
          PROVE  log'[k] = LogEnd + size
      <4>1. ~(k <= Len(log))
        BY <3>1, <1>t
      <4>2. log'[k] = change[k - Len(log)]
        BY <2>2, <3>1, <3>2, <3>4, <4>1
      <4> QED
        BY <3>1, <3>3, <4>2
    <3>8. log' \in Seq(Nat)
      BY <3>2
    <3> QED
      BY ONLY <3>5, <3>6, <3>7, <3>8
  <2>4. LogOK'
    <3>1. size \in Nat /\ LogEnd + size <= MaxMessages
      BY <2>1
    <3>2. ASSUME NEW k \in 1..LogEnd + size
          PROVE  log'[k] \in k..LogEnd + size
      <4>1. CASE k <= LogEnd
        <5>1. k \in 1..LogEnd /\ log[k] \in k..LogEnd
          BY <4>1, <1>t DEF LogOK
        <5> QED
          BY <5>1, <2>3, <3>1, <1>t
      <4>2. CASE k > LogEnd
        <5>1. k \in LogEnd + 1 .. LogEnd + size
          BY <4>2, <3>1, <1>t
        <5> QED
          BY <5>1, <2>3, <3>1, <1>t
      <4> QED
        BY <4>1, <4>2, <1>t
    <3> QED
      BY <2>3, <3>1, <3>2, <1>t DEF LogOK
  <2>5. \A s : s \in Seq(1..LogEnd) => s \in Seq(1..LogEnd')
    BY <2>3, <1>t, ConsumerAssumption, SeqOfElements
  <2>6. 0..LogEnd \subseteq 0..LogEnd'
    BY <2>3, <1>t, ConsumerAssumption
  <2>7. StoreOK'
    BY <1>21, <1>t, <2>5, <2>6 DEF Publish, StoreOK
  <2>8. RunOK'
    <3>1. run' = run
      BY <1>21 DEF Publish
    <3>2. /\ \A p \in Processors :
               run.positions[p] \in (0..LogEnd') \cup {END, NotStarted}
          /\ run.phase \in {"started", "reading", "handling"} =>
               \A p \in Processors : run.positions[p] \in 0..LogEnd'
          /\ run.chunk \in Seq(1..LogEnd') /\ Len(run.chunk) <= BatchSize
          /\ run.subscribed => /\ run.phase \in {"reading", "handling"}
                               /\ run.at <= run.horizon
      BY <1>t, <2>5, <2>6 DEF RunOK
    <3>3. /\ run.promised \in Nat /\ run.at \in Nat /\ run.horizon \in Nat
          /\ run.promised <= LogEnd /\ run.at <= LogEnd
          /\ run.horizon <= LogEnd
      BY <1>t, <1>u DEF RunOK, Run
    <3>4. LogEnd' \in Nat /\ LogEnd <= LogEnd'
      BY <2>3, <1>t, ConsumerAssumption
    <3>5. /\ run.promised <= LogEnd' /\ run.at <= LogEnd'
          /\ run.horizon <= LogEnd'
      BY ONLY <3>3, <3>4, <1>t
    <3> QED
      BY <3>1, <3>2, <3>5, <1>u DEF RunOK
  <2> QED
    BY <2>4, <2>7, <2>8 DEF TypeInv
<1>22. CASE Crash
  <2>1. LogEnd' = LogEnd
    BY <1>22 DEF Crash, store, LogEnd
  <2>2. processor'
          \in [Processors -> [active : BOOLEAN, checkpoint : 0..LogEnd]]
    BY <1>22, <1>t DEF Crash, Inactive
  <2>3. LogOK' /\ StoreOK'
    BY <1>22, <1>t, <2>1, <2>2 DEF Crash, store, LogOK, StoreOK
  <2> QED
    BY <1>22, <1>n, <2>3 DEF Crash, TypeInv
<1>23. CASE UNCHANGED vars
  BY <1>23, <1>t
     DEF vars, store, TypeInv, LogOK, StoreOK, RunOK, LogEnd
<1> QED
  BY <1>1, <1>2, <1>3, <1>4, <1>5, <1>6, <1>7, <1>8, <1>9, <1>10, <1>11,
     <1>12, <1>13, <1>14, <1>15, <1>16, <1>17, <1>18, <1>19, <1>20, <1>21,
     <1>22, <1>23 DEF Next, Proceed, Fail

\* The types hold for any kinds of sources, changes of any size included.
THEOREM ConsumerTypes == Spec => []TypeOK
<1>1. Spec => []TypeInv
  BY InitTypes, TypesAreKept, PTL DEF Spec
<1> QED
  BY <1>1, TypeInvIsEnough, PTL

-----------------------------------------------------------------------------
(* What was handled *)

\* Changes of several messages, with resume tokens that name changes, are not
\* read from the middle: those are left aside.
OneByOne == MaxChange <= 1 \/ \A s \in Setups : s.source = "polling"

LogIsPlain == MaxChange <= 1 => \A k \in 1..LogEnd : log[k] = k

\* A processor has handled what is stored, and remembers that or nothing.
HandledIsStored(p) ==
  /\ since[p] <= Reached(p)
  /\ since[p] # 0 => StartFrom[p] = END
  /\ handled[p] = [i \in 1..(Reached(p) - since[p]) |-> since[p] + i]
  /\ processor[p].checkpoint \in {0, checkpoint[p]}

\* Where a processor stands in the run: it was started where it had got to, and
\* the chunk in hand begins at or before that; who has answered and goes on is
\* past the chunk.
Stands(p) ==
  /\ run.phase = "starting" /\ run.positions[p] # NotStarted =>
       /\ processor[p].checkpoint = checkpoint[p]
       /\ run.positions[p] = IF checkpoint[p] # 0 THEN checkpoint[p]
                             ELSE StartFrom[p]
  /\ run.phase \in {"started", "reading", "handling"} =>
       /\ processor[p].checkpoint = checkpoint[p]
       /\ run.positions[p] <= Reached(p)
       /\ checkpoint[p] = 0 => run.positions[p] = since[p]
  /\ run.phase \in {"reading", "handling"} /\ processor[p].active =>
       run.at <= Reached(p) + Len(run.chunk)
  /\ run.phase = "handling" =>
       /\ p \in run.pending => processor[p].active
       /\ processor[p].active /\ p \notin run.pending /\ ~run.rejected =>
            run.at <= Reached(p)

\* The chunk ends where the source is, and who has caught up has seen all that
\* was there when the run began to read.
ChunkIsNext ==
  /\ run.phase \in {"starting", "started"} =>
       run.chunk = <<>> /\ ~run.caughtUp /\ run.left
  /\ run.phase \in {"reading", "handling"} =>
       /\ Len(run.chunk) <= run.at
       /\ \A k \in 1..Len(run.chunk) :
            run.chunk[k] = run.at - Len(run.chunk) + k
       /\ ~run.left => run.promised <= run.horizon
       /\ run.caughtUp => run.promised <= run.at

CoverInv ==
  /\ LogIsPlain /\ ChunkIsNext
  /\ \A p \in Processors : HandledIsStored(p) /\ Stands(p)

\* Numbers in a row are the sequence of them.
LEMMA RowOfNumbers ==
  ASSUME NEW s \in Seq(Nat), NEW c \in Nat, NEW n \in Nat, Len(s) = n,
         \A i \in 1..n : s[i] = c + i
  PROVE  s = [i \in 1..n |-> c + i]
OBVIOUS

LEMMA ReachedType ==
  ASSUME TypeInv, NEW p \in Processors
  PROVE  Reached(p) \in 0..LogEnd
BY DEF TypeInv, StoreOK, Reached

\* A source goes on right after the last message that it has given.
LEMMA SourceGoesOn ==
  ASSUME OneByOne, TypeInv, LogIsPlain, NEW position \in 0..LogEnd
  PROVE  /\ After(position) = position
         /\ ~AnyLeft(position) => Horizon(position) = LogEnd
<1>1. setup \in Setups /\ LogEnd \in Nat
  BY DEF TypeInv, StoreOK, LogOK
<1>2. After(position) = position
  <2>1. CASE Changes
    <3>1. MaxChange <= 1
      BY <1>1, <2>1 DEF OneByOne, Changes
    <3> QED
      BY <3>1 DEF LogIsPlain, After
  <2>2. CASE ~Changes
    BY <2>2 DEF After
  <2> QED
    BY <2>1, <2>2
<1>3. Horizon(position) \in position..LogEnd
  BY SourceStaysInLog DEF TypeInv
<1>4. ASSUME ~AnyLeft(position) PROVE Horizon(position) = LogEnd
  <2>1. CASE Changes
    BY <1>1, <1>3, <1>4, <2>1 DEF AnyLeft
  <2>2. CASE ~Changes
    BY <1>1, <1>3, <1>4, <2>2 DEF AnyLeft
  <2> QED
    BY <2>1, <2>2
<1> QED
  BY <1>2, <1>4

\* A processor is given the messages of the chunk from the next one on.
LEMMA PartIsNext ==
  ASSUME TypeInv, CoverInv, NEW p \in Processors,
         In("handling"), p \in run.pending
  PROVE  /\ PartOf(p) \in Seq(Nat)
         /\ run.at <= Reached(p) + Len(PartOf(p))
         /\ \A i \in 1..Len(PartOf(p)) : PartOf(p)[i] = Reached(p) + i
<1> DEFINE r == Reached(p)
           n == Len(run.chunk)
           base == run.at - n
           s == IF r > run.at THEN n ELSE r - base
<1>1. /\ r \in Nat /\ n \in Nat /\ run.at \in Nat
      /\ run.chunk \in Seq(Nat)
  BY ReachedType DEF TypeInv, LogOK, RunOK, Run
<1>2. /\ n <= run.at /\ run.at <= r + n
      /\ \A k \in 1..n : run.chunk[k] = run.at - n + k
  BY DEF CoverInv, ChunkIsNext, Stands, In
<1>3. \A k \in 1..n : IsFor(p, run.chunk[k]) <=> base + k > r
  <2> SUFFICES ASSUME NEW k \in 1..n
               PROVE  IsFor(p, run.chunk[k]) <=> base + k > r
    OBVIOUS
  <2>1. run.chunk[k] = base + k /\ base + k > 0 /\ base + k \in Nat
    BY <1>1, <1>2
  <2>2. /\ processor[p].checkpoint = checkpoint[p]
        /\ run.positions[p] <= r /\ run.positions[p] \in Nat
        /\ checkpoint[p] = 0 => run.positions[p] = since[p]
        /\ checkpoint[p] \in Nat
        /\ r = IF checkpoint[p] = 0 THEN since[p] ELSE checkpoint[p]
    BY DEF CoverInv, Stands, In, TypeInv, StoreOK, LogOK, RunOK, Reached
  <2> QED
    BY ONLY <1>1, <2>1, <2>2 DEF IsFor
<1>4. s \in 0..n /\ (r <= run.at => base + s = r)
  BY <1>1, <1>2
<1>5. PassedBy(p) = 1..s
  <2>1. \A k \in 1..n : base + k > r <=> ~(k \in 1..s)
    BY <1>1, <1>2
  <2> HIDE DEF base, s, r
  <2>2. PassedBy(p) = {k \in 1..n : ~IsFor(p, run.chunk[k])}
    BY <1>1 DEF PassedBy
  <2> QED
    BY <1>1, <1>3, <1>4, <2>1, <2>2
<1>6. Cardinality(PassedBy(p)) = s
  BY <1>1, <1>4, <1>5, FS_Interval
<1>7. PartOf(p) = SubSeq(run.chunk, s + 1, n)
  BY <1>6 DEF PartOf
<1> HIDE DEF s, base, r
<1>8. /\ s + 1 \in Int /\ n \in Int
      /\ \A i \in s + 1 .. n : run.chunk[i] \in Nat
  <2>1. \A i \in 1..n : run.chunk[i] \in Nat
    BY <1>1, ElementOfSeq
  <2>2. \A i \in s + 1 .. n : i \in 1..n
    BY <1>1, <1>4
  <2> QED
    BY <2>1, <2>2, <1>1, <1>4
<1>9. /\ PartOf(p) \in Seq(Nat)
      /\ Len(PartOf(p)) = n - s
      /\ \A i \in 1 .. n - s : PartOf(p)[i] = run.chunk[s + i]
  <2> DEFINE first == s + 1
  <2>1. /\ first \in Int /\ n \in Int
        /\ \A i \in first..n : run.chunk[i] \in Nat
    BY <1>8
  <2> HIDE DEF first
  <2>2. /\ SubSeq(run.chunk, first, n) \in Seq(Nat)
        /\ Len(SubSeq(run.chunk, first, n))
             = IF first <= n THEN n - first + 1 ELSE 0
        /\ \A i \in 1 .. n - first + 1 :
             SubSeq(run.chunk, first, n)[i] = run.chunk[first + i - 1]
    BY <2>1, SubSeqProperties
  <2>3. PartOf(p) = SubSeq(run.chunk, first, n)
    BY <1>7 DEF first
  <2>4. n - first + 1 = n - s
    BY <1>1, <1>4 DEF first
  <2>5. \A i \in 1 .. n - s : first + i - 1 = s + i
    BY <1>1, <1>4 DEF first
  <2>6. Len(PartOf(p)) = n - s
    BY <2>2, <2>3, <2>4, <1>1, <1>4 DEF first
  <2> QED
    BY <2>2, <2>3, <2>4, <2>5, <2>6
<1>10. run.at <= r + Len(PartOf(p))
  BY <1>1, <1>2, <1>4, <1>9 DEF base
<1>11. ASSUME NEW i \in 1..Len(PartOf(p)) PROVE PartOf(p)[i] = r + i
  <2>1. n - s > 0 /\ i \in 1..n - s /\ s + i \in 1..n
    BY <1>1, <1>4, <1>9
  <2>2. r <= run.at
    <3>1. r > run.at => s = n
      BY DEF s
    <3> QED
      BY <2>1, <3>1, <1>1, <1>4
  <2>3. run.chunk[s + i] = base + (s + i)
    BY <2>1, <1>1, <1>2 DEF base
  <2>4. PartOf(p)[i] = run.chunk[s + i]
    BY <2>1, <1>9
  <2>5. base + s = r /\ i \in Nat
    BY <2>1, <2>2, <1>4
  <2>6. base \in Int
    BY <1>1 DEF base
  <2> QED
    BY <2>3, <2>4, <2>5, <2>6, <1>1, <1>4
<1> QED
  BY <1>9, <1>10, <1>11 DEF r

LEMMA InitCovers == Init => CoverInv
BY DEF Init, CoverInv, LogIsPlain, LogEnd, ChunkIsNext, HandledIsStored, Stands,
       Reached, NoRun, Inactive

\* A processor that has handled the next messages stands after them.
LEMMA HandledGoesOn ==
  ASSUME TypeInv, TypeInv', CoverInv, NEW p \in Processors,
         In("handling"), p \in run.pending,
         NEW done \in Seq(Nat), NEW active \in BOOLEAN,
         \A i \in 1..Len(done) : done[i] = Reached(p) + i,
         active => run.at <= Reached(p) + Len(done),
         Handles(p, done, active),
         UNCHANGED <<setup, log, since, isRunning, stopping, starts>>
  PROVE  CoverInv'
<1> DEFINE r == Reached(p)
           n == Len(done)
           last == IF done = <<>> THEN processor[p].checkpoint ELSE done[n]
           stored == IF done = <<>> THEN checkpoint[p] ELSE last
           answer == [active |-> active, checkpoint |-> last]
<1>1. /\ r \in Nat /\ n \in Nat /\ since[p] \in Nat /\ r >= since[p]
      /\ checkpoint[p] \in Nat /\ run \in Run
      /\ r = IF checkpoint[p] = 0 THEN since[p] ELSE checkpoint[p]
  BY ReachedType
     DEF TypeInv, LogOK, StoreOK, RunOK, CoverInv, HandledIsStored, Reached
<1>2. /\ processor[p].checkpoint = checkpoint[p]
      /\ run.positions[p] <= r /\ run.positions[p] \in Nat
      /\ checkpoint[p] = 0 => run.positions[p] = since[p]
      /\ handled[p] = [i \in 1..(r - since[p]) |-> since[p] + i]
      /\ handled[p] \in Seq(Nat)
  <2>1. handled[p] \in Seq(1..LogEnd) /\ LogEnd \in Nat
    BY DEF TypeInv, LogOK, StoreOK
  <2>2. handled[p] \in Seq(Nat)
    BY <2>1
  <2>3. run.positions[p] \in 0..LogEnd
    BY DEF TypeInv, RunOK, In
  <2> QED
    BY <2>1, <2>2, <2>3 DEF CoverInv, HandledIsStored, Stands, In
<1>3. /\ done = <<>> => n = 0 /\ last = checkpoint[p] /\ stored = checkpoint[p]
      /\ done # <<>> => n > 0 /\ last = r + n /\ stored = r + n
  <2>1. CASE done = <<>>
    BY <2>1, <1>2
  <2>2. CASE done # <<>>
    <3>1. n \in 1..n
      BY <2>2
    <3> QED
      BY <2>2, <3>1, <1>1
  <2> QED
    BY <2>1, <2>2
<1>4. /\ handled' = [handled EXCEPT ![p] = @ \o done]
      /\ checkpoint' = [checkpoint EXCEPT ![p] = stored]
      /\ processor' = [processor EXCEPT ![p] = answer]
      /\ run' = [run EXCEPT !.pending = @ \ {p}, !.carryOn = @ \/ active]
  BY DEF Handles
<1>5. /\ answer.checkpoint = last /\ answer.active = active
      /\ last = stored
  BY <1>3
<1> HIDE DEF last, stored, answer
<1>6. /\ run'.phase = run.phase /\ run'.promised = run.promised
      /\ run'.at = run.at /\ run'.horizon = run.horizon
      /\ run'.positions = run.positions /\ run'.chunk = run.chunk
      /\ run'.left = run.left /\ run'.caughtUp = run.caughtUp
      /\ run'.rejected = run.rejected /\ run'.pending = run.pending \ {p}
  <2>1. run \in Run
    BY <1>1
  <2> QED
    BY ONLY <1>4, <2>1 DEF Run
<1>7. /\ checkpoint'[p] = stored /\ processor'[p] = answer
      /\ handled'[p] = handled[p] \o done
      /\ \A q \in Processors \ {p} :
           /\ checkpoint'[q] = checkpoint[q] /\ processor'[q] = processor[q]
           /\ handled'[q] = handled[q]
  BY <1>4 DEF TypeInv, StoreOK
<1>8. Reached(p)' = r + n /\ (checkpoint'[p] = 0 => n = 0 /\ checkpoint[p] = 0)
  <2>1. Reached(p)' = IF stored = 0 THEN since[p] ELSE stored
    BY <1>7 DEF Reached
  <2> QED
    BY <2>1, <1>1, <1>3, <1>7
<1>9. HandledIsStored(p)'
  <2>1. /\ handled[p] \o done \in Seq(Nat)
        /\ Len(handled[p] \o done) = Len(handled[p]) + n
        /\ \A k \in 1..Len(handled[p]) + n :
             (handled[p] \o done)[k]
               = IF k <= Len(handled[p]) THEN handled[p][k]
                 ELSE done[k - Len(handled[p])]
    BY <1>2, ConcatProperties
  <2>2. Len(handled[p]) = r - since[p]
    BY <1>1, <1>2
  <2>3. ASSUME NEW k \in 1..(r - since[p]) + n
        PROVE  (handled[p] \o done)[k] = since[p] + k
    <3>1. CASE k <= r - since[p]
      BY <3>1, <2>1, <2>2, <1>1, <1>2
    <3>2. CASE ~(k <= r - since[p])
      <4>1. k - (r - since[p]) \in 1..n
        BY <3>2, <1>1
      <4>2. (handled[p] \o done)[k] = done[k - (r - since[p])]
        BY <3>2, <2>1, <2>2
      <4>3. done[k - (r - since[p])] = r + (k - (r - since[p]))
        BY <4>1
      <4> QED
        BY <4>2, <4>3, <1>1
    <3> QED
      BY <3>1, <3>2
  <2>4. (r - since[p]) + n = (r + n) - since[p]
        /\ (r - since[p]) + n \in Nat
    BY <1>1
  <2>5. handled'[p] = [i \in 1..((r + n) - since[p]) |-> since[p] + i]
    <3> DEFINE s == handled[p] \o done
               m == (r + n) - since[p]
    <3>1. /\ s \in Seq(Nat) /\ m \in Nat /\ since[p] \in Nat /\ Len(s) = m
          /\ \A i \in 1..m : s[i] = since[p] + i
      BY <2>1, <2>2, <2>3, <2>4, <1>1
    <3> HIDE DEF s, m
    <3>2. s = [i \in 1..m |-> since[p] + i]
      BY <3>1, RowOfNumbers
    <3> QED
      BY <3>2, <1>7 DEF s, m
  <2>6. since'[p] <= Reached(p)' /\ (since'[p] # 0 => StartFrom[p] = END)
    <3>1. since' = since
      OBVIOUS
    <3>2. since[p] # 0 => StartFrom[p] = END
      BY DEF CoverInv, HandledIsStored
    <3>3. since[p] <= r + n
      BY <1>1
    <3> QED
      BY <3>1, <3>2, <3>3, <1>8
  <2>7. processor'[p].checkpoint = checkpoint'[p]
    BY <1>5, <1>7
  <2> QED
    BY <2>5, <2>6, <2>7, <1>8 DEF HandledIsStored
<1>10. Stands(p)'
  <2>1. run'.at <= Reached(p)' + Len(run'.chunk) \/ ~active
    BY <1>1, <1>6, <1>8 DEF Run
  <2>2. run'.at <= Reached(p)' \/ ~active
    BY <1>6, <1>8
  <2>3. /\ run'.positions[p] <= Reached(p)'
        /\ checkpoint'[p] = 0 => run'.positions[p] = since'[p]
    BY <1>1, <1>2, <1>6, <1>8
  <2>4. /\ run'.phase = "handling" /\ p \notin run'.pending
        /\ processor'[p].active = active
        /\ processor'[p].checkpoint = checkpoint'[p]
    BY <1>5, <1>6, <1>7 DEF In
  <2> QED
    BY <2>1, <2>2, <2>3, <2>4 DEF Stands
<1>11. ASSUME NEW q \in Processors \ {p}
       PROVE  HandledIsStored(q)' /\ Stands(q)'
  <2>1. HandledIsStored(q) /\ Stands(q)
    BY DEF CoverInv
  <2>2. Reached(q)' = Reached(q)
    BY <1>7 DEF Reached
  <2> QED
    BY <2>1, <2>2, <1>6, <1>7 DEF HandledIsStored, Stands
<1>12. LogIsPlain' /\ ChunkIsNext'
  BY <1>6 DEF CoverInv, LogIsPlain, LogEnd, ChunkIsNext
<1> QED
  BY <1>9, <1>10, <1>11, <1>12 DEF CoverInv

\* Every step keeps it.
LEMMA CoverIsKept ==
  ASSUME OneByOne, TypeInv, TypeInv', CoverInv, [Next]_vars
  PROVE  CoverInv'
<1>u. run \in Run
  BY DEF TypeInv, RunOK
<1>t. /\ LogOK /\ StoreOK /\ RunOK /\ LogEnd \in Nat
      /\ LogIsPlain /\ ChunkIsNext
      /\ \A p \in Processors : HandledIsStored(p) /\ Stands(p)
      /\ \A p \in Processors : Reached(p) \in 0..LogEnd
  BY ReachedType DEF TypeInv, LogOK, CoverInv
\* A step that leaves what is stored and in memory alone.
<1>k. ASSUME UNCHANGED <<store, processor>>
      PROVE  /\ LogIsPlain' /\ LogEnd' = LogEnd
             /\ \A p \in Processors : /\ HandledIsStored(p)'
                                      /\ Reached(p)' = Reached(p)
  BY <1>k, <1>t DEF store, LogIsPlain, LogEnd, HandledIsStored, Reached
\* And one that leaves the chunk and who is at it alone as well.
<1>s. ASSUME UNCHANGED <<store, processor>>,
             run'.phase = run.phase, run'.positions = run.positions,
             run'.at = run.at, run'.chunk = run.chunk,
             run'.pending = run.pending, run'.rejected = run.rejected,
             ChunkIsNext'
      PROVE  CoverInv'
  <2>1. ASSUME NEW p \in Processors PROVE Stands(p)'
    <3>1. Stands(p) /\ Reached(p)' = Reached(p)
      BY <1>s, <1>t, <1>k
    <3>2. UNCHANGED <<since, checkpoint, processor>>
      BY <1>s DEF store
    <3> QED
      BY <1>s, <3>1, <3>2 DEF Stands
  <2> QED
    BY <1>s, <1>k, <2>1 DEF CoverInv
\* A step after which nobody reads.
<1>e. ASSUME UNCHANGED store, run'.phase \in {"ended", "closing"},
             \A p \in Processors :
               processor'[p].checkpoint \in {0, processor[p].checkpoint}
      PROVE  CoverInv'
  <2>1. LogIsPlain' /\ ChunkIsNext'
    BY <1>e, <1>t DEF store, LogIsPlain, LogEnd, ChunkIsNext
  <2>2. ASSUME NEW p \in Processors PROVE HandledIsStored(p)' /\ Stands(p)'
    <3>1. HandledIsStored(p) /\ UNCHANGED <<checkpoint, handled, since>>
      BY <1>e, <1>t DEF store
    <3>2. HandledIsStored(p)'
      BY <1>e, <3>1 DEF HandledIsStored, Reached
    <3>3. Stands(p)'
      BY <1>e DEF Stands
    <3> QED
      BY <3>2, <3>3
  <2> QED
    BY <2>1, <2>2 DEF CoverInv
<1>l. ASSUME NEW drained \in BOOLEAN, Leave(drained),
             UNCHANGED <<store, processor>>
      PROVE  CoverInv'
  <2>1. run'.phase = "closing"
    BY <1>l DEF Leave, NoRun
  <2> QED
    BY <1>l, <1>e, <2>1
<1>1. CASE Start
  <2>1. /\ run' = [NoRun EXCEPT !.phase = "starting"]
        /\ UNCHANGED store
        /\ processor' = [p \in Processors |->
                           [processor[p] EXCEPT !.active = TRUE]]
    BY <1>1 DEF Start
  <2>2. /\ run'.phase = "starting" /\ run'.chunk = <<>>
        /\ ~run'.caughtUp /\ run'.left
        /\ \A p \in Processors : run'.positions[p] = NotStarted
    BY <2>1 DEF NoRun
  <2>3. \A p \in Processors :
          processor'[p].checkpoint = processor[p].checkpoint
    BY <2>1, <1>t DEF StoreOK
  <2>4. LogIsPlain' /\ ChunkIsNext'
    BY <2>1, <2>2, <1>t DEF store, LogIsPlain, LogEnd, ChunkIsNext
  <2>5. ASSUME NEW p \in Processors PROVE HandledIsStored(p)' /\ Stands(p)'
    <3>1. HandledIsStored(p) /\ UNCHANGED <<checkpoint, handled, since>>
      BY <2>1, <1>t DEF store
    <3>2. HandledIsStored(p)'
      BY <2>3, <3>1 DEF HandledIsStored, Reached
    <3>3. Stands(p)'
      BY <2>2 DEF Stands
    <3> QED
      BY <3>2, <3>3
  <2> QED
    BY <2>4, <2>5 DEF CoverInv
<1>2. ASSUME NEW p \in Processors, StartProcessor(p) PROVE CoverInv'
  <2> DEFINE last == IF processor[p].checkpoint # 0
                     THEN processor[p].checkpoint ELSE checkpoint[p]
             position == IF last # 0 THEN last ELSE StartFrom[p]
  <2>1. last = checkpoint[p]
    BY <1>t DEF HandledIsStored
  <2>2. /\ processor' = [processor EXCEPT ![p].checkpoint = last]
        /\ run' = [run EXCEPT !.positions[p] = position]
        /\ run.phase = "starting"
        /\ UNCHANGED store
    BY <1>2 DEF StartProcessor, In
  <2>3. position = IF checkpoint[p] # 0 THEN checkpoint[p] ELSE StartFrom[p]
    BY <2>1
  <2> HIDE DEF last, position
  <2>4. /\ run'.positions = [run.positions EXCEPT ![p] = position]
        /\ run'.phase = run.phase /\ run'.chunk = run.chunk
        /\ run'.caughtUp = run.caughtUp /\ run'.left = run.left
    BY <2>2, <1>u DEF Run
  <2>5. LogIsPlain' /\ ChunkIsNext'
    BY <2>2, <2>4, <1>t DEF store, LogIsPlain, LogEnd, ChunkIsNext
  <2>6. ASSUME NEW q \in Processors PROVE HandledIsStored(q)' /\ Stands(q)'
    <3>1. /\ HandledIsStored(q) /\ Stands(q)
          /\ UNCHANGED <<checkpoint, handled, since>>
      BY <2>2, <1>t DEF store
    <3>2. processor'[q].checkpoint
            = IF q = p THEN checkpoint[p] ELSE processor[q].checkpoint
      BY <2>1, <2>2, <1>t DEF StoreOK
    <3>3. run'.positions[q] = IF q = p THEN position ELSE run.positions[q]
      BY <2>4, <1>u DEF Run
    <3>4. HandledIsStored(q)'
      BY <3>1, <3>2 DEF HandledIsStored, Reached
    <3>5. Stands(q)'
      BY <2>2, <2>3, <2>4, <3>1, <3>2, <3>3 DEF Stands
    <3> QED
      BY <3>4, <3>5
  <2> QED
    BY <2>5, <2>6 DEF CoverInv
<1>3. CASE FailStart
  BY <1>3, <1>l DEF FailStart
<1>4. CASE ResolvePositions
  <2> DEFINE atEnd == {p \in Processors : run.positions[p] = END}
             Resolved(positions) ==
               [p \in Processors |-> IF p \in atEnd THEN LogEnd
                                     ELSE positions[p]]
  <2>1. /\ run' = [run EXCEPT !.phase = "started", !.positions = Resolved(@)]
        /\ since' = Resolved(since)
        /\ run.phase = "starting"
        /\ \A p \in Processors : run.positions[p] # NotStarted
        /\ UNCHANGED <<setup, log, checkpoint, handled, processor>>
    BY <1>4 DEF ResolvePositions, In
  <2>2. /\ \A p \in atEnd : Resolved(since)[p] = LogEnd
                            /\ Resolved(run.positions)[p] = LogEnd
        /\ \A p \in Processors \ atEnd :
             /\ Resolved(since)[p] = since[p]
             /\ Resolved(run.positions)[p] = run.positions[p]
    OBVIOUS
  <2>3. atEnd = {p \in Processors : run.positions[p] = END}
    OBVIOUS
  <2> HIDE DEF Resolved, atEnd
  <2>4. /\ run'.positions = Resolved(run.positions)
        /\ run'.phase = "started" /\ run'.chunk = run.chunk
        /\ run'.caughtUp = run.caughtUp /\ run'.left = run.left
    BY <2>1, <1>u DEF Run
  <2>5. LogIsPlain' /\ ChunkIsNext'
    BY <2>1, <2>4, <1>t DEF LogIsPlain, LogEnd, ChunkIsNext
  <2>6. ASSUME NEW p \in Processors PROVE HandledIsStored(p)' /\ Stands(p)'
    <3>1. /\ since[p] <= Reached(p)
          /\ since[p] # 0 => StartFrom[p] = END
          /\ handled[p] = [i \in 1..(Reached(p) - since[p]) |-> since[p] + i]
          /\ processor[p].checkpoint = checkpoint[p]
          /\ run.positions[p] = IF checkpoint[p] # 0 THEN checkpoint[p]
                                ELSE StartFrom[p]
          /\ checkpoint[p] \in Nat /\ since[p] \in Nat
      BY <1>t, <2>1 DEF HandledIsStored, Stands, StoreOK
    <3>2. CASE p \in atEnd
      <4>1. checkpoint[p] = 0 /\ StartFrom[p] = END
        BY <2>3, <3>1, <3>2, ConsumerAssumption
      <4>2. Reached(p) = since[p] /\ Reached(p)' = LogEnd
        BY <4>1, <3>2, <2>1, <2>2 DEF Reached
      <4>3. /\ [i \in 1..(Reached(p) - since[p]) |-> since[p] + i] = <<>>
            /\ [i \in 1..(LogEnd - LogEnd) |-> LogEnd + i] = <<>>
        BY <4>2, <3>1, <1>t
      <4>4. /\ since'[p] = LogEnd /\ run'.positions[p] = LogEnd
            /\ UNCHANGED <<checkpoint, handled, processor>>
        BY <3>2, <2>1, <2>2, <2>4
      <4>5. HandledIsStored(p)'
        BY <4>1, <4>2, <4>3, <4>4, <3>1, <1>t DEF HandledIsStored
      <4>6. Stands(p)'
        BY <4>2, <4>4, <3>1, <2>4, <1>t DEF Stands
      <4> QED
        BY <4>5, <4>6
    <3>3. CASE p \notin atEnd
      <4>1. /\ since'[p] = since[p] /\ run'.positions[p] = run.positions[p]
            /\ UNCHANGED <<checkpoint, handled, processor>>
        BY <3>3, <2>1, <2>2, <2>4
      <4>2. Reached(p)' = Reached(p)
        BY <4>1 DEF Reached
      <4>3. checkpoint[p] = 0 => run.positions[p] = since[p]
        BY <3>1, <3>3, <2>3, ConsumerAssumption
      <4>4. run.positions[p] = Reached(p) /\ Reached(p) \in Nat
        BY <4>3, <3>1 DEF Reached
      <4>5. HandledIsStored(p)'
        BY <4>1, <4>2, <3>1 DEF HandledIsStored
      <4>6. Stands(p)'
        BY <4>1, <4>2, <4>3, <4>4, <3>1, <2>4 DEF Stands
      <4> QED
        BY <4>5, <4>6
    <3> QED
      BY <3>2, <3>3
  <2> QED
    BY <2>5, <2>6 DEF CoverInv
<1>5. CASE ReportStarted
  <2> DEFINE first == EarliestPosition(run.positions)
  <2>1. /\ run' = [run EXCEPT !.phase = "reading", !.promised = LogEnd,
                              !.at = first]
        /\ run.phase = "started"
        /\ UNCHANGED <<store, processor>>
    BY <1>5 DEF ReportStarted, In
  <2>2. first \in Nat /\ \A p \in Processors : first <= run.positions[p]
    <3> DEFINE S == {run.positions[p] : p \in Processors}
    <3>1. S \in SUBSET Nat /\ S # {}
      BY <2>1, <1>t, ConsumerAssumption DEF RunOK
    <3>2. Min(S) \in S /\ \A x \in S : Min(S) <= x
      BY <3>1, MinIsLeast
    <3>3. first = Min(S)
      BY DEF EarliestPosition
    <3> QED
      BY <3>1, <3>2, <3>3
  <2> HIDE DEF first
  <2>3. /\ run'.phase = "reading" /\ run'.at = first
        /\ run'.positions = run.positions /\ run'.chunk = run.chunk
        /\ run'.caughtUp = run.caughtUp /\ run'.left = run.left
    BY <2>1, <1>u DEF Run
  <2>4. run.chunk = <<>> /\ ~run.caughtUp /\ run.left /\ Len(<<>>) = 0
    BY <2>1, <1>t DEF ChunkIsNext
  <2>5. ChunkIsNext'
    BY <2>2, <2>3, <2>4 DEF ChunkIsNext
  <2>6. ASSUME NEW p \in Processors PROVE Stands(p)'
    <3>1. /\ Stands(p) /\ Reached(p)' = Reached(p) /\ Reached(p) \in Nat
          /\ run.positions[p] \in Nat
      BY <1>t, <1>k, <2>1 DEF RunOK
    <3>2. UNCHANGED <<since, checkpoint, processor>>
      BY <2>1 DEF store
    <3>3. first <= Reached(p)
      BY <2>1, <2>2, <3>1 DEF Stands
    <3> QED
      BY <2>1, <2>2, <2>3, <2>4, <3>1, <3>2, <3>3 DEF Stands
  <2> QED
    BY <1>k, <2>1, <2>5, <2>6 DEF CoverInv
<1>6. CASE Subscribe
  <2>1. /\ run' = [run EXCEPT !.subscribed = TRUE, !.at = After(@),
                     !.horizon = After(run.at), !.left = TRUE, !.given = FALSE]
        /\ UNCHANGED <<store, processor>>
    BY <1>6 DEF Subscribe
  <2>2. After(run.at) = run.at
    <3>1. run.at \in 0..LogEnd
      BY <1>t, <1>u DEF RunOK, Run
    <3> QED
      BY <3>1, <1>t, SourceGoesOn
  <2>3. /\ run'.phase = run.phase /\ run'.positions = run.positions
        /\ run'.at = run.at /\ run'.chunk = run.chunk
        /\ run'.pending = run.pending /\ run'.rejected = run.rejected
        /\ run'.promised = run.promised /\ run'.caughtUp = run.caughtUp
        /\ run'.left = TRUE
    BY ONLY <2>1, <2>2, <1>u DEF Run
  <2>4. ChunkIsNext'
    BY <2>3, <1>t DEF ChunkIsNext
  <2> QED
    BY <1>s, <2>1, <2>3, <2>4
<1>7. CASE Query
  <2>1. /\ run' = [run EXCEPT !.horizon = Horizon(run.at),
                              !.left = AnyLeft(run.at)]
        /\ run.phase = "reading"
        /\ UNCHANGED <<store, processor>>
    BY <1>7 DEF Query, Reads, In
  <2>2. ~AnyLeft(run.at) => Horizon(run.at) = LogEnd
    <3>1. run.at \in 0..LogEnd
      BY <1>t, <1>u DEF RunOK, Run
    <3> QED
      BY <3>1, <1>t, SourceGoesOn
  <2>3. /\ run'.phase = run.phase /\ run'.positions = run.positions
        /\ run'.at = run.at /\ run'.chunk = run.chunk
        /\ run'.pending = run.pending /\ run'.rejected = run.rejected
        /\ run'.promised = run.promised /\ run'.caughtUp = run.caughtUp
        /\ run'.left = AnyLeft(run.at) /\ run'.horizon = Horizon(run.at)
    BY ONLY <2>1, <1>u DEF Run
  <2>4. run.promised <= LogEnd
    BY <1>t DEF RunOK
  <2>5. ChunkIsNext'
    BY <2>1, <2>2, <2>3, <2>4, <1>t DEF ChunkIsNext
  <2> QED
    BY <1>s, <2>1, <2>3, <2>5
<1>8. CASE Pull
  <2> DEFINE next == run.at + 1
             chunk == Append(run.chunk, next)
             n == Len(run.chunk)
  <2>1. /\ run' = [run EXCEPT !.at = next, !.chunk = chunk,
                              !.given = TRUE, !.resumable = TRUE]
        /\ run.phase = "reading"
        /\ UNCHANGED <<store, processor>>
    BY <1>8 DEF Pull, Reads, In
  <2>2. /\ run.at \in Nat /\ run.chunk \in Seq(Nat) /\ n \in Nat
        /\ n <= run.at /\ run.promised \in Nat
        /\ \A k \in 1..n : run.chunk[k] = run.at - n + k
    BY <2>1, <1>t, <1>u DEF ChunkIsNext, Run
  <2>3. /\ next \in Nat /\ Len(chunk) = n + 1
        /\ \A k \in 1..n + 1 : chunk[k] = next - (n + 1) + k
    <3>1. next \in Nat
      BY <2>2
    <3>2. /\ Len(chunk) = n + 1 /\ chunk[n + 1] = next
          /\ \A k \in 1..n : chunk[k] = run.chunk[k]
      BY <2>2, <3>1
    <3>3. ASSUME NEW k \in 1..n + 1 PROVE chunk[k] = next - (n + 1) + k
      <4>1. CASE k = n + 1
        BY <4>1, <3>1, <3>2, <2>2
      <4>2. CASE k # n + 1
        <5>1. k \in 1..n
          BY <4>2, <2>2
        <5>2. chunk[k] = run.at - n + k
          BY <5>1, <3>2, <2>2
        <5> QED
          BY <5>2, <2>2
      <4> QED
        BY <4>1, <4>2
    <3> QED
      BY <3>1, <3>2, <3>3
  <2> HIDE DEF chunk, next
  <2>4. /\ run'.phase = run.phase /\ run'.positions = run.positions
        /\ run'.at = next /\ run'.chunk = chunk
        /\ run'.pending = run.pending /\ run'.rejected = run.rejected
        /\ run'.promised = run.promised /\ run'.caughtUp = run.caughtUp
        /\ run'.left = run.left /\ run'.horizon = run.horizon
    BY ONLY <2>1, <1>u DEF Run
  <2>5. ChunkIsNext'
    <3>1. Len(chunk) <= next /\ (run.promised <= run.at => run.promised <= next)
      BY <2>2, <2>3 DEF next
    <3> QED
      BY <2>1, <2>3, <2>4, <3>1, <1>t DEF ChunkIsNext
  <2>6. ASSUME NEW p \in Processors PROVE Stands(p)'
    <3>1. Stands(p) /\ Reached(p)' = Reached(p) /\ Reached(p) \in Nat
      BY <1>t, <1>k, <2>1
    <3>2. UNCHANGED <<since, checkpoint, processor>>
      BY <2>1 DEF store
    <3>3. processor[p].active => next <= Reached(p) + Len(chunk)
      BY <2>1, <2>2, <2>3, <3>1 DEF Stands, next
    <3> QED
      BY <2>1, <2>4, <3>1, <3>2, <3>3 DEF Stands
  <2> QED
    BY <1>k, <2>1, <2>5, <2>6 DEF CoverInv
<1>9. CASE CatchUp
  <2>1. /\ run' = [run EXCEPT !.caughtUp = TRUE, !.left = TRUE,
                              !.resumable = ~Changes \/ run.given]
        /\ run.phase = "reading" /\ run.at = run.horizon /\ ~run.left
        /\ UNCHANGED <<store, processor>>
    BY <1>9 DEF CatchUp, Reads, In
  <2>2. /\ run'.phase = run.phase /\ run'.positions = run.positions
        /\ run'.at = run.at /\ run'.chunk = run.chunk
        /\ run'.pending = run.pending /\ run'.rejected = run.rejected
        /\ run'.promised = run.promised /\ run'.left = TRUE
    BY <2>1, <1>u DEF Run
  <2>3. ChunkIsNext'
    BY <2>1, <2>2, <1>t DEF ChunkIsNext
  <2> QED
    BY <1>s, <2>1, <2>2, <2>3
<1>10. CASE Break
  <2>1. /\ run' = [run EXCEPT !.subscribed = FALSE]
        /\ UNCHANGED <<store, processor>>
    BY <1>10 DEF Break
  <2>2. /\ run'.phase = run.phase /\ run'.positions = run.positions
        /\ run'.at = run.at /\ run'.chunk = run.chunk
        /\ run'.pending = run.pending /\ run'.rejected = run.rejected
        /\ run'.promised = run.promised /\ run'.caughtUp = run.caughtUp
        /\ run'.left = run.left /\ run'.horizon = run.horizon
    BY <2>1, <1>u DEF Run
  <2>3. ChunkIsNext'
    BY <2>2, <1>t DEF ChunkIsNext
  <2> QED
    BY <1>s, <2>1, <2>2, <2>3
<1>11. CASE FailSource
  BY <1>11, <1>l DEF FailSource
<1>12. CASE Flush
  <2>0. UNCHANGED <<store, processor>> /\ run.phase = "reading"
    BY <1>12 DEF Flush, In
  <2>1. CASE Leave(TRUE) \/ Leave(FALSE)
    BY <2>0, <2>1, <1>l
  <2>2. CASE run' = [run EXCEPT !.caughtUp = FALSE]
    <3>1. /\ run'.phase = run.phase /\ run'.positions = run.positions
          /\ run'.at = run.at /\ run'.chunk = run.chunk
          /\ run'.pending = run.pending /\ run'.rejected = run.rejected
          /\ run'.promised = run.promised /\ ~run'.caughtUp
          /\ run'.left = run.left /\ run'.horizon = run.horizon
      BY <2>2, <1>u DEF Run
    <3>2. ChunkIsNext'
      BY <2>0, <3>1, <1>t DEF ChunkIsNext
    <3> QED
      BY <1>s, <2>0, <3>1, <3>2
  <2>3. CASE run' = [run EXCEPT !.phase = "handling", !.pending = Active,
                                !.carryOn = FALSE, !.rejected = FALSE]
    <3>1. /\ run'.phase = "handling" /\ run'.positions = run.positions
          /\ run'.at = run.at /\ run'.chunk = run.chunk
          /\ run'.pending = Active
          /\ run'.promised = run.promised /\ run'.caughtUp = run.caughtUp
          /\ run'.left = run.left /\ run'.horizon = run.horizon
      BY <2>3, <1>u DEF Run
    <3>2. ChunkIsNext'
      BY <2>0, <3>1, <1>t DEF ChunkIsNext
    <3>3. ASSUME NEW p \in Processors PROVE Stands(p)'
      <4>1. Stands(p) /\ Reached(p)' = Reached(p)
        BY <1>t, <1>k, <2>0
      <4>2. UNCHANGED <<since, checkpoint, processor>>
        BY <2>0 DEF store
      <4>3. p \in Active <=> processor[p].active
        BY DEF Active
      <4> QED
        BY <2>0, <3>1, <4>1, <4>2, <4>3 DEF Stands
    <3> QED
      BY <1>k, <2>0, <3>2, <3>3 DEF CoverInv
  <2> QED
    BY <1>12, <2>1, <2>2, <2>3 DEF Flush
<1>13. ASSUME NEW p \in Processors, HandleBatch(p) PROVE CoverInv'
  <2>1. /\ PartOf(p) \in Seq(Nat)
        /\ run.at <= Reached(p) + Len(PartOf(p))
        /\ \A i \in 1..Len(PartOf(p)) : PartOf(p)[i] = Reached(p) + i
    BY <1>13, PartIsNext DEF HandleBatch
  <2> QED
    BY <1>13, <2>1, HandledGoesOn DEF HandleBatch
<1>14. ASSUME NEW p \in Processors, StopInBatch(p) PROVE CoverInv'
  <2>1. /\ PartOf(p) \in Seq(Nat)
        /\ \A i \in 1..Len(PartOf(p)) : PartOf(p)[i] = Reached(p) + i
    BY <1>14, PartIsNext DEF StopInBatch
  <2>2. PICK i \in DOMAIN PartOf(p) :
          \/ Handles(p, SubSeq(PartOf(p), 1, i), FALSE)
          \/ Handles(p, SubSeq(PartOf(p), 1, i - 1), FALSE)
    BY <1>14 DEF StopInBatch
  <2>3. ASSUME NEW j \in {i - 1, i}
        PROVE  /\ SubSeq(PartOf(p), 1, j) \in Seq(Nat)
               /\ \A k \in 1..Len(SubSeq(PartOf(p), 1, j)) :
                    SubSeq(PartOf(p), 1, j)[k] = Reached(p) + k
    <3>1. /\ j \in Nat /\ j <= Len(PartOf(p))
          /\ \A k \in 1..j : PartOf(p)[k] \in Nat /\ k \in 1..Len(PartOf(p))
      BY <2>1
    <3>2. /\ SubSeq(PartOf(p), 1, j) \in Seq(Nat)
          /\ Len(SubSeq(PartOf(p), 1, j)) = j
          /\ \A k \in 1..j : SubSeq(PartOf(p), 1, j)[k] = PartOf(p)[k]
      <4>1. /\ SubSeq(PartOf(p), 1, j) \in Seq(Nat)
            /\ Len(SubSeq(PartOf(p), 1, j)) = IF 1 <= j THEN j - 1 + 1 ELSE 0
            /\ \A k \in 1 .. j - 1 + 1 :
                 SubSeq(PartOf(p), 1, j)[k] = PartOf(p)[1 + k - 1]
        BY <3>1, SubSeqProperties
      <4>2. j - 1 + 1 = j /\ \A k \in 1..j : 1 + k - 1 = k
        BY <3>1
      <4> QED
        BY <3>1, <4>1, <4>2
    <3> QED
      BY <2>1, <3>1, <3>2
  <2>4. CASE Handles(p, SubSeq(PartOf(p), 1, i), FALSE)
    BY <1>14, <2>3, <2>4, HandledGoesOn DEF StopInBatch
  <2>5. CASE Handles(p, SubSeq(PartOf(p), 1, i - 1), FALSE)
    BY <1>14, <2>3, <2>5, HandledGoesOn DEF StopInBatch
  <2> QED
    BY <2>2, <2>4, <2>5
<1>15. ASSUME NEW p \in Processors, RejectBatch(p) PROVE CoverInv'
  <2>1. /\ run' = [run EXCEPT !.pending = @ \ {p}, !.rejected = TRUE]
        /\ run.phase = "handling"
        /\ UNCHANGED <<store, processor>>
    BY <1>15 DEF RejectBatch, In
  <2>2. /\ run'.phase = run.phase /\ run'.positions = run.positions
        /\ run'.at = run.at /\ run'.chunk = run.chunk
        /\ run'.pending = run.pending \ {p} /\ run'.rejected
        /\ run'.promised = run.promised /\ run'.caughtUp = run.caughtUp
        /\ run'.left = run.left /\ run'.horizon = run.horizon
    BY <2>1, <1>u DEF Run
  <2>3. ChunkIsNext'
    BY <2>1, <2>2, <1>t DEF ChunkIsNext
  <2>4. ASSUME NEW q \in Processors PROVE Stands(q)'
    <3>1. Stands(q) /\ Reached(q)' = Reached(q)
      BY <1>t, <1>k, <2>1
    <3>2. UNCHANGED <<since, checkpoint, processor>>
      BY <2>1 DEF store
    <3> QED
      BY <2>1, <2>2, <3>1, <3>2 DEF Stands
  <2> QED
    BY <1>k, <2>1, <2>3, <2>4 DEF CoverInv
<1>16. CASE EndBatch
  <2>0. /\ UNCHANGED <<store, processor>>
        /\ run.phase = "handling" /\ run.pending = {}
    BY <1>16 DEF EndBatch, In
  <2>1. CASE Leave(TRUE) \/ Leave(FALSE)
    BY <2>0, <2>1, <1>l
  <2>2. CASE /\ ~run.rejected
             /\ run' = [run EXCEPT !.phase = "reading", !.chunk = <<>>,
                                   !.caughtUp = FALSE]
    <3>1. /\ run'.phase = "reading" /\ run'.positions = run.positions
          /\ run'.at = run.at /\ run'.chunk = <<>> /\ Len(<<>>) = 0
          /\ run'.promised = run.promised /\ ~run'.caughtUp
          /\ run'.left = run.left /\ run'.horizon = run.horizon
          /\ run.at \in Nat
      BY <2>2, <1>u DEF Run
    <3>2. ChunkIsNext'
      BY <2>0, <3>1, <1>t DEF ChunkIsNext
    <3>3. ASSUME NEW p \in Processors PROVE Stands(p)'
      <4>1. Stands(p) /\ Reached(p)' = Reached(p) /\ Reached(p) \in Nat
        BY <1>t, <1>k, <2>0
      <4>2. UNCHANGED <<since, checkpoint, processor>>
        BY <2>0 DEF store
      <4>3. processor[p].active => run.at <= Reached(p) + 0
        BY <2>0, <2>2, <3>1, <4>1 DEF Stands
      <4> QED
        BY <2>0, <3>1, <4>1, <4>2, <4>3 DEF Stands
    <3> QED
      BY <1>k, <2>0, <3>2, <3>3 DEF CoverInv
  <2> QED
    BY <1>16, <2>1, <2>2 DEF EndBatch
<1>17. CASE Abort
  BY <1>17, <1>l DEF Abort
<1>18. CASE CloseProcessors
  <2>1. /\ run'.phase = "ended" /\ UNCHANGED store
        /\ processor' = [p \in Processors |->
                           [processor[p] EXCEPT !.active = FALSE]]
    BY <1>18 DEF CloseProcessors, NoRun
  <2>2. \A p \in Processors :
          processor'[p].checkpoint = processor[p].checkpoint
    BY <2>1, <1>t DEF StoreOK
  <2> QED
    BY <1>e, <2>1, <2>2
<1>19. CASE Stop
  <2>1. /\ run' = [run EXCEPT !.aborted = TRUE]
        /\ UNCHANGED <<store, processor>>
    BY <1>19 DEF Stop
  <2>2. /\ run'.phase = run.phase /\ run'.positions = run.positions
        /\ run'.at = run.at /\ run'.chunk = run.chunk
        /\ run'.pending = run.pending /\ run'.rejected = run.rejected
        /\ run'.promised = run.promised /\ run'.caughtUp = run.caughtUp
        /\ run'.left = run.left /\ run'.horizon = run.horizon
    BY <2>1, <1>u DEF Run
  <2>3. ChunkIsNext'
    BY <2>2, <1>t DEF ChunkIsNext
  <2> QED
    BY <1>s, <2>1, <2>2, <2>3
<1>20. CASE run' = run /\ UNCHANGED <<store, processor>>
  <2>1. ChunkIsNext'
    BY <1>20, <1>t DEF ChunkIsNext
  <2> QED
    BY <1>s, <1>20, <2>1
<1>21. CASE Publish
  <2>1. PICK size \in 1..MaxChange :
          log' = log \o [i \in 1..size |-> LogEnd + size]
    BY <1>21 DEF Publish
  <2>2. LogIsPlain'
    <3> SUFFICES ASSUME MaxChange <= 1 PROVE \A k \in 1..LogEnd' : log'[k] = k
      BY DEF LogIsPlain
    <3>1. size = 1
      BY ConsumerAssumption
    <3> DEFINE change == [i \in 1..1 |-> LogEnd + 1]
    <3>2. /\ change \in Seq(Nat) /\ Len(change) = 1 /\ change[1] = LogEnd + 1
          /\ log' = log \o change /\ log \in Seq(Nat) /\ LogEnd = Len(log)
      BY <3>1, <2>1, <1>t DEF LogOK, LogEnd
    <3> HIDE DEF change
    <3>3. /\ Len(log') = LogEnd + 1
          /\ \A k \in 1..LogEnd + 1 :
               log'[k] = IF k <= LogEnd THEN log[k] ELSE change[k - LogEnd]
      <4>1. /\ Len(log \o change) = Len(log) + Len(change)
            /\ \A k \in 1..Len(log) + Len(change) :
                 (log \o change)[k] = IF k <= Len(log) THEN log[k]
                                      ELSE change[k - Len(log)]
        BY <3>2, ConcatProperties
      <4> QED
        BY <4>1, <3>2
    <3>4. LogEnd' = LogEnd + 1
      BY <3>3 DEF LogEnd
    <3>5. ASSUME NEW k \in 1..LogEnd + 1 PROVE log'[k] = k
      <4>1. CASE k <= LogEnd
        BY <4>1, <3>3, <1>t DEF LogIsPlain
      <4>2. CASE ~(k <= LogEnd)
        <5>1. k = LogEnd + 1 /\ k - LogEnd = 1
          BY <4>2, <1>t
        <5> QED
          BY <4>2, <5>1, <3>2, <3>3
      <4> QED
        BY <4>1, <4>2
    <3> QED
      BY <3>4, <3>5
  <2>3. UNCHANGED <<checkpoint, handled, since, processor, run>>
    BY <1>21 DEF Publish
  <2>4. ChunkIsNext'
    BY <2>3, <1>t DEF ChunkIsNext
  <2>5. ASSUME NEW p \in Processors PROVE HandledIsStored(p)' /\ Stands(p)'
    <3>1. /\ HandledIsStored(p) /\ Stands(p) /\ Reached(p)' = Reached(p)
      BY <2>3, <1>t DEF Reached
    <3> QED
      BY <2>3, <3>1 DEF HandledIsStored, Stands
  <2> QED
    BY <2>2, <2>4, <2>5 DEF CoverInv
<1>22. CASE Crash
  <2>1. /\ run'.phase = "ended" /\ UNCHANGED store
        /\ \A p \in Processors : processor'[p].checkpoint = 0
    BY <1>22 DEF Crash, NoRun, Inactive
  <2> QED
    BY <1>e, <2>1
<1>23. CASE ReturnFromStop
  BY <1>20, <1>23 DEF ReturnFromStop
<1>24. CASE UNCHANGED vars
  BY <1>20, <1>24 DEF vars
<1> QED
  BY <1>1, <1>2, <1>3, <1>4, <1>5, <1>6, <1>7, <1>8, <1>9, <1>10, <1>11,
     <1>12, <1>13, <1>14, <1>15, <1>16, <1>17, <1>18, <1>19, <1>21,
     <1>22, <1>23, <1>24 DEF Next, Proceed, Fail

LEMMA CoverIsInvariant == ASSUME OneByOne PROVE Spec => [](TypeInv /\ CoverInv)
<1>1. Init => TypeInv /\ CoverInv
  BY InitTypes, InitCovers
<1>2. TypeInv /\ CoverInv /\ [Next]_vars => TypeInv' /\ CoverInv'
  BY TypesAreKept, CoverIsKept
<1> QED
  BY <1>1, <1>2, PTL DEF Spec

\* Whatever is stopped, fails, breaks off or crashes, of any number of
\* processors, with chunks of any size, a processor has handled each message up
\* to its stored checkpoint, once and in order.  Left aside are change streams
\* of changes of several messages: see OneByOne.
THEOREM NothingIsLeftOut ==
  ASSUME OneByOne PROVE Spec => []NothingIsPassedOver
<1>1. CoverInv => NothingIsPassedOver
  BY DEF CoverInv, HandledIsStored, NothingIsPassedOver
<1> QED
  BY <1>1, CoverIsInvariant, PTL

\* What is in a row of numbers.
LEMMA RowHolds ==
  ASSUME NEW c \in Nat, NEW d \in Nat, NEW m \in c + 1 .. d
  PROVE  m \in Range([i \in 1..(d - c) |-> c + i])
<1>1. m - c \in 1..(d - c) /\ c + (m - c) = m
  OBVIOUS
<1> QED
  BY <1>1 DEF Range

\* A run that has caught up is one whose active processors are past the promise.
LEMMA CaughtUpIsPastThePromise ==
  ASSUME TypeInv, CoverInv, In("reading") \/ In("handling"), run.caughtUp,
         In("reading") => run.chunk = <<>>,
         In("handling") => run.pending = {} /\ ~run.rejected,
         NEW p \in Active, NEW m \in since[p] + 1 .. run.promised
  PROVE  m \in Range(handled[p])
<1>1. p \in Processors /\ processor[p].active
  BY DEF Active
<1>2. /\ Reached(p) \in Nat /\ since[p] \in Nat /\ run.promised \in Nat
      /\ run.at \in Nat
  <2>1. run \in Run /\ LogEnd \in Nat
    BY DEF TypeInv, LogOK, RunOK
  <2>2. Reached(p) \in 0..LogEnd /\ since[p] \in 0..LogEnd
    BY <1>1, ReachedType DEF TypeInv, StoreOK
  <2>3. run.promised \in Nat /\ run.at \in Nat
    BY <2>1 DEF Run
  <2> QED
    BY <2>1, <2>2, <2>3
<1>3. run.promised <= run.at
  BY DEF CoverInv, ChunkIsNext, In
<1>4. run.at <= Reached(p)
  <2>1. CASE In("reading")
    <3>1. Len(run.chunk) = 0
      BY <2>1
    <3> QED
      BY <1>1, <1>2, <2>1, <3>1 DEF CoverInv, Stands, In
  <2>2. CASE In("handling")
    BY <1>1, <2>2 DEF CoverInv, Stands, In
  <2> QED
    BY <2>1, <2>2
<1>5. m \in since[p] + 1 .. Reached(p)
  BY <1>2, <1>3, <1>4
<1>6. handled[p] = [i \in 1..(Reached(p) - since[p]) |-> since[p] + i]
  BY <1>1 DEF CoverInv, HandledIsStored
<1> QED
  BY <1>2, <1>5, <1>6, RowHolds

\* A run that ends because it has caught up leaves no active processor without
\* a message that was there when its start was reported.
THEOREM DrainedRunsAreComplete ==
  ASSUME OneByOne PROVE Spec => DrainsWhatWasThere
<1> DEFINE Drained ==
      In("closing")' /\ ~In("closing") /\ run'.drained =>
        \A p \in Active : \A m \in since[p] + 1 .. run.promised :
          m \in Range(handled[p])
<1>1. ASSUME TypeInv, CoverInv, Next PROVE Drained
  <2> SUFFICES ASSUME In("closing")', ~In("closing"), run'.drained
               PROVE  \A p \in Active : \A m \in since[p] + 1 .. run.promised :
                        m \in Range(handled[p])
    OBVIOUS
  <2>u. run \in Run
    BY <1>1 DEF TypeInv, RunOK
  <2>l. ~Leave(FALSE)
    BY DEF Leave, NoRun
  <2>p. ~(run'.phase = run.phase)
    BY DEF In
  <2>1. CASE Flush
    <3>1. run.chunk = <<>> /\ Leave(TRUE)
      <4>1. ASSUME run' = [run EXCEPT !.caughtUp = FALSE] PROVE FALSE
        BY <4>1, <2>p, <2>u DEF Run
      <4>2. ASSUME run' = [run EXCEPT !.phase = "handling", !.pending = Active,
                                      !.carryOn = FALSE, !.rejected = FALSE]
            PROVE FALSE
        BY <4>2, <2>u DEF Run, In
      <4> QED
        BY <2>1, <2>l, <4>1, <4>2 DEF Flush
    <3>2. In("reading") /\ run.caughtUp
      BY <2>1, <3>1 DEF Flush, IsDue
    <3>3. ~In("handling")
      BY <3>2 DEF In
    <3> QED
      BY <1>1, <3>1, <3>2, <3>3, CaughtUpIsPastThePromise
  <2>2. CASE EndBatch
    <3>1. ASSUME run' = [run EXCEPT !.phase = "reading", !.chunk = <<>>,
                                    !.caughtUp = FALSE]
          PROVE FALSE
      BY <3>1, <2>u DEF Run, In
    <3>2. /\ In("handling") /\ run.pending = {} /\ ~run.rejected
          /\ run.caughtUp
      BY <2>2, <2>l, <3>1 DEF EndBatch
    <3>3. ~In("reading")
      BY <3>2 DEF In
    <3> QED
      BY <1>1, <3>2, <3>3, CaughtUpIsPastThePromise
  <2>3. CASE FailStart \/ FailSource \/ Abort
    BY <2>3, <2>l DEF FailStart, FailSource, Abort
  <2>4. CASE Start \/ CloseProcessors \/ Crash
    BY <2>4 DEF Start, CloseProcessors, Crash, NoRun, In
  <2>5. CASE \E p \in Processors : StartProcessor(p)
    <3>1. PICK p \in Processors : StartProcessor(p)
      BY <2>5
    <3>2. \E position : run' = [run EXCEPT !.positions[p] = position]
      BY <3>1 DEF StartProcessor
    <3> QED
      BY <3>2, <2>p, <2>u DEF Run
  <2>6. CASE ResolvePositions
    <3>1. \E positions : run' = [run EXCEPT !.phase = "started",
                                            !.positions = positions]
      BY <2>6 DEF ResolvePositions
    <3> QED
      BY <3>1, <2>u DEF Run, In
  <2>7. CASE ReportStarted
    BY <2>7, <2>u DEF ReportStarted, Run, In
  <2>8. CASE Subscribe \/ Query \/ Pull \/ CatchUp \/ Break
    <3>1. run'.phase = run.phase
      <4>1. CASE Subscribe
        BY <4>1, <2>u DEF Subscribe, Run
      <4>2. CASE Query
        BY <4>2, <2>u DEF Query, Run
      <4>3. CASE Pull
        BY <4>3, <2>u DEF Pull, Run
      <4>4. CASE CatchUp
        BY <4>4, <2>u DEF CatchUp, Run
      <4>5. CASE Break
        BY <4>5, <2>u DEF Break, Run
      <4> QED
        BY <2>8, <4>1, <4>2, <4>3, <4>4, <4>5
    <3> QED
      BY <3>1, <2>p
  <2>9. CASE \E p \in Processors :
               HandleBatch(p) \/ StopInBatch(p) \/ RejectBatch(p)
    <3>1. PICK p \in Processors :
            HandleBatch(p) \/ StopInBatch(p) \/ RejectBatch(p)
      BY <2>9
    <3>2. In("handling")
      BY <3>1 DEF HandleBatch, StopInBatch, RejectBatch
    <3>3. \/ \E c : run' = [run EXCEPT !.pending = @ \ {p}, !.carryOn = c]
          \/ run' = [run EXCEPT !.pending = @ \ {p}, !.rejected = TRUE]
      <4>1. \A done, active : Handles(p, done, active) =>
              \E c : run' = [run EXCEPT !.pending = @ \ {p}, !.carryOn = c]
        BY DEF Handles
      <4> QED
        BY <3>1, <4>1 DEF HandleBatch, StopInBatch, RejectBatch
    <3>4. run'.phase = run.phase
      BY <3>3, <2>u DEF Run
    <3> QED
      BY <3>4, <2>p
  <2>10. CASE Stop
    BY <2>10, <2>p, <2>u DEF Stop, Run
  <2>11. CASE Publish \/ ReturnFromStop
    BY <2>11, <2>p DEF Publish, ReturnFromStop
  <2> QED
    BY <1>1, <2>1, <2>2, <2>3, <2>4, <2>5, <2>6, <2>7, <2>8, <2>9, <2>10,
       <2>11 DEF Next, Proceed, Fail
<1>2. TypeInv /\ CoverInv /\ [Next]_vars => [Drained]_vars
  BY <1>1
<1> QED
  BY <1>2, CoverIsInvariant, PTL DEF Spec, DrainsWhatWasThere

=============================================================================
