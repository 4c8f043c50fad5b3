----------------------- MODULE CommandHandling_proofs -----------------------
(***************************************************************************)
(* Proofs about CommandHandling, for every value of its constants: command *)
(* handlers over any of the stores implement compare-and-append, callers   *)
(* are told what happened, conflicts are real, and inline read models      *)
(* follow the stream.                                                      *)
(***************************************************************************)
EXTENDS CommandHandling, FiniteSetTheorems, TLAPS

-----------------------------------------------------------------------------
(* Types *)

Working(c) == handling[c].phase \in Phases

\* A projection that is being run has messages left.
TypeInv ==
  /\ TypeOK
  /\ \A c \in Clients : Working(c) => handling[c].done < handling[c].size

\* What a client has in hand is told by the phase of its command.
LEMMA InHandByPhase ==
  ASSUME TypeOK, NEW c \in Clients
  PROVE  /\ Working(c) => handling[c] \in ToAppend
         /\ At(c, "retrying") => handling[c] \in ToRetry
         /\ handling[c] \in ToRetry => handling[c].phase = "retrying"
BY DEF TypeOK, Working, At, ToAppend, ToRetry, Idle, Phases

\* The messages of a decision are messages, as many as were decided.
LEMMA DecidedMessages ==
  ASSUME TypeOK, NEW c \in Clients, Working(c)
  PROVE  /\ Decided(c) \in Seq(Appended)
         /\ Len(Decided(c)) = handling[c].size
         /\ handling[c].size \in Nat \ {0}
         /\ \A nr \in 1..handling[c].size :
              Decided(c)[nr] =
                [by |-> <<c, Len(outcomes[c]) + 1>>, nr |-> nr,
                 size |-> handling[c].size, seen |-> handling[c].seen,
                 option |-> handling[c].option]
<1>1. handling[c] \in ToAppend
  BY InHandByPhase
<1>2. /\ handling[c].size \in Nat \ {0} /\ handling[c].seen \in Nat
      /\ handling[c].option \in ExpectedVersions
  BY <1>1, CommandAssumption DEF ToAppend
<1>3. Len(outcomes[c]) \in Nat
  BY DEF TypeOK
<1>4. \A nr \in 1..handling[c].size :
        [by |-> <<c, Len(outcomes[c]) + 1>>, nr |-> nr,
         size |-> handling[c].size, seen |-> handling[c].seen,
         option |-> handling[c].option] \in Appended
  BY <1>2, <1>3 DEF Appended
<1> QED
  BY <1>2, <1>4 DEF Decided

\* What Tell, Step and ConflictAfter leave behind is well typed.
LEMMA TellType ==
  ASSUME TypeInv, NEW c \in Clients, NEW outcome \in Outcomes, Tell(c, outcome)
  PROVE  /\ handling' \in [Clients -> ToRetry \cup ToAppend \cup {Idle}]
         /\ outcomes' \in [Clients -> Seq(Outcomes)]
         /\ \A d \in Clients : (Working(d))' =>
              handling'[d].done < handling'[d].size
<1>1. outcomes' \in [Clients -> Seq(Outcomes)]
  BY DEF TypeInv, TypeOK, Tell
<1>2. handling' \in [Clients -> ToRetry \cup ToAppend \cup {Idle}]
  BY DEF TypeInv, TypeOK, Tell
<1>3. \A d \in Clients : (Working(d))' =>
        handling'[d].done < handling'[d].size
  BY DEF TypeInv, TypeOK, Tell, Working, Idle, Phases
<1> QED
  BY <1>1, <1>2, <1>3

\* After a conflict a command is retried, if its policy has a try left, or
\* told.
LEMMA ConflictAfterType ==
  ASSUME TypeInv, NEW c \in Clients, NEW option \in ExpectedVersions,
         NEW tries \in 0..MaxRetries, ConflictAfter(c, option, tries)
  PROVE  /\ handling' \in [Clients -> ToRetry \cup ToAppend \cup {Idle}]
         /\ outcomes' \in [Clients -> Seq(Outcomes)]
         /\ \A d \in Clients : (Working(d))' =>
              handling'[d].done < handling'[d].size
<1>1. CASE tries < MaxRetries
  <2>1. /\ handling' = [handling EXCEPT
              ![c] = [phase |-> "retrying", option |-> option,
                      tries |-> tries + 1]]
        /\ outcomes' = outcomes
    BY <1>1 DEF ConflictAfter
  <2>2. [phase |-> "retrying", option |-> option, tries |-> tries + 1]
          \in ToRetry
    BY <1>1, CommandAssumption DEF ToRetry
  <2> QED
    BY <2>1, <2>2 DEF TypeInv, TypeOK, Working, Phases
<1>2. CASE ~(tries < MaxRetries)
  BY <1>2, TellType DEF ConflictAfter, Outcomes
<1> QED
  BY <1>1, <1>2

\* A command that is being appended goes to another phase of it.
LEMMA StepType ==
  ASSUME TypeInv, NEW c \in Clients, Working(c), NEW phase \in Phases,
         Step(c, phase)
  PROVE  /\ handling' \in [Clients -> ToRetry \cup ToAppend \cup {Idle}]
         /\ outcomes' \in [Clients -> Seq(Outcomes)]
         /\ \A d \in Clients : (Working(d))' =>
              handling'[d].done < handling'[d].size
<1>1. handling[c] \in ToAppend
  BY InHandByPhase DEF TypeInv
<1>2. /\ handling' = [handling EXCEPT ![c].phase = phase]
      /\ outcomes' = outcomes
  BY DEF Step
<1>3. /\ [handling[c] EXCEPT !.phase = phase] \in ToAppend
      /\ [handling[c] EXCEPT !.phase = phase].done = handling[c].done
      /\ [handling[c] EXCEPT !.phase = phase].size = handling[c].size
  BY <1>1 DEF ToAppend
<1> QED
  BY <1>2, <1>3 DEF TypeInv, TypeOK, Working, Phases

\* No command is in hand initially.
LEMMA InitTypes == Init => TypeInv
BY DEF Init, TypeInv, TypeOK, Working, Idle, Phases, Appended, Outcomes

\* What an action has to establish for the types.
HandlingTyped ==
  /\ handling' \in [Clients -> ToRetry \cup ToAppend \cup {Idle}]
  /\ outcomes' \in [Clients -> Seq(Outcomes)]
  /\ \A d \in Clients : (Working(d))' => handling'[d].done < handling'[d].size

\* A client goes on with another record of a command that is being appended.
LEMMA ReplaceType ==
  ASSUME TypeInv, NEW c \in Clients, NEW h \in ToAppend, h.done < h.size,
         handling' = [handling EXCEPT ![c] = h], UNCHANGED outcomes
  PROVE  HandlingTyped
BY DEF TypeInv, TypeOK, HandlingTyped, Working

\* A conflict of a command in hand is well typed.
LEMMA ConflictType ==
  ASSUME TypeInv, NEW c \in Clients, Working(c), Conflict(c)
  PROVE  HandlingTyped
<1>1. handling[c] \in ToAppend
  BY InHandByPhase DEF TypeInv
<1>2. handling[c].option \in ExpectedVersions /\ handling[c].tries \in 0..MaxRetries
  BY <1>1 DEF ToAppend
<1> QED
  BY <1>2, ConflictAfterType DEF Conflict, HandlingTyped

\* Aggregating and deciding is well typed, whatever it ends in.
LEMMA AggregateTypes ==
  ASSUME TypeInv, NEW c \in Clients, NEW option \in ExpectedVersions,
         NEW tries \in 0..MaxRetries, AggregateAndDecide(c, option, tries)
  PROVE  HandlingTyped
<1>1. CASE ConflictAfter(c, option, tries)
  BY <1>1, ConflictAfterType DEF HandlingTyped
<1>2. CASE \E outcome \in {"unchanged", "failed"} : Tell(c, outcome)
  BY <1>2, TellType DEF HandlingTyped, Outcomes
<1>3. ASSUME NEW size \in 1..MaxAppendSize,
             handling' = [handling EXCEPT
                     ![c] = [phase |-> "appending", option |-> option,
                             tries |-> tries, seen |-> Len(stream),
                             size |-> size, base |-> 0, done |-> 0,
                             found |-> <<>>]],
             UNCHANGED outcomes
      PROVE  HandlingTyped
  <2>1. Len(stream) \in Nat
    BY DEF TypeInv, TypeOK
  <2> DEFINE h == [phase |-> "appending", option |-> option, tries |-> tries,
                   seen |-> Len(stream), size |-> size, base |-> 0,
                   done |-> 0, found |-> <<>>]
  <2>2. h \in ToAppend /\ h.done < h.size
    BY <2>1, CommandAssumption DEF ToAppend, Phases
  <2>3. handling' = [handling EXCEPT ![c] = h] /\ UNCHANGED outcomes
    BY <1>3
  <2> HIDE DEF h
  <2> QED
    BY <2>2, <2>3, ReplaceType
<1> QED
  BY <1>1, <1>2, <1>3 DEF AggregateAndDecide

\* Every step is well typed.
LEMMA NextTypes == TypeInv /\ [Next]_vars => TypeInv'
<1> SUFFICES ASSUME TypeInv, [Next]_vars PROVE TypeInv'
  OBVIOUS
<1>0. ASSUME HandlingTyped, stream' \in Seq(Appended),
             readModel' \in Seq(Appended), UNCHANGED store
      PROVE  TypeInv'
  BY <1>0 DEF TypeInv, TypeOK, HandlingTyped
<1>1. CASE UNCHANGED vars
  BY <1>1 DEF vars, TypeInv, TypeOK, Working
<1>a. stream \in Seq(Appended) /\ readModel \in Seq(Appended)
  BY DEF TypeInv, TypeOK
<1>b. ASSUME NEW c \in Clients, Working(c)
      PROVE  /\ handling[c] \in ToAppend
             /\ handling[c].done < handling[c].size
             /\ Decided(c) \in Seq(Appended)
             /\ \A nr \in 1..handling[c].size : Decided(c)[nr] \in Appended
  <2>1. /\ handling[c] \in ToAppend
        /\ Decided(c) \in Seq(Appended)
        /\ Len(Decided(c)) = handling[c].size
    BY <1>b, InHandByPhase, DecidedMessages DEF TypeInv
  <2> QED
    BY <1>b, <2>1 DEF TypeInv
<1>2. ASSUME NEW c \in Clients, NEW option \in ExpectedVersions,
             Handle(c, option)
      PROVE  TypeInv'
  <2>1. HandlingTyped
    BY <1>2, AggregateTypes, CommandAssumption DEF Handle
  <2> QED
    BY <1>2, <2>1, <1>a, <1>0 DEF Handle, AggregateAndDecide
<1>3. ASSUME NEW c \in Clients, Retry(c) PROVE TypeInv'
  <2>1. handling[c] \in ToRetry
    BY <1>3, InHandByPhase DEF Retry, TypeInv
  <2>2. /\ handling[c].option \in ExpectedVersions
        /\ handling[c].tries \in 0..MaxRetries
    BY <2>1 DEF ToRetry
  <2>3. HandlingTyped
    BY <1>3, <2>2, AggregateTypes DEF Retry
  <2> QED
    BY <1>3, <2>3, <1>a, <1>0 DEF Retry, AggregateAndDecide
<1>4. ASSUME NEW c \in Clients, AppendToMemory(c) PROVE TypeInv'
  <2>1. Working(c)
    BY <1>4 DEF AppendToMemory, At, Working, Phases
  <2>2. CASE stream' = stream \o Decided(c) /\ Step(c, "projecting")
    <3>1. HandlingTyped
      BY <2>1, <2>2, StepType DEF HandlingTyped, Phases
    <3> QED
      BY <1>4, <2>1, <2>2, <3>1, <1>0, <1>a, <1>b DEF AppendToMemory
  <2>3. CASE Conflict(c) /\ UNCHANGED stream
    BY <1>4, <2>1, <2>3, ConflictType, <1>0, <1>a DEF AppendToMemory
  <2> QED
    BY <1>4, <2>2, <2>3 DEF AppendToMemory
<1>5. ASSUME NEW c \in Clients, FindDocument(c) PROVE TypeInv'
  <2>1. Working(c)
    BY <1>5 DEF FindDocument, At, Working, Phases
  <2>2. handling[c] \in ToAppend /\ handling[c].done < handling[c].size
    BY <2>1, <1>b
  <2> DEFINE h == [handling[c] EXCEPT !.phase = "found", !.found = readModel]
  <2>3. h \in ToAppend /\ h.done < h.size
    BY <2>2, <1>a DEF ToAppend, Phases
  <2>4. handling' = [handling EXCEPT ![c] = h]
    BY <1>5 DEF FindDocument
  <2>5. HandlingTyped
    <3> HIDE DEF h
    <3> QED
      BY <1>5, <2>3, <2>4, ReplaceType DEF FindDocument
  <2> QED
    BY <1>5, <2>5, <1>0, <1>a DEF FindDocument
<1>6. ASSUME NEW c \in Clients, PutDocument(c) PROVE TypeInv'
  <2>1. Working(c)
    BY <1>6 DEF PutDocument, At, Working, Phases
  <2>2. handling[c] \in ToAppend /\ handling[c].done < handling[c].size
    BY <2>1, <1>b
  <2>3. /\ handling[c].done + 1 \in 1..handling[c].size
        /\ handling[c].found \in Seq(Appended)
        /\ handling[c].size \in 1..MaxAppendSize
    BY <2>2, CommandAssumption DEF ToAppend
  <2>4. readModel' \in Seq(Appended)
    <3>1. Append(handling[c].found, Decided(c)[handling[c].done + 1])
            \in Seq(Appended)
      BY <2>1, <2>3, <1>b
    <3> QED
      BY <1>6, <3>1, <1>a DEF PutDocument
  <2>5. CASE handling[c].done + 1 = handling[c].size
    <3>1. Tell(c, "appended")
      BY <1>6, <2>5 DEF PutDocument
    <3>2. HandlingTyped
      BY <3>1, TellType DEF HandlingTyped, Outcomes
    <3> QED
      BY <1>6, <2>4, <3>2, <1>0, <1>a DEF PutDocument
  <2>6. CASE handling[c].done + 1 # handling[c].size
    <3> DEFINE h == [handling[c] EXCEPT !.phase = "projecting",
                                        !.done = handling[c].done + 1,
                                        !.found = <<>>]
    <3>0. /\ handling[c].done + 1 \in 0..MaxAppendSize
          /\ handling[c].done + 1 < handling[c].size
      BY <2>3, <2>6, CommandAssumption
    <3>b. <<>> \in Seq(Appended)
      OBVIOUS
    <3>c. h \in ToAppend
      BY <2>2, <3>0, <3>b DEF ToAppend, Phases
    <3>d. h.done < h.size
      BY <2>2, <3>0 DEF ToAppend
    <3>1. h \in ToAppend /\ h.done < h.size
      BY <3>c, <3>d
    <3>2. handling' = [handling EXCEPT ![c] = h] /\ UNCHANGED outcomes
      BY <1>6, <2>6 DEF PutDocument
    <3>3. HandlingTyped
      <4> HIDE DEF h
      <4> QED
        BY <3>1, <3>2, ReplaceType
    <3> QED
      BY <1>6, <2>4, <3>3, <1>0, <1>a DEF PutDocument
  <2> QED
    BY <2>5, <2>6
<1>7. ASSUME NEW c \in Clients, ReadPosition(c) PROVE TypeInv'
  <2>1. Working(c)
    BY <1>7 DEF ReadPosition, At, Working, Phases
  <2>2. CASE Conflict(c)
    BY <1>7, <2>1, <2>2, ConflictType, <1>0, <1>a DEF ReadPosition
  <2>3. CASE ~Conflict(c)
    <3> DEFINE base == IF hasExpectedNumber(expectedStreamVersion(handling[c]))
                         THEN expectedStreamVersion(handling[c])
                         ELSE Len(stream)
               h == [handling[c] EXCEPT !.phase = "positioned", !.base = base]
    <3>1. handling' = [handling EXCEPT ![c] = h] /\ UNCHANGED outcomes
      BY <1>7, <2>3 DEF ReadPosition
    <3>2. base \in Nat
      BY <1>a DEF hasExpectedNumber
    <3>3. h \in ToAppend /\ h.done < h.size
      <4> HIDE DEF base
      <4> QED
        BY <2>1, <1>b, <3>2 DEF ToAppend, Phases
    <3>4. HandlingTyped
      <4> HIDE DEF h
      <4> QED
        BY <3>1, <3>3, ReplaceType
    <3> QED
      BY <1>7, <3>4, <1>0, <1>a DEF ReadPosition
  <2> QED
    BY <2>2, <2>3
<1>8. ASSUME NEW c \in Clients, WriteStream(c) PROVE TypeInv'
  <2>1. Working(c)
    BY <1>8 DEF WriteStream, At, Working, Phases
  <2>2. CASE Step(c, "written")
    <3>1. HandlingTyped
      BY <2>1, <2>2, StepType DEF HandlingTyped, Phases
    <3> QED
      BY <1>8, <3>1, <1>0, <1>a DEF WriteStream
  <2>3. CASE Conflict(c)
    BY <1>8, <2>1, <2>3, ConflictType, <1>0, <1>a DEF WriteStream
  <2> QED
    BY <1>8, <2>2, <2>3 DEF WriteStream
<1>9. ASSUME NEW c \in Clients, CommitAppend(c) PROVE TypeInv'
  <2>1. Working(c)
    BY <1>9 DEF CommitAppend, At, Working, Phases
  <2>2. HandlingTyped
    BY <1>9, TellType DEF CommitAppend, HandlingTyped, Outcomes, Answers
  <2> QED
    BY <1>9, <2>1, <2>2, <1>0, <1>a, <1>b DEF CommitAppend
<1>10. ASSUME NEW c \in Clients, FindStream(c) PROVE TypeInv'
  <2>1. Working(c)
    BY <1>10 DEF FindStream, At, Working, Phases
  <2>2. CASE Conflict(c)
    BY <1>10, <2>1, <2>2, ConflictType, <1>0, <1>a DEF FindStream
  <2>3. CASE ~Conflict(c)
    <3> DEFINE h == [handling[c] EXCEPT !.phase = "positioned",
                                        !.base = Len(stream),
                                        !.found = readModel]
    <3>1. handling' = [handling EXCEPT ![c] = h] /\ UNCHANGED outcomes
      BY <1>10, <2>3 DEF FindStream
    <3>a. /\ handling[c] \in ToAppend /\ handling[c].done < handling[c].size
          /\ Len(stream) \in Nat
      BY <2>1, <1>a, <1>b
    <3>2. h \in ToAppend /\ h.done < h.size
      BY <3>a, <1>a DEF ToAppend, Phases
    <3>3. HandlingTyped
      <4> HIDE DEF h
      <4> QED
        BY <3>1, <3>2, ReplaceType
    <3> QED
      BY <1>10, <3>3, <1>0, <1>a DEF FindStream
  <2> QED
    BY <2>2, <2>3
<1>11. ASSUME NEW c \in Clients, UpdateStream(c) PROVE TypeInv'
  <2>1. Working(c)
    BY <1>11 DEF UpdateStream, At, Working, Phases
  <2>2. Tell(c, "appended") \/ Tell(c, "failed")
    BY <1>11 DEF UpdateStream, Answers
  <2>3. HandlingTyped
    BY <2>2, TellType DEF HandlingTyped, Outcomes
  <2>4. handling[c].found \in Seq(Appended)
    BY <2>1, <1>b DEF ToAppend
  <2>5. stream' \in Seq(Appended) /\ readModel' \in Seq(Appended)
    <3>1. Decided(c) \in Seq(Appended)
      BY <2>1, <1>b
    <3>2. /\ stream \o Decided(c) \in Seq(Appended)
          /\ handling[c].found \o Decided(c) \in Seq(Appended)
      BY <3>1, <2>4, <1>a
    <3> QED
      BY <1>11, <3>2, <1>a DEF UpdateStream
  <2> QED
    BY <1>11, <2>3, <2>5, <1>0 DEF UpdateStream
<1>12. ASSUME NEW c \in Clients, AppendToServer(c) PROVE TypeInv'
  <2>1. Working(c)
    BY <1>12 DEF AppendToServer, At, Working, Phases
  <2>2. CASE /\ stream' = stream \o Decided(c)
             /\ \E answer \in Answers : Tell(c, answer)
    <3>1. HandlingTyped
      BY <2>2, TellType DEF HandlingTyped, Outcomes, Answers
    <3> QED
      BY <1>12, <2>1, <2>2, <3>1, <1>0, <1>a, <1>b DEF AppendToServer
  <2>3. CASE Conflict(c) /\ UNCHANGED stream
    BY <1>12, <2>1, <2>3, ConflictType, <1>0, <1>a DEF AppendToServer
  <2> QED
    BY <1>12, <2>2, <2>3 DEF AppendToServer
<1>13. ASSUME NEW c \in Clients, Fail(c) PROVE TypeInv'
  <2>1. CASE ViolateUniqueness(c)
    <3>1. Working(c)
      BY <2>1 DEF ViolateUniqueness, At, Working, Phases
    <3> QED
      BY <2>1, <3>1, ConflictType, <1>0, <1>a DEF ViolateUniqueness
  <2>2. CASE \/ FailProjection(c) \/ FailAppend(c)
             \/ RollbackAppend(c) \/ FailUpdate(c)
    <3>1. HandlingTyped
      BY <2>2, TellType
         DEF FailProjection, FailAppend, RollbackAppend, FailUpdate,
             HandlingTyped, Outcomes
    <3> QED
      BY <2>2, <3>1, <1>0, <1>a
         DEF FailProjection, FailAppend, RollbackAppend, FailUpdate
  <2> QED
    BY <1>13, <2>1, <2>2 DEF Fail
<1> QED
  BY <1>1, <1>2, <1>3, <1>4, <1>5, <1>6, <1>7, <1>8, <1>9, <1>10, <1>11,
     <1>12, <1>13 DEF Next, Proceed

\* Types: streams and read models hold messages, no command is retried more
\* often than its policy says.
THEOREM CommandTypes == Spec => []TypeOK
<1>1. Spec => []TypeInv
  BY InitTypes, NextTypes, PTL DEF Spec
<1> QED
  BY <1>1, PTL DEF TypeInv

-----------------------------------------------------------------------------
(* The invariant behind the refinement *)

\* What was read is what the caller expects, where the store compares the two,
\* and who has a position has the expected one.
Founded(h) ==
  h.phase \in Phases =>
    /\ h.option \in Nat => \/ h.seen = h.option
                           \/ store = "mongo" /\ h.seen = 0
    /\ h.phase \in {"positioned", "written"} =>
         /\ store \in Transactional =>
              (hasExpectedNumber(expectedStreamVersion(h)) =>
                 h.base = expectedStreamVersion(h))
         /\ store = "mongo" =>
              matchesExpectedVersion(h.base, expectedStreamVersion(h))

DecisionsAreFounded == \A c \in Clients : Founded(handling[c])

\* The one transaction that holds the stream's row is at the end of the stream.
WriterIsAtTheEnd ==
  store \in Transactional =>
    \A c \in Clients :
      At(c, "written") =>
        /\ handling[c].base = Len(stream)
        /\ \A d \in Clients : At(d, "written") => d = c

IInv == TypeInv /\ DecisionsAreFounded /\ WriterIsAtTheEnd

\* Nothing is required of a command that is answered or to be retried.
LEMMA EndedIsFounded ==
  ASSUME IInv, NEW c \in Clients, UNCHANGED store,
         Conflict(c) \/ \E outcome \in Outcomes : Tell(c, outcome)
  PROVE  /\ DecisionsAreFounded'
         /\ UNCHANGED stream => WriterIsAtTheEnd'
         /\ At(c, "written") => WriterIsAtTheEnd'
<1>1. /\ handling \in [Clients -> ToRetry \cup ToAppend \cup {Idle}]
      /\ DOMAIN handling = Clients
  BY DEF IInv, TypeInv, TypeOK
<1>2. handling'[c].phase \in {"idle", "retrying"}
  BY <1>1 DEF Conflict, ConflictAfter, Tell, Idle
<1>3. \A d \in Clients \ {c} : handling'[d] = handling[d]
  BY <1>1 DEF Conflict, ConflictAfter, Tell
<1>4. DecisionsAreFounded'
  BY <1>2, <1>3 DEF IInv, DecisionsAreFounded, Founded, Phases
<1>5. \A d \in Clients : At(d, "written")' => d # c /\ At(d, "written")
  BY <1>2, <1>3 DEF At
<1> QED
  BY <1>3, <1>4, <1>5 DEF IInv, WriterIsAtTheEnd

\* A client goes on with a founded record that does not hold the row.
LEMMA ReplacedIsFounded ==
  ASSUME IInv, NEW c \in Clients, NEW h, handling' = [handling EXCEPT ![c] = h],
         Founded(h), h.phase # "written", UNCHANGED store,
         store \in Transactional => UNCHANGED stream
  PROVE  DecisionsAreFounded' /\ WriterIsAtTheEnd'
<1>1. DOMAIN handling = Clients
  BY DEF IInv, TypeInv, TypeOK
<1>2. handling'[c] = h /\ \A d \in Clients \ {c} : handling'[d] = handling[d]
  BY <1>1
<1>3. DecisionsAreFounded'
  BY <1>2 DEF IInv, DecisionsAreFounded, Founded
<1>4. \A d \in Clients : At(d, "written")' => d # c /\ At(d, "written")
  BY <1>2 DEF At
<1> QED
  BY <1>2, <1>3, <1>4 DEF IInv, WriterIsAtTheEnd

\* Versions match what they are compared with.
LEMMA MatchesNumber ==
  ASSUME NEW current, NEW expected \in Nat
  PROVE  matchesExpectedVersion(current, expected) <=> current = expected
<1>1. expected \notin {NO_CONCURRENCY_CHECK, STREAM_DOES_NOT_EXIST, STREAM_EXISTS}
  BY CommandAssumption
<1> QED
  BY <1>1 DEF matchesExpectedVersion

\* The name for no stream is matched by a version of 0 alone.
LEMMA MatchesNoStream ==
  ASSUME NEW current
  PROVE  matchesExpectedVersion(current, STREAM_DOES_NOT_EXIST) <=> current = 0
BY CommandAssumption DEF matchesExpectedVersion

\* What an append expects, by what was given and what was read.
LEMMA ExpectedByCase ==
  ASSUME NEW h
  PROVE  /\ h.option # NotGiven => expectedStreamVersion(h) = h.option
         /\ h.option = NotGiven /\ h.seen = 0 =>
              expectedStreamVersion(h) = STREAM_DOES_NOT_EXIST
         /\ h.option = NotGiven /\ h.seen # 0 =>
              expectedStreamVersion(h) = h.seen
BY DEF expectedStreamVersion

\* The version that a command which compares appends behind is what it has read.
LEMMA MatchingIsSeen ==
  ASSUME NEW h, NEW version \in Nat, h.seen \in Nat,
         h.phase \in Phases, Founded(h), Compared(h),
         store \notin Transactional,
         matchesExpectedVersion(version, expectedStreamVersion(h))
  PROVE  h.seen = version
<1>1. NotGiven \notin Nat
  BY CommandAssumption
<1>2. CASE h.option \in Nat
  <2>1. h.option # NotGiven
    BY <1>1, <1>2
  <2>2. version = h.option
    BY <1>2, <2>1, ExpectedByCase, MatchesNumber
  <2>3. store = "mongo" => h.seen # 0
    BY <2>1 DEF Compared
  <2> QED
    BY <1>2, <2>2, <2>3 DEF Founded
<1>3. CASE h.option = NotGiven /\ h.seen = 0
  <2>1. expectedStreamVersion(h) = STREAM_DOES_NOT_EXIST
    BY <1>3, ExpectedByCase
  <2> QED
    BY <1>3, <2>1, MatchesNoStream
<1>4. CASE h.option = NotGiven /\ h.seen # 0
  <2>1. expectedStreamVersion(h) = h.seen
    BY <1>4, ExpectedByCase
  <2> QED
    BY <2>1, MatchesNumber
<1> QED
  BY <1>2, <1>3, <1>4 DEF Compared

\* What a decision rests on is the stream as it was aggregated.
LEMMA AggregateIsFounded ==
  ASSUME IInv, NEW c \in Clients, NEW option \in ExpectedVersions, NEW tries,
         AggregateAndDecide(c, option, tries)
  PROVE  DecisionsAreFounded' /\ WriterIsAtTheEnd'
<1>1. CASE \E outcome \in {"unchanged", "failed"} : Tell(c, outcome)
  BY <1>1, EndedIsFounded DEF AggregateAndDecide, Outcomes
<1>2. CASE ConflictAfter(c, option, tries)
  <2>1. CASE Tell(c, "conflict")
    BY <2>1, EndedIsFounded DEF AggregateAndDecide, Outcomes
  <2>2. CASE ~Tell(c, "conflict")
    <3> DEFINE h == [phase |-> "retrying", option |-> option,
                     tries |-> tries + 1]
    <3>1. handling' = [handling EXCEPT ![c] = h]
      BY <1>2, <2>2 DEF ConflictAfter
    <3>2. Founded(h) /\ h.phase # "written"
      BY DEF Founded, Phases
    <3> HIDE DEF h
    <3> QED
      BY <3>1, <3>2, ReplacedIsFounded DEF AggregateAndDecide
  <2> QED
    BY <2>1, <2>2
<1>3. ASSUME NEW size \in 1..MaxAppendSize,
             CanRead(option),
             handling' = [handling EXCEPT
                     ![c] = [phase |-> "appending", option |-> option,
                             tries |-> tries, seen |-> Len(stream),
                             size |-> size, base |-> 0, done |-> 0,
                             found |-> <<>>]]
      PROVE  DecisionsAreFounded' /\ WriterIsAtTheEnd'
  <2> DEFINE h == [phase |-> "appending", option |-> option, tries |-> tries,
                   seen |-> Len(stream), size |-> size, base |-> 0,
                   done |-> 0, found |-> <<>>]
  <2>1. option \in Nat => \/ Len(stream) = option
                          \/ store = "mongo" /\ Len(stream) = 0
    <3>1. option \in Nat => option # NotGiven
      BY CommandAssumption
    <3> QED
      BY <1>3, <3>1, MatchesNumber DEF CanRead
  <2>2. Founded(h) /\ h.phase # "written"
    BY <2>1 DEF Founded
  <2>3. handling' = [handling EXCEPT ![c] = h]
    BY <1>3
  <2> HIDE DEF h
  <2> QED
    BY <2>2, <2>3, ReplacedIsFounded DEF AggregateAndDecide
<1> QED
  <2>1. CASE ~CanRead(option)
    BY <1>2, <2>1 DEF AggregateAndDecide
  <2>2. CASE CanRead(option)
    <3>1. (\E outcome \in {"unchanged", "failed"} : Tell(c, outcome)) \/
          \E size \in 1..MaxAppendSize :
            handling' = [handling EXCEPT
                     ![c] = [phase |-> "appending", option |-> option,
                             tries |-> tries, seen |-> Len(stream),
                             size |-> size, base |-> 0, done |-> 0,
                             found |-> <<>>]]
      BY <2>2 DEF AggregateAndDecide
    <3> QED
      BY <3>1, <2>2, <1>1, <1>3
  <2> QED
    BY <2>1, <2>2

\* Everything but an append leaves decisions founded and the writer alone.
LEMMA NextIsFounded ==
  IInv /\ [Next]_vars => DecisionsAreFounded' /\ WriterIsAtTheEnd'
<1> SUFFICES ASSUME IInv, [Next]_vars
             PROVE  DecisionsAreFounded' /\ WriterIsAtTheEnd'
  OBVIOUS
<1>1. CASE UNCHANGED vars
  BY <1>1 DEF vars, IInv, DecisionsAreFounded, Founded, WriterIsAtTheEnd, At
<1>2. ASSUME NEW c \in Clients, NEW option \in ExpectedVersions,
             Handle(c, option)
      PROVE  DecisionsAreFounded' /\ WriterIsAtTheEnd'
  BY <1>2, AggregateIsFounded DEF Handle
<1>3. ASSUME NEW c \in Clients, Retry(c)
      PROVE  DecisionsAreFounded' /\ WriterIsAtTheEnd'
  <2>1. handling[c].option \in ExpectedVersions
    BY <1>3, InHandByPhase DEF Retry, IInv, TypeInv, ToRetry
  <2> QED
    BY <1>3, <2>1, AggregateIsFounded DEF Retry
<1>a. ASSUME NEW c \in Clients, Working(c)
      PROVE  Founded(handling[c]) /\ handling[c] \in ToAppend
  BY <1>a, InHandByPhase DEF IInv, TypeInv, DecisionsAreFounded
<1>4. ASSUME NEW c \in Clients, AppendToMemory(c)
      PROVE  DecisionsAreFounded' /\ WriterIsAtTheEnd'
  <2>0. Working(c) /\ store = "memory"
    BY <1>4 DEF AppendToMemory, At, Working, Phases
  <2>1. CASE Conflict(c)
    BY <1>4, <2>0, <2>1, EndedIsFounded
       DEF AppendToMemory, WriterIsAtTheEnd, Transactional
  <2>2. CASE Step(c, "projecting")
    <3> DEFINE h == [handling[c] EXCEPT !.phase = "projecting"]
    <3>1. handling' = [handling EXCEPT ![c] = h]
      BY <2>2 DEF Step
    <3>2. Founded(h) /\ h.phase # "written"
      BY <2>0, <1>a DEF Founded, ToAppend, Working
    <3> HIDE DEF h
    <3> QED
      BY <1>4, <2>0, <3>1, <3>2, ReplacedIsFounded
         DEF AppendToMemory, Transactional
  <2> QED
    BY <1>4, <2>1, <2>2 DEF AppendToMemory
<1>5. ASSUME NEW c \in Clients, FindDocument(c)
      PROVE  DecisionsAreFounded' /\ WriterIsAtTheEnd'
  <2>0. Working(c)
    BY <1>5 DEF FindDocument, At, Working, Phases
  <2> DEFINE h == [handling[c] EXCEPT !.phase = "found", !.found = readModel]
  <2>1. handling' = [handling EXCEPT ![c] = h]
    BY <1>5 DEF FindDocument
  <2>2. Founded(h) /\ h.phase # "written"
    BY <2>0, <1>a DEF Founded, ToAppend, Working
  <2> HIDE DEF h
  <2> QED
    BY <1>5, <2>1, <2>2, ReplacedIsFounded DEF FindDocument
<1>6. ASSUME NEW c \in Clients, PutDocument(c)
      PROVE  DecisionsAreFounded' /\ WriterIsAtTheEnd'
  <2>0. Working(c)
    BY <1>6 DEF PutDocument, At, Working, Phases
  <2>1. CASE handling[c].done + 1 = handling[c].size
    BY <1>6, <2>1, EndedIsFounded DEF PutDocument, Outcomes
  <2>2. CASE handling[c].done + 1 # handling[c].size
    <3> DEFINE h == [handling[c] EXCEPT !.phase = "projecting",
                                        !.done = handling[c].done + 1,
                                        !.found = <<>>]
    <3>1. handling' = [handling EXCEPT ![c] = h]
      BY <1>6, <2>2 DEF PutDocument
    <3>2. Founded(h) /\ h.phase # "written"
      BY <2>0, <1>a DEF Founded, ToAppend, Working
    <3> HIDE DEF h
    <3> QED
      BY <1>6, <3>1, <3>2, ReplacedIsFounded DEF PutDocument
  <2> QED
    BY <2>1, <2>2
<1>7. ASSUME NEW c \in Clients, ReadPosition(c)
      PROVE  DecisionsAreFounded' /\ WriterIsAtTheEnd'
  <2>0. Working(c) /\ store \in Transactional
    BY <1>7 DEF ReadPosition, At, Working, Phases
  <2>1. CASE Conflict(c)
    BY <1>7, <2>1, EndedIsFounded DEF ReadPosition
  <2>2. CASE ~Conflict(c)
    <3> DEFINE base == IF hasExpectedNumber(expectedStreamVersion(handling[c]))
                         THEN expectedStreamVersion(handling[c])
                         ELSE Len(stream)
               h == [handling[c] EXCEPT !.phase = "positioned", !.base = base]
    <3>1. handling' = [handling EXCEPT ![c] = h]
      BY <1>7, <2>2 DEF ReadPosition
    <3>2. /\ expectedStreamVersion(h) = expectedStreamVersion(handling[c])
          /\ h.base = base /\ h.phase = "positioned"
          /\ h.seen = handling[c].seen /\ h.option = handling[c].option
      BY <2>0, <1>a DEF ToAppend, expectedStreamVersion
    <3>3. Founded(h) /\ h.phase # "written"
      <4> HIDE DEF h
      <4> QED
        BY <2>0, <1>a, <3>2 DEF Founded, Working, Transactional
    <3> HIDE DEF h
    <3> QED
      BY <1>7, <3>1, <3>3, ReplacedIsFounded DEF ReadPosition
  <2> QED
    BY <2>1, <2>2
<1>8. ASSUME NEW c \in Clients, WriteStream(c)
      PROVE  DecisionsAreFounded' /\ WriterIsAtTheEnd'
  <2>0. Working(c) /\ handling[c].phase = "positioned"
    BY <1>8 DEF WriteStream, At, Working, Phases
  <2>1. CASE Conflict(c)
    BY <1>8, <2>1, EndedIsFounded DEF WriteStream
  <2>2. CASE ~Conflict(c)
    <3> DEFINE h == [handling[c] EXCEPT !.phase = "written"]
    <3>1. /\ handling' = [handling EXCEPT ![c] = h]
          /\ handling[c].base = Len(stream)
      BY <1>8, <2>2 DEF WriteStream, Step
    <3>2. /\ expectedStreamVersion(h) = expectedStreamVersion(handling[c])
          /\ h.base = handling[c].base /\ h.phase = "written"
          /\ h.seen = handling[c].seen /\ h.option = handling[c].option
      BY <2>0, <1>a DEF ToAppend, expectedStreamVersion
    <3> HIDE DEF h
    <3>3. Founded(h)
      BY <2>0, <1>a, <3>2 DEF Founded, Working
    <3>4. /\ handling'[c] = h
          /\ \A d \in Clients \ {c} : handling'[d] = handling[d]
      BY <3>1 DEF IInv, TypeInv, TypeOK
    <3>5. UNCHANGED <<store, stream>>
      BY <1>8 DEF WriteStream
    <3>6. DecisionsAreFounded'
      BY <3>3, <3>4, <3>5 DEF IInv, DecisionsAreFounded, Founded
    <3>7. \A d \in Clients \ {c} : ~At(d, "written")
      BY <1>8 DEF WriteStream, RowIsFree
    <3> QED
      BY <3>1, <3>2, <3>4, <3>5, <3>6, <3>7 DEF WriterIsAtTheEnd, At
  <2> QED
    BY <2>1, <2>2
<1>9. ASSUME NEW c \in Clients, CommitAppend(c)
      PROVE  DecisionsAreFounded' /\ WriterIsAtTheEnd'
  BY <1>9, EndedIsFounded DEF CommitAppend, Outcomes, Answers
<1>10. ASSUME NEW c \in Clients, FindStream(c)
       PROVE  DecisionsAreFounded' /\ WriterIsAtTheEnd'
  <2>0. Working(c) /\ store = "mongo"
    BY <1>10 DEF FindStream, At, Working, Phases
  <2>1. CASE Conflict(c)
    BY <1>10, <2>1, EndedIsFounded DEF FindStream
  <2>2. CASE ~Conflict(c)
    <3> DEFINE h == [handling[c] EXCEPT !.phase = "positioned",
                                        !.base = Len(stream),
                                        !.found = readModel]
    <3>1. /\ handling' = [handling EXCEPT ![c] = h]
          /\ matchesExpectedVersion(Len(stream),
                                    expectedStreamVersion(handling[c]))
      BY <1>10, <2>2 DEF FindStream
    <3>2. /\ expectedStreamVersion(h) = expectedStreamVersion(handling[c])
          /\ h.base = Len(stream) /\ h.phase = "positioned"
          /\ h.seen = handling[c].seen /\ h.option = handling[c].option
      BY <2>0, <1>a DEF ToAppend, expectedStreamVersion
    <3> HIDE DEF h
    <3>3. Founded(h) /\ h.phase # "written"
      BY <2>0, <1>a, <3>1, <3>2 DEF Founded, Working, Transactional
    <3> QED
      BY <1>10, <3>1, <3>3, ReplacedIsFounded DEF FindStream
  <2> QED
    BY <2>1, <2>2
<1>11. ASSUME NEW c \in Clients, UpdateStream(c)
       PROVE  DecisionsAreFounded' /\ WriterIsAtTheEnd'
  BY <1>11, EndedIsFounded
     DEF UpdateStream, Outcomes, Answers, WriterIsAtTheEnd, Transactional
<1>12. ASSUME NEW c \in Clients, AppendToServer(c)
       PROVE  DecisionsAreFounded' /\ WriterIsAtTheEnd'
  BY <1>12, EndedIsFounded
     DEF AppendToServer, Outcomes, Answers, WriterIsAtTheEnd, Transactional
<1>13. ASSUME NEW c \in Clients, Fail(c)
       PROVE  DecisionsAreFounded' /\ WriterIsAtTheEnd'
  BY <1>13, EndedIsFounded
     DEF Fail, FailProjection, FailAppend, RollbackAppend, ViolateUniqueness,
         FailUpdate, Outcomes
<1> QED
  BY <1>1, <1>2, <1>3, <1>4, <1>5, <1>6, <1>7, <1>8, <1>9, <1>10, <1>11,
     <1>12, <1>13 DEF Next, Proceed

\* The inductive invariant.
LEMMA Invariance == Spec => []IInv
<1>1. Init => IInv
  BY InitTypes
     DEF IInv, Init, DecisionsAreFounded, Founded, WriterIsAtTheEnd, At, Idle,
         Phases
<1>2. IInv /\ [Next]_vars => IInv'
  BY NextTypes, NextIsFounded DEF IInv
<1> QED
  BY <1>1, <1>2, PTL DEF Spec

-----------------------------------------------------------------------------
(* Refinement *)

\* An append of a decision whose version is the stream's extends what was
\* promised by a whole append.
LEMMA AppendExtends ==
  ASSUME TypeOK, NEW c \in Clients, Working(c), UNCHANGED store,
         stream' = stream \o Decided(c),
         Compared(handling[c]) => handling[c].seen = Len(stream)
  PROVE  [Promise!Extend]_Promised
<1> DEFINE size == handling[c].size
           mapped(m) == [by |-> m.by, nr |-> m.nr, size |-> m.size,
                         seen |-> m.seen, compared |-> Compared(m)]
<1>1. /\ stream \in Seq(Appended) /\ Decided(c) \in Seq(Appended)
      /\ Len(Decided(c)) = size /\ size \in Nat \ {0}
      /\ Len(stream) \in Nat
  BY DecidedMessages DEF TypeOK
<1>2. /\ Len(stream') = Len(stream) + size
      /\ \A i \in 1..Len(stream) : stream'[i] = stream[i]
      /\ \A i \in 1..size : stream'[Len(stream) + i] = Decided(c)[i]
      /\ DOMAIN stream' = 1..Len(stream')
  BY <1>1
<1>4. /\ Promised = [i \in 1..Len(stream) |-> mapped(stream[i])]
      /\ Promised' = [i \in 1..(Len(stream) + size) |-> mapped(stream'[i])]
  <2>1. DOMAIN stream = 1..Len(stream)
    BY <1>1
  <2>2. Promised' = [i \in DOMAIN stream' |-> mapped(stream'[i])]
    BY DEF Promised, Compared
  <2> QED
    BY <2>1, <2>2, <1>2 DEF Promised
<1>5. /\ Len(Promised) = Len(stream) /\ Len(Promised') = Len(stream) + size
  BY <1>1, <1>4
<1>6. SubSeq(Promised', 1, Len(Promised)) = Promised
  BY <1>1, <1>2, <1>4, <1>5
<1>7. ASSUME NEW i \in 1..size
      PROVE  LET m == Promised'[Len(Promised) + i]
             IN  /\ m.nr = i
                 /\ m.size = size
                 /\ m.by = Promised'[Len(Promised) + 1].by
                 /\ m.compared => m.seen = Len(Promised)
  <2>1. /\ Decided(c)[i] =
             [by |-> <<c, Len(outcomes[c]) + 1>>, nr |-> i, size |-> size,
              seen |-> handling[c].seen, option |-> handling[c].option]
        /\ Decided(c)[1].by = <<c, Len(outcomes[c]) + 1>>
    <3>1. \A nr \in 1..size :
            Decided(c)[nr] =
              [by |-> <<c, Len(outcomes[c]) + 1>>, nr |-> nr, size |-> size,
               seen |-> handling[c].seen, option |-> handling[c].option]
      BY DecidedMessages
    <3>2. 1 \in 1..size
      BY <1>1
    <3>3. Decided(c)[1] =
              [by |-> <<c, Len(outcomes[c]) + 1>>, nr |-> 1, size |-> size,
               seen |-> handling[c].seen, option |-> handling[c].option]
      BY <3>1, <3>2
    <3> QED
      BY <3>1, <3>3
  <2>2. Compared(Decided(c)[i]) <=> Compared(handling[c])
    BY <2>1 DEF Compared
  <2>3. ASSUME NEW j \in 1..size
        PROVE  Promised'[Len(stream) + j] = mapped(Decided(c)[j])
    <3>1. Len(stream) + j \in 1..(Len(stream) + size)
      BY <1>1
    <3>2. Promised'[Len(stream) + j] = mapped(stream'[Len(stream) + j])
      BY <3>1, <1>4
    <3> QED
      BY <3>2, <1>2
  <2>4. /\ Promised'[Len(stream) + i] = mapped(Decided(c)[i])
        /\ Promised'[Len(stream) + 1] = mapped(Decided(c)[1])
    BY <1>1, <2>3
  <2>5. /\ Promised'[Len(Promised) + i].nr = i
        /\ Promised'[Len(Promised) + i].size = size
        /\ Promised'[Len(Promised) + i].seen = handling[c].seen
        /\ Promised'[Len(Promised) + i].by = <<c, Len(outcomes[c]) + 1>>
    BY <2>1, <2>4, <1>5
  <2>6. Promised'[Len(Promised) + 1].by = <<c, Len(outcomes[c]) + 1>>
    BY <2>1, <2>4, <1>5
  <2>7. Promised'[Len(Promised) + i].compared = Compared(Decided(c)[i])
    BY <2>4, <1>5
  <2> QED
    BY <2>2, <2>5, <2>6, <2>7, <1>5
<1>8. size \in 1..(Len(Promised') - Len(Promised))
  BY <1>1, <1>5
<1> QED
  BY <1>5, <1>6, <1>7, <1>8 DEF Promise!Extend

\* Every step extends the promised log by a whole decision, or not at all.
LEMMA NextExtends == IInv /\ [Next]_vars => [Promise!Extend]_Promised
<1> SUFFICES ASSUME IInv, [Next]_vars PROVE [Promise!Extend]_Promised
  OBVIOUS
<1>1. ASSUME UNCHANGED <<store, stream>> PROVE [Promise!Extend]_Promised
  BY <1>1 DEF Promised, Compared
<1>a. ASSUME NEW c \in Clients, Working(c)
      PROVE  /\ Founded(handling[c]) /\ handling[c].seen \in Nat
             /\ handling[c].option \in Nat \cup {NO_CONCURRENCY_CHECK,
                  STREAM_DOES_NOT_EXIST, STREAM_EXISTS, NotGiven}
  <2>1. handling[c] \in ToAppend
    BY <1>a, InHandByPhase DEF IInv, TypeInv
  <2> QED
    BY <1>a, <2>1, CommandAssumption DEF IInv, DecisionsAreFounded, ToAppend
<1>b. Len(stream) \in Nat
  BY DEF IInv, TypeInv, TypeOK
<1>2. ASSUME NEW c \in Clients, Working(c), UNCHANGED store,
             stream' = stream \o Decided(c),
             store # "mongo",
             matchesExpectedVersion(Len(stream),
                                    expectedStreamVersion(handling[c])),
             store \notin Transactional
      PROVE  [Promise!Extend]_Promised
  <2>1. Compared(handling[c]) => handling[c].seen = Len(stream)
    BY <1>2, <1>a, <1>b, MatchingIsSeen DEF Working
  <2> QED
    BY <1>2, <2>1, AppendExtends DEF IInv, TypeInv
<1>3. ASSUME NEW c \in Clients, CommitAppend(c)
      PROVE  [Promise!Extend]_Promised
  <2>1. Working(c) /\ handling[c].phase = "written" /\ store \in Transactional
    BY <1>3 DEF CommitAppend, At, Working, Phases
  <2>2. handling[c].base = Len(stream)
    BY <1>3, <2>1 DEF IInv, WriterIsAtTheEnd, At
  <2>3. hasExpectedNumber(expectedStreamVersion(handling[c])) =>
          expectedStreamVersion(handling[c]) = Len(stream)
    BY <2>1, <2>2, <1>a DEF Founded, Working
  <2>4. ASSUME Compared(handling[c]) PROVE handling[c].seen = Len(stream)
    <3>1. CASE handling[c].option \in Nat
      <4>1. expectedStreamVersion(handling[c]) = handling[c].option
        BY <3>1, ExpectedByCase, CommandAssumption
      <4>2. handling[c].seen = handling[c].option
        BY <2>1, <3>1, <1>a DEF Founded, Working, Transactional
      <4> QED
        BY <3>1, <4>1, <4>2, <2>3 DEF hasExpectedNumber
    <3>2. CASE handling[c].option = NotGiven
      <4>1. handling[c].seen # 0
        BY <2>1, <2>4, <3>2 DEF Compared
      <4>2. expectedStreamVersion(handling[c]) = handling[c].seen
        BY <3>2, <4>1, ExpectedByCase
      <4> QED
        BY <2>1, <4>2, <2>3, <1>a DEF hasExpectedNumber
    <3> QED
      BY <2>4, <3>1, <3>2 DEF Compared
  <2> QED
    BY <1>3, <2>1, <2>4, AppendExtends DEF IInv, TypeInv, CommitAppend
<1>4. ASSUME NEW c \in Clients, UpdateStream(c)
      PROVE  [Promise!Extend]_Promised
  <2>1. Working(c) /\ handling[c].phase = "positioned" /\ store = "mongo"
    BY <1>4 DEF UpdateStream, At, Working, Phases
  <2>2. CASE StreamIsAtPosition(c)
    <3>1. matchesExpectedVersion(Len(stream),
                                 expectedStreamVersion(handling[c]))
      BY <2>1, <2>2, <1>a DEF Founded, Working, StreamIsAtPosition
    <3>2. Compared(handling[c]) => handling[c].seen = Len(stream)
      BY <2>1, <3>1, <1>a, <1>b, MatchingIsSeen DEF Working, Transactional
    <3> QED
      BY <1>4, <2>1, <2>2, <3>2, AppendExtends DEF IInv, TypeInv, UpdateStream
  <2>3. CASE ~StreamIsAtPosition(c)
    BY <1>1, <1>4, <2>3 DEF UpdateStream
  <2> QED
    BY <2>2, <2>3
<1>5. ASSUME NEW c \in Clients, AppendToMemory(c) \/ AppendToServer(c)
      PROVE  [Promise!Extend]_Promised
  <2>1. /\ Working(c) /\ store \in {"memory", "esdb"} /\ UNCHANGED store
        /\ \/ UNCHANGED stream
           \/ /\ stream' = stream \o Decided(c)
              /\ matchesExpectedVersion(Len(stream),
                                        expectedStreamVersion(handling[c]))
    BY <1>5 DEF AppendToMemory, AppendToServer, At, Working, Phases
  <2>2. store # "mongo" /\ store \notin Transactional
    BY <2>1 DEF Transactional
  <2> QED
    BY <2>1, <2>2, <1>1, <1>2
<1> QED
  BY <1>1, <1>3, <1>4, <1>5
     DEF Next, Proceed, Fail, vars, Handle, Retry, AggregateAndDecide,
         FindDocument, PutDocument, ReadPosition, WriteStream, FindStream,
         FailProjection, FailAppend, RollbackAppend, ViolateUniqueness, FailUpdate

\* Command handlers implement compare-and-append: the state that a decision was
\* made on is the state it is appended to, over any of the stores.
THEOREM CommandHandlingImplementsCompareAndAppend ==
  Spec => ImplementsCompareAndAppend
<1>1. Init => Promise!Init
  BY DEF Init, Promise!Init, Promised
<1> QED
  BY <1>1, Invariance, NextExtends, PTL
     DEF Spec, ImplementsCompareAndAppend, Promise!Spec

-----------------------------------------------------------------------------
(* What callers are told *)

\* The in-memory store has appended, and runs the inline projection.
Projecting(c) == At(c, "projecting") \/ At(c, "found")

\* All messages of one decision are there.
Whole(c, k) ==
  /\ AppendedBy(c, k) # {}
  /\ \A i \in AppendedBy(c, k) :
       Cardinality(AppendedBy(c, k)) = stream[i].size

\* What is in the stream was appended by a call that is answered, or by one
\* that only its projection keeps from being answered.
AppendedIsCounted ==
  \A c \in Clients : \A k \in Nat :
    AppendedBy(c, k) # {} =>
      \/ k <= Len(outcomes[c])
      \/ k = Len(outcomes[c]) + 1 /\ Projecting(c)

ProjectedIsWhole ==
  \A c \in Clients : \A k \in Nat :
    Projecting(c) /\ k = Len(outcomes[c]) + 1 => Whole(c, k)

TruthInv == AppendedIsCounted /\ ProjectedIsWhole /\ CallersAreToldTheTruth

\* What a step of a client does to the stream and to its answers: it goes on,
\* it is answered, or it appends what was decided.
GoesOn(c) ==
  /\ stream' = stream /\ outcomes'[c] = outcomes[c]
  /\ Projecting(c)' <=> Projecting(c)

IsAnswered(c) ==
  /\ stream' = stream /\ ~Projecting(c)'
  /\ \E outcome \in Outcomes :
       /\ outcomes'[c] = Append(outcomes[c], outcome)
       /\ outcome = "appended" => Projecting(c)
       /\ Projecting(c) => outcome \in Answers

Appends(c) ==
  /\ Working(c) /\ ~Projecting(c)
  /\ stream' = stream \o Decided(c)
  /\ \/ outcomes'[c] = outcomes[c] /\ Projecting(c)'
     \/ /\ \E answer \in Answers : outcomes'[c] = Append(outcomes[c], answer)
        /\ ~Projecting(c)'

OthersWait(c) ==
  /\ store' = store
  /\ \A d \in Clients \ {c} : /\ handling'[d] = handling[d]
                              /\ outcomes'[d] = outcomes[d]

StepTells(c) == OthersWait(c) /\ (GoesOn(c) \/ IsAnswered(c) \/ Appends(c))

\* After a call that is answered, and after a conflict.
LEMMA AnswerTells ==
  ASSUME TypeOK, NEW c \in Clients, NEW outcome \in Outcomes,
         Tell(c, outcome)
  PROVE  /\ outcomes'[c] = Append(outcomes[c], outcome)
         /\ ~Projecting(c)'
         /\ \A d \in Clients \ {c} : /\ handling'[d] = handling[d]
                                     /\ outcomes'[d] = outcomes[d]
BY DEF TypeOK, Tell, Projecting, At, Idle

\* A conflict is answered or leads to a retry; neither touches the stream.
LEMMA ConflictTells ==
  ASSUME TypeOK, NEW c \in Clients, NEW option, NEW tries,
         ConflictAfter(c, option, tries), ~Projecting(c),
         UNCHANGED <<store, stream>>
  PROVE  StepTells(c)
<1>1. CASE Tell(c, "conflict")
  <2>1. /\ outcomes'[c] = Append(outcomes[c], "conflict")
        /\ ~Projecting(c)'
        /\ OthersWait(c)
    BY <1>1, AnswerTells DEF Outcomes, OthersWait
  <2> QED
    BY <2>1 DEF StepTells, IsAnswered, Outcomes
<1>2. CASE ~Tell(c, "conflict")
  <2>1. /\ handling' = [handling EXCEPT
              ![c] = [phase |-> "retrying", option |-> option,
                      tries |-> tries + 1]]
        /\ outcomes' = outcomes
    BY <1>2 DEF ConflictAfter
  <2>2. handling'[c].phase = "retrying"
    BY <2>1 DEF TypeOK
  <2>3. OthersWait(c)
    BY <2>1 DEF TypeOK, OthersWait
  <2> QED
    BY <2>1, <2>2, <2>3 DEF StepTells, GoesOn, Projecting, At
<1> QED
  BY <1>1, <1>2

\* Who is at some other phase of its command after a step goes on.
LEMMA ReplacedGoesOn ==
  ASSUME TypeOK, NEW c \in Clients, NEW h,
         handling' = [handling EXCEPT ![c] = h],
         UNCHANGED <<store, stream, outcomes>>,
         Projecting(c) <=> h.phase \in {"projecting", "found"}
  PROVE  StepTells(c)
BY DEF TypeOK, StepTells, GoesOn, OthersWait, Projecting, At

\* Aggregating and deciding answers the call, or goes on with it.
LEMMA AggregateTells ==
  ASSUME TypeOK, NEW c \in Clients, NEW option, NEW tries, ~Projecting(c),
         AggregateAndDecide(c, option, tries)
  PROVE  StepTells(c)
<1>1. UNCHANGED <<store, stream>>
  BY DEF AggregateAndDecide
<1>2. CASE ConflictAfter(c, option, tries)
  BY <1>1, <1>2, ConflictTells
<1>3. ASSUME NEW outcome \in {"unchanged", "failed"}, Tell(c, outcome)
      PROVE  StepTells(c)
  <2>1. outcome \in Outcomes /\ outcome # "appended"
    BY DEF Outcomes
  <2>2. /\ outcomes'[c] = Append(outcomes[c], outcome)
        /\ ~Projecting(c)'
        /\ OthersWait(c)
    BY <1>1, <1>3, <2>1, AnswerTells DEF OthersWait
  <2> QED
    BY <1>1, <2>1, <2>2 DEF StepTells, IsAnswered
<1>4. ASSUME NEW size \in 1..MaxAppendSize,
             handling' = [handling EXCEPT
                     ![c] = [phase |-> "appending", option |-> option,
                             tries |-> tries, seen |-> Len(stream),
                             size |-> size, base |-> 0, done |-> 0,
                             found |-> <<>>]],
             UNCHANGED outcomes
      PROVE  StepTells(c)
  <2> DEFINE h == [phase |-> "appending", option |-> option, tries |-> tries,
                   seen |-> Len(stream), size |-> size, base |-> 0,
                   done |-> 0, found |-> <<>>]
  <2>1. handling' = [handling EXCEPT ![c] = h] /\ h.phase = "appending"
    BY <1>4
  <2> HIDE DEF h
  <2> QED
    BY <1>1, <1>4, <2>1, ReplacedGoesOn
<1> QED
  BY <1>2, <1>3, <1>4 DEF AggregateAndDecide

StepOf(c) ==
  (\E option \in ExpectedVersions : Handle(c, option)) \/ Proceed(c) \/ Fail(c)

\* Every step is one of these, of one client.
LEMMA NextTells ==
  ASSUME TypeInv, NEW client \in Clients, StepOf(client)
  PROVE  StepTells(client)
<1>a. TypeOK
  BY DEF TypeInv
<1>b. ASSUME NEW c \in Clients, NEW outcome \in Outcomes, Tell(c, outcome),
             UNCHANGED <<store, stream>>,
             outcome = "appended" => Projecting(c),
             Projecting(c) => outcome \in Answers
      PROVE  StepTells(c)
  <2>1. /\ outcomes'[c] = Append(outcomes[c], outcome)
        /\ ~Projecting(c)'
        /\ OthersWait(c)
    BY <1>a, <1>b, AnswerTells DEF OthersWait
  <2> QED
    BY <1>b, <2>1 DEF StepTells, IsAnswered
<1>c. ASSUME NEW c \in Clients, \E answer \in Answers : Tell(c, answer),
             UNCHANGED store,
             stream' = stream \o Decided(c), Working(c), ~Projecting(c)
      PROVE  StepTells(c)
  <2>0. PICK answer \in Answers : Tell(c, answer)
    BY <1>c
  <2>1. /\ outcomes'[c] = Append(outcomes[c], answer)
        /\ ~Projecting(c)'
        /\ OthersWait(c)
    BY <1>a, <1>c, <2>0, AnswerTells DEF OthersWait, Outcomes, Answers
  <2> QED
    BY <1>c, <2>1 DEF StepTells, Appends
<1>d. /\ "appended" \in Outcomes /\ "failed" \in Outcomes
      /\ "appended" \in Answers /\ "failed" \in Answers
  BY DEF Outcomes, Answers
<1>1. ASSUME NEW c \in Clients, NEW option \in ExpectedVersions,
             Handle(c, option) \/ Retry(c)
      PROVE  StepTells(c)
  BY <1>a, <1>1, AggregateTells DEF Handle, Retry, Projecting, At
<1>2. ASSUME NEW c \in Clients, AppendToMemory(c) PROVE StepTells(c)
  <2>1. Working(c) /\ ~Projecting(c) /\ UNCHANGED store
    BY <1>2 DEF AppendToMemory, At, Working, Phases, Projecting
  <2>2. CASE Conflict(c) /\ UNCHANGED stream
    BY <1>a, <2>1, <2>2, ConflictTells DEF Conflict
  <2>3. CASE stream' = stream \o Decided(c) /\ Step(c, "projecting")
    <3>1. OthersWait(c) /\ Projecting(c)' /\ outcomes'[c] = outcomes[c]
      BY <1>a, <2>1, <2>3 DEF TypeOK, Step, OthersWait, Projecting, At
    <3> QED
      BY <2>1, <2>3, <3>1 DEF StepTells, Appends
  <2> QED
    BY <1>2, <2>2, <2>3 DEF AppendToMemory
<1>3. ASSUME NEW c \in Clients, FindDocument(c) PROVE StepTells(c)
  <2> DEFINE h == [handling[c] EXCEPT !.phase = "found", !.found = readModel]
  <2>1. handling' = [handling EXCEPT ![c] = h] /\ Projecting(c)
    BY <1>3 DEF FindDocument, Projecting
  <2>2. h.phase = "found"
    <3>1. handling[c] \in ToAppend
      BY <1>3, <1>a, InHandByPhase DEF FindDocument, At, Working, Phases
    <3> QED
      BY <3>1 DEF ToAppend
  <2> HIDE DEF h
  <2> QED
    BY <1>3, <1>a, <2>1, <2>2, ReplacedGoesOn DEF FindDocument
<1>4. ASSUME NEW c \in Clients, PutDocument(c) PROVE StepTells(c)
  <2>1. Projecting(c) /\ store = "memory" /\ UNCHANGED <<store, stream>>
    BY <1>4 DEF PutDocument, Projecting
  <2>2. CASE handling[c].done + 1 = handling[c].size
    BY <1>4, <1>b, <1>d, <2>1, <2>2 DEF PutDocument
  <2>3. CASE handling[c].done + 1 # handling[c].size
    <3> DEFINE h == [handling[c] EXCEPT !.phase = "projecting",
                                        !.done = handling[c].done + 1,
                                        !.found = <<>>]
    <3>1. handling' = [handling EXCEPT ![c] = h] /\ UNCHANGED outcomes
      BY <1>4, <2>3 DEF PutDocument
    <3>2. h.phase = "projecting"
      <4>1. handling[c] \in ToAppend
        BY <1>4, <1>a, InHandByPhase DEF PutDocument, At, Working, Phases
      <4> QED
        BY <4>1 DEF ToAppend
    <3> HIDE DEF h
    <3> QED
      BY <1>a, <2>1, <3>1, <3>2, ReplacedGoesOn
  <2> QED
    BY <2>2, <2>3
<1>5. ASSUME NEW c \in Clients, ReadPosition(c) PROVE StepTells(c)
  <2>1. ~Projecting(c) /\ UNCHANGED <<store, stream>>
    BY <1>5 DEF ReadPosition, Projecting, At
  <2>2. CASE Conflict(c)
    BY <1>a, <2>1, <2>2, ConflictTells DEF Conflict
  <2>3. CASE ~Conflict(c)
    <3> DEFINE base == IF hasExpectedNumber(expectedStreamVersion(handling[c]))
                         THEN expectedStreamVersion(handling[c])
                         ELSE Len(stream)
               h == [handling[c] EXCEPT !.phase = "positioned", !.base = base]
    <3>1. handling' = [handling EXCEPT ![c] = h] /\ UNCHANGED outcomes
      BY <1>5, <2>3 DEF ReadPosition
    <3>2. h.phase = "positioned"
      <4>1. handling[c] \in ToAppend
        BY <1>5, <1>a, InHandByPhase DEF ReadPosition, At, Working, Phases
      <4> QED
        BY <4>1 DEF ToAppend
    <3> HIDE DEF h
    <3> QED
      BY <1>a, <2>1, <3>1, <3>2, ReplacedGoesOn
  <2> QED
    BY <2>2, <2>3
<1>6. ASSUME NEW c \in Clients, WriteStream(c) PROVE StepTells(c)
  <2>1. ~Projecting(c) /\ UNCHANGED <<store, stream>>
    BY <1>6 DEF WriteStream, Projecting, At
  <2>2. CASE Conflict(c)
    BY <1>a, <2>1, <2>2, ConflictTells DEF Conflict
  <2>3. CASE Step(c, "written")
    <3> DEFINE h == [handling[c] EXCEPT !.phase = "written"]
    <3>1. handling' = [handling EXCEPT ![c] = h] /\ UNCHANGED outcomes
      BY <2>3 DEF Step
    <3>2. h.phase = "written"
      <4>1. handling[c] \in ToAppend
        BY <1>6, <1>a, InHandByPhase DEF WriteStream, At, Working, Phases
      <4> QED
        BY <4>1 DEF ToAppend
    <3> HIDE DEF h
    <3> QED
      BY <1>a, <2>1, <3>1, <3>2, ReplacedGoesOn
  <2> QED
    BY <1>6, <2>2, <2>3 DEF WriteStream
<1>7. ASSUME NEW c \in Clients, CommitAppend(c) PROVE StepTells(c)
  BY <1>7, <1>c DEF CommitAppend, At, Working, Phases, Projecting
<1>8. ASSUME NEW c \in Clients, FindStream(c) PROVE StepTells(c)
  <2>1. ~Projecting(c) /\ UNCHANGED <<store, stream>>
    BY <1>8 DEF FindStream, Projecting, At
  <2>2. CASE Conflict(c)
    BY <1>a, <2>1, <2>2, ConflictTells DEF Conflict
  <2>3. CASE ~Conflict(c)
    <3> DEFINE h == [handling[c] EXCEPT !.phase = "positioned",
                                        !.base = Len(stream),
                                        !.found = readModel]
    <3>1. handling' = [handling EXCEPT ![c] = h] /\ UNCHANGED outcomes
      BY <1>8, <2>3 DEF FindStream
    <3>2. h.phase = "positioned"
      <4>1. handling[c] \in ToAppend
        BY <1>8, <1>a, InHandByPhase DEF FindStream, At, Working, Phases
      <4> QED
        BY <4>1 DEF ToAppend
    <3> HIDE DEF h
    <3> QED
      BY <1>a, <2>1, <3>1, <3>2, ReplacedGoesOn
  <2> QED
    BY <2>2, <2>3
<1>9. ASSUME NEW c \in Clients, UpdateStream(c) PROVE StepTells(c)
  <2>1. Working(c) /\ ~Projecting(c)
    BY <1>9 DEF UpdateStream, At, Working, Phases, Projecting
  <2> QED
    BY <1>9, <1>b, <1>c, <1>d, <2>1 DEF UpdateStream
<1>10. ASSUME NEW c \in Clients, AppendToServer(c) PROVE StepTells(c)
  <2>1. Working(c) /\ ~Projecting(c) /\ UNCHANGED store
    BY <1>10 DEF AppendToServer, At, Working, Phases, Projecting
  <2>2. CASE Conflict(c) /\ UNCHANGED stream
    BY <1>a, <2>1, <2>2, ConflictTells DEF Conflict
  <2> QED
    BY <1>10, <1>c, <2>1, <2>2 DEF AppendToServer
<1>11. ASSUME NEW c \in Clients, Fail(c) PROVE StepTells(c)
  <2>1. CASE FailProjection(c)
    BY <1>b, <1>d, <2>1 DEF FailProjection, At, Projecting
  <2>2. CASE RollbackAppend(c)
    BY <1>b, <1>d, <2>2 DEF RollbackAppend, At, Projecting
  <2>3. CASE ViolateUniqueness(c)
    BY <1>a, <2>3, ConflictTells DEF ViolateUniqueness, Conflict, At, Projecting
  <2>4. CASE FailUpdate(c)
    BY <1>b, <1>d, <2>4 DEF FailUpdate, At, Projecting
  <2>5. CASE FailAppend(c)
    BY <1>b, <1>d, <2>5 DEF FailAppend, At, Projecting
  <2> QED
    BY <1>11, <2>1, <2>2, <2>3, <2>4, <2>5 DEF Fail
<1> QED
  <2>1. ASSUME NEW c \in Clients, Proceed(c) PROVE StepTells(c)
    <3>1. CASE Retry(c)
      <4>1. handling[c].option \in ExpectedVersions
        BY <1>a, <3>1, InHandByPhase DEF Retry, ToRetry
      <4> QED
        BY <3>1, <4>1, <1>1
    <3> QED
      BY <2>1, <3>1, <1>2, <1>3, <1>4, <1>5, <1>6, <1>7, <1>8, <1>9, <1>10
         DEF Proceed
  <2> QED
    BY <1>1, <1>11, <2>1 DEF StepOf

\* Where the messages of a call are, when what was decided is appended.
LEMMA AppendedAfter ==
  ASSUME TypeInv, AppendedIsCounted, NEW c \in Clients, Appends(c),
         NEW k \in Nat, k = Len(outcomes[c]) + 1
  PROVE  /\ \A d \in Clients : \A l \in Nat :
              d # c \/ l # k =>
                /\ AppendedBy(d, l)' = AppendedBy(d, l)
                /\ \A i \in AppendedBy(d, l) : stream'[i] = stream[i]
         /\ Whole(c, k)'
<1> DEFINE size == handling[c].size
           new == (Len(stream) + 1)..(Len(stream) + size)
<1>1. /\ stream \in Seq(Appended) /\ Decided(c) \in Seq(Appended)
      /\ Len(Decided(c)) = size /\ size \in Nat \ {0}
      /\ Len(stream) \in Nat
  BY DecidedMessages DEF TypeInv, TypeOK, Appends
<1>2. \A nr \in 1..size : /\ Decided(c)[nr].by = <<c, k>>
                          /\ Decided(c)[nr].size = size
  <2>0. TypeOK /\ Working(c)
    BY DEF TypeInv, Appends
  <2>1. \A nr \in 1..size :
          Decided(c)[nr] =
            [by |-> <<c, Len(outcomes[c]) + 1>>, nr |-> nr, size |-> size,
             seen |-> handling[c].seen, option |-> handling[c].option]
    BY <2>0, DecidedMessages
  <2> DEFINE by == <<c, Len(outcomes[c]) + 1>>
  <2>2. \A nr \in 1..size : Decided(c)[nr].by = by /\ Decided(c)[nr].size = size
    <3> SUFFICES ASSUME NEW nr \in 1..size
                 PROVE  Decided(c)[nr].by = by /\ Decided(c)[nr].size = size
      OBVIOUS
    <3>1. Decided(c)[nr] =
            [by |-> by, nr |-> nr, size |-> size, seen |-> handling[c].seen,
             option |-> handling[c].option]
      BY <2>1
    <3> HIDE DEF by, size
    <3> QED
      BY ONLY <3>1
  <2>3. k = Len(outcomes[c]) + 1
    OBVIOUS
  <2> HIDE DEF size
  <2> QED
    BY ONLY <2>2, <2>3, Zenon
<1>3. /\ stream' = stream \o Decided(c)
      /\ DOMAIN stream = 1..Len(stream)
      /\ DOMAIN stream' = 1..(Len(stream) + size)
      /\ \A i \in DOMAIN stream : i \in DOMAIN stream' /\ stream'[i] = stream[i]
      /\ \A i \in new : /\ i \in DOMAIN stream' /\ i - Len(stream) \in 1..size
                        /\ stream'[i] = Decided(c)[i - Len(stream)]
      /\ \A i \in DOMAIN stream' : i \in DOMAIN stream \/ i \in new
      /\ \A i \in new : i \notin DOMAIN stream
  BY <1>1 DEF Appends
<1>4. \A i \in new : stream'[i].by = <<c, k>> /\ stream'[i].size = size
  <2> SUFFICES ASSUME NEW i \in new
               PROVE  stream'[i].by = <<c, k>> /\ stream'[i].size = size
    OBVIOUS
  <2>1. PICK nr \in 1..size : stream'[i] = Decided(c)[nr]
    BY <1>3
  <2>2. Decided(c)[nr].by = <<c, k>> /\ Decided(c)[nr].size = size
    BY <1>2
  <2> HIDE DEF size, new
  <2> QED
    BY ONLY <2>1, <2>2
<1>5. AppendedBy(c, k) = {}
  <2>1. ~Projecting(c) /\ Len(outcomes[c]) \in Nat
    BY DEF Appends, TypeInv, TypeOK
  <2> QED
    BY <1>1, <2>1 DEF AppendedIsCounted
<1>6. AppendedBy(c, k)' = new
  <2>1. AppendedBy(c, k)' = {i \in DOMAIN stream' : stream'[i].by = <<c, k>>}
    BY DEF AppendedBy
  <2>2. \A i \in DOMAIN stream : stream[i].by # <<c, k>>
    BY <1>5 DEF AppendedBy
  <2>3. new \subseteq DOMAIN stream'
    BY <1>3
  <2> HIDE DEF new
  <2>4. \A i \in DOMAIN stream' : stream'[i].by = <<c, k>> <=> i \in new
    BY <1>3, <1>4, <2>2
  <2> QED
    BY <2>1, <2>3, <2>4
<1>7. Cardinality(new) = size /\ new # {}
  <2>1. Len(stream) + 1 \in Int /\ Len(stream) + size \in Int
    BY <1>1
  <2>2. Cardinality(new) = IF Len(stream) + 1 > Len(stream) + size THEN 0
                           ELSE (Len(stream) + size) - (Len(stream) + 1) + 1
    BY <2>1, FS_Interval
  <2>3. Len(stream) + 1 \in new
    BY <1>1
  <2>4. Cardinality(new) = size
    BY <1>1, <2>2
  <2> QED
    BY <2>3, <2>4
<1>8. /\ AppendedBy(c, k)' # {}
      /\ \A i \in AppendedBy(c, k)' :
           Cardinality(AppendedBy(c, k)') = stream'[i].size
  BY <1>4, <1>6, <1>7
<1>9. ASSUME NEW d \in Clients, NEW l \in Nat, d # c \/ l # k
      PROVE  /\ AppendedBy(d, l)' = AppendedBy(d, l)
             /\ \A i \in AppendedBy(d, l) : stream'[i] = stream[i]
  <2>1. \A i \in new : stream'[i].by # <<d, l>>
    BY <1>4, <1>9
  <2> HIDE DEF new
  <2> QED
    BY <1>3, <2>1 DEF AppendedBy
<1> QED
  BY <1>8, <1>9 DEF Whole

\* The truth stays the truth, in each of the three cases.
LEMMA TruthKept ==
  ASSUME TypeInv, TruthInv, NEW c \in Clients, StepTells(c)
  PROVE  TruthInv'
<1>1. \A d \in Clients : /\ outcomes[d] \in Seq(Outcomes)
                         /\ Len(outcomes[d]) \in Nat
                         /\ DOMAIN outcomes[d] = 1..Len(outcomes[d])
  BY DEF TypeInv, TypeOK
<1>a. PICK last \in Nat : last = Len(outcomes[c])
  BY <1>1
<1>2. \A d \in Clients \ {c} :
        outcomes'[d] = outcomes[d] /\ (Projecting(d)' <=> Projecting(d))
  BY DEF StepTells, OthersWait, Projecting, At
<1>3. ASSUME NEW outcome \in Outcomes,
             outcomes'[c] = Append(outcomes[c], outcome)
      PROVE  /\ Len(outcomes'[c]) = last + 1
             /\ DOMAIN outcomes'[c] = 1..(last + 1)
             /\ \A k \in 1..last : outcomes'[c][k] = outcomes[c][k]
             /\ outcomes'[c][last + 1] = outcome
  BY <1>1, <1>3, <1>a
<1>4. ASSUME stream' = stream
      PROVE  \A d \in Clients : \A k \in Nat :
               /\ AppendedBy(d, k)' = AppendedBy(d, k)
               /\ Whole(d, k)' <=> Whole(d, k)
  BY <1>4 DEF AppendedBy, Whole
<1>5. /\ \A d \in Clients : \A k \in DOMAIN outcomes[d] :
           /\ k \in Nat
           /\ \/ outcomes[d][k] \in Answers /\ Whole(d, k)
              \/ outcomes[d][k] # "appended" /\ AppendedBy(d, k) = {}
      /\ \A d \in Clients : \A k \in Nat :
           /\ AppendedBy(d, k) # {} =>
                \/ k <= Len(outcomes[d])
                \/ k = Len(outcomes[d]) + 1 /\ Projecting(d)
           /\ Projecting(d) /\ k = Len(outcomes[d]) + 1 => Whole(d, k)
  <2>1. \A d \in Clients : \A k \in DOMAIN outcomes[d] :
           /\ k \in Nat
           /\ \/ outcomes[d][k] \in Answers /\ Whole(d, k)
              \/ outcomes[d][k] # "appended" /\ AppendedBy(d, k) = {}
    <3> SUFFICES ASSUME NEW d \in Clients, NEW k \in DOMAIN outcomes[d]
                 PROVE  /\ k \in Nat
                        /\ \/ outcomes[d][k] \in Answers /\ Whole(d, k)
                           \/ outcomes[d][k] # "appended" /\ AppendedBy(d, k) = {}
      OBVIOUS
    <3>1. k \in Nat /\ outcomes[d][k] \in Outcomes
      BY <1>1
    <3>2. /\ outcomes[d][k] = "appended" => AppendedBy(d, k) # {}
          /\ outcomes[d][k] \in {"unchanged", "conflict"} => AppendedBy(d, k) = {}
          /\ \A i \in AppendedBy(d, k) :
               Cardinality(AppendedBy(d, k)) = stream[i].size
      BY DEF TruthInv, CallersAreToldTheTruth
    <3> QED
      BY <3>1, <3>2 DEF Outcomes, Answers, Whole
  <2>2. \A d \in Clients : \A k \in Nat :
           /\ AppendedBy(d, k) # {} =>
                \/ k <= Len(outcomes[d])
                \/ k = Len(outcomes[d]) + 1 /\ Projecting(d)
           /\ Projecting(d) /\ k = Len(outcomes[d]) + 1 => Whole(d, k)
    BY DEF TruthInv, AppendedIsCounted, ProjectedIsWhole
  <2> QED
    BY <2>1, <2>2
<1>6. ASSUME \A d \in Clients : \A k \in DOMAIN outcomes'[d] :
               \/ outcomes'[d][k] \in Answers /\ Whole(d, k)'
               \/ outcomes'[d][k] # "appended" /\ AppendedBy(d, k)' = {}
      PROVE  CallersAreToldTheTruth'
  BY <1>6 DEF CallersAreToldTheTruth, Whole, Answers
<1>7. CASE GoesOn(c)
  <2>1. /\ stream' = stream
        /\ \A d \in Clients :
             outcomes'[d] = outcomes[d] /\ (Projecting(d)' <=> Projecting(d))
    BY <1>2, <1>7 DEF GoesOn
  <2>2. AppendedIsCounted' /\ ProjectedIsWhole'
    BY <1>4, <1>5, <2>1 DEF AppendedIsCounted, ProjectedIsWhole
  <2>3. CallersAreToldTheTruth'
    BY <1>4, <1>5, <1>6, <2>1
  <2> QED
    BY <2>2, <2>3 DEF TruthInv
<1>8. CASE IsAnswered(c)
  <2>1. PICK outcome \in Outcomes :
          /\ outcomes'[c] = Append(outcomes[c], outcome)
          /\ outcome = "appended" => Projecting(c)
          /\ Projecting(c) => outcome \in Answers
    BY <1>8 DEF IsAnswered
  <2>2. /\ Len(outcomes'[c]) = last + 1
        /\ DOMAIN outcomes'[c] = 1..(last + 1)
        /\ \A k \in 1..last : outcomes'[c][k] = outcomes[c][k]
        /\ outcomes'[c][last + 1] = outcome
    BY <1>3, <2>1
  <2>3. stream' = stream /\ ~Projecting(c)' /\ last = Len(outcomes[c])
    BY <1>8, <1>a DEF IsAnswered
  <2>4. AppendedIsCounted' /\ ProjectedIsWhole'
    <3> SUFFICES ASSUME NEW d \in Clients, NEW k \in Nat
                 PROVE  /\ AppendedBy(d, k)' # {} =>
                             \/ k <= Len(outcomes'[d])
                             \/ k = Len(outcomes'[d]) + 1 /\ Projecting(d)'
                        /\ Projecting(d)' /\ k = Len(outcomes'[d]) + 1 =>
                             Whole(d, k)'
      BY DEF AppendedIsCounted, ProjectedIsWhole
    <3>1. CASE d = c
      BY <1>1, <1>4, <1>5, <2>2, <2>3, <3>1
    <3>2. CASE d # c
      BY <1>2, <1>4, <1>5, <2>3, <3>2
    <3> QED
      BY <3>1, <3>2
  <2>5. CallersAreToldTheTruth'
    <3> SUFFICES ASSUME NEW d \in Clients, NEW k \in DOMAIN outcomes'[d]
                 PROVE  \/ outcomes'[d][k] \in Answers /\ Whole(d, k)'
                        \/ outcomes'[d][k] # "appended" /\ AppendedBy(d, k)' = {}
      BY <1>6
    <3>1. CASE d # c
      BY <1>2, <1>4, <1>5, <2>3, <3>1
    <3>2. CASE d = c /\ k # last + 1
      <4>1. k \in 1..last /\ k \in DOMAIN outcomes[c]
        BY <1>1, <2>2, <2>3, <3>2
      <4> QED
        BY <1>4, <1>5, <2>2, <2>3, <3>2, <4>1
    <3>3. CASE d = c /\ k = last + 1
      <4>1. k \in Nat /\ outcomes'[d][k] = outcome
        BY <1>1, <2>2, <3>3
      <4>2. Projecting(c) => Whole(c, k)
        BY <1>5, <2>3, <3>3, <4>1
      <4>3. ~Projecting(c) => AppendedBy(c, k) = {}
        BY <1>1, <1>5, <2>3, <3>3, <4>1
      <4> QED
        BY <1>4, <2>1, <2>3, <3>3, <4>1, <4>2, <4>3
    <3> QED
      BY <3>1, <3>2, <3>3
  <2> QED
    BY <2>4, <2>5 DEF TruthInv
<1>9. CASE Appends(c)
  <2>1. last \in Nat /\ last + 1 \in Nat /\ last = Len(outcomes[c])
    BY <1>a
  <2>2. /\ \A d \in Clients : \A l \in Nat :
             d # c \/ l # last + 1 =>
               /\ AppendedBy(d, l)' = AppendedBy(d, l)
               /\ \A i \in AppendedBy(d, l) : stream'[i] = stream[i]
        /\ Whole(c, last + 1)'
    BY <1>9, <2>1, AppendedAfter DEF TruthInv
  <2>3. \A d \in Clients : \A l \in Nat :
          (d # c \/ l # last + 1) /\ Whole(d, l) => Whole(d, l)'
    BY <2>2 DEF Whole
  <2>4. ~Projecting(c)
    BY <1>9 DEF Appends
  <2>5. CASE outcomes'[c] = outcomes[c] /\ Projecting(c)'
    <3>1. \A d \in Clients : outcomes'[d] = outcomes[d]
      BY <1>2, <2>5
    <3>2. AppendedIsCounted' /\ ProjectedIsWhole'
      <4> SUFFICES ASSUME NEW d \in Clients, NEW k \in Nat
                   PROVE  /\ AppendedBy(d, k)' # {} =>
                               \/ k <= Len(outcomes'[d])
                               \/ k = Len(outcomes'[d]) + 1 /\ Projecting(d)'
                          /\ Projecting(d)' /\ k = Len(outcomes'[d]) + 1 =>
                               Whole(d, k)'
        BY DEF AppendedIsCounted, ProjectedIsWhole
      <4>1. CASE d = c /\ k = last + 1
        BY <2>1, <2>2, <2>5, <4>1
      <4>2. CASE d = c /\ k # last + 1
        BY <1>1, <1>5, <2>1, <2>2, <2>4, <2>5, <4>2
      <4>3. CASE d # c
        BY <1>2, <1>5, <2>2, <2>3, <4>3
      <4> QED
        BY <4>1, <4>2, <4>3
    <3>3. CallersAreToldTheTruth'
      <4> SUFFICES ASSUME NEW d \in Clients, NEW k \in DOMAIN outcomes[d]
                   PROVE  \/ outcomes[d][k] \in Answers /\ Whole(d, k)'
                          \/ outcomes[d][k] # "appended" /\ AppendedBy(d, k)' = {}
        BY <1>6, <3>1
      <4>1. k \in Nat /\ (d = c => k # last + 1)
        BY <1>1, <2>1
      <4> QED
        BY <1>5, <2>2, <2>3, <4>1
    <3> QED
      BY <3>2, <3>3 DEF TruthInv
  <2>6. CASE /\ \E answer \in Answers :
                  outcomes'[c] = Append(outcomes[c], answer)
             /\ ~Projecting(c)'
    <3>0. PICK answer \in Answers : outcomes'[c] = Append(outcomes[c], answer)
      BY <2>6
    <3>1. /\ Len(outcomes'[c]) = last + 1
          /\ DOMAIN outcomes'[c] = 1..(last + 1)
          /\ \A k \in 1..last : outcomes'[c][k] = outcomes[c][k]
          /\ outcomes'[c][last + 1] \in Answers
      BY <1>3, <3>0 DEF Outcomes, Answers
    <3>2. AppendedIsCounted' /\ ProjectedIsWhole'
      <4> SUFFICES ASSUME NEW d \in Clients, NEW k \in Nat
                   PROVE  /\ AppendedBy(d, k)' # {} =>
                               \/ k <= Len(outcomes'[d])
                               \/ k = Len(outcomes'[d]) + 1 /\ Projecting(d)'
                          /\ Projecting(d)' /\ k = Len(outcomes'[d]) + 1 =>
                               Whole(d, k)'
        BY DEF AppendedIsCounted, ProjectedIsWhole
      <4>1. CASE d = c /\ k = last + 1
        BY <1>1, <2>6, <3>1, <4>1
      <4>2. CASE d = c /\ k # last + 1
        BY <1>1, <1>5, <2>1, <2>2, <2>4, <2>6, <3>1, <4>2
      <4>3. CASE d # c
        BY <1>2, <1>5, <2>2, <2>3, <4>3
      <4> QED
        BY <4>1, <4>2, <4>3
    <3>3. CallersAreToldTheTruth'
      <4> SUFFICES ASSUME NEW d \in Clients, NEW k \in DOMAIN outcomes'[d]
                   PROVE  \/ outcomes'[d][k] \in Answers /\ Whole(d, k)'
                          \/ outcomes'[d][k] # "appended" /\ AppendedBy(d, k)' = {}
        BY <1>6
      <4>1. CASE d # c
        BY <1>2, <1>5, <2>2, <2>3, <4>1
      <4>2. CASE d = c /\ k # last + 1
        <5>1. /\ k \in 1..last /\ k \in DOMAIN outcomes[c]
              /\ outcomes'[c][k] = outcomes[c][k]
          BY <1>1, <2>1, <3>1, <4>2
        <5> QED
          BY <1>5, <2>2, <2>3, <4>2, <5>1
      <4>3. CASE d = c /\ k = last + 1
        BY <2>2, <3>1, <4>3
      <4> QED
        BY <4>1, <4>2, <4>3
    <3> QED
      BY <3>2, <3>3 DEF TruthInv
  <2> QED
    BY <1>9, <2>5, <2>6 DEF Appends
<1> QED
  BY <1>7, <1>8, <1>9 DEF StepTells

\* Every step keeps the answers true.
LEMMA TruthInvariance == Spec => []TruthInv
<1>1. Init => TruthInv
  <2> SUFFICES ASSUME Init PROVE TruthInv
    OBVIOUS
  <2>1. /\ DOMAIN stream = {}
        /\ \A c \in Clients : handling[c].phase = "idle" /\ DOMAIN outcomes[c] = {}
    BY DEF Init, Idle
  <2>2. AppendedIsCounted
    BY <2>1 DEF AppendedIsCounted, AppendedBy
  <2>3. ProjectedIsWhole
    BY <2>1 DEF ProjectedIsWhole, Projecting, At
  <2> QED
    BY <2>1, <2>2, <2>3 DEF TruthInv, CallersAreToldTheTruth
<1>2. TypeInv /\ TruthInv /\ [Next]_vars => TruthInv'
  <2> SUFFICES ASSUME TypeInv, TruthInv, [Next]_vars PROVE TruthInv'
    OBVIOUS
  <2>1. CASE UNCHANGED vars
    <3>1. UNCHANGED <<store, stream, handling, outcomes>>
      BY <2>1 DEF vars
    <3>2. \A c \in Clients : Projecting(c)' <=> Projecting(c)
      BY <3>1 DEF Projecting, At
    <3>3. \A c \in Clients : \A k \in Nat :
            /\ AppendedBy(c, k)' = AppendedBy(c, k)
            /\ Whole(c, k)' <=> Whole(c, k)
      BY <3>1 DEF AppendedBy, Whole
    <3>4. AppendedIsCounted' /\ ProjectedIsWhole'
      BY <3>1, <3>2, <3>3 DEF TruthInv, AppendedIsCounted, ProjectedIsWhole
    <3>5. CallersAreToldTheTruth'
      <4>1. \A c \in Clients : \A k \in DOMAIN outcomes[c] : k \in Nat
        BY DEF TypeInv, TypeOK
      <4> QED
        BY <3>1, <3>3, <4>1 DEF TruthInv, CallersAreToldTheTruth
    <3> QED
      BY <3>4, <3>5 DEF TruthInv
  <2> QED
    BY <2>1, NextTells, TruthKept DEF Next, StepOf
<1> QED
  BY <1>1, <1>2, InitTypes, NextTypes, PTL DEF Spec

\* Whatever a caller is told has happened, over any store and for any commands
\* and retries: a success is a whole append, a conflict or a refusal is none.
\* A failure is the one or the other, as answers may be lost, but never a part
\* of a decision and never one twice.
THEOREM CallersHearTheTruth == Spec => []CallersAreToldTheTruth
BY TruthInvariance, PTL DEF TruthInv

-----------------------------------------------------------------------------
(* When conflicts are told *)

\* Nobody has read, or has a position, beyond the end of the stream: streams
\* only grow.  Only a caller can ask for a position that is not there yet.
Past(h, last) ==
  h.phase \in Phases =>
    /\ h.seen <= last
    /\ h.phase = "positioned" /\ (store = "mongo" \/ h.option = NotGiven) =>
         h.base <= last

NobodyIsAhead == \A c \in Clients : Past(handling[c], Len(stream))

\* The stream after a step is the stream before it, or has a decision more.
LEMMA StreamGrows ==
  ASSUME TypeInv, [Next]_vars
  PROVE  Len(stream) \in Nat /\ Len(stream') \in Nat /\ Len(stream) <= Len(stream')
<1>1. /\ stream \in Seq(Appended)
      /\ \A c \in Clients : Working(c) => Decided(c) \in Seq(Appended)
  BY DecidedMessages DEF TypeInv, TypeOK
<1>2. CASE UNCHANGED vars
  BY <1>1, <1>2 DEF vars
<1>3. ASSUME NEW c \in Clients, StepTells(c)
      PROVE  Len(stream') \in Nat /\ Len(stream) <= Len(stream')
  <2>1. stream' = stream \/ (stream' = stream \o Decided(c) /\ Working(c))
    BY <1>3 DEF StepTells, GoesOn, IsAnswered, Appends
  <2> QED
    BY <1>1, <2>1
<1> QED
  BY <1>1, <1>2, <1>3, NextTells DEF Next, StepOf

\* A client is not ahead after a step that leaves it where it may be.
LEMMA PastKept ==
  ASSUME TypeInv, NobodyIsAhead, [Next]_vars, UNCHANGED store,
         NEW c \in Clients, NEW h, handling' = [handling EXCEPT ![c] = h],
         h \in ToRetry \cup ToAppend \cup {Idle}, Past(h, Len(stream))
  PROVE  NobodyIsAhead'
<1>1. Len(stream) \in Nat /\ Len(stream') \in Nat /\ Len(stream) <= Len(stream')
  BY StreamGrows
<1>2. \A g \in ToRetry \cup ToAppend \cup {Idle} :
        Past(g, Len(stream)) => Past(g, Len(stream'))
  BY <1>1 DEF Past, ToRetry, ToAppend, Idle, Phases
<1>3. \A d \in Clients : /\ handling[d] \in ToRetry \cup ToAppend \cup {Idle}
                         /\ handling'[d] = IF d = c THEN h ELSE handling[d]
  BY DEF TypeInv, TypeOK
<1>4. \A d \in Clients : Past(handling'[d], Len(stream'))
  BY <1>2, <1>3 DEF NobodyIsAhead
<1> QED
  BY <1>4 DEF NobodyIsAhead, Past

\* Who is answered, or to try again, is nowhere.
LEMMA EndedIsPast ==
  ASSUME TypeInv, NobodyIsAhead, [Next]_vars, UNCHANGED store,
         NEW c \in Clients, NEW option \in ExpectedVersions,
         NEW tries \in 0..MaxRetries,
         \/ ConflictAfter(c, option, tries)
         \/ \E outcome \in Outcomes : Tell(c, outcome)
  PROVE  NobodyIsAhead'
<1>1. Past(Idle, Len(stream))
  BY DEF Past, Idle, Phases
<1>2. CASE \E outcome \in Outcomes : Tell(c, outcome)
  BY <1>1, <1>2, PastKept DEF Tell
<1>3. CASE ConflictAfter(c, option, tries) /\ ~Tell(c, "conflict")
  <2> DEFINE h == [phase |-> "retrying", option |-> option, tries |-> tries + 1]
  <2>1. handling' = [handling EXCEPT ![c] = h] /\ tries < MaxRetries
    BY <1>3 DEF ConflictAfter
  <2>2. h \in ToRetry /\ Past(h, Len(stream))
    BY <2>1, CommandAssumption DEF Past, ToRetry, Phases
  <2> HIDE DEF h
  <2> QED
    BY <2>1, <2>2, PastKept
<1> QED
  BY <1>2, <1>3 DEF Outcomes

\* No step puts anybody ahead.
LEMMA NextIsPast ==
  ASSUME TypeInv, NobodyIsAhead, [Next]_vars
  PROVE  NobodyIsAhead'
<1>1. Len(stream) \in Nat
  BY DEF TypeInv, TypeOK
<1>a. ASSUME NEW c \in Clients, Working(c)
      PROVE  /\ handling[c] \in ToAppend
             /\ handling[c].seen \in Nat /\ handling[c].seen <= Len(stream)
             /\ handling[c].option \in ExpectedVersions
             /\ handling[c].tries \in 0..MaxRetries
  BY <1>a, InHandByPhase DEF TypeInv, NobodyIsAhead, Past, Working, ToAppend
<1>b. ASSUME NEW c \in Clients, Working(c), UNCHANGED store,
             Conflict(c) \/ \E outcome \in Outcomes : Tell(c, outcome)
      PROVE  NobodyIsAhead'
  BY <1>a, <1>b, EndedIsPast DEF Conflict
<1>c. "appended" \in Outcomes /\ "failed" \in Outcomes
  BY DEF Outcomes
<1>d. ASSUME NEW c \in Clients, Working(c), NEW phase \in Phases,
             phase # "positioned", UNCHANGED store,
             handling' = [handling EXCEPT ![c].phase = phase]
      PROVE  NobodyIsAhead'
  <2> DEFINE h == [handling[c] EXCEPT !.phase = phase]
  <2>1. handling' = [handling EXCEPT ![c] = h]
    BY <1>d
  <2>2. h \in ToAppend /\ h.phase = phase /\ h.seen = handling[c].seen
    BY <1>a, <1>d DEF ToAppend
  <2> HIDE DEF h
  <2>3. Past(h, Len(stream))
    BY <1>a, <1>d, <2>2 DEF Past
  <2> QED
    BY <1>d, <2>1, <2>2, <2>3, PastKept
<1>2. ASSUME NEW c \in Clients, NEW option \in ExpectedVersions,
             NEW tries \in 0..MaxRetries, AggregateAndDecide(c, option, tries)
      PROVE  NobodyIsAhead'
  <2>1. CASE \/ Tell(c, "unchanged") \/ Tell(c, "failed")
             \/ ConflictAfter(c, option, tries)
    BY <1>2, <2>1, EndedIsPast DEF AggregateAndDecide, Outcomes
  <2>2. ASSUME NEW size \in 1..MaxAppendSize,
               handling' = [handling EXCEPT
                     ![c] = [phase |-> "appending", option |-> option,
                             tries |-> tries, seen |-> Len(stream),
                             size |-> size, base |-> 0, done |-> 0,
                             found |-> <<>>]]
        PROVE  NobodyIsAhead'
    <3> DEFINE h == [phase |-> "appending", option |-> option, tries |-> tries,
                     seen |-> Len(stream), size |-> size, base |-> 0,
                     done |-> 0, found |-> <<>>]
    <3>1. h \in ToAppend /\ h.phase = "appending" /\ h.seen = Len(stream)
      BY <1>1, CommandAssumption DEF ToAppend, Phases
    <3>2. handling' = [handling EXCEPT ![c] = h]
      BY <2>2
    <3> HIDE DEF h
    <3>3. Past(h, Len(stream))
      BY <1>1, <3>1 DEF Past
    <3> QED
      BY <1>2, <3>1, <3>2, <3>3, PastKept DEF AggregateAndDecide
  <2> QED
    BY <1>2, <2>1, <2>2 DEF AggregateAndDecide
<1>3. ASSUME NEW c \in Clients, NEW option \in ExpectedVersions,
             Handle(c, option)
      PROVE  NobodyIsAhead'
  BY <1>2, <1>3, CommandAssumption DEF Handle
<1>4. ASSUME NEW c \in Clients, Retry(c) PROVE NobodyIsAhead'
  <2>1. handling[c].option \in ExpectedVersions /\ handling[c].tries \in 0..MaxRetries
    BY <1>4, InHandByPhase DEF Retry, TypeInv, ToRetry
  <2> QED
    BY <1>2, <1>4, <2>1 DEF Retry
<1>5. ASSUME NEW c \in Clients, AppendToMemory(c) PROVE NobodyIsAhead'
  <2>1. Working(c) /\ UNCHANGED store
    BY <1>5 DEF AppendToMemory, At, Working, Phases
  <2>2. "projecting" \in Phases
    BY DEF Phases
  <2> QED
    BY <1>5, <1>b, <1>d, <2>1, <2>2 DEF AppendToMemory, Step
<1>6. ASSUME NEW c \in Clients, FindDocument(c) PROVE NobodyIsAhead'
  <2>1. Working(c) /\ UNCHANGED store /\ readModel \in Seq(Appended)
    BY <1>6 DEF FindDocument, At, Working, Phases, TypeInv, TypeOK
  <2> DEFINE h == [handling[c] EXCEPT !.phase = "found", !.found = readModel]
  <2>2. h \in ToAppend /\ h.phase = "found" /\ h.seen = handling[c].seen
    BY <1>a, <2>1 DEF ToAppend, Phases
  <2>3. handling' = [handling EXCEPT ![c] = h]
    BY <1>6 DEF FindDocument
  <2> HIDE DEF h
  <2>4. Past(h, Len(stream))
    BY <1>a, <2>1, <2>2 DEF Past
  <2> QED
    BY <2>1, <2>2, <2>3, <2>4, PastKept
<1>7. ASSUME NEW c \in Clients, PutDocument(c) PROVE NobodyIsAhead'
  <2>1. Working(c) /\ UNCHANGED store /\ handling[c].done < handling[c].size
    BY <1>7 DEF PutDocument, At, Working, Phases, TypeInv
  <2>2. CASE handling[c].done + 1 = handling[c].size
    BY <1>7, <1>b, <1>c, <2>1, <2>2 DEF PutDocument
  <2>3. CASE handling[c].done + 1 # handling[c].size
    <3> DEFINE done == handling[c].done + 1
               h == [handling[c] EXCEPT !.phase = "projecting", !.done = done,
                                        !.found = <<>>]
    <3>1. done \in 0..MaxAppendSize /\ handling[c] \in ToAppend
      BY <1>a, <2>1, CommandAssumption DEF ToAppend
    <3>2. handling' = [handling EXCEPT ![c] = h]
      BY <1>7, <2>3 DEF PutDocument
    <3>0. <<>> \in Seq(Appended)
      OBVIOUS
    <3> HIDE DEF done
    <3>3. h \in ToAppend /\ h.phase = "projecting" /\ h.seen = handling[c].seen
      BY <3>1, <3>0 DEF ToAppend, Phases
    <3> HIDE DEF h
    <3>4. Past(h, Len(stream))
      BY <1>a, <2>1, <3>3 DEF Past
    <3> QED
      BY <2>1, <3>2, <3>3, <3>4, PastKept
  <2> QED
    BY <2>2, <2>3
<1>8. ASSUME NEW c \in Clients, ReadPosition(c) PROVE NobodyIsAhead'
  <2>1. Working(c) /\ UNCHANGED store /\ store # "mongo"
    BY <1>8 DEF ReadPosition, At, Working, Phases, Transactional
  <2>2. CASE Conflict(c)
    BY <1>b, <2>1, <2>2
  <2>3. CASE ~Conflict(c)
    <3> DEFINE expected == expectedStreamVersion(handling[c])
               base == IF hasExpectedNumber(expected) THEN expected
                       ELSE Len(stream)
               h == [handling[c] EXCEPT !.phase = "positioned", !.base = base]
    <3>1. handling' = [handling EXCEPT ![c] = h]
      BY <1>8, <2>3 DEF ReadPosition
    <3>2. base \in Nat
      BY <1>1 DEF hasExpectedNumber
    <3>3. handling[c].option = NotGiven => base <= Len(stream)
      <4>1. handling[c].option = NotGiven /\ hasExpectedNumber(expected) =>
              expected = handling[c].seen
        BY CommandAssumption DEF hasExpectedNumber, expectedStreamVersion
      <4> QED
        BY <1>1, <1>a, <2>1, <4>1
    <3> HIDE DEF base
    <3>4. /\ h \in ToAppend /\ h.phase = "positioned" /\ h.base = base
          /\ h.seen = handling[c].seen /\ h.option = handling[c].option
      BY <1>a, <2>1, <3>2 DEF ToAppend, Phases
    <3> HIDE DEF h
    <3>5. Past(h, Len(stream))
      BY <1>a, <2>1, <3>3, <3>4 DEF Past
    <3> QED
      BY <2>1, <3>1, <3>4, <3>5, PastKept
  <2> QED
    BY <2>2, <2>3
<1>9. ASSUME NEW c \in Clients, WriteStream(c) PROVE NobodyIsAhead'
  <2>1. Working(c) /\ UNCHANGED store /\ "written" \in Phases
    BY <1>9 DEF WriteStream, At, Working, Phases
  <2> QED
    BY <1>9, <1>b, <1>d, <2>1 DEF WriteStream, Step
<1>10. ASSUME NEW c \in Clients, FindStream(c) PROVE NobodyIsAhead'
  <2>1. Working(c) /\ UNCHANGED store /\ readModel \in Seq(Appended)
    BY <1>10 DEF FindStream, At, Working, Phases, TypeInv, TypeOK
  <2>2. CASE Conflict(c)
    BY <1>b, <2>1, <2>2
  <2>3. CASE ~Conflict(c)
    <3> DEFINE h == [handling[c] EXCEPT !.phase = "positioned",
                                        !.base = Len(stream),
                                        !.found = readModel]
    <3>1. handling' = [handling EXCEPT ![c] = h]
      BY <1>10, <2>3 DEF FindStream
    <3>2. /\ h \in ToAppend /\ h.base = Len(stream)
          /\ h.seen = handling[c].seen
      BY <1>1, <1>a, <2>1 DEF ToAppend, Phases
    <3> HIDE DEF h
    <3>3. Past(h, Len(stream))
      BY <1>1, <1>a, <2>1, <3>2 DEF Past
    <3> QED
      BY <2>1, <3>1, <3>2, <3>3, PastKept
  <2> QED
    BY <2>2, <2>3
<1>11. ASSUME NEW c \in Clients,
              \/ CommitAppend(c) \/ UpdateStream(c) \/ AppendToServer(c)
              \/ Fail(c)
       PROVE  NobodyIsAhead'
  <2>1. Working(c) /\ UNCHANGED store
    BY <1>11 DEF CommitAppend, UpdateStream, AppendToServer, Fail,
                 FailProjection, FailAppend, RollbackAppend, ViolateUniqueness,
                 FailUpdate, At, Working, Phases
  <2>2. Conflict(c) \/ Tell(c, "appended") \/ Tell(c, "failed")
    BY <1>11 DEF CommitAppend, UpdateStream, AppendToServer, Fail,
                 FailProjection, FailAppend, RollbackAppend, ViolateUniqueness,
                 FailUpdate, Answers
  <2> QED
    BY <1>b, <1>c, <2>1, <2>2
<1>12. CASE UNCHANGED vars
  BY <1>12 DEF vars, NobodyIsAhead, Past
<1> QED
  BY <1>3, <1>4, <1>5, <1>6, <1>7, <1>8, <1>9, <1>10, <1>11, <1>12
     DEF Next, Proceed

\* Nobody ever has read beyond the end of the stream.
LEMMA NobodyGetsAhead == Spec => []NobodyIsAhead
<1>1. Init => NobodyIsAhead
  BY DEF Init, NobodyIsAhead, Past, Idle, Phases
<1>2. Init => TypeInv
  BY InitTypes
<1>3. TypeInv /\ NobodyIsAhead /\ [Next]_vars => TypeInv' /\ NobodyIsAhead'
  BY NextTypes, NextIsPast
<1> QED
  BY <1>1, <1>2, <1>3, PTL DEF Spec

\* For a caller who expects nothing the version that was read has to match.
LEMMA NothingGivenMatches ==
  ASSUME NEW h, h.option = NotGiven, h.seen \in Nat, NEW version \in Nat
  PROVE  matchesExpectedVersion(version, expectedStreamVersion(h))
           <=> version = h.seen
<1>1. CASE h.seen = 0
  BY <1>1, ExpectedByCase, MatchesNoStream
<1>2. CASE h.seen # 0
  BY <1>2, ExpectedByCase, MatchesNumber
<1> QED
  BY <1>1, <1>2

\* A caller who expects nothing hears of a conflict only if the stream moved
\* since it was read, or its transaction violated a unique index.
THEOREM OnlyRealConflictsAreTold == Spec => ConflictsAreReal
<1> DEFINE Real ==
      \A c \in Clients :
       (/\ ~At(c, "idle") /\ Len(outcomes'[c]) > Len(outcomes[c])
        /\ outcomes'[c][Len(outcomes'[c])] = "conflict"
        /\ handling[c].option = NotGiven)
       => \/ Len(stream) > handling[c].seen
          \/ At(c, "written")
<1>1. ASSUME IInv, NobodyIsAhead, Next PROVE Real
  <2> SUFFICES ASSUME NEW c \in Clients, ~At(c, "idle"),
                      Len(outcomes'[c]) > Len(outcomes[c]),
                      outcomes'[c][Len(outcomes'[c])] = "conflict",
                      handling[c].option = NotGiven
               PROVE  Len(stream) > handling[c].seen \/ At(c, "written")
    OBVIOUS
  <2>1. /\ outcomes \in [Clients -> Seq(Outcomes)]
        /\ Len(stream) \in Nat
    BY <1>1 DEF IInv, TypeInv, TypeOK
  <2>2. outcomes' # outcomes
    BY <2>1
  <2>3. ASSUME NEW d \in Clients, NEW outcome \in Outcomes, Tell(d, outcome)
        PROVE  d = c /\ outcome = "conflict"
    <3>1. outcomes' = [outcomes EXCEPT ![d] = Append(@, outcome)]
      BY <2>3 DEF Tell
    <3>2. d = c
      BY <2>1, <3>1
    <3>3. outcomes'[c] = Append(outcomes[c], outcome) /\ outcomes[c] \in Seq(Outcomes)
      BY <2>1, <3>1, <3>2
    <3> QED
      BY <3>2, <3>3
  <2>4. /\ {"appended", "unchanged", "failed", "conflict"} \subseteq Outcomes
        /\ \A d \in Clients : /\ ~Tell(d, "appended") /\ ~Tell(d, "unchanged")
                              /\ ~Tell(d, "failed")
    BY <2>3 DEF Outcomes
  <2>5. ASSUME NEW d \in Clients, NEW option, NEW tries,
               ConflictAfter(d, option, tries)
        PROVE  d = c
    BY <2>2, <2>3, <2>4, <2>5 DEF ConflictAfter
  <2>6. ASSUME Working(c)
        PROVE  /\ handling[c] \in ToAppend
               /\ handling[c].seen \in Nat /\ handling[c].seen <= Len(stream)
               /\ matchesExpectedVersion(Len(stream),
                                         expectedStreamVersion(handling[c]))
                    <=> Len(stream) = handling[c].seen
    <3>1. handling[c] \in ToAppend
      BY <1>1, <2>6, InHandByPhase DEF IInv, TypeInv
    <3>2. handling[c].seen \in Nat /\ handling[c].seen <= Len(stream)
      BY <1>1, <2>6, <3>1 DEF NobodyIsAhead, Past, Working, ToAppend
    <3> QED
      BY <2>1, <3>1, <3>2, NothingGivenMatches
  <2>7. ASSUME NEW d \in Clients, NEW option, Handle(d, option) PROVE FALSE
    BY <2>2, <2>4, <2>5, <2>7 DEF Handle, AggregateAndDecide
  <2>8. ASSUME NEW d \in Clients, Retry(d) PROVE FALSE
    <3>1. CanRead(handling[d].option) => FALSE
      BY <2>2, <2>4, <2>8 DEF Retry, AggregateAndDecide
    <3>2. d = c
      BY <2>5, <2>8, <3>1 DEF Retry, AggregateAndDecide
    <3> QED
      BY <3>1, <3>2 DEF CanRead
  <2>9. ASSUME NEW d \in Clients,
               AppendToMemory(d) \/ AppendToServer(d) \/ FindStream(d)
        PROVE  Len(stream) > handling[c].seen
    <3>1. /\ Conflict(d) /\ At(d, "appending")
          /\ ~matchesExpectedVersion(Len(stream),
                                     expectedStreamVersion(handling[d]))
      BY <2>2, <2>4, <2>9 DEF AppendToMemory, AppendToServer, FindStream, Step,
                              Answers
    <3>2. d = c
      BY <2>5, <3>1 DEF Conflict
    <3>3. Working(c)
      BY <3>1, <3>2 DEF Working, At, Phases
    <3> QED
      BY <2>1, <2>6, <3>1, <3>2, <3>3
  <2>10. ASSUME NEW d \in Clients, ReadPosition(d)
         PROVE  Len(stream) > handling[c].seen
    <3>1. /\ Conflict(d) /\ At(d, "appending")
          /\ hasExpectedNumber(expectedStreamVersion(handling[d]))
          /\ expectedStreamVersion(handling[d]) # Len(stream)
      BY <2>2, <2>4, <2>10 DEF ReadPosition
    <3>2. d = c
      BY <2>5, <3>1 DEF Conflict
    <3>3. Working(c)
      BY <3>1, <3>2 DEF Working, At, Phases
    <3>4. expectedStreamVersion(handling[c]) = handling[c].seen
      BY <3>1, <3>2, ExpectedByCase, CommandAssumption DEF hasExpectedNumber
    <3> QED
      BY <2>1, <2>6, <3>1, <3>2, <3>3, <3>4
  <2>11. ASSUME NEW d \in Clients, WriteStream(d)
         PROVE  Len(stream) > handling[c].seen
    <3>1. /\ Conflict(d) /\ At(d, "positioned") /\ store \in Transactional
          /\ handling[d].base # Len(stream)
      BY <2>2, <2>4, <2>11 DEF WriteStream, Step
    <3>2. d = c
      BY <2>5, <3>1 DEF Conflict
    <3>3. Working(c) /\ handling[c].phase = "positioned"
      BY <3>1, <3>2 DEF Working, At, Phases
    <3>4. /\ handling[c].base \in Nat /\ handling[c].base <= Len(stream)
          /\ Founded(handling[c])
      BY <1>1, <2>6, <3>3
         DEF NobodyIsAhead, Past, Working, ToAppend, IInv, DecisionsAreFounded
    <3>5. CASE handling[c].seen = 0
      BY <2>1, <3>1, <3>2, <3>4, <3>5
    <3>6. CASE handling[c].seen # 0
      <4>1. expectedStreamVersion(handling[c]) = handling[c].seen
        BY <3>6, ExpectedByCase
      <4>2. handling[c].base = handling[c].seen
        BY <2>6, <3>1, <3>3, <3>4, <4>1 DEF Founded, Working, hasExpectedNumber
      <4> QED
        BY <2>1, <2>6, <3>1, <3>2, <3>3, <4>2
    <3> QED
      BY <3>5, <3>6
  <2>12. ASSUME NEW d \in Clients,
                FindDocument(d) \/ PutDocument(d) \/ CommitAppend(d)
                  \/ UpdateStream(d)
         PROVE  FALSE
    BY <2>2, <2>4, <2>12
       DEF FindDocument, PutDocument, CommitAppend, UpdateStream, Answers
  <2>13. ASSUME NEW d \in Clients, Fail(d) PROVE At(c, "written")
    <3>1. Conflict(d) /\ At(d, "written")
      BY <2>4, <2>13 DEF Fail, FailProjection, FailAppend, RollbackAppend,
                         ViolateUniqueness, FailUpdate
    <3>2. d = c
      BY <2>5, <3>1 DEF Conflict
    <3> QED
      BY <3>1, <3>2
  <2> QED
    BY <1>1, <2>7, <2>8, <2>9, <2>10, <2>11, <2>12, <2>13 DEF Next, Proceed
<1>2. IInv /\ NobodyIsAhead /\ [Next]_vars => [Real]_vars
  BY <1>1
<1> QED
  BY <1>2, Invariance, NobodyGetsAhead, PTL DEF Spec, ConflictsAreReal

-----------------------------------------------------------------------------
(* Read models *)

NothingTwice(messages) ==
  \A i, j \in DOMAIN messages : messages[i] = messages[j] => i = j

\* In memory: a message that projections have put into the read model, as far
\* as those got that are at it.
Placed(m, told, inHand) ==
  \E c \in Clients, k \in Nat :
    /\ m.by = <<c, k>>
    /\ \/ k <= Len(told[c])
       \/ /\ k = Len(told[c]) + 1
          /\ inHand[c].phase \in {"projecting", "found"}
          /\ m.nr <= inHand[c].done

Follows(messages, held, told, inHand) ==
  /\ NothingTwice(messages)
  /\ \A i \in DOMAIN messages :
       /\ \E j \in DOMAIN held : held[j] = messages[i]
       /\ Placed(messages[i], told, inHand)

InlineIsStream ==
  /\ store \in Transactional \cup {"mongo"} => readModel = stream
  /\ store = "esdb" => readModel = <<>>

\* The read model in the document of the stream is found with its position.
FoundIsCurrent ==
  store = "mongo" =>
    \A c \in Clients :
      At(c, "positioned") /\ handling[c].base = Len(stream)
        => handling[c].found = readModel

\* What is being projected is in the stream.
ProjectedIsThere ==
  store = "memory" =>
    \A c \in Clients :
      Projecting(c) =>
        \A nr \in 1..handling[c].size :
          \E j \in DOMAIN stream : stream[j] = Decided(c)[nr]

\* The document follows the stream, and so does what was found of it, though
\* others may have replaced it by now.
DocumentsFollow ==
  store = "memory" =>
    /\ Follows(readModel, stream, outcomes, handling)
    /\ \A c \in Clients :
         At(c, "found") => Follows(handling[c].found, stream, outcomes, handling)

ReadInv ==
  /\ NothingTwice(stream)
  /\ InlineIsStream
  /\ FoundIsCurrent
  /\ ProjectedIsThere
  /\ DocumentsFollow

\* What is there stays there, where it is.
LEMMA StreamStays ==
  ASSUME TypeInv, NEW c \in Clients, StepTells(c)
  PROVE  \A j \in DOMAIN stream : j \in DOMAIN stream' /\ stream'[j] = stream[j]
<1>1. stream \in Seq(Appended) /\ (Working(c) => Decided(c) \in Seq(Appended))
  BY DecidedMessages DEF TypeInv, TypeOK
<1>2. stream' = stream \/ (Working(c) /\ stream' = stream \o Decided(c))
  BY DEF StepTells, GoesOn, IsAnswered, Appends
<1> QED
  BY <1>1, <1>2

\* An append brings nothing that is there.
LEMMA StreamHoldsNothingTwice ==
  ASSUME TypeInv, AppendedIsCounted, NothingTwice(stream), NEW c \in Clients,
         StepTells(c)
  PROVE  NothingTwice(stream')
<1>1. CASE stream' = stream
  BY <1>1
<1>2. CASE Appends(c)
  <2> DEFINE by == <<c, Len(outcomes[c]) + 1>>
             size == handling[c].size
             decision == Decided(c)
  <2>1. TypeOK /\ Working(c)
    BY <1>2 DEF TypeInv, Appends
  <2>2. /\ stream \in Seq(Appended) /\ decision \in Seq(Appended)
        /\ Len(decision) = size /\ size \in Nat
        /\ \A nr \in 1..size :
              decision[nr] =
                [by |-> by, nr |-> nr, size |-> size,
                 seen |-> handling[c].seen, option |-> handling[c].option]
    BY <2>1, DecidedMessages DEF TypeOK
  <2>3. stream' = stream \o decision
    BY <1>2 DEF Appends
  <2>4. \A j \in DOMAIN stream : stream[j].by # by
    <3>1. PICK k \in Nat : k = Len(outcomes[c]) + 1
      BY DEF TypeInv, TypeOK
    <3>2. Len(outcomes[c]) \in Nat /\ ~Projecting(c)
      BY <1>2 DEF Appends, TypeInv, TypeOK
    <3>3. AppendedBy(c, k) = {}
      BY <3>1, <3>2 DEF AppendedIsCounted
    <3> QED
      BY <3>1, <3>3 DEF AppendedBy
  <2> HIDE DEF by, size, decision
  <2>5. \A nr \in 1..size : decision[nr].by = by /\ decision[nr].nr = nr
    <3> SUFFICES ASSUME NEW nr \in 1..size
                 PROVE  decision[nr].by = by /\ decision[nr].nr = nr
      OBVIOUS
    <3>1. decision[nr] = [by |-> by, nr |-> nr, size |-> size,
                          seen |-> handling[c].seen, option |-> handling[c].option]
      BY <2>2
    <3> QED
      BY ONLY <3>1
  <2>6. /\ DOMAIN stream = 1..Len(stream) /\ Len(stream) \in Nat
        /\ DOMAIN stream' = 1..(Len(stream) + size)
        /\ \A j \in DOMAIN stream : stream'[j] = stream[j]
        /\ \A j \in (Len(stream) + 1)..(Len(stream) + size) :
             j - Len(stream) \in 1..size /\ stream'[j] = decision[j - Len(stream)]
    BY <2>2, <2>3
  <2>7. \A j \in (Len(stream) + 1)..(Len(stream) + size) :
          stream'[j].by = by /\ stream'[j].nr = j - Len(stream)
    BY <2>5, <2>6
  <2> SUFFICES ASSUME NEW i \in DOMAIN stream', NEW j \in DOMAIN stream',
                      stream'[i] = stream'[j]
               PROVE  i = j
    BY DEF NothingTwice
  <2>8. CASE i \in DOMAIN stream /\ j \in DOMAIN stream
    BY <2>6, <2>8 DEF NothingTwice
  <2>9. CASE i \notin DOMAIN stream /\ j \notin DOMAIN stream
    <3>1. /\ i \in (Len(stream) + 1)..(Len(stream) + size)
          /\ j \in (Len(stream) + 1)..(Len(stream) + size)
      BY <2>2, <2>6, <2>9
    <3>2. i - Len(stream) = j - Len(stream)
      BY <2>7, <3>1
    <3> QED
      BY <2>6, <3>1, <3>2
  <2>10. ASSUME NEW k \in DOMAIN stream, NEW l \in DOMAIN stream',
                l \notin DOMAIN stream
         PROVE  stream'[k] # stream'[l]
    <3>1. l \in (Len(stream) + 1)..(Len(stream) + size)
      BY <2>2, <2>6, <2>10
    <3> QED
      BY <2>4, <2>6, <2>7, <3>1
  <2> QED
    BY <2>8, <2>9, <2>10
<1> QED
  BY <1>1, <1>2 DEF StepTells, GoesOn, IsAnswered

\* What follows the stream goes on following it, as long as no projection goes
\* back.
LEMMA FollowsStays ==
  ASSUME TypeInv, TypeInv', NEW c \in Clients, StepTells(c),
         Projecting(c) /\ Projecting(c)' => handling[c].done <= handling'[c].done,
         NEW messages, Follows(messages, stream, outcomes, handling)
  PROVE  Follows(messages, stream', outcomes', handling')
<1> SUFFICES ASSUME NEW i \in DOMAIN messages
             PROVE  /\ \E j \in DOMAIN stream' : stream'[j] = messages[i]
                    /\ Placed(messages[i], outcomes', handling')
  BY DEF Follows
<1> DEFINE m == messages[i]
<1>1. PICK j \in DOMAIN stream : stream[j] = m
  BY DEF Follows
<1>2. j \in DOMAIN stream' /\ stream'[j] = m
  BY <1>1, StreamStays
<1>3. m.nr \in Nat
  <2>1. stream \in Seq(Appended)
    BY DEF TypeInv, TypeOK
  <2>2. stream[j] \in Appended
    BY <2>1
  <2> QED
    BY <1>1, <2>2 DEF Appended
<1>4. PICK d \in Clients, k \in Nat :
        /\ m.by = <<d, k>>
        /\ \/ k <= Len(outcomes[d])
           \/ /\ k = Len(outcomes[d]) + 1
              /\ handling[d].phase \in {"projecting", "found"}
              /\ m.nr <= handling[d].done
  BY DEF Follows, Placed
<1> HIDE DEF m
<1>5. /\ outcomes[d] \in Seq(Outcomes) /\ Len(outcomes[d]) \in Nat
      /\ outcomes[c] \in Seq(Outcomes) /\ Len(outcomes[c]) \in Nat
  BY DEF TypeInv, TypeOK
<1>6. \/ k <= Len(outcomes'[d])
      \/ /\ k = Len(outcomes'[d]) + 1
         /\ handling'[d].phase \in {"projecting", "found"}
         /\ m.nr <= handling'[d].done
  <2>1. CASE d # c
    BY <1>4, <2>1 DEF StepTells, OthersWait
  <2>2. CASE d = c /\ outcomes'[c] # outcomes[c]
    <3>1. PICK outcome : outcomes'[c] = Append(outcomes[c], outcome)
      BY <2>2 DEF StepTells, GoesOn, IsAnswered, Appends
    <3>2. Len(outcomes'[c]) = Len(outcomes[c]) + 1
      BY <1>5, <3>1
    <3> QED
      BY <1>4, <1>5, <2>2, <3>2
  <2>3. CASE d = c /\ outcomes'[c] = outcomes[c] /\ ~Projecting(c)
    BY <1>4, <2>3 DEF Projecting, At
  <2>4. CASE d = c /\ outcomes'[c] = outcomes[c] /\ Projecting(c)
    <3>1. \A outcome : Append(outcomes[c], outcome) # outcomes[c]
      BY <1>5
    <3>2. Projecting(c)'
      BY <2>4, <3>1 DEF StepTells, GoesOn, IsAnswered, Appends
    <3>3. /\ handling[c].done \in Nat /\ handling'[c].done \in Nat
          /\ handling[c].done <= handling'[c].done
      <4>1. Working(c) /\ Working(c)'
        BY <2>4, <3>2 DEF Projecting, At, Working, Phases
      <4>2. handling[c] \in ToAppend
        BY <4>1, InHandByPhase DEF TypeInv
      <4>3. handling'[c] \in ToAppend
        BY <4>1 DEF TypeInv, TypeOK, Working, ToAppend, ToRetry, Idle, Phases
      <4> QED
        BY <2>4, <3>2, <4>2, <4>3, CommandAssumption DEF ToAppend
    <3> QED
      BY <1>3, <1>4, <2>4, <3>2, <3>3 DEF Projecting, At
  <2> QED
    BY <2>1, <2>2, <2>3, <2>4
<1>7. Placed(m, outcomes', handling')
  BY <1>4, <1>6 DEF Placed
<1> QED
  BY <1>2, <1>7 DEF m

\* Inline read models of the databases go with the stream.
LEMMA InlineKept ==
  ASSUME TypeInv, NobodyIsAhead, InlineIsStream, FoundIsCurrent,
         NEW c \in Clients, StepOf(c), store # "memory"
  PROVE  InlineIsStream' /\ FoundIsCurrent'
<1>1. /\ StepTells(c) /\ UNCHANGED store
      /\ \A d \in Clients \ {c} : handling'[d] = handling[d]
  BY NextTells DEF StepTells, OthersWait
<1>2. /\ stream \in Seq(Appended)
      /\ handling \in [Clients -> ToRetry \cup ToAppend \cup {Idle}]
  BY DEF TypeInv, TypeOK
<1>3. ASSUME UNCHANGED <<stream, readModel>>,
             At(c, "positioned")' /\ store = "mongo" =>
               handling'[c].found = readModel
      PROVE  InlineIsStream' /\ FoundIsCurrent'
  <2>1. InlineIsStream'
    BY <1>1, <1>3 DEF InlineIsStream
  <2>2. FoundIsCurrent'
    BY <1>1, <1>3 DEF FoundIsCurrent, At
  <2> QED
    BY <2>1, <2>2
<1>4. ASSUME NEW outcome, Tell(c, outcome)
      PROVE  ~At(c, "positioned")'
  BY <1>2, <1>4 DEF Tell, At, Idle
<1>5. ASSUME NEW option, NEW tries, ConflictAfter(c, option, tries)
      PROVE  ~At(c, "positioned")'
  BY <1>2, <1>4, <1>5 DEF ConflictAfter, At
<1>6. ASSUME NEW option, NEW tries, AggregateAndDecide(c, option, tries)
      PROVE  InlineIsStream' /\ FoundIsCurrent'
  <2>1. CASE \/ Tell(c, "unchanged") \/ Tell(c, "failed")
             \/ ConflictAfter(c, option, tries)
    BY <1>3, <1>4, <1>5, <1>6, <2>1 DEF AggregateAndDecide
  <2>2. ASSUME NEW size,
               handling' = [handling EXCEPT
                     ![c] = [phase |-> "appending", option |-> option,
                             tries |-> tries, seen |-> Len(stream),
                             size |-> size, base |-> 0, done |-> 0,
                             found |-> <<>>]]
        PROVE  InlineIsStream' /\ FoundIsCurrent'
    <3>1. handling'[c].phase = "appending"
      BY <1>2, <2>2
    <3> QED
      BY <1>3, <1>6, <3>1 DEF AggregateAndDecide, At
  <2> QED
    BY <1>6, <2>1, <2>2 DEF AggregateAndDecide
<1>7. CASE (\E option \in ExpectedVersions : Handle(c, option)) \/ Retry(c)
  BY <1>6, <1>7 DEF Handle, Retry
<1>8. CASE ReadPosition(c)
  BY <1>3, <1>8 DEF ReadPosition, Transactional
<1>9. CASE WriteStream(c)
  BY <1>3, <1>9 DEF WriteStream, Transactional
<1>10. CASE CommitAppend(c)
  <2>1. /\ store \in Transactional /\ store # "mongo" /\ store # "esdb"
        /\ stream' = stream \o Decided(c) /\ readModel' = readModel \o Decided(c)
    BY <1>10 DEF CommitAppend, Transactional
  <2> QED
    BY <1>1, <2>1 DEF InlineIsStream, FoundIsCurrent
<1>11. CASE FindStream(c)
  <2>1. UNCHANGED <<stream, readModel>>
    BY <1>11 DEF FindStream
  <2>2. CASE Conflict(c)
    BY <1>3, <1>5, <2>1, <2>2 DEF Conflict
  <2>3. CASE ~Conflict(c)
    <3> DEFINE h == [handling[c] EXCEPT !.phase = "positioned",
                                        !.base = Len(stream),
                                        !.found = readModel]
    <3>1. handling' = [handling EXCEPT ![c] = h]
      BY <1>11, <2>3 DEF FindStream
    <3>2. h.found = readModel
      <4>1. handling[c] \in ToAppend
        BY <1>11, InHandByPhase DEF TypeInv, FindStream, At, Working, Phases
      <4> QED
        BY <4>1 DEF ToAppend
    <3> HIDE DEF h
    <3>3. handling'[c].found = readModel
      BY <1>2, <3>1, <3>2
    <3> QED
      BY <1>3, <2>1, <3>3
  <2> QED
    BY <2>2, <2>3
<1>12. CASE UpdateStream(c)
  <2>1. store = "mongo" /\ Working(c) /\ At(c, "positioned")
    BY <1>12 DEF UpdateStream, At, Working, Phases
  <2>2. CASE ~StreamIsAtPosition(c)
    BY <1>3, <1>4, <1>12, <2>2 DEF UpdateStream
  <2>3. CASE StreamIsAtPosition(c)
    <3>1. /\ stream' = stream \o Decided(c)
          /\ readModel' = handling[c].found \o Decided(c)
          /\ Tell(c, "appended") \/ Tell(c, "failed")
      BY <1>12, <2>3 DEF UpdateStream, Answers
    <3>2. handling[c].found = readModel /\ readModel = stream
      BY <2>1, <2>3
         DEF FoundIsCurrent, InlineIsStream, StreamIsAtPosition
    <3>3. InlineIsStream'
      BY <1>1, <2>1, <3>1, <3>2 DEF InlineIsStream, Transactional
    <3>4. Len(stream') > Len(stream) /\ Len(stream) \in Nat /\ Len(stream') \in Nat
      <4>1. /\ Decided(c) \in Seq(Appended) /\ Len(Decided(c)) \in Nat \ {0}
        BY <2>1, DecidedMessages DEF TypeInv
      <4> QED
        BY <1>2, <3>1, <4>1
    <3>5. ASSUME NEW d \in Clients, At(d, "positioned")'
          PROVE  handling'[d].base # Len(stream')
      <4>1. d # c /\ handling'[d] = handling[d]
        BY <1>1, <1>4, <3>1, <3>5
      <4>2. At(d, "positioned") /\ Working(d)
        BY <3>5, <4>1 DEF At, Working, Phases
      <4>3. handling[d] \in ToAppend
        BY <4>2, InHandByPhase DEF TypeInv
      <4>4. handling[d].base \in Nat /\ handling[d].base <= Len(stream)
        BY <2>1, <4>2, <4>3 DEF NobodyIsAhead, Past, At, Working, ToAppend
      <4> QED
        BY <3>4, <4>1, <4>4
    <3>6. FoundIsCurrent'
      BY <3>5 DEF FoundIsCurrent
    <3> QED
      BY <3>3, <3>6
  <2> QED
    BY <2>2, <2>3
<1>13. CASE AppendToServer(c)
  <2>1. store = "esdb" /\ UNCHANGED <<store, readModel>>
    BY <1>13 DEF AppendToServer
  <2> QED
    BY <2>1 DEF InlineIsStream, FoundIsCurrent, Transactional
<1>14. CASE Fail(c)
  <2>1. /\ UNCHANGED <<stream, readModel>>
        /\ Tell(c, "failed") \/ Conflict(c)
    BY <1>14 DEF Fail, FailProjection, FailAppend, RollbackAppend,
                 ViolateUniqueness, FailUpdate
  <2> QED
    BY <1>3, <1>4, <1>5, <2>1 DEF Conflict
<1> QED
  BY <1>7, <1>8, <1>9, <1>10, <1>11, <1>12, <1>13, <1>14
     DEF StepOf, Proceed, AppendToMemory, FindDocument, PutDocument

\* In memory: a projection that puts a message where it belongs.
LEMMA PutFollows ==
  ASSUME TypeInv, TypeInv', DocumentsFollow, ProjectedIsThere,
         NEW c \in Clients, PutDocument(c)
  PROVE  Follows(Append(handling[c].found, Decided(c)[handling[c].done + 1]),
                 stream', outcomes', handling')
<1>1. /\ store = "memory" /\ At(c, "found") /\ Working(c) /\ Projecting(c)
      /\ UNCHANGED stream
  BY DEF PutDocument, At, Working, Phases, Projecting
<1>2. handling[c] \in ToAppend /\ handling[c].done < handling[c].size
  BY <1>1, InHandByPhase DEF TypeInv
<1>3. PICK n \in Nat : n = Len(outcomes[c])
  BY DEF TypeInv, TypeOK
<1>4. PICK done \in Nat : done = handling[c].done
  BY <1>2, CommandAssumption DEF ToAppend
<1>5. PICK found \in Seq(Appended) : found = handling[c].found
  BY <1>2 DEF ToAppend
<1>6. PICK m : m = Decided(c)[done + 1]
  OBVIOUS
<1>7. done + 1 \in 1..handling[c].size
  BY <1>2, <1>4, CommandAssumption DEF ToAppend
<1>8. m.by = <<c, n + 1>> /\ m.nr = done + 1
  <2> DEFINE by == <<c, Len(outcomes[c]) + 1>>
  <2>1. Decided(c)[done + 1] =
          [by |-> by, nr |-> done + 1, size |-> handling[c].size,
           seen |-> handling[c].seen, option |-> handling[c].option]
    BY <1>1, <1>7, DecidedMessages DEF TypeInv
  <2> HIDE DEF by
  <2>2. Decided(c)[done + 1].by = by /\ Decided(c)[done + 1].nr = done + 1
    BY ONLY <2>1
  <2> QED
    BY <1>3, <1>6, <2>2 DEF by
<1>9. Follows(found, stream, outcomes, handling)
  BY <1>1, <1>5 DEF DocumentsFollow
<1>10. \E j \in DOMAIN stream : stream[j] = m
  BY <1>1, <1>6, <1>7 DEF ProjectedIsThere
<1>11. StepTells(c)
  BY NextTells DEF StepOf, Proceed
<1>12. /\ outcomes[c] \in Seq(Outcomes) /\ DOMAIN outcomes = Clients
       /\ DOMAIN handling = Clients
  BY DEF TypeInv, TypeOK
<1>13. \/ Len(outcomes'[c]) = n + 1 /\ ~Projecting(c)'
       \/ /\ outcomes'[c] = outcomes[c] /\ handling'[c].done = done + 1
          /\ handling'[c].phase = "projecting"
  <2>1. CASE done + 1 = handling[c].size
    <3>1. Tell(c, "appended")
      BY <1>4, <2>1 DEF PutDocument
    <3>2. outcomes'[c] = Append(outcomes[c], "appended") /\ ~Projecting(c)'
      BY <3>1, AnswerTells DEF TypeInv, Outcomes
    <3> QED
      BY <1>3, <1>12, <3>2
  <2>2. CASE done + 1 # handling[c].size
    <3> DEFINE h == [handling[c] EXCEPT !.phase = "projecting",
                                        !.done = done + 1, !.found = <<>>]
    <3>1. handling' = [handling EXCEPT ![c] = h] /\ outcomes' = outcomes
      BY <1>4, <2>2 DEF PutDocument
    <3>2. h.phase = "projecting" /\ h.done = done + 1
      BY <1>2 DEF ToAppend
    <3> HIDE DEF h
    <3> QED
      BY <1>12, <3>1, <3>2
  <2> QED
    BY <2>1, <2>2
<1>14. Follows(found, stream', outcomes', handling')
  <2>1. Projecting(c) /\ Projecting(c)' => handling[c].done <= handling'[c].done
    BY <1>4, <1>13
  <2> QED
    BY <1>9, <1>11, <2>1, FollowsStays
<1>15. Placed(m, outcomes', handling')
  <2>1. n + 1 \in Nat
    BY <1>3
  <2>2. \/ n + 1 <= Len(outcomes'[c])
        \/ /\ n + 1 = Len(outcomes'[c]) + 1
           /\ handling'[c].phase \in {"projecting", "found"}
           /\ m.nr <= handling'[c].done
    BY <1>3, <1>4, <1>8, <1>13
  <2> QED
    BY <1>8, <2>1, <2>2 DEF Placed
<1>16. ~Placed(m, outcomes, handling)
  <2> SUFFICES ASSUME NEW d \in Clients, NEW k \in Nat, m.by = <<d, k>>,
                      \/ k <= Len(outcomes[d])
                      \/ k = Len(outcomes[d]) + 1 /\ m.nr <= handling[d].done
               PROVE  FALSE
    BY DEF Placed
  <2>1. d = c /\ k = n + 1
    BY <1>8
  <2> QED
    BY <1>3, <1>4, <1>8, <2>1
<1>17. \A i \in DOMAIN found : found[i] # m
  BY <1>9, <1>16 DEF Follows
<1>18. PICK evolved : evolved = Append(found, m)
  OBVIOUS
<1>19. /\ DOMAIN evolved = 1..(Len(found) + 1) /\ Len(found) \in Nat
       /\ DOMAIN found = 1..Len(found)
       /\ \A i \in DOMAIN found : evolved[i] = found[i]
       /\ evolved[Len(found) + 1] = m
       /\ \A i \in DOMAIN evolved : i \in DOMAIN found \/ i = Len(found) + 1
  BY <1>5, <1>18
<1>20. NothingTwice(evolved)
  BY <1>9, <1>17, <1>19 DEF Follows, NothingTwice
<1>21. \A i \in DOMAIN evolved :
         /\ \E j \in DOMAIN stream' : stream'[j] = evolved[i]
         /\ Placed(evolved[i], outcomes', handling')
  BY <1>1, <1>10, <1>14, <1>15, <1>19 DEF Follows
<1>22. Follows(evolved, stream', outcomes', handling')
  BY <1>20, <1>21 DEF Follows
<1> QED
  BY <1>4, <1>5, <1>6, <1>18, <1>22

\* Documents of the in-memory store follow the stream, whoever replaces them.
LEMMA DocumentsKept ==
  ASSUME TypeInv, TypeInv', ProjectedIsThere, DocumentsFollow,
         NEW c \in Clients, StepOf(c), store = "memory"
  PROVE  ProjectedIsThere' /\ DocumentsFollow'
<1>1. /\ StepTells(c) /\ UNCHANGED store
      /\ \A d \in Clients \ {c} : /\ handling'[d] = handling[d]
                                  /\ outcomes'[d] = outcomes[d]
  BY NextTells DEF StepTells, OthersWait
<1>2. /\ DOMAIN handling = Clients /\ DOMAIN outcomes = Clients
      /\ \A j \in DOMAIN stream : j \in DOMAIN stream' /\ stream'[j] = stream[j]
  BY <1>1, StreamStays DEF TypeInv, TypeOK
<1>3. \A d \in Clients \ {c} :
        /\ Projecting(d)' <=> Projecting(d)
        /\ At(d, "found")' <=> At(d, "found")
        /\ Decided(d)' = Decided(d)
  BY <1>1 DEF Projecting, At, Decided
<1>4. ASSUME Projecting(c)' =>
               \A nr \in 1..handling'[c].size :
                 \E j \in DOMAIN stream' : stream'[j] = Decided(c)'[nr]
      PROVE  ProjectedIsThere'
  <2> SUFFICES ASSUME NEW d \in Clients, Projecting(d)',
                      NEW nr \in 1..handling'[d].size
               PROVE  \E j \in DOMAIN stream' : stream'[j] = Decided(d)'[nr]
    BY DEF ProjectedIsThere
  <2>1. CASE d = c
    BY <1>4, <2>1
  <2>2. CASE d # c
    <3>1. Projecting(d) /\ handling'[d] = handling[d] /\ Decided(d)' = Decided(d)
      BY <1>1, <1>3, <2>2
    <3>2. PICK j \in DOMAIN stream : stream[j] = Decided(d)[nr]
      BY <3>1 DEF ProjectedIsThere
    <3> QED
      BY <1>2, <3>1, <3>2
  <2> QED
    BY <2>1, <2>2
<1>5. ASSUME Projecting(c) /\ Projecting(c)' =>
               handling[c].done <= handling'[c].done,
             Follows(readModel', stream', outcomes', handling'),
             At(c, "found")' => handling'[c].found = readModel'
      PROVE  DocumentsFollow'
  <2>1. ASSUME NEW d \in Clients, At(d, "found")'
        PROVE  Follows(handling'[d].found, stream', outcomes', handling')
    <3>1. CASE d = c
      BY <1>5, <2>1, <3>1
    <3>2. CASE d # c
      <4>1. At(d, "found") /\ handling'[d] = handling[d]
        BY <1>1, <1>3, <2>1, <3>2
      <4>2. Follows(handling[d].found, stream, outcomes, handling)
        BY <4>1 DEF DocumentsFollow
      <4> QED
        BY <1>1, <1>5, <4>1, <4>2, FollowsStays
    <3> QED
      BY <3>1, <3>2
  <2> QED
    BY <1>1, <1>5, <2>1 DEF DocumentsFollow
<1>6. ASSUME readModel' = readModel,
             Projecting(c) /\ Projecting(c)' =>
               handling[c].done <= handling'[c].done
      PROVE  Follows(readModel', stream', outcomes', handling')
  BY <1>1, <1>6, FollowsStays DEF DocumentsFollow
<1>7. ASSUME readModel' = readModel, ~Projecting(c)'
      PROVE  ProjectedIsThere' /\ DocumentsFollow'
  BY <1>4, <1>5, <1>6, <1>7 DEF Projecting
<1>8. ASSUME NEW outcome \in Outcomes, Tell(c, outcome)
      PROVE  ~Projecting(c)'
  BY <1>8, AnswerTells DEF TypeInv
<1>9. ASSUME NEW option, NEW tries, ConflictAfter(c, option, tries)
      PROVE  ~Projecting(c)'
  BY <1>2, <1>8, <1>9 DEF ConflictAfter, Projecting, At, Outcomes
<1>10. ASSUME NEW option, NEW tries, AggregateAndDecide(c, option, tries)
       PROVE  readModel' = readModel /\ ~Projecting(c)'
  <2>1. ASSUME NEW size,
               handling' = [handling EXCEPT
                     ![c] = [phase |-> "appending", option |-> option,
                             tries |-> tries, seen |-> Len(stream),
                             size |-> size, base |-> 0, done |-> 0,
                             found |-> <<>>]]
        PROVE  ~Projecting(c)'
    <3>1. handling'[c].phase = "appending"
      BY <1>2, <2>1
    <3> QED
      BY <3>1 DEF Projecting, At
  <2> QED
    BY <1>8, <1>9, <1>10, <2>1 DEF AggregateAndDecide, Outcomes
<1>11. CASE (\E option \in ExpectedVersions : Handle(c, option)) \/ Retry(c)
  BY <1>7, <1>10, <1>11 DEF Handle, Retry
<1>12. CASE AppendToMemory(c)
  <2>1. readModel' = readModel /\ Working(c) /\ ~Projecting(c)
    BY <1>12 DEF AppendToMemory, At, Working, Phases, Projecting
  <2>2. CASE Conflict(c)
    BY <1>7, <1>9, <2>1, <2>2 DEF Conflict
  <2>3. CASE stream' = stream \o Decided(c) /\ Step(c, "projecting")
    <3>1. handling[c] \in ToAppend
      BY <2>1, InHandByPhase DEF TypeInv
    <3> DEFINE h == [handling[c] EXCEPT !.phase = "projecting"]
    <3>2. handling' = [handling EXCEPT ![c] = h] /\ outcomes' = outcomes
      BY <2>3 DEF Step
    <3>3. /\ h.phase = "projecting" /\ h.size = handling[c].size
          /\ h.seen = handling[c].seen /\ h.option = handling[c].option
      BY <3>1 DEF ToAppend
    <3> HIDE DEF h
    <3>4. handling'[c] = h
      BY <1>2, <3>2
    <3>5. Decided(c)' = Decided(c)
      BY <3>2, <3>3, <3>4 DEF Decided
    <3>6. /\ stream \in Seq(Appended) /\ Decided(c) \in Seq(Appended)
          /\ Len(Decided(c)) = handling[c].size
      BY <2>1, DecidedMessages DEF TypeInv, TypeOK
    <3>7. \A nr \in 1..handling[c].size :
            /\ Len(stream) + nr \in DOMAIN stream'
            /\ stream'[Len(stream) + nr] = Decided(c)[nr]
      BY <2>3, <3>6
    <3>8. ProjectedIsThere'
      BY <1>4, <3>3, <3>4, <3>5, <3>7
    <3>9. ~At(c, "found")'
      BY <3>3, <3>4 DEF At
    <3> QED
      BY <1>5, <1>6, <2>1, <3>8, <3>9
  <2> QED
    BY <1>12, <2>2, <2>3 DEF AppendToMemory
<1>13. CASE FindDocument(c)
  <2> DEFINE h == [handling[c] EXCEPT !.phase = "found", !.found = readModel]
  <2>1. /\ handling' = [handling EXCEPT ![c] = h]
        /\ UNCHANGED <<stream, readModel, outcomes>>
        /\ Working(c) /\ Projecting(c)
    BY <1>13 DEF FindDocument, At, Working, Phases, Projecting
  <2>2. handling[c] \in ToAppend
    BY <2>1, InHandByPhase DEF TypeInv
  <2>3. /\ h.found = readModel /\ h.done = handling[c].done
        /\ h.size = handling[c].size
        /\ h.seen = handling[c].seen /\ h.option = handling[c].option
    BY <2>2 DEF ToAppend
  <2> HIDE DEF h
  <2>4. handling'[c] = h
    BY <1>2, <2>1
  <2>5. Decided(c)' = Decided(c)
    BY <2>1, <2>3, <2>4 DEF Decided
  <2>6. ProjectedIsThere'
    BY <1>4, <2>1, <2>3, <2>4, <2>5 DEF ProjectedIsThere
  <2>7. handling[c].done <= handling'[c].done
    BY <2>2, <2>3, <2>4, CommandAssumption DEF ToAppend
  <2> QED
    BY <1>5, <1>6, <2>1, <2>3, <2>4, <2>6, <2>7
<1>14. CASE PutDocument(c)
  <2>1. Follows(Append(handling[c].found, Decided(c)[handling[c].done + 1]),
                stream', outcomes', handling')
    BY <1>14, PutFollows
  <2>2. UNCHANGED stream /\ Working(c) /\ Projecting(c)
    BY <1>14 DEF PutDocument, At, Working, Phases, Projecting
  <2>3. handling[c] \in ToAppend
    BY <2>2, InHandByPhase DEF TypeInv
  <2>4. CASE Tell(c, "appended")
    <3>1. ~Projecting(c)'
      BY <1>8, <2>4 DEF Outcomes
    <3>2. Follows(readModel', stream', outcomes', handling')
      BY <1>6, <1>14, <2>1, <3>1 DEF PutDocument
    <3> QED
      BY <1>4, <1>5, <3>1, <3>2 DEF Projecting
  <2>5. CASE ~Tell(c, "appended")
    <3> DEFINE done == handling[c].done + 1
               h == [handling[c] EXCEPT !.phase = "projecting", !.done = done,
                                        !.found = <<>>]
    <3>1. handling' = [handling EXCEPT ![c] = h] /\ UNCHANGED outcomes
      BY <1>14, <2>5 DEF PutDocument
    <3>2. /\ h.phase = "projecting" /\ h.done = done
          /\ h.size = handling[c].size
          /\ h.seen = handling[c].seen /\ h.option = handling[c].option
      BY <2>3 DEF ToAppend
    <3> HIDE DEF h
    <3>3. handling'[c] = h
      BY <1>2, <3>1
    <3>4. Decided(c)' = Decided(c)
      BY <3>1, <3>2, <3>3 DEF Decided
    <3>5. ProjectedIsThere'
      BY <1>4, <2>2, <3>2, <3>3, <3>4 DEF ProjectedIsThere
    <3>6. handling[c].done <= handling'[c].done
      BY <2>3, <3>2, <3>3, CommandAssumption DEF ToAppend
    <3>7. Follows(readModel', stream', outcomes', handling')
      BY <1>6, <1>14, <2>1, <3>6 DEF PutDocument
    <3>8. ~At(c, "found")'
      BY <3>2, <3>3 DEF At
    <3> QED
      BY <1>5, <3>5, <3>6, <3>7, <3>8
  <2> QED
    BY <2>4, <2>5
<1>15. CASE Fail(c)
  <2>1. readModel' = readModel /\ Tell(c, "failed")
    BY <1>15 DEF Fail, FailProjection, FailAppend, RollbackAppend,
                 ViolateUniqueness, FailUpdate, Transactional
  <2> QED
    BY <1>7, <1>8, <2>1 DEF Outcomes
<1> QED
  BY <1>11, <1>12, <1>13, <1>14, <1>15
     DEF StepOf, Proceed, ReadPosition, WriteStream, CommitAppend, FindStream,
         UpdateStream, AppendToServer, Transactional

\* Every step keeps the read model, and what is found of it, the stream's.
LEMMA ReadInvariance == Spec => []ReadInv
<1>1. Init => ReadInv
  <2> SUFFICES ASSUME Init PROVE ReadInv
    OBVIOUS
  <2>1. /\ stream = <<>> /\ readModel = <<>> /\ DOMAIN stream = {}
        /\ \A c \in Clients : handling[c].phase = "idle"
    BY DEF Init, Idle
  <2> QED
    BY <2>1 DEF ReadInv, InlineIsStream, FoundIsCurrent, ProjectedIsThere,
                DocumentsFollow, Follows, NothingTwice, Projecting, At
<1>2. ASSUME TypeInv, TypeInv', NobodyIsAhead, TruthInv, ReadInv, [Next]_vars
      PROVE  ReadInv'
  <2>1. CASE UNCHANGED vars
    <3>1. UNCHANGED <<store, stream, readModel, handling, outcomes>>
      BY <2>1 DEF vars
    <3>2. \A c \in Clients : Decided(c)' = Decided(c)
      BY <3>1 DEF Decided
    <3> QED
      BY <1>2, <3>1, <3>2
         DEF ReadInv, InlineIsStream, FoundIsCurrent, ProjectedIsThere,
             DocumentsFollow, Projecting, At
  <2>2. ASSUME NEW c \in Clients, StepOf(c) PROVE ReadInv'
    <3>1. StepTells(c) /\ UNCHANGED store
      BY <1>2, <2>2, NextTells DEF StepTells, OthersWait
    <3>2. NothingTwice(stream')
      BY <1>2, <3>1, StreamHoldsNothingTwice DEF ReadInv, TruthInv
    <3>3. InlineIsStream' /\ FoundIsCurrent'
      <4>1. CASE store = "memory"
        BY <3>1, <4>1 DEF InlineIsStream, FoundIsCurrent, Transactional
      <4>2. CASE store # "memory"
        BY <1>2, <2>2, <4>2, InlineKept DEF ReadInv
      <4> QED
        BY <4>1, <4>2
    <3>4. ProjectedIsThere' /\ DocumentsFollow'
      <4>1. CASE store = "memory"
        BY <1>2, <2>2, <4>1, DocumentsKept DEF ReadInv
      <4>2. CASE store # "memory"
        BY <3>1, <4>2 DEF ProjectedIsThere, DocumentsFollow
      <4> QED
        BY <4>1, <4>2
    <3>5. NothingTwice(stream)'
      BY <3>2 DEF NothingTwice
    <3> QED
      BY <3>3, <3>4, <3>5 DEF ReadInv
  <2> QED
    BY <1>2, <2>1, <2>2 DEF Next, StepOf
<1>3. IInv => TypeInv
  BY DEF IInv
<1> QED
  BY <1>1, <1>2, <1>3, Invariance, NobodyGetsAhead, TruthInvariance, PTL
     DEF Spec

\* Inline read models are the stream's over the databases; in memory, where
\* appends replace the document without a check, it holds nothing twice and
\* nothing that was not appended.
THEOREM ReadModelsFollow == Spec => []ReadModelFollowsStream
<1>1. ReadInv /\ TypeInv => ReadModelFollowsStream
  <2> SUFFICES ASSUME ReadInv, TypeInv PROVE ReadModelFollowsStream
    OBVIOUS
  <2>1. store \in {"memory", "esdb"} \/ store \in Transactional \cup {"mongo"}
    BY CommandAssumption DEF TypeInv, TypeOK
  <2>2. CASE store = "memory"
    BY <2>2 DEF ReadInv, DocumentsFollow, Follows, NothingTwice,
                ReadModelFollowsStream, Transactional
  <2>3. CASE store = "esdb"
    BY <2>3 DEF ReadInv, InlineIsStream, ReadModelFollowsStream, Transactional
  <2>4. CASE store \in Transactional \cup {"mongo"}
    BY <2>4 DEF ReadInv, InlineIsStream, NothingTwice, ReadModelFollowsStream
  <2> QED
    BY <2>1, <2>2, <2>3, <2>4
<1>2. IInv => TypeInv
  BY DEF IInv
<1> QED
  BY <1>1, <1>2, ReadInvariance, Invariance, PTL

=============================================================================
