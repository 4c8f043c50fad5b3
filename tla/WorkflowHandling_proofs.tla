----------------------- MODULE WorkflowHandling_proofs -----------------------
(***************************************************************************)
(* Proofs about WorkflowHandling: an input is decided on once, whichever   *)
(* instances it is delivered to, no input below a checkpoint is lost, and  *)
(* decisions have seen the whole stream that they are appended to.         *)
(***************************************************************************)
EXTENDS WorkflowHandling, SequenceTheorems, FiniteSetTheorems, TLAPS

(* What is in hand is an input that is there, and in an inbox of its own only
   the stored copy; nobody is ahead of the log, or of what it remembers.     *)
InHand ==
  \A p \in Instances :
    /\ instance[p].remembered <= instance[p].position
    /\ At(p, "retrying") \/ At(p, "appending") =>
         /\ HasNext(p)
         /\ separate => ~IsRaw(log[Current(p)])

(* A decision whose version still stands is one on an input that nobody has
   recorded.                                                                 *)
Undecided ==
  \A p \in Instances :
    At(p, "appending") =>
      /\ instance[p].seen <= version
      /\ ~separate /\ instance[p].seen = version => StoredFor(Current(p)) = {}

WorkflowInv ==
  /\ TypeOK
  /\ InHand
  /\ Undecided
  /\ InputsAreDecidedOnce
  /\ CheckpointCoversInputs

-----------------------------------------------------------------------------

(* The updates of a state are states.                                        *)
LEMMA UpdatesHold ==
  ASSUME NEW i \in States, NEW seen \in Nat,
         NEW size \in 0..MaxOutputs, NEW tries \in 0..MaxRetries,
         NEW position \in Nat, MaxOutputs \in Nat, MaxRetries \in Nat
  PROVE  /\ [i EXCEPT !.phase = "idle"] \in States
         /\ [i EXCEPT !.phase = "handled", !.position = position,
                      !.seen = 0, !.size = 0, !.tries = 0] \in States
         /\ [i EXCEPT !.phase = "appending", !.seen = seen, !.size = size]
              \in States
         /\ [i EXCEPT !.phase = "retrying", !.seen = 0, !.size = 0,
                      !.tries = tries] \in States
         /\ StartedAt(position, "idle") \in States
         /\ StartedAt(position, "stopped") \in States
  <1>1. 0 \in 0..MaxOutputs /\ 0 \in 0..MaxRetries
    OBVIOUS
  <1>2. [i EXCEPT !.phase = "idle"] \in States
    BY DEF States
  <1>3. [i EXCEPT !.phase = "handled", !.position = position,
                  !.seen = 0, !.size = 0, !.tries = 0] \in States
    BY <1>1 DEF States
  <1>4. [i EXCEPT !.phase = "appending", !.seen = seen, !.size = size] \in States
    BY DEF States
  <1>5. [i EXCEPT !.phase = "retrying", !.seen = 0, !.size = 0, !.tries = tries]
          \in States
    BY <1>1 DEF States
  <1>6. /\ StartedAt(position, "idle") \in States
        /\ StartedAt(position, "stopped") \in States
    BY <1>1 DEF States, StartedAt
  <1>7. QED BY <1>2, <1>3, <1>4, <1>5, <1>6

(* The messages that a step appends are messages.                            *)
LEMMA MessagesHold ==
  ASSUME WorkflowAssumption, TypeOK, NEW p \in Instances
  PROVE  /\ <<Stored(Current(p), version)>> \in Seq(Messages)
         /\ <<Fed(Current(p))>> \in Seq(Messages)
         /\ Decision(p) \in Seq(Messages)
         /\ External \in Messages
  <1>1. /\ Current(p) \in Nat
        /\ instance[p].seen \in Nat
        /\ instance[p].size \in Nat
        /\ version \in Nat
    BY DEF TypeOK, States, WorkflowAssumption, Current
  <1>2. /\ Stored(Current(p), version) \in Messages
        /\ Stored(Current(p), instance[p].seen) \in Messages
        /\ Fed(Current(p)) \in Messages
        /\ External \in Messages
        /\ Output(Current(p), instance[p].seen) \in Messages
    BY <1>1 DEF Stored, Fed, External, Output, Messages
  <1>3. Outputs(p) \in Seq(Messages)
    BY <1>1, <1>2 DEF Outputs
  <1>4. QED BY <1>2, <1>3 DEF Decision

(* A log that was appended to: what is there stays.                          *)
LEMMA LogGrows ==
  ASSUME log \in Seq(Messages), NEW messages \in Seq(Messages),
         log' = log \o messages
  PROVE  /\ log' \in Seq(Messages)
         /\ Len(log') = Len(log) + Len(messages)
         /\ DOMAIN log = 1..Len(log) /\ DOMAIN log' = 1..Len(log')
         /\ \A i \in DOMAIN log : i \in DOMAIN log' /\ log'[i] = log[i]
         /\ \A i \in DOMAIN log' :
              i > Len(log) => /\ i - Len(log) \in 1..Len(messages)
                              /\ log'[i] = messages[i - Len(log)]
  OBVIOUS

(* What a decision appends: in an inbox of its own outputs, else the input in
   front of them.                                                            *)
LEMMA DecisionHolds ==
  ASSUME WorkflowAssumption, TypeOK, NEW p \in Instances
  PROVE  /\ Len(Decision(p)) = instance[p].size + (IF separate THEN 0 ELSE 1)
         /\ \A i \in 1..Len(Decision(p)) :
              ~IsRaw(Decision(p)[i])
         /\ ~separate => Decision(p)[1] = Stored(Current(p), instance[p].seen)
         /\ \A i \in 1..Len(Decision(p)) :
              Decision(p)[i].type = "stored" => ~separate /\ i = 1
  <1>1. instance[p].size \in Nat
    BY DEF TypeOK, States, WorkflowAssumption
  <1> DEFINE first == Stored(Current(p), instance[p].seen)
  <1>2. /\ Outputs(p) \in Seq({Output(Current(p), instance[p].seen)})
        /\ Len(Outputs(p)) = instance[p].size
    BY <1>1 DEF Outputs
  <1>3. \A i \in 1..Len(Outputs(p)) :
          /\ ~IsRaw(Outputs(p)[i])
          /\ Outputs(p)[i].type = "output"
    BY <1>2 DEF Output, IsRaw
  <1>4. ~IsRaw(first)
    BY DEF Stored, IsRaw
  <1> HIDE DEF first
  <1>5. CASE separate
    BY <1>2, <1>3, <1>5 DEF Decision
  <1>6. CASE ~separate
    <2>1. Decision(p) = <<first>> \o Outputs(p)
      BY <1>6 DEF Decision, first
    <2>2. /\ Len(Decision(p)) = 1 + instance[p].size
          /\ Decision(p)[1] = first
          /\ \A i \in 1..Len(Decision(p)) :
               i # 1 => /\ i - 1 \in 1..Len(Outputs(p))
                        /\ Decision(p)[i] = Outputs(p)[i - 1]
      BY <1>1, <1>2, <2>1
    <2>3. \A i \in 1..Len(Decision(p)) :
            /\ ~IsRaw(Decision(p)[i])
            /\ Decision(p)[i].type = "stored" => i = 1
      BY <1>3, <1>4, <2>2
    <2>4. QED BY <1>6, <1>1, <2>2, <2>3 DEF first
  <1>7. QED BY <1>5, <1>6

(* A log that was appended to: stored inputs stay stored, and what is new
   among them is among the messages that were appended.                      *)
LEMMA StoredGrows ==
  ASSUME log \in Seq(Messages), NEW messages \in Seq(Messages),
         log' = log \o messages, NEW id \in Nat
  PROVE  /\ StoredFor(id) \subseteq StoredFor(id)'
         /\ \A i \in StoredFor(id)' \ StoredFor(id) :
              /\ i - Len(log) \in 1..Len(messages)
              /\ messages[i - Len(log)].type = "stored"
              /\ messages[i - Len(log)].of = id
  <1>1. /\ DOMAIN log = 1..Len(log) /\ DOMAIN log' = 1..Len(log')
        /\ Len(log) \in Nat
        /\ \A i \in DOMAIN log : i \in DOMAIN log' /\ log'[i] = log[i]
        /\ \A i \in DOMAIN log' :
             i > Len(log) => /\ i - Len(log) \in 1..Len(messages)
                             /\ log'[i] = messages[i - Len(log)]
    BY LogGrows
  <1>2. \A i \in DOMAIN log' : i \in DOMAIN log \/ i > Len(log)
    BY <1>1
  <1>3. QED BY <1>1, <1>2 DEF StoredFor

-----------------------------------------------------------------------------

(* The stored copies of an input after a step.                               *)
StoredAfter(id) ==
  {i \in DOMAIN log' : log'[i].type = "stored" /\ log'[i].of = id}

(* What the invariant asks of the state of one instance after a step.        *)
SoundAfter(state) ==
  /\ state.remembered <= state.position /\ state.position <= Len(log)
  /\ state.phase \in {"retrying", "appending"} =>
       /\ state.position + 1 \in DOMAIN log
       /\ separate => ~IsRaw(log[state.position + 1])
  /\ state.phase = "appending" =>
       /\ state.seen <= version'
       /\ ~separate /\ state.seen = version' =>
            StoredAfter(state.position + 1) = {}
  /\ \A i \in DOMAIN log :
       i <= state.position /\ IsRaw(log[i]) => StoredAfter(i) # {}

(* What a step appends, and what that does to the version and the checkpoint. *)
StepOf(messages) ==
  /\ messages \in Seq(Messages)
  /\ log' = log \o messages
  /\ separate' = separate
  /\ starts' \in 0..MaxStarts
  /\ version' \in version..(version + Len(messages))
  /\ checkpoint' \in 0..Len(log)
  /\ instance' \in [Instances -> States]
  /\ \A q \in Instances : instance'[q] = instance[q] \/ SoundAfter(instance'[q])
  /\ \A i \in 1..Len(messages) :
       messages[i].type = "stored" =>
         /\ version' > version
         /\ ~separate => i = 1 /\ StoredFor(messages[i].of) = {}
  /\ \A i \in DOMAIN log :
       i <= checkpoint' /\ IsRaw(log[i]) => StoredAfter(i) # {}

(* Such a step keeps the invariant.                                          *)
LEMMA StepKeepsInv ==
  ASSUME WorkflowAssumption, WorkflowInv, NEW messages, StepOf(messages)
  PROVE  WorkflowInv'
  <1>1. /\ log \in Seq(Messages) /\ messages \in Seq(Messages)
        /\ log' = log \o messages
        /\ log' \in Seq(Messages)
        /\ Len(log') = Len(log) + Len(messages)
        /\ Len(log) \in Nat /\ Len(messages) \in Nat
        /\ DOMAIN log = 1..Len(log) /\ DOMAIN log' = 1..Len(log')
        /\ \A i \in DOMAIN log : i \in DOMAIN log' /\ log'[i] = log[i]
        /\ \A i \in DOMAIN log' :
             i > Len(log) => /\ i - Len(log) \in 1..Len(messages)
                             /\ log'[i] = messages[i - Len(log)]
    BY LogGrows DEF WorkflowInv, TypeOK, StepOf
  <1>2. \A id \in Nat :
          /\ StoredFor(id) \subseteq StoredAfter(id)
          /\ \A i \in StoredAfter(id) \ StoredFor(id) :
               /\ i - Len(log) \in 1..Len(messages)
               /\ messages[i - Len(log)].type = "stored"
               /\ messages[i - Len(log)].of = id
    BY <1>1, StoredGrows DEF StoredFor, StoredAfter
  <1>3. /\ version \in Nat /\ version' \in Nat /\ version <= version'
        /\ version <= Len(log) /\ version' <= Len(log')
        /\ checkpoint' \in Nat /\ checkpoint' <= Len(log)
    BY <1>1 DEF WorkflowInv, TypeOK, StepOf
  <1>4. \A q \in Instances :
          /\ instance[q] \in States /\ instance'[q] \in States
          /\ instance[q].position <= Len(log) /\ instance'[q].position <= Len(log)
          /\ instance'[q].position \in Nat /\ instance'[q].seen \in Nat
          /\ instance'[q].remembered \in Nat
          /\ instance'[q] = instance[q] \/ SoundAfter(instance'[q])
    BY DEF WorkflowInv, TypeOK, StepOf, States, SoundAfter
  <1>5. TypeOK'
    <2>1. /\ separate' \in Modes
          /\ instance' \in [Instances -> States]
          /\ starts' \in 0..MaxStarts
      BY DEF WorkflowInv, TypeOK, StepOf
    <2>2. \A q \in Instances : instance'[q].position <= Len(log')
      BY <1>1, <1>4
    <2>3. QED BY <1>1, <1>3, <2>1, <2>2 DEF TypeOK
  <1>6. InHand'
    <2> SUFFICES ASSUME NEW q \in Instances
                 PROVE  /\ instance'[q].remembered <= instance'[q].position
                        /\ instance'[q].phase \in {"retrying", "appending"} =>
                             /\ instance'[q].position + 1 \in DOMAIN log'
                             /\ separate' => ~IsRaw(log'[instance'[q].position + 1])
      BY DEF InHand, At, HasNext, Current, IsRaw
    <2>1. /\ instance'[q].remembered <= instance'[q].position
          /\ instance'[q].phase \in {"retrying", "appending"} =>
               /\ instance'[q].position + 1 \in DOMAIN log
               /\ separate => ~IsRaw(log[instance'[q].position + 1])
      <3>1. CASE instance'[q] = instance[q]
        BY <3>1 DEF WorkflowInv, InHand, At, HasNext, Current
      <3>2. CASE SoundAfter(instance'[q])
        BY <3>2 DEF SoundAfter
      <3>3. QED BY <1>4, <3>1, <3>2
    <2>2. QED BY <1>1, <2>1 DEF StepOf, IsRaw
  <1>7. Undecided'
    <2> SUFFICES ASSUME NEW q \in Instances, instance'[q].phase = "appending"
                 PROVE  /\ instance'[q].seen <= version'
                        /\ ~separate /\ instance'[q].seen = version' =>
                             StoredAfter(instance'[q].position + 1) = {}
      BY DEF Undecided, At, Current, StepOf, StoredFor, StoredAfter
    <2>1. CASE SoundAfter(instance'[q])
      BY <2>1 DEF SoundAfter
    <2>2. CASE instance'[q] = instance[q]
      <3>1. /\ instance[q].seen <= version
            /\ ~separate /\ instance[q].seen = version =>
                 StoredFor(instance[q].position + 1) = {}
        BY <2>2 DEF WorkflowInv, Undecided, At, Current
      <3>2. ASSUME ~separate, instance[q].seen = version'
            PROVE  StoredAfter(instance[q].position + 1) = {}
        <4>1. version' = version /\ StoredFor(instance[q].position + 1) = {}
          BY <1>3, <1>4, <2>2, <3>1, <3>2
        <4>2. \A i \in 1..Len(messages) : messages[i].type # "stored"
          BY <4>1, <1>3 DEF StepOf
        <4>3. instance[q].position + 1 \in Nat
          BY <1>4, <2>2
        <4>4. QED BY <1>2, <4>1, <4>2, <4>3
      <3>3. QED BY <1>3, <1>4, <2>2, <3>1, <3>2
    <2>3. QED BY <1>4, <2>1, <2>2
  <1>8. InputsAreDecidedOnce'
    <2> SUFFICES ASSUME ~separate, NEW i \in DOMAIN log', NEW j \in DOMAIN log',
                        log'[i].type = "stored", log'[j].type = "stored",
                        log'[i].of = log'[j].of, i < j
                 PROVE  FALSE
      <3>1. \A i, j \in DOMAIN log' : i < j \/ j < i \/ i = j
        BY <1>1
      <3>2. separate' = separate
        BY DEF StepOf
      <3>3. QED BY <3>1, <3>2 DEF InputsAreDecidedOnce
    <2>1. CASE j \in DOMAIN log
      <3>1. i \in DOMAIN log
        BY <1>1, <2>1
      <3>2. log[i] = log'[i] /\ log[j] = log'[j]
        BY <1>1, <2>1, <3>1
      <3>3. QED BY <1>1, <2>1, <3>1, <3>2 DEF WorkflowInv, InputsAreDecidedOnce
    <2>2. CASE j \notin DOMAIN log
      <3>1. j - Len(log) \in 1..Len(messages) /\ log'[j] = messages[j - Len(log)]
        BY <1>1, <2>2
      <3>2. j - Len(log) = 1 /\ StoredFor(log'[j].of) = {}
        <4> DEFINE k == j - Len(log)
        <4>1. k \in 1..Len(messages) /\ messages[k].type = "stored"
          BY <3>1
        <4>2. k = 1 /\ StoredFor(messages[k].of) = {}
          BY <4>1 DEF StepOf
        <4>3. QED BY <3>1, <4>2
      <3>3. i \in DOMAIN log
        BY <1>1, <3>2
      <3>4. i \in StoredFor(log'[j].of)
        BY <1>1, <3>3 DEF StoredFor
      <3>5. QED BY <3>2, <3>4
    <2>3. QED BY <2>1, <2>2
  <1>9. CheckpointCoversInputs'
    <2> SUFFICES ASSUME NEW i \in DOMAIN log', IsRaw(log'[i]),
                        i <= checkpoint' \/ \E q \in Instances :
                                              i <= instance'[q].position
                 PROVE  StoredAfter(i) # {}
      BY DEF CheckpointCoversInputs, IsRaw, StoredFor, StoredAfter
    <2>1. i \in DOMAIN log /\ IsRaw(log[i]) /\ i \in Nat
      BY <1>1, <1>3, <1>4
    <2>2. ASSUME i <= checkpoint'
          PROVE  StoredAfter(i) # {}
      BY <2>1, <2>2 DEF StepOf
    <2>3. ASSUME NEW q \in Instances, i <= instance'[q].position
          PROVE  StoredAfter(i) # {}
      <3>1. CASE SoundAfter(instance'[q])
        BY <2>1, <2>3, <3>1 DEF SoundAfter
      <3>2. CASE instance'[q] = instance[q]
        BY <1>2, <2>1, <2>3, <3>2 DEF WorkflowInv, CheckpointCoversInputs
      <3>3. QED BY <1>4, <3>1, <3>2
    <2>4. QED BY <2>2, <2>3
  <1>10. QED BY <1>5, <1>6, <1>7, <1>8, <1>9 DEF WorkflowInv

-----------------------------------------------------------------------------

(* What was covered stays so, below the checkpoint and every position.       *)
LEMMA CoverStays ==
  ASSUME WorkflowAssumption, WorkflowInv, NEW messages \in Seq(Messages),
         log' = log \o messages
  PROVE  /\ \A i \in DOMAIN log : i <= checkpoint /\ IsRaw(log[i])
              => StoredAfter(i) # {}
         /\ \A q \in Instances : \A i \in DOMAIN log :
              i <= instance[q].position /\ IsRaw(log[i]) => StoredAfter(i) # {}
         /\ checkpoint \in 0..Len(log)
         /\ DOMAIN log = 1..Len(log) /\ Len(log) \in Nat
         /\ version \in Nat /\ MaxRetries \in Nat /\ MaxOutputs \in Nat
         /\ \A q \in Instances :
              /\ instance[q] \in States
              /\ instance[q].position \in Nat
              /\ instance[q].position <= Len(log)
              /\ instance[q].remembered \in Nat
              /\ instance[q].remembered <= instance[q].position
  <1>1. log \in Seq(Messages)
    BY DEF WorkflowInv, TypeOK
  <1>2. DOMAIN log = 1..Len(log) /\ Len(log) \in Nat
    BY <1>1
  <1>3. \A i \in DOMAIN log : StoredFor(i) \subseteq StoredAfter(i)
    BY <1>1, <1>2, StoredGrows DEF StoredFor, StoredAfter
  <1>4. \A i \in DOMAIN log :
          /\ IsRaw(log[i])
          /\ i <= checkpoint \/ \E q \in Instances : i <= instance[q].position
          => StoredFor(i) # {}
    BY DEF WorkflowInv, CheckpointCoversInputs
  <1>5. \A q \in Instances :
          /\ instance[q] \in States
          /\ instance[q].position \in Nat
          /\ instance[q].position <= Len(log)
          /\ instance[q].remembered \in Nat
          /\ instance[q].remembered <= instance[q].position
    BY DEF WorkflowInv, TypeOK, States, InHand
  <1>6. /\ checkpoint \in 0..Len(log) /\ version \in Nat
        /\ MaxRetries \in Nat /\ MaxOutputs \in Nat
    BY <1>2 DEF WorkflowInv, TypeOK, WorkflowAssumption
  <1>7. QED BY <1>2, <1>3, <1>4, <1>5, <1>6

(* One instance gets a new state, a sound one.                               *)
LEMMA BecomesSound ==
  ASSUME WorkflowInv, NEW p \in Instances, NEW state \in States,
         Becomes(p, state), SoundAfter(state)
  PROVE  /\ instance' \in [Instances -> States]
         /\ \A q \in Instances :
              instance'[q] = instance[q] \/ SoundAfter(instance'[q])
  <1>1. instance \in [Instances -> States]
    BY DEF WorkflowInv, TypeOK
  <1>2. /\ instance' \in [Instances -> States]
        /\ \A q \in Instances :
             instance'[q] = IF q = p THEN state ELSE instance[q]
    BY <1>1 DEF Becomes
  <1>3. \A q \in Instances :
          instance'[q] = instance[q] \/ SoundAfter(instance'[q])
    <2> TAKE q \in Instances
    <2>1. CASE q = p
      <3>1. instance'[q] = state
        BY <1>2, <2>1
      <3>2. QED BY <3>1 DEF SoundAfter
    <2>2. CASE q # p
      BY <1>2, <2>2
    <2>3. QED BY <2>1, <2>2
  <1>4. QED BY <1>2, <1>3

(* The message in hand was handled, and if it is an input, it is recorded.   *)
LEMMA DoneIsSound ==
  ASSUME WorkflowAssumption, WorkflowInv, NEW p \in Instances,
         NEW messages \in Seq(Messages), log' = log \o messages,
         HasNext(p), Done(p),
         IsRaw(log[Current(p)]) => StoredAfter(Current(p)) # {}
  PROVE  /\ instance' \in [Instances -> States]
         /\ \A q \in Instances :
              instance'[q] = instance[q] \/ SoundAfter(instance'[q])
  <1> DEFINE state == [instance[p] EXCEPT !.phase = "handled",
                         !.position = Current(p),
                         !.seen = 0, !.size = 0, !.tries = 0]
  <1>0. /\ instance[p].position \in Nat
        /\ \A i \in DOMAIN log : i \in Nat
    BY CoverStays
  <1>1. Current(p) \in Nat /\ Current(p) = instance[p].position + 1
    BY <1>0 DEF Current
  <1>2. instance[p] \in States /\ MaxOutputs \in Nat /\ MaxRetries \in Nat
    BY CoverStays
  <1>3. 0 \in 0..MaxOutputs /\ 0 \in 0..MaxRetries
    BY <1>2
  <1>4. state \in States
    BY <1>1, <1>2, <1>3, UpdatesHold
  <1>5. /\ state.phase = "handled" /\ state.position = Current(p)
        /\ state.remembered = instance[p].remembered
    BY <1>2 DEF States
  <1>6. Becomes(p, state)
    BY DEF Done
  <1> HIDE DEF state
  <1>7. \A i \in DOMAIN log :
          i <= state.position /\ IsRaw(log[i]) => StoredAfter(i) # {}
    <2> TAKE i \in DOMAIN log
    <2>1. i \in Nat /\ instance[p].position \in Nat
      BY <1>0
    <2>2. i <= Current(p) => i = Current(p) \/ i <= instance[p].position
      BY <1>1, <2>1
    <2>3. QED BY <1>5, <2>2, CoverStays
  <1>8. state.remembered <= state.position /\ state.position <= Len(log)
    <2>1. /\ instance[p].remembered \in Nat /\ instance[p].position \in Nat
          /\ instance[p].remembered <= instance[p].position
          /\ DOMAIN log = 1..Len(log) /\ Len(log) \in Nat
      BY CoverStays
    <2>2. Current(p) <= Len(log)
      BY ONLY <1>1, <2>1, HasNext(p) DEF HasNext
    <2>3. QED BY ONLY <1>1, <1>5, <2>1, <2>2
  <1>9. SoundAfter(state)
    BY <1>5, <1>7, <1>8 DEF SoundAfter
  <1>10. QED BY <1>4, <1>6, <1>9, BecomesSound

(* A stop falls back on what the instance remembers.                         *)
LEMMA StoppedIsSound ==
  ASSUME WorkflowAssumption, WorkflowInv, NEW p \in Instances,
         NEW messages \in Seq(Messages), log' = log \o messages,
         Stopped(p)
  PROVE  /\ instance' \in [Instances -> States]
         /\ \A q \in Instances :
              instance'[q] = instance[q] \/ SoundAfter(instance'[q])
  <1> DEFINE state == StartedAt(instance[p].remembered, "stopped")
  <1>1. /\ instance[p] \in States /\ MaxOutputs \in Nat /\ MaxRetries \in Nat
        /\ instance[p].remembered \in Nat
        /\ instance[p].remembered <= instance[p].position
        /\ instance[p].position \in Nat /\ instance[p].position <= Len(log)
        /\ Len(log) \in Nat /\ DOMAIN log = 1..Len(log)
    BY CoverStays
  <1>2. 0 \in 0..MaxOutputs /\ 0 \in 0..MaxRetries
    BY <1>1
  <1>3. state \in States
    BY <1>1, <1>2, UpdatesHold
  <1>4. /\ state.phase = "stopped" /\ state.position = instance[p].remembered
        /\ state.remembered = instance[p].remembered
    BY DEF StartedAt
  <1>5. \A i \in DOMAIN log :
          i <= state.position /\ IsRaw(log[i]) => StoredAfter(i) # {}
    <2> TAKE i \in DOMAIN log
    <2>1. i <= instance[p].remembered => i <= instance[p].position
      BY <1>1
    <2>2. QED BY <1>4, <2>1, CoverStays
  <1>6. Becomes(p, state)
    BY DEF Stopped
  <1> HIDE DEF state
  <1>7. SoundAfter(state)
    BY <1>1, <1>4, <1>5 DEF SoundAfter
  <1>8. QED BY <1>3, <1>6, <1>7, BecomesSound

-----------------------------------------------------------------------------

(* A step that appends nothing: enough is that instances stay sound, and that
   the checkpoint is one that was covered.                                   *)
LEMMA NothingAppended ==
  ASSUME WorkflowAssumption, WorkflowInv,
         UNCHANGED <<separate, log, version>>,
         starts' \in 0..MaxStarts,
         instance' \in [Instances -> States],
         \A q \in Instances : instance'[q] = instance[q] \/ SoundAfter(instance'[q]),
         checkpoint' = checkpoint \/ \E q \in Instances :
                                       checkpoint' = instance[q].position
  PROVE  WorkflowInv'
  <1>1. << >> \in Seq(Messages) /\ log' = log \o << >>
    BY DEF WorkflowInv, TypeOK
  <1>2. /\ \A i \in DOMAIN log : i <= checkpoint /\ IsRaw(log[i])
             => StoredAfter(i) # {}
        /\ \A q \in Instances : \A i \in DOMAIN log :
             i <= instance[q].position /\ IsRaw(log[i]) => StoredAfter(i) # {}
        /\ checkpoint \in 0..Len(log)
        /\ \A q \in Instances : /\ instance[q].position \in Nat
                                /\ instance[q].position <= Len(log)
        /\ version \in Nat /\ Len(log) \in Nat
    BY <1>1, CoverStays
  <1>3. /\ checkpoint' \in 0..Len(log)
        /\ \A i \in DOMAIN log :
             i <= checkpoint' /\ IsRaw(log[i]) => StoredAfter(i) # {}
    BY <1>2
  <1>4. version' \in version..(version + Len(<< >>))
    BY <1>2
  <1>5. \A i \in 1..Len(<< >>) : FALSE
    OBVIOUS
  <1>6. StepOf(<< >>)
    BY <1>1, <1>3, <1>4, <1>5 DEF StepOf
  <1>7. QED BY <1>6, StepKeepsInv

(* An external input is appended beyond every position.                      *)
LEMMA PublishKeepsInv ==
  ASSUME WorkflowAssumption, WorkflowInv, Publish
  PROVE  WorkflowInv'
  <1>1. <<External>> \in Seq(Messages) /\ log' = log \o <<External>>
    BY DEF WorkflowInv, TypeOK, Publish, External, Messages
  <1>2. <<External>>[1].type = "external" /\ Len(<<External>>) = 1
    BY DEF External
  <1>3. StepOf(<<External>>)
    <2>1. /\ \A i \in DOMAIN log : i <= checkpoint' /\ IsRaw(log[i])
               => StoredAfter(i) # {}
          /\ checkpoint' \in 0..Len(log)
          /\ version \in Nat
      BY <1>1, CoverStays DEF Publish
    <2>2. version' \in version..(version + Len(<<External>>))
      BY <1>2, <2>1 DEF Publish
    <2>3. /\ instance' \in [Instances -> States]
          /\ \A q \in Instances : instance'[q] = instance[q]
          /\ starts' \in 0..MaxStarts
          /\ separate' = separate
      BY DEF Publish, WorkflowInv, TypeOK
    <2>4. \A i \in 1..Len(<<External>>) : <<External>>[i].type # "stored"
      BY <1>2
    <2>5. QED BY <1>1, <2>1, <2>2, <2>3, <2>4 DEF StepOf
  <1>4. QED BY <1>3, StepKeepsInv

(* A message that is not handled is no input.                                *)
LEMMA SkipKeepsInv ==
  ASSUME WorkflowAssumption, WorkflowInv, NEW p \in Instances, Skip(p)
  PROVE  WorkflowInv'
  <1>1. << >> \in Seq(Messages) /\ log' = log \o << >>
    BY DEF WorkflowInv, TypeOK, Skip
  <1>2. ~IsRaw(log[Current(p)])
    BY DEF Skip, canHandle, IsRaw
  <1>3. /\ instance' \in [Instances -> States]
        /\ \A q \in Instances :
             instance'[q] = instance[q] \/ SoundAfter(instance'[q])
    BY <1>1, <1>2, DoneIsSound DEF Skip
  <1>4. QED BY <1>3, NothingAppended DEF Skip, WorkflowInv, TypeOK

(* A failure, or a conflict after the last retry, stops the instance where
   its checkpoint in memory is.                                              *)
LEMMA FailKeepsInv ==
  ASSUME WorkflowAssumption, WorkflowInv, NEW p \in Instances, Fail(p)
  PROVE  WorkflowInv'
  <1>1. << >> \in Seq(Messages) /\ log' = log \o << >>
    BY DEF WorkflowInv, TypeOK, Fail
  <1>2. /\ instance' \in [Instances -> States]
        /\ \A q \in Instances :
             instance'[q] = instance[q] \/ SoundAfter(instance'[q])
    BY <1>1, StoppedIsSound DEF Fail
  <1>3. QED BY <1>2, NothingAppended DEF Fail, WorkflowInv, TypeOK

(* An instance that is about to take the message after a position that the
   cover reaches is sound.                                                   *)
LEMMA StartedAtIsSound ==
  ASSUME WorkflowAssumption, WorkflowInv, UNCHANGED <<log, separate, version>>,
         NEW p \in Instances, NEW start \in 0..Len(log),
         NEW phase \in {"stopped", "idle"},
         start = 0 \/ start <= checkpoint \/ start <= instance[p].position,
         Becomes(p, StartedAt(start, phase))
  PROVE  /\ instance' \in [Instances -> States]
         /\ \A q \in Instances :
              instance'[q] = instance[q] \/ SoundAfter(instance'[q])
  <1>1. << >> \in Seq(Messages) /\ log' = log \o << >>
    BY DEF WorkflowInv, TypeOK
  <1>2. /\ \A i \in DOMAIN log : i <= checkpoint /\ IsRaw(log[i])
             => StoredAfter(i) # {}
        /\ \A i \in DOMAIN log :
             i <= instance[p].position /\ IsRaw(log[i]) => StoredAfter(i) # {}
        /\ checkpoint \in 0..Len(log) /\ instance[p].position \in Nat
        /\ DOMAIN log = 1..Len(log) /\ Len(log) \in Nat
        /\ instance[p] \in States /\ MaxOutputs \in Nat /\ MaxRetries \in Nat
    BY <1>1, CoverStays
  <1>3. StartedAt(start, phase) \in States
    BY <1>2 DEF StartedAt, States
  <1>4. \A i \in DOMAIN log : i <= start /\ IsRaw(log[i]) => StoredAfter(i) # {}
    BY <1>2
  <1>5. SoundAfter(StartedAt(start, phase))
    BY <1>2, <1>4 DEF SoundAfter, StartedAt
  <1>6. QED BY <1>3, <1>5, BecomesSound

(* A start goes on from the checkpoint in memory or from the stored one,
   and both are covered.                                                     *)
LEMMA StartKeepsInv ==
  ASSUME WorkflowAssumption, WorkflowInv, NEW p \in Instances, Start(p)
  PROVE  WorkflowInv'
  <1> DEFINE start == IF instance[p].remembered # 0 THEN instance[p].remembered
                      ELSE checkpoint
  <1>1. << >> \in Seq(Messages) /\ log' = log \o << >>
    BY DEF WorkflowInv, TypeOK, Start
  <1>2. /\ start \in 0..Len(log)
        /\ start <= checkpoint \/ start <= instance[p].position
    <2>1. /\ instance[p].remembered \in Nat
          /\ instance[p].remembered <= instance[p].position
          /\ instance[p].position \in Nat /\ instance[p].position <= Len(log)
          /\ checkpoint \in 0..Len(log) /\ Len(log) \in Nat
      BY <1>1, CoverStays
    <2>2. CASE instance[p].remembered # 0
      BY <2>1, <2>2
    <2>3. CASE instance[p].remembered = 0
      BY <2>1, <2>3
    <2>4. QED BY <2>2, <2>3
  <1>3. Becomes(p, StartedAt(start, "idle"))
    BY DEF Start
  <1>4. UNCHANGED <<log, separate, version>>
    BY DEF Start
  <1> HIDE DEF start
  <1>5. /\ instance' \in [Instances -> States]
        /\ \A q \in Instances :
             instance'[q] = instance[q] \/ SoundAfter(instance'[q])
    BY <1>2, <1>3, <1>4, StartedAtIsSound
  <1>6. starts' \in 0..MaxStarts
    BY DEF Start, WorkflowInv, TypeOK, WorkflowAssumption
  <1>7. QED BY <1>5, <1>6, NothingAppended DEF Start

(* A crash leaves an instance that knows nothing.                            *)
LEMMA CrashKeepsInv ==
  ASSUME WorkflowAssumption, WorkflowInv, NEW p \in Instances, Crash(p)
  PROVE  WorkflowInv'
  <1>1. /\ Becomes(p, StartedAt(0, "stopped"))
        /\ UNCHANGED <<log, separate, version, checkpoint, starts>>
    BY DEF Crash, NotStarted
  <1>2. 0 \in 0..Len(log)
    <2>1. log \in Seq(Messages)
      BY DEF WorkflowInv, TypeOK
    <2>2. QED BY <2>1
  <1>3. /\ instance' \in [Instances -> States]
        /\ \A q \in Instances :
             instance'[q] = instance[q] \/ SoundAfter(instance'[q])
    BY <1>1, <1>2, StartedAtIsSound
  <1>4. QED BY <1>1, <1>3, NothingAppended DEF WorkflowInv, TypeOK

(* The checkpoint becomes the position of an instance, which is covered.     *)
LEMMA StoreCheckpointKeepsInv ==
  ASSUME WorkflowAssumption, WorkflowInv, NEW p \in Instances, StoreCheckpoint(p)
  PROVE  WorkflowInv'
  <1>1. /\ UNCHANGED <<log, separate, version>>
        /\ starts' \in 0..MaxStarts
    BY DEF StoreCheckpoint, WorkflowInv, TypeOK
  <1>2. << >> \in Seq(Messages) /\ log' = log \o << >>
    BY <1>1 DEF WorkflowInv, TypeOK
  <1>3. /\ instance[p] \in States /\ instance[p].position \in Nat
        /\ instance[p].position <= Len(log) /\ Len(log) \in Nat
        /\ instance[p].remembered \in Nat
        /\ instance[p].remembered <= instance[p].position
        /\ MaxOutputs \in Nat /\ MaxRetries \in Nat
        /\ \A i \in DOMAIN log :
             i <= instance[p].position /\ IsRaw(log[i]) => StoredAfter(i) # {}
    BY <1>2, CoverStays
  <1>4. CASE checkpoint = instance[p].remembered
    <2>1. /\ checkpoint' = instance[p].position
          /\ Becomes(p, StartedAt(instance[p].position, "idle"))
      BY <1>4 DEF StoreCheckpoint
    <2>2. instance[p].position \in 0..Len(log)
      BY <1>3
    <2>3. /\ instance' \in [Instances -> States]
          /\ \A q \in Instances :
               instance'[q] = instance[q] \/ SoundAfter(instance'[q])
      BY <1>1, <1>3, <2>1, <2>2, StartedAtIsSound
    <2>4. QED BY <1>1, <2>1, <2>3, NothingAppended
  <1>5. CASE checkpoint # instance[p].remembered
    <2> DEFINE state == [instance[p] EXCEPT !.phase = "idle"]
    <2>1. checkpoint' = checkpoint /\ Becomes(p, state)
      BY <1>5 DEF StoreCheckpoint
    <2>2. state \in States
      BY <1>3 DEF States
    <2>3. /\ state.phase = "idle" /\ state.position = instance[p].position
          /\ state.remembered = instance[p].remembered
      BY <1>3 DEF States
    <2> HIDE DEF state
    <2>4. SoundAfter(state)
      BY <1>3, <2>3 DEF SoundAfter
    <2>5. /\ instance' \in [Instances -> States]
          /\ \A q \in Instances :
               instance'[q] = instance[q] \/ SoundAfter(instance'[q])
      BY <2>1, <2>2, <2>4, BecomesSound
    <2>6. QED BY <1>1, <2>1, <2>5, NothingAppended
  <1>6. QED BY <1>4, <1>5

(* What was processed is recorded.                                           *)
LEMMA ProcessedIsStored ==
  ASSUME NEW id, WasProcessed(id)
  PROVE  StoredFor(id) # {}
  BY DEF WasProcessed, processedInputIds, StoredFor

(* What was not processed is not.                                            *)
LEMMA UnprocessedIsNotStored ==
  ASSUME NEW id, ~WasProcessed(id)
  PROVE  StoredFor(id) = {}
  BY DEF WasProcessed, processedInputIds, StoredFor

(* The decision in hand is either on an input that the stream does not
   hold, or the input was handled before.                                    *)
LEMMA AggregateKeepsInv ==
  ASSUME WorkflowAssumption, WorkflowInv, NEW p \in Instances,
         AggregateAndDecide(p)
  PROVE  WorkflowInv'
  <1>1. /\ UNCHANGED <<log, separate, version, checkpoint>>
        /\ starts' \in 0..MaxStarts
        /\ HasNext(p)
        /\ separate => ~IsRaw(log[Current(p)])
    BY DEF AggregateAndDecide, WorkflowInv, TypeOK
  <1>2. << >> \in Seq(Messages) /\ log' = log \o << >>
    BY <1>1 DEF WorkflowInv, TypeOK
  <1>3. ASSUME Done(p), ~separate => StoredFor(Current(p)) # {}
        PROVE  WorkflowInv'
    <2>1. IsRaw(log[Current(p)]) => StoredAfter(Current(p)) # {}
      <3>1. StoredAfter(Current(p)) = StoredFor(Current(p))
        BY <1>1 DEF StoredFor, StoredAfter
      <3>2. QED BY <1>1, <1>3, <3>1
    <2>2. /\ instance' \in [Instances -> States]
          /\ \A q \in Instances :
               instance'[q] = instance[q] \/ SoundAfter(instance'[q])
      BY <1>1, <1>2, <1>3, <2>1, DoneIsSound
    <2>3. QED BY <1>1, <2>2, NothingAppended
  <1>4. CASE WasProcessed(Current(p)) /\ Done(p)
    BY <1>3, <1>4, ProcessedIsStored
  <1>5. ASSUME NEW size \in 0..MaxOutputs, ~WasProcessed(Current(p)),
               Becomes(p, [instance[p] EXCEPT !.phase = "appending",
                                              !.seen = version, !.size = size])
        PROVE  WorkflowInv'
    <2> DEFINE state == [instance[p] EXCEPT !.phase = "appending",
                                            !.seen = version, !.size = size]
    <2>1. /\ instance[p] \in States /\ version \in Nat
          /\ instance[p].position \in Nat /\ instance[p].position <= Len(log)
          /\ instance[p].remembered \in Nat
          /\ instance[p].remembered <= instance[p].position
          /\ MaxOutputs \in Nat /\ MaxRetries \in Nat
          /\ \A i \in DOMAIN log :
               i <= instance[p].position /\ IsRaw(log[i]) => StoredAfter(i) # {}
      BY <1>2, CoverStays
    <2>2. 0 \in 0..MaxRetries
      BY <2>1
    <2>3. state \in States
      BY <2>1, <2>2, UpdatesHold
    <2>4. /\ state.phase = "appending" /\ state.position = instance[p].position
          /\ state.remembered = instance[p].remembered /\ state.seen = version
      BY <2>1 DEF States
    <2>5. StoredAfter(Current(p)) = {}
      BY <1>1, <1>5, UnprocessedIsNotStored DEF StoredFor, StoredAfter
    <2>6. Becomes(p, state)
      BY <1>5
    <2> HIDE DEF state
    <2>7. SoundAfter(state)
      BY <1>1, <2>1, <2>4, <2>5 DEF SoundAfter, HasNext, Current
    <2>8. /\ instance' \in [Instances -> States]
          /\ \A q \in Instances :
               instance'[q] = instance[q] \/ SoundAfter(instance'[q])
      BY <2>3, <2>6, <2>7, BecomesSound
    <2>9. QED BY <1>1, <2>8, NothingAppended
  <1>6. QED BY <1>3, <1>4, <1>5 DEF AggregateAndDecide

(* What a step of one instance appends is stored once if it is one message.  *)
LEMMA AppendKeepsInv ==
  ASSUME WorkflowAssumption, WorkflowInv, NEW p \in Instances,
         NEW messages \in Seq(Messages), AppendToStream(messages),
         UNCHANGED <<separate, checkpoint, starts>>,
         HasNext(p), Done(p),
         IsRaw(log[Current(p)]) => StoredAfter(Current(p)) # {},
         \A i \in 1..Len(messages) : messages[i].type = "stored" =>
           (~separate => i = 1 /\ StoredFor(messages[i].of) = {})
  PROVE  WorkflowInv'
  <1>1. /\ log' = log \o messages
        /\ version' = version + Len(messages)
        /\ Len(messages) \in Nat
    BY DEF AppendToStream
  <1>2. /\ \A i \in DOMAIN log : i <= checkpoint /\ IsRaw(log[i])
             => StoredAfter(i) # {}
        /\ checkpoint \in 0..Len(log)
        /\ version \in Nat
    BY <1>1, CoverStays
  <1>3. /\ instance' \in [Instances -> States]
        /\ \A q \in Instances :
             instance'[q] = instance[q] \/ SoundAfter(instance'[q])
    BY <1>1, DoneIsSound
  <1>4. version' \in version..(version + Len(messages))
    BY <1>1, <1>2
  <1>5. \A i \in 1..Len(messages) : version' > version
    BY <1>1, <1>2
  <1>6. starts' \in 0..MaxStarts
    BY DEF WorkflowInv, TypeOK
  <1>7. StepOf(messages)
    BY <1>1, <1>2, <1>3, <1>4, <1>5, <1>6 DEF StepOf
  <1>8. QED BY <1>7, StepKeepsInv

(* Storing covers the input in hand.                                         *)
LEMMA StoreInputKeepsInv ==
  ASSUME WorkflowAssumption, WorkflowInv, NEW p \in Instances, StoreInput(p)
  PROVE  WorkflowInv'
  <1> DEFINE messages == <<Stored(Current(p), version)>>
  <1>1. /\ separate
        /\ UNCHANGED <<separate, checkpoint, starts>>
        /\ HasNext(p) /\ Done(p)
        /\ AppendToStream(messages)
    BY DEF StoreInput
  <1>2. messages \in Seq(Messages)
    BY MessagesHold DEF WorkflowInv
  <1>3. /\ Len(messages) = 1 /\ messages[1].type = "stored"
        /\ messages[1].of = Current(p)
    BY DEF Stored
  <1>4. log' = log \o messages /\ log \in Seq(Messages)
    BY <1>1 DEF AppendToStream, WorkflowInv, TypeOK
  <1> HIDE DEF messages
  <1>5. StoredAfter(Current(p)) # {}
    <2>1. Len(log) + 1 \in DOMAIN log' /\ log'[Len(log) + 1] = messages[1]
      <3>1. Len(log) \in Nat
        BY <1>4
      <3>2. /\ Len(log') = Len(log) + Len(messages)
            /\ DOMAIN log' = 1..Len(log')
            /\ \A i \in DOMAIN log' :
                 i > Len(log) => log'[i] = messages[i - Len(log)]
        BY <1>2, <1>4, LogGrows
      <3>3. Len(log) + 1 \in DOMAIN log' /\ (Len(log) + 1) - Len(log) = 1
        BY <1>3, <3>1, <3>2
      <3>4. QED BY <3>1, <3>2, <3>3
    <2>2. QED BY <1>3, <2>1 DEF StoredAfter
  <1>6. QED BY <1>1, <1>2, <1>5, AppendKeepsInv

(* What the output handler feeds back is not a stored input.                 *)
LEMMA HandleOutputKeepsInv ==
  ASSUME WorkflowAssumption, WorkflowInv, NEW p \in Instances, HandleOutput(p)
  PROVE  WorkflowInv'
  <1>1. /\ UNCHANGED <<separate, checkpoint, starts>>
        /\ HasNext(p) /\ Done(p)
        /\ ~IsRaw(log[Current(p)])
    BY DEF HandleOutput, IsRaw
  <1>2. CASE UNCHANGED <<log, version>>
    <2>1. << >> \in Seq(Messages) /\ log' = log \o << >>
      BY <1>2 DEF WorkflowInv, TypeOK
    <2>2. /\ instance' \in [Instances -> States]
          /\ \A q \in Instances :
               instance'[q] = instance[q] \/ SoundAfter(instance'[q])
      BY <1>1, <2>1, DoneIsSound
    <2>3. QED BY <1>1, <1>2, <2>2, NothingAppended DEF WorkflowInv, TypeOK
  <1>3. CASE AppendToStream(<<Fed(Current(p))>>)
    <2> DEFINE messages == <<Fed(Current(p))>>
    <2>1. messages \in Seq(Messages)
      BY MessagesHold DEF WorkflowInv
    <2>2. \A i \in 1..Len(messages) : messages[i].type # "stored"
      BY DEF Fed
    <2>3. AppendToStream(messages)
      BY <1>3
    <2> HIDE DEF messages
    <2>4. QED BY <1>1, <2>1, <2>2, <2>3, AppendKeepsInv
  <1>4. QED BY <1>2, <1>3 DEF HandleOutput

(* A decision is appended to the stream that was aggregated, so that its
   input is not there yet.                                                   *)
LEMMA AppendDecisionKeepsInv ==
  ASSUME WorkflowAssumption, WorkflowInv, NEW p \in Instances, AppendDecision(p)
  PROVE  WorkflowInv'
  <1>1. /\ At(p, "appending")
        /\ UNCHANGED <<separate, checkpoint, starts>>
    BY DEF AppendDecision
  <1>2. /\ HasNext(p)
        /\ separate => ~IsRaw(log[Current(p)])
        /\ ~separate /\ instance[p].seen = version => StoredFor(Current(p)) = {}
    BY <1>1 DEF WorkflowInv, InHand, Undecided
  <1>3. CASE IsAsAggregated(p)
    <2>1. AppendToStream(Decision(p)) /\ Done(p) /\ instance[p].seen = version
      BY <1>3 DEF AppendDecision, IsAsAggregated
    <2>2. Decision(p) \in Seq(Messages)
      BY MessagesHold DEF WorkflowInv
    <2>3. /\ Len(Decision(p)) = instance[p].size + (IF separate THEN 0 ELSE 1)
          /\ ~separate => Decision(p)[1] = Stored(Current(p), instance[p].seen)
          /\ \A i \in 1..Len(Decision(p)) :
               Decision(p)[i].type = "stored" => ~separate /\ i = 1
      BY DecisionHolds DEF WorkflowInv
    <2>4. \A i \in 1..Len(Decision(p)) : Decision(p)[i].type = "stored" =>
            (~separate => i = 1 /\ StoredFor(Decision(p)[i].of) = {})
      <3> SUFFICES ASSUME NEW i \in 1..Len(Decision(p)),
                          Decision(p)[i].type = "stored", ~separate
                   PROVE  i = 1 /\ StoredFor(Decision(p)[i].of) = {}
        OBVIOUS
      <3>1. i = 1
        BY <2>3
      <3>2. Decision(p)[i].of = Current(p)
        BY <2>3, <3>1 DEF Stored
      <3>3. QED BY <1>2, <2>1, <3>1, <3>2
    <2>5. ASSUME ~separate
          PROVE  StoredAfter(Current(p)) # {}
      <3>1. instance[p].size \in Nat /\ log \in Seq(Messages)
        BY DEF WorkflowInv, TypeOK, States, WorkflowAssumption
      <3>2. Len(Decision(p)) >= 1 /\ log' = log \o Decision(p)
        BY <2>1, <2>3, <2>5, <3>1 DEF AppendToStream
      <3>3. /\ Len(log) + 1 \in DOMAIN log'
            /\ log'[Len(log) + 1] = Decision(p)[1]
        BY <2>2, <3>1, <3>2
      <3>4. QED BY <2>3, <2>5, <3>3 DEF StoredAfter, Stored
    <2>6. IsRaw(log[Current(p)]) => StoredAfter(Current(p)) # {}
      BY <1>2, <2>5
    <2>7. QED BY <1>1, <1>2, <2>1, <2>2, <2>4, <2>6, AppendKeepsInv
  <1>4. CASE ~IsAsAggregated(p)
    <2>1. Conflict(p) /\ UNCHANGED <<log, version>>
      BY <1>4 DEF AppendDecision
    <2>2. << >> \in Seq(Messages) /\ log' = log \o << >>
      BY <2>1 DEF WorkflowInv, TypeOK
    <2>3. CASE Stopped(p)
      <3>1. /\ instance' \in [Instances -> States]
            /\ \A q \in Instances :
                 instance'[q] = instance[q] \/ SoundAfter(instance'[q])
        BY <2>2, <2>3, StoppedIsSound
      <3>2. QED BY <1>1, <2>1, <3>1, NothingAppended DEF WorkflowInv, TypeOK
    <2>4. CASE instance[p].tries < MaxRetries /\ Retrying(p)
      <3> DEFINE tries == instance[p].tries + 1
                 state == [instance[p] EXCEPT !.phase = "retrying", !.seen = 0,
                                              !.size = 0, !.tries = tries]
      <3>1. /\ instance[p] \in States
            /\ instance[p].position \in Nat /\ instance[p].position <= Len(log)
            /\ instance[p].remembered \in Nat
            /\ instance[p].remembered <= instance[p].position
            /\ MaxOutputs \in Nat /\ MaxRetries \in Nat
            /\ \A i \in DOMAIN log :
                 i <= instance[p].position /\ IsRaw(log[i]) => StoredAfter(i) # {}
        BY <2>2, CoverStays
      <3>2. tries \in 0..MaxRetries /\ 0 \in 0..MaxOutputs
        BY <2>4, <3>1 DEF States
      <3>3. Becomes(p, state)
        BY <2>4 DEF Retrying
      <3> HIDE DEF tries
      <3>4. state \in States
        BY <3>1, <3>2, UpdatesHold
      <3>5. /\ state.phase = "retrying"
            /\ state.position = instance[p].position
            /\ state.remembered = instance[p].remembered
        BY <3>1 DEF States
      <3> HIDE DEF state
      <3>6. SoundAfter(state)
        BY <1>2, <3>1, <3>5 DEF SoundAfter, HasNext, Current
      <3>7. /\ instance' \in [Instances -> States]
            /\ \A q \in Instances :
                 instance'[q] = instance[q] \/ SoundAfter(instance'[q])
        BY <3>3, <3>4, <3>6, BecomesSound
      <3>8. QED BY <1>1, <2>1, <3>7, NothingAppended DEF WorkflowInv, TypeOK
    <2>5. QED BY <2>1, <2>3, <2>4 DEF Conflict
  <1>5. QED BY <1>3, <1>4

-----------------------------------------------------------------------------

(* Nothing is recorded and nobody is at work initially.                      *)
LEMMA InitHasInv ==
  ASSUME WorkflowAssumption, Init
  PROVE  WorkflowInv
  <1>1. log = << >> /\ log \in Seq(Messages) /\ Len(log) = 0 /\ DOMAIN log = {}
    BY DEF Init
  <1>2. 0 \in 0..MaxOutputs /\ 0 \in 0..MaxRetries /\ 0 \in 0..MaxStarts
    BY DEF WorkflowAssumption
  <1>3. NotStarted \in States
    BY <1>2 DEF NotStarted, StartedAt, States
  <1>4. /\ \A p \in Instances : instance[p] = NotStarted
        /\ instance \in [Instances -> States]
    BY <1>3 DEF Init
  <1>5. /\ NotStarted.phase = "stopped" /\ NotStarted.position = 0
        /\ NotStarted.remembered = 0
    BY DEF NotStarted, StartedAt
  <1>6. TypeOK
    <2>1. version \in 0..Len(log) /\ checkpoint \in 0..Len(log)
      BY <1>1 DEF Init
    <2>2. separate \in Modes /\ starts \in 0..MaxStarts
      BY <1>2 DEF Init
    <2>3. QED BY <1>1, <1>4, <1>5, <2>1, <2>2 DEF TypeOK
  <1>7. InHand /\ Undecided
    BY <1>4, <1>5 DEF InHand, Undecided, At
  <1>8. InputsAreDecidedOnce /\ CheckpointCoversInputs
    BY <1>1 DEF InputsAreDecidedOnce, CheckpointCoversInputs
  <1>9. QED BY <1>6, <1>7, <1>8 DEF WorkflowInv

(* The invariant is inductive.                                               *)
THEOREM WorkflowInvariant == Spec => []WorkflowInv
  <1> USE WorkflowAssumption
  <1>1. Init => WorkflowInv
    BY InitHasInv
  <1>2. WorkflowInv /\ [Next]_vars => WorkflowInv'
    <2> SUFFICES ASSUME WorkflowInv, [Next]_vars
                 PROVE  WorkflowInv'
      OBVIOUS
    <2>1. CASE Publish
      BY <2>1, PublishKeepsInv
    <2>2. ASSUME NEW p \in Instances, Proceed(p)
          PROVE  WorkflowInv'
      BY <2>2, SkipKeepsInv, StoreInputKeepsInv, AggregateKeepsInv,
         AppendDecisionKeepsInv, HandleOutputKeepsInv, StoreCheckpointKeepsInv
         DEF Proceed
    <2>3. ASSUME NEW p \in Instances, Start(p) \/ Fail(p) \/ Crash(p)
          PROVE  WorkflowInv'
      BY <2>3, StartKeepsInv, FailKeepsInv, CrashKeepsInv
    <2>4. CASE UNCHANGED vars
      <3>1. << >> \in Seq(Messages) /\ log' = log \o << >>
        BY <2>4 DEF vars, WorkflowInv, TypeOK
      <3>2. QED BY <2>4, NothingAppended DEF vars, WorkflowInv, TypeOK
    <2>5. QED BY <2>1, <2>2, <2>3, <2>4 DEF Next
  <1>3. QED BY <1>1, <1>2, PTL DEF Spec

(* Every message, version, position and count is one, whatever happens.      *)
THEOREM WorkflowTypes == Spec => []TypeOK
  BY WorkflowInvariant, PTL DEF WorkflowInv

(* Without an inbox of its own no input is decided on twice, though it may be
   delivered any number of times to any instances.                           *)
THEOREM EveryInputIsDecidedOnce == Spec => []InputsAreDecidedOnce
  BY WorkflowInvariant, PTL DEF WorkflowInv

(* No input below the checkpoint, or behind an instance, is lost.            *)
THEOREM CheckpointCoversEveryInput == Spec => []CheckpointCoversInputs
  BY WorkflowInvariant, PTL DEF WorkflowInv

-----------------------------------------------------------------------------
(* What a decision has seen                                                  *)

IsDecided(message) == message.type \in {"stored", "output"}

InTheStream == {j \in DOMAIN log : InStream(j)}

(* The stream holds as many messages as its version says.                    *)
VersionCounts == version = Cardinality(InTheStream)

(* What was decided, was decided on an earlier version.                      *)
DecidedBefore ==
  \A i \in DOMAIN log : IsDecided(log[i]) => log[i].seen < version

(* What the stream holds before a message, without the decision it is of.    *)
Before(i) == {j \in 1..(i - 1) : InStream(j) /\ ~SameDecision(i, j)}

(* The property, for stored copies of an inbox of its own as well.           *)
AllIsSeen ==
  \A i \in DOMAIN log :
    IsDecided(log[i]) => Cardinality(Before(i)) = log[i].seen

SeenInv == VersionCounts /\ DecidedBefore /\ AllIsSeen

(* What any step appends to the log: one message of another stream, or
   messages of the workflow's stream, none of which was decided, or all, for
   one input and on the version that the stream has.                         *)
StreamStepOf(messages) ==
  /\ messages \in Seq(Messages)
  /\ log' = log \o messages
  /\ \/ messages = <<External>> /\ version' = version
     \/ /\ version' = version + Len(messages)
        /\ \A k \in 1..Len(messages) : messages[k].type # "external"
  /\ \A k \in 1..Len(messages) :
       IsDecided(messages[k]) => messages[k].seen = version
  /\ \A k, l \in 1..Len(messages) :
       IsDecided(messages[k]) =>
         IsDecided(messages[l]) /\ messages[k].of = messages[l].of

(* All messages of a decision are for the input in hand, on the version that
   was aggregated.                                                           *)
LEMMA DecisionIsOne ==
  ASSUME WorkflowAssumption, TypeOK, NEW p \in Instances
  PROVE  \A k \in 1..Len(Decision(p)) :
           /\ IsDecided(Decision(p)[k])
           /\ Decision(p)[k].of = Current(p)
           /\ Decision(p)[k].seen = instance[p].seen
  <1>1. instance[p].size \in Nat
    BY DEF TypeOK, States, WorkflowAssumption
  <1> DEFINE first == Stored(Current(p), instance[p].seen)
             next  == Output(Current(p), instance[p].seen)
             Holds(m) == /\ IsDecided(m) /\ m.of = Current(p)
                         /\ m.seen = instance[p].seen
  <1>2. Holds(first) /\ Holds(next)
    BY DEF Stored, Output, IsDecided
  <1>3. Outputs(p) \in Seq({next}) /\ Len(Outputs(p)) = instance[p].size
    BY <1>1 DEF Outputs
  <1>4. \A k \in 1..Len(Outputs(p)) : Outputs(p)[k] = next
    BY <1>3
  <1> HIDE DEF first, next, Holds
  <1>5. CASE separate
    <2>1. Decision(p) = Outputs(p)
      BY <1>5 DEF Decision
    <2>2. \A k \in 1..Len(Decision(p)) : Holds(Decision(p)[k])
      BY <1>2, <1>4, <2>1
    <2>3. QED BY <2>2 DEF Holds
  <1>6. CASE ~separate
    <2>1. Decision(p) = <<first>> \o Outputs(p)
      BY <1>6 DEF Decision, first
    <2>2. /\ Decision(p)[1] = first
          /\ \A k \in 1..Len(Decision(p)) :
               k # 1 => /\ k - 1 \in 1..Len(Outputs(p))
                        /\ Decision(p)[k] = Outputs(p)[k - 1]
      BY <1>3, <2>1
    <2>3. \A k \in 1..Len(Decision(p)) : Holds(Decision(p)[k])
      BY <1>2, <1>4, <2>2
    <2>4. QED BY <2>3 DEF Holds
  <1>7. QED BY <1>5, <1>6

(* Every step is one that appends such messages, often none.                 *)
LEMMA StepsAppend ==
  ASSUME WorkflowAssumption, TypeOK, [Next]_vars
  PROVE  \E messages : StreamStepOf(messages)
  <1>1. log \in Seq(Messages) /\ version \in Nat
    BY DEF TypeOK
  <1>2. ASSUME UNCHANGED <<log, version>>
        PROVE  StreamStepOf(<< >>)
    <2>1. << >> \in Seq(Messages) /\ log' = log \o << >> /\ Len(<< >>) = 0
      BY <1>1, <1>2
    <2>2. version' = version + Len(<< >>)
      BY <1>1, <1>2, <2>1
    <2>3. QED BY <2>1, <2>2 DEF StreamStepOf
  <1>3. ASSUME NEW message \in Messages, AppendToStream(<<message>>),
               message.type # "external",
               IsDecided(message) => message.seen = version
        PROVE  StreamStepOf(<<message>>)
    <2>1. <<message>> \in Seq(Messages) /\ Len(<<message>>) = 1
      OBVIOUS
    <2>2. \A k \in 1..Len(<<message>>) : <<message>>[k] = message
      BY <2>1
    <2> DEFINE messages == <<message>>
    <2>3. /\ messages \in Seq(Messages)
          /\ AppendToStream(messages)
          /\ \A k \in 1..Len(messages) : messages[k] = message
      BY <1>3, <2>1, <2>2
    <2> HIDE DEF messages
    <2>4. StreamStepOf(messages)
      BY <1>3, <2>3 DEF StreamStepOf, AppendToStream
    <2>5. QED BY <2>4 DEF messages
  <1>4. ASSUME Publish
        PROVE  StreamStepOf(<<External>>)
    <2>1. External \in Messages
      BY DEF External, Messages
    <2>2. /\ <<External>> \in Seq(Messages)
          /\ log' = log \o <<External>> /\ version' = version
      BY <1>1, <1>4, <2>1 DEF Publish
    <2>3. \A k \in 1..Len(<<External>>) : ~IsDecided(<<External>>[k])
      BY DEF External, IsDecided
    <2>4. QED BY <2>2, <2>3 DEF StreamStepOf
  <1>5. ASSUME NEW p \in Instances, StoreInput(p)
        PROVE  StreamStepOf(<<Stored(Current(p), version)>>)
    <2>1. /\ Stored(Current(p), version) \in Messages
          /\ Stored(Current(p), version).type = "stored"
          /\ Stored(Current(p), version).seen = version
      BY <1>1 DEF Stored, Messages, Current, TypeOK, States
    <2>2. QED BY <1>3, <1>5, <2>1 DEF StoreInput
  <1>6. ASSUME NEW p \in Instances, HandleOutput(p)
        PROVE  \E messages : StreamStepOf(messages)
    <2>1. /\ Fed(Current(p)) \in Messages
          /\ Fed(Current(p)).type = "fed"
      BY DEF Fed, Messages, Current, TypeOK, States
    <2>2. ASSUME AppendToStream(<<Fed(Current(p))>>)
          PROVE  StreamStepOf(<<Fed(Current(p))>>)
      BY <1>3, <2>1, <2>2 DEF IsDecided
    <2>3. UNCHANGED <<log, version>> \/ AppendToStream(<<Fed(Current(p))>>)
      BY <1>6 DEF HandleOutput
    <2>4. QED BY <1>2, <2>2, <2>3
  <1>7. ASSUME NEW p \in Instances, AppendDecision(p)
        PROVE  \E messages : StreamStepOf(messages)
    <2>1. CASE IsAsAggregated(p)
      <3>1. AppendToStream(Decision(p)) /\ instance[p].seen = version
        BY <1>7, <2>1 DEF AppendDecision, IsAsAggregated
      <3>2. Decision(p) \in Seq(Messages)
        BY MessagesHold
      <3>3. \A k \in 1..Len(Decision(p)) :
              /\ IsDecided(Decision(p)[k])
              /\ Decision(p)[k].of = Current(p)
              /\ Decision(p)[k].seen = version
        BY <3>1, DecisionIsOne
      <3>4. StreamStepOf(Decision(p))
        BY <3>1, <3>2, <3>3 DEF StreamStepOf, AppendToStream, IsDecided
      <3>5. QED BY <3>4
    <2>2. CASE ~IsAsAggregated(p)
      <3>1. UNCHANGED <<log, version>>
        BY <1>7, <2>2 DEF AppendDecision
      <3>2. QED BY <1>2, <3>1
    <2>3. QED BY <2>1, <2>2
  <1>8. ASSUME NEW p \in Instances,
               \/ Skip(p) \/ AggregateAndDecide(p) \/ StoreCheckpoint(p)
               \/ Start(p) \/ Fail(p) \/ Crash(p)
        PROVE  UNCHANGED <<log, version>>
    BY <1>8 DEF Skip, AggregateAndDecide, StoreCheckpoint, Start, Fail, Crash
  <1>9. CASE UNCHANGED vars
    BY <1>2, <1>9 DEF vars
  <1>10. QED BY <1>2, <1>4, <1>5, <1>6, <1>7, <1>8, <1>9 DEF Next, Proceed

(* Such a step keeps count, and what it decides has seen all.                *)
LEMMA StepKeepsSeen ==
  ASSUME TypeOK, SeenInv, NEW messages, StreamStepOf(messages)
  PROVE  SeenInv'
  <1>1. /\ log \in Seq(Messages) /\ messages \in Seq(Messages)
        /\ log' = log \o messages
        /\ Len(log') = Len(log) + Len(messages)
        /\ Len(log) \in Nat /\ Len(messages) \in Nat
        /\ DOMAIN log = 1..Len(log) /\ DOMAIN log' = 1..Len(log')
        /\ \A i \in DOMAIN log : i \in DOMAIN log' /\ log'[i] = log[i]
        /\ \A i \in DOMAIN log' :
             i > Len(log) => /\ i - Len(log) \in 1..Len(messages)
                             /\ log'[i] = messages[i - Len(log)]
    BY LogGrows DEF TypeOK, StreamStepOf
  <1>2. /\ version \in Nat
        /\ \A i \in DOMAIN log : log[i].seen \in Nat
    <2>1. \A i \in DOMAIN log : log[i] \in Messages
      BY <1>1
    <2>2. \A message \in Messages : message.seen \in Nat
      BY DEF Messages
    <2>3. QED BY <2>1, <2>2 DEF TypeOK
  <1>3. /\ IsFiniteSet(InTheStream)
        /\ Cardinality(InTheStream) = version
    <2>1. InTheStream \in SUBSET (1..Len(log))
      BY <1>1 DEF InTheStream
    <2>2. IsFiniteSet(1..Len(log))
      BY <1>1, FS_Interval
    <2>3. QED BY <2>1, <2>2, FS_Subset DEF SeenInv, VersionCounts
  <1> DEFINE new == (Len(log) + 1)..Len(log')
  <1>4. /\ IsFiniteSet(new) /\ Cardinality(new) = Len(messages)
        /\ new \cap InTheStream = {}
    <2>1. Len(log) + 1 \in Int /\ Len(log') \in Int
      BY <1>1
    <2>2. /\ IsFiniteSet(new)
          /\ Cardinality(new)
               = IF Len(log) + 1 > Len(log') THEN 0
                 ELSE Len(log') - (Len(log) + 1) + 1
      BY <2>1, FS_Interval
    <2>3. new \cap InTheStream = {}
      BY <1>1 DEF InTheStream
    <2>4. QED BY <1>1, <2>2, <2>3
  <1>5. \A i \in DOMAIN log' : i \in DOMAIN log \/ i \in new
    BY <1>1
  <1>6. VersionCounts' /\ version' \in Nat /\ version <= version'
        /\ ((\E k \in 1..Len(messages) : IsDecided(messages[k]))
              => version < version')
    <2>1. CASE messages = <<External>> /\ version' = version
      <3>1. \A k \in 1..Len(messages) : messages[k] = External
        BY <2>1
      <3>2. \A k \in 1..Len(messages) :
              messages[k].type = "external" /\ ~IsDecided(messages[k])
        BY <3>1 DEF External, IsDecided
      <3>3. InTheStream' = InTheStream
        BY <1>1, <1>5, <3>2 DEF InTheStream, InStream
      <3>4. QED BY <1>2, <1>3, <2>1, <3>2, <3>3 DEF VersionCounts
    <2>2. CASE /\ version' = version + Len(messages)
               /\ \A k \in 1..Len(messages) : messages[k].type # "external"
      <3>1. InTheStream' = InTheStream \cup new
        BY <1>1, <1>5, <2>2 DEF InTheStream, InStream
      <3> HIDE DEF new
      <3>2. Cardinality(InTheStream \cup new)
              = Cardinality(InTheStream) + Cardinality(new)
                  - Cardinality(InTheStream \cap new)
        BY <1>3, <1>4, FS_Union
      <3>3. InTheStream \cap new = {}
        BY <1>4
      <3>4. Cardinality(InTheStream \cap new) = 0
        BY <3>3, FS_EmptySet
      <3>5. VersionCounts'
        BY <1>1, <1>2, <1>3, <1>4, <2>2, <3>1, <3>2, <3>4 DEF VersionCounts
      <3>6. QED BY <1>1, <1>2, <2>2, <3>5
    <2>3. QED BY <2>1, <2>2 DEF StreamStepOf
  <1>7. ASSUME NEW i \in new, IsDecided(log'[i])
        PROVE  /\ log'[i].seen = version /\ version < version'
               /\ Cardinality(Before(i)') = version
    <2>1. /\ i \in DOMAIN log' /\ i > Len(log) /\ i \in Nat
          /\ i - Len(log) \in 1..Len(messages)
          /\ log'[i] = messages[i - Len(log)]
      BY <1>1
    <2>2. log'[i].seen = version /\ version < version'
      <3>1. IsDecided(messages[i - Len(log)])
        BY <1>7, <2>1
      <3>2. messages[i - Len(log)].seen = version
        BY <2>1, <3>1 DEF StreamStepOf
      <3>3. QED BY <1>6, <2>1, <3>1, <3>2
    <2>3. \A k \in 1..Len(messages) : messages[k].type # "external"
      BY <1>2, <2>2 DEF StreamStepOf
    <2>4. ASSUME NEW j \in DOMAIN log
          PROVE  j \in Before(i)' <=> j \in InTheStream
      <3>1. /\ j \in 1..(i - 1) /\ j \in DOMAIN log'
            /\ log'[j] = log[j]
        BY <1>1, <2>1
      <3>2. IsDecided(log[j]) => log[j].seen < version
        BY <2>4 DEF SeenInv, DecidedBefore
      <3>3. log[j].seen \in Nat
        BY <1>2, <2>4
      <3>4. IsDecided(log'[j]) => log'[j].seen # log'[i].seen
        BY <1>2, <2>2, <3>1, <3>2, <3>3
      <3>5. ~SameDecision(i, j)'
        BY <3>4 DEF SameDecision, IsDecided
      <3>6. QED BY <3>1, <3>5 DEF Before, InTheStream, InStream
    <2>5. ASSUME NEW j \in new
          PROVE  j \notin Before(i)'
      <3>1. SUFFICES ASSUME j \in Before(i)'
                     PROVE  FALSE
        OBVIOUS
      <3>2. /\ j \in DOMAIN log' /\ j > Len(log)
            /\ j - Len(log) \in 1..Len(messages)
            /\ log'[j] = messages[j - Len(log)]
        BY <1>1
      <3>3. QED
        <4>1. ~SameDecision(i, j)'
          BY <3>1 DEF Before
        <4>2. IsDecided(log'[j]) /\ log'[j].of = log'[i].of
          <5>1. IsDecided(messages[i - Len(log)])
            BY <1>7, <2>1
          <5>2. /\ IsDecided(messages[j - Len(log)])
                /\ messages[i - Len(log)].of = messages[j - Len(log)].of
            BY <2>1, <3>2, <5>1 DEF StreamStepOf
          <5>3. QED BY <2>1, <3>2, <5>2
        <4>3. log'[j].seen = version
          BY <3>2, <4>2 DEF StreamStepOf
        <4>4. log'[j].seen = log'[i].seen /\ IsDecided(log'[i])
          BY <1>7, <2>2, <4>3
        <4>5. SameDecision(i, j)'
          BY ONLY <4>2, <4>4 DEF SameDecision, IsDecided
        <4>6. QED BY <4>1, <4>5
    <2>6. Before(i)' \subseteq DOMAIN log'
      BY <1>1, <2>1 DEF Before
    <2>7. Before(i)' = InTheStream
      BY <1>5, <2>4, <2>5, <2>6 DEF InTheStream
    <2>8. QED BY <1>3, <2>2, <2>7
  <1>8. ASSUME NEW i \in DOMAIN log
        PROVE  log'[i] = log[i] /\ Before(i)' = Before(i)
    <2>1. /\ \A j \in 1..(i - 1) : j \in DOMAIN log /\ log'[j] = log[j]
          /\ log'[i] = log[i]
      BY <1>1
    <2>2. QED BY <2>1 DEF Before, SameDecision, InStream
  <1> HIDE DEF new
  <1>9. DecidedBefore' /\ AllIsSeen'
    <2> SUFFICES ASSUME NEW i \in DOMAIN log', IsDecided(log'[i])
                 PROVE  /\ log'[i].seen < version'
                        /\ Cardinality(Before(i)') = log'[i].seen
      BY DEF DecidedBefore, AllIsSeen, IsDecided
    <2>1. CASE i \in new
      <3>1. /\ log'[i].seen = version /\ version < version'
            /\ Cardinality(Before(i)') = version
        BY <1>7, <2>1
      <3>2. QED BY <1>2, <1>6, <3>1
    <2>2. CASE i \in DOMAIN log
      <3>1. log[i].seen \in Nat
        BY <1>2, <2>2
      <3>2. log[i].seen < version /\ Cardinality(Before(i)) = log[i].seen
        BY <1>8, <2>2 DEF SeenInv, DecidedBefore, AllIsSeen
      <3>3. QED BY <1>2, <1>6, <1>8, <2>2, <3>1, <3>2
    <2>3. QED BY <1>5, <2>1, <2>2
  <1>10. QED BY <1>6, <1>9 DEF SeenInv

(* Whoever decides and stores beside it: a decision is appended to the very
   stream that it was made on.                                               *)
THEOREM DecisionsSeeAll == Spec => []DecisionsSeeTheWholeStream
  <1> USE WorkflowAssumption
  <1>1. Init => SeenInv
    <2> SUFFICES ASSUME Init
                 PROVE  SeenInv
      OBVIOUS
    <2>1. DOMAIN log = {} /\ version = 0
      BY DEF Init
    <2>2. InTheStream = {}
      BY <2>1 DEF InTheStream
    <2>3. VersionCounts
      BY <2>1, <2>2, FS_EmptySet DEF VersionCounts
    <2>4. QED BY <2>1, <2>3 DEF SeenInv, DecidedBefore, AllIsSeen
  <1>2. TypeOK /\ SeenInv /\ [Next]_vars => SeenInv'
    BY StepsAppend, StepKeepsSeen
  <1>3. SeenInv => DecisionsSeeTheWholeStream
    BY DEF SeenInv, AllIsSeen, Before, IsDecided, DecisionsSeeTheWholeStream
  <1>4. QED BY <1>1, <1>2, <1>3, WorkflowTypes, PTL DEF Spec

=============================================================================
