------------------------ MODULE Checkpointers_proofs ------------------------
(***************************************************************************)
(* Proofs about Checkpointers: in every store a checkpoint covers messages *)
(* that were handled, and where the stores that read before they write are *)
(* not shared, the checkpoint is one register.                             *)
(***************************************************************************)
EXTENDS Checkpointers, TLAPS

(* What lies between the checkpoint that an instance holds and where its
   source stands is handled.  Outside of transactions so is what is below the
   checkpoint, and what the instance is to store; with one, the checkpoint may
   be one whose commit has failed.                                           *)
InstanceHolds(x, h) ==
  /\ ~IsTransactional => 1..x.last \subseteq h
  /\ x.state \in {"running", "storing", "writing"} =>
       /\ x.last <= x.position
       /\ x.last + 1 .. x.position \subseteq h
  /\ x.state \in {"storing", "writing"} =>
       /\ x.position < x.upTo
       /\ ~IsTransactional => 1..x.upTo \subseteq h

CheckpointsInv ==
  /\ TypeOK
  /\ \A i \in Instances : InstanceHolds(instance[i], handled)
  /\ CheckpointCoversHandled

-----------------------------------------------------------------------------

(* An instance that holds something is an instance.                          *)
LEMMA HoldingHolds ==
  ASSUME CheckpointersAssumption,
         NEW state \in {"gone", "stopped", "running", "storing", "writing"},
         NEW last \in Checkpoints, NEW revision \in Nat,
         NEW position \in Checkpoints
  PROVE  /\ Gone \in TypeOfInstance
         /\ Holding(state, last, revision, position) \in TypeOfInstance
         /\ Holding(state, last, revision, position).state = state
         /\ Holding(state, last, revision, position).last = last
         /\ Holding(state, last, revision, position).revision = revision
         /\ Holding(state, last, revision, position).position = position
  <1>1. 0 \in Checkpoints
    BY DEF Checkpoints, CheckpointersAssumption
  <1>2. Gone \in TypeOfInstance
    BY <1>1 DEF Gone, TypeOfInstance
  <1>3. QED BY <1>1, <1>2 DEF Gone, Holding, TypeOfInstance

(* The updates of an instance are instances.                                 *)
LEMMA UpdatesHold ==
  ASSUME NEW x \in TypeOfInstance, NEW c \in Checkpoints
  PROVE  /\ [x EXCEPT !.state = "running", !.position = c] \in TypeOfInstance
         /\ [x EXCEPT !.state = "storing", !.upTo = c] \in TypeOfInstance
         /\ [x EXCEPT !.state = "writing"] \in TypeOfInstance
  BY DEF TypeOfInstance

(* What an instance has handled stays handled.                               *)
LEMMA HandledGrows ==
  ASSUME NEW x, NEW h, NEW h2, h \subseteq h2, InstanceHolds(x, h)
  PROVE  InstanceHolds(x, h2)
  BY DEF InstanceHolds

(* A step of one instance keeps the invariant when what the instance becomes,
   and what is stored, is covered by what is handled.                        *)
LEMMA InstanceChanges ==
  ASSUME CheckpointsInv, NEW i \in Instances, NEW new \in TypeOfInstance,
         Becomes(i, new), UNCHANGED store,
         new.state = "storing" => new.position + 1 .. new.upTo # {},
         handled \subseteq handled', handled' \subseteq 1..MaxMessages,
         InstanceHolds(new, handled'),
         stored' \in Seq(Checkpoints),
         \A d \in DOMAIN stored' : 1..stored'[d] \subseteq handled',
         told' \in Checkpoints, UNCHANGED resets
  PROVE  CheckpointsInv'
  <1>1. /\ instance' \in [Instances -> TypeOfInstance]
        /\ instance'[i] = new
        /\ \A j \in Instances \ {i} : instance'[j] = instance[j]
    BY DEF Becomes, CheckpointsInv, TypeOK
  <1>2. ASSUME NEW j \in Instances
        PROVE  /\ InstanceHolds(instance'[j], handled')
               /\ instance'[j].state = "storing" => Batch(j)' # {}
    <2>1. CASE j = i
      BY <2>1, <1>1 DEF Batch
    <2>2. CASE j # i
      <3>1. instance'[j] = instance[j]
        BY <2>2, <1>1
      <3>2. InstanceHolds(instance[j], handled)
        BY DEF CheckpointsInv
      <3>3. InstanceHolds(instance'[j], handled')
        BY <3>1, <3>2, HandledGrows
      <3>4. instance[j].state = "storing" => Batch(j) # {}
        BY DEF CheckpointsInv, TypeOK
      <3>5. QED BY <3>1, <3>3, <3>4 DEF Batch
    <2>3. QED BY <2>1, <2>2
  <1>3. \A j \in Instances : InstanceHolds(instance[j], handled)'
    BY <1>2 DEF InstanceHolds, IsTransactional
  <1>4. TypeOK'
    BY <1>1, <1>2 DEF CheckpointsInv, TypeOK
  <1>5. CheckpointCoversHandled'
    BY DEF CheckpointCoversHandled
  <1>6. QED BY <1>3, <1>4, <1>5 DEF CheckpointsInv

(* What the state of an instance says of its numbers.                        *)
LEMMA InstanceTypes ==
  ASSUME CheckpointersAssumption, CheckpointsInv, NEW i \in Instances
  PROVE  /\ instance[i] \in TypeOfInstance
         /\ instance[i].last \in 0..MaxMessages
         /\ instance[i].position \in 0..MaxMessages
         /\ instance[i].upTo \in 0..MaxMessages
         /\ instance[i].revision \in Nat
         /\ MaxMessages \in Nat
         /\ InstanceHolds(instance[i], handled)
         /\ handled \subseteq 1..MaxMessages
         /\ told \in Checkpoints
         /\ stored \in Seq(Checkpoints)
         /\ \A d \in DOMAIN stored : 1..stored[d] \subseteq handled
         /\ 0 \in Checkpoints
         /\ instance[i].last \in Checkpoints
         /\ instance[i].upTo \in Checkpoints
  BY DEF CheckpointsInv, TypeOK, TypeOfInstance, Checkpoints,
         CheckpointersAssumption, CheckpointCoversHandled

(* What a start may read is covered.                                         *)
LEMMA ReadableIsCovered ==
  ASSUME CheckpointersAssumption, CheckpointsInv, NEW c \in Readable
  PROVE  c \in Checkpoints /\ 1..c \subseteq handled
  <1>1. CASE c = 0
    BY <1>1 DEF Checkpoints, CheckpointersAssumption
  <1>2. CASE c # 0
    <2>1. stored \in Seq(Checkpoints)
      BY DEF CheckpointsInv, TypeOK
    <2>2. PICK d \in DOMAIN stored : c = stored[d]
      BY <1>2, <2>1 DEF Readable, LastOf
    <2>3. QED BY <2>1, <2>2 DEF CheckpointsInv, CheckpointCoversHandled
  <1>3. QED BY <1>1, <1>2

(* The batch that a transaction commits is handled with what was before.     *)
LEMMA CommittedIsHandled ==
  ASSUME CheckpointersAssumption, CheckpointsInv, NEW i \in Instances,
         instance[i].state \in {"storing", "writing"}
  PROVE  /\ handled \subseteq Committed(i)
         /\ Committed(i) \subseteq 1..MaxMessages
         /\ instance[i].last + 1 .. instance[i].upTo \subseteq Committed(i)
         /\ instance[i].last < instance[i].upTo
  <1> USE InstanceTypes
  <1>1. /\ instance[i].last + 1 .. instance[i].position \subseteq handled
        /\ instance[i].position < instance[i].upTo
        /\ instance[i].last <= instance[i].position
        /\ ~IsTransactional => 1..instance[i].upTo \subseteq handled
    BY DEF InstanceHolds
  <1>2. Batch(i) \subseteq 1..MaxMessages
    BY DEF Batch
  <1>3. instance[i].last + 1 .. instance[i].upTo
          \subseteq (instance[i].last + 1 .. instance[i].position) \cup Batch(i)
    BY <1>1 DEF Batch
  <1>4. QED BY <1>1, <1>2, <1>3 DEF Committed

-----------------------------------------------------------------------------

LEMMA StartKeeps ==
  ASSUME CheckpointersAssumption, CheckpointsInv, NEW i \in Instances, Start(i)
  PROVE  CheckpointsInv'
  <1> USE InstanceTypes
  <1>1. CASE instance[i].last = 0
    <2>1. PICK c \in Readable : Becomes(i, Holding("running", c, Revision, c))
      BY <1>1 DEF Start
    <2> DEFINE new == Holding("running", c, Revision, c)
    <2>2. /\ c \in Checkpoints /\ 1..c \subseteq handled
          /\ Revision \in Nat
      BY ReadableIsCovered DEF Revision
    <2>3. /\ new \in TypeOfInstance
          /\ new.state = "running" /\ new.last = c /\ new.position = c
      BY <2>2, HoldingHolds
    <2>4. InstanceHolds(new, handled)
      BY <2>2, <2>3 DEF InstanceHolds, Checkpoints
    <2> HIDE DEF new
    <2>5. Becomes(i, new) /\ UNCHANGED <<store, stored, handled, told, resets>>
      BY <2>1 DEF new, Start
    <2>6. QED BY <2>3, <2>4, <2>5, InstanceChanges
  <1>2. CASE instance[i].last # 0
    <2> DEFINE new == [instance[i] EXCEPT !.state = "running",
                                          !.position = instance[i].last]
    <2>1. new \in TypeOfInstance
      BY UpdatesHold DEF Checkpoints
    <2>2. /\ new.state = "running" /\ new.last = instance[i].last
          /\ new.position = instance[i].last
      BY DEF TypeOfInstance
    <2>3. InstanceHolds(new, handled)
      <3>1. ~IsTransactional => 1..instance[i].last \subseteq handled
        BY DEF InstanceHolds
      <3>2. /\ instance[i].last <= instance[i].last
            /\ instance[i].last + 1 .. instance[i].last = {}
        OBVIOUS
      <3> HIDE DEF new
      <3>3. QED BY <2>2, <3>1, <3>2 DEF InstanceHolds
    <2> HIDE DEF new
    <2>4. Becomes(i, new) /\ UNCHANGED <<store, stored, handled, told, resets>>
      BY <1>2 DEF new, Start
    <2>5. QED BY <2>1, <2>2, <2>3, <2>4, InstanceChanges
  <1>3. QED BY <1>1, <1>2

LEMMA LeaveKeeps ==
  ASSUME CheckpointersAssumption, CheckpointsInv, NEW i \in Instances, Leave(i)
  PROVE  CheckpointsInv'
  <1> USE InstanceTypes
  <1>1. Gone \in TypeOfInstance /\ Gone.state = "gone" /\ Gone.last = 0
    BY HoldingHolds DEF Gone
  <1>2. InstanceHolds(Gone, handled)
    BY <1>1 DEF InstanceHolds
  <1>3. Becomes(i, Gone) /\ UNCHANGED <<store, stored, handled, told, resets>>
    BY DEF Leave
  <1>4. QED BY <1>1, <1>2, <1>3, InstanceChanges

LEMMA HandleKeeps ==
  ASSUME CheckpointersAssumption, CheckpointsInv, NEW i \in Instances, Handle(i)
  PROVE  CheckpointsInv'
  <1> USE InstanceTypes
  <1>1. PICK upTo \in instance[i].position + 1 .. instance[i].position + BatchSize :
          /\ upTo <= MaxMessages
          /\ Becomes(i, [instance[i] EXCEPT !.state = "storing", !.upTo = upTo])
          /\ handled' = IF IsTransactional THEN handled
                        ELSE handled \cup instance[i].position + 1 .. upTo
    BY DEF Handle
  <1> DEFINE new == [instance[i] EXCEPT !.state = "storing", !.upTo = upTo]
  <1>2. upTo \in Checkpoints /\ upTo \in Nat /\ instance[i].position < upTo
    BY <1>1 DEF CheckpointersAssumption, Checkpoints
  <1>3. new \in TypeOfInstance
    BY <1>2, UpdatesHold
  <1>4. /\ new.state = "storing" /\ new.last = instance[i].last
        /\ new.position = instance[i].position /\ new.upTo = upTo
    BY DEF TypeOfInstance
  <1>5. handled \subseteq handled' /\ handled' \subseteq 1..MaxMessages
    BY <1>1, <1>2
  <1>6. /\ instance[i].last <= instance[i].position
        /\ instance[i].last + 1 .. instance[i].position \subseteq handled
        /\ ~IsTransactional => 1..instance[i].last \subseteq handled
    BY DEF Handle, InstanceHolds
  <1>7. ~IsTransactional => 1..upTo \subseteq handled'
    BY <1>1, <1>2, <1>6
  <1>8. InstanceHolds(new, handled')
    BY <1>2, <1>4, <1>5, <1>6, <1>7 DEF InstanceHolds
  <1> HIDE DEF new
  <1>9. Becomes(i, new) /\ UNCHANGED <<store, stored, told, resets>>
    BY <1>1 DEF new, Handle
  <1>10. \A d \in DOMAIN stored' : 1..stored'[d] \subseteq handled'
    BY <1>5, <1>9
  <1>11. new.position + 1 .. new.upTo # {}
    BY <1>2, <1>4
  <1>12. QED BY <1>3, <1>5, <1>8, <1>9, <1>10, <1>11, InstanceChanges

LEMMA FailKeeps ==
  ASSUME CheckpointersAssumption, CheckpointsInv, NEW i \in Instances, Fail(i)
  PROVE  CheckpointsInv'
  <1> USE InstanceTypes
  <1> DEFINE new == Holding("stopped", instance[i].last, instance[i].revision, 0)
  <1>0. /\ instance[i].last \in Checkpoints /\ instance[i].revision \in Nat
        /\ 0 \in Checkpoints
    OBVIOUS
  <1>1. /\ new \in TypeOfInstance
        /\ new.state = "stopped" /\ new.last = instance[i].last
    BY ONLY CheckpointersAssumption, <1>0, HoldingHolds
  <1>2. InstanceHolds(new, handled)
    BY <1>1 DEF InstanceHolds
  <1> HIDE DEF new
  <1>3. Becomes(i, new) /\ UNCHANGED <<store, stored, handled, told, resets>>
    BY DEF new, Fail, Stopped
  <1>4. QED BY <1>1, <1>2, <1>3, InstanceChanges

LEMMA FailCommitKeeps ==
  ASSUME CheckpointersAssumption, CheckpointsInv, NEW i \in Instances,
         FailCommit(i)
  PROVE  CheckpointsInv'
  <1> USE InstanceTypes
  <1> DEFINE new == Holding("stopped", instance[i].upTo, instance[i].revision, 0)
  <1>0. /\ instance[i].upTo \in Checkpoints /\ instance[i].revision \in Nat
        /\ 0 \in Checkpoints
    OBVIOUS
  <1>1. new \in TypeOfInstance /\ new.state = "stopped"
    BY ONLY CheckpointersAssumption, <1>0, HoldingHolds
  <1>2. InstanceHolds(new, handled)
    BY <1>1 DEF InstanceHolds, IsTransactional, FailCommit
  <1> HIDE DEF new
  <1>3. Becomes(i, new) /\ UNCHANGED <<store, stored, handled, told, resets>>
    BY DEF new, FailCommit, Stopped
  <1>4. QED BY <1>1, <1>2, <1>3, InstanceChanges

LEMMA RefusedKeeps ==
  ASSUME CheckpointersAssumption, CheckpointsInv, NEW i \in Instances,
         instance[i].state = "storing", Refused(i)
  PROVE  CheckpointsInv'
  <1> USE InstanceTypes, CommittedIsHandled
  <1> DEFINE next == Holding("running", instance[i].last, instance[i].revision,
                             instance[i].upTo)
             lost == Holding("stopped", instance[i].last, instance[i].revision,
                             0)
  <1>0. /\ instance[i].last \in Checkpoints /\ instance[i].revision \in Nat
        /\ instance[i].upTo \in Checkpoints /\ 0 \in Checkpoints
    OBVIOUS
  <1>1. /\ next \in TypeOfInstance
        /\ next.state = "running" /\ next.last = instance[i].last
        /\ next.position = instance[i].upTo
    BY ONLY CheckpointersAssumption, <1>0, HoldingHolds
  <1>2. /\ lost \in TypeOfInstance
        /\ lost.state = "stopped" /\ lost.last = instance[i].last
    BY ONLY CheckpointersAssumption, <1>0, HoldingHolds
  <1>3. handled' = Committed(i) /\ UNCHANGED <<store, stored, told, resets>>
    BY DEF Refused
  <1>4. /\ handled \subseteq handled'
        /\ handled' \subseteq 1..MaxMessages
        /\ instance[i].last + 1 .. instance[i].upTo \subseteq handled'
        /\ instance[i].last <= instance[i].upTo
        /\ ~IsTransactional => 1..instance[i].last \subseteq handled'
        /\ \A d \in DOMAIN stored' : 1..stored'[d] \subseteq handled'
    BY <1>3 DEF InstanceHolds
  <1>5. InstanceHolds(next, handled') /\ InstanceHolds(lost, handled')
    <2> HIDE DEF next, lost
    <2>1. QED BY <1>1, <1>2, <1>4 DEF InstanceHolds
  <1>6. Becomes(i, next) \/ Becomes(i, lost)
    BY DEF Refused, Stopped
  <1> HIDE DEF next, lost
  <1>7. QED BY <1>1, <1>2, <1>3, <1>4, <1>5, <1>6, InstanceChanges

LEMMA WrittenKeeps ==
  ASSUME CheckpointersAssumption, CheckpointsInv, NEW i \in Instances,
         instance[i].state \in {"storing", "writing"},
         NEW new \in Seq(Checkpoints), Written(i, new),
         IsTransactional => 1..instance[i].last \subseteq handled,
         \A d \in DOMAIN new : new[d] = instance[i].upTo
                                 \/ (d \in DOMAIN stored /\ new[d] = stored[d])
  PROVE  CheckpointsInv'
  <1> USE InstanceTypes, CommittedIsHandled
  <1>1. /\ stored' = new /\ handled' = Committed(i)
        /\ UNCHANGED <<store, resets>>
    BY DEF Written
  <1>3. 1..instance[i].last \subseteq handled'
    BY <1>1 DEF InstanceHolds
  <1>a. 1..instance[i].upTo \subseteq handled'
    BY <1>1, <1>3
  <1>2. \A d \in DOMAIN stored' : 1..stored'[d] \subseteq handled'
    BY <1>1, <1>a
  <1> DEFINE revision == IF store = "eventstoredb" THEN Len(new) ELSE 0
             next     == Holding("running", instance[i].upTo, revision,
                                 instance[i].upTo)
             kept     == IF IsTransactional THEN instance[i].upTo
                         ELSE instance[i].last
             failed   == Holding("stopped", kept, instance[i].revision, 0)
  <1>4. /\ revision \in Nat /\ instance[i].revision \in Nat
        /\ instance[i].last \in Checkpoints /\ instance[i].upTo \in Checkpoints
        /\ 0 \in Checkpoints /\ kept \in Checkpoints
    OBVIOUS
  <1>b. 1..kept \subseteq handled'
    BY <1>3, <1>a
  <1> HIDE DEF revision, kept
  <1>5. CASE Becomes(i, next) /\ told' = instance[i].upTo
    <2>0. "running" \in {"gone", "stopped", "running", "storing", "writing"}
      OBVIOUS
    <2>1. /\ next \in TypeOfInstance
          /\ next.state = "running" /\ next.last = instance[i].upTo
          /\ next.position = instance[i].upTo
      <3> HIDE DEF next
      <3> DEFINE upTo == instance[i].upTo
      <3>1. upTo \in Checkpoints /\ revision \in Nat
        BY <1>4
      <3> HIDE DEF upTo
      <3>2. LET h == Holding("running", upTo, revision, upTo)
            IN  /\ h \in TypeOfInstance
                /\ h.state = "running" /\ h.last = upTo /\ h.position = upTo
        BY ONLY CheckpointersAssumption, <2>0, <3>1, HoldingHolds
      <3>3. QED BY ONLY <3>2 DEF next, upTo
    <2>2. InstanceHolds(next, handled')
      <3>1. /\ instance[i].upTo <= instance[i].upTo
            /\ instance[i].upTo + 1 .. instance[i].upTo = {}
        OBVIOUS
      <3> HIDE DEF next
      <3>2. QED BY <1>a, <2>1, <3>1 DEF InstanceHolds
    <2>3. told' \in Checkpoints
      BY <1>5 DEF Checkpoints
    <2> HIDE DEF next
    <2>4. Becomes(i, next)
      BY <1>5
    <2>5. QED BY <1>1, <1>2, <2>1, <2>2, <2>3, <2>4, InstanceChanges
  <1>6. CASE Becomes(i, failed) /\ UNCHANGED told
    <2>1. /\ failed \in TypeOfInstance
          /\ failed.state = "stopped" /\ failed.last = kept
      BY ONLY CheckpointersAssumption, <1>4, HoldingHolds
    <2>2. InstanceHolds(failed, handled')
      BY <1>b, <2>1 DEF InstanceHolds
    <2> HIDE DEF failed
    <2>3. QED BY <1>1, <1>2, <1>6, <2>1, <2>2, InstanceChanges
  <1>7. QED BY <1>5, <1>6 DEF Written, Stopped, revision, kept

LEMMA StoresKeep ==
  ASSUME CheckpointersAssumption, CheckpointsInv, NEW i \in Instances,
         \/ StoreSQLite(i) \/ StoreEventStoreDB(i)
         \/ FindDocument(i) \/ UpdateDocument(i) \/ HandleDocument(i)
  PROVE  CheckpointsInv'
  <1>1. instance[i].state \in {"storing", "writing"}
    BY DEF StoreSQLite, StoreEventStoreDB, FindDocument, UpdateDocument,
           HandleDocument
  <1>2. /\ instance[i].upTo \in Checkpoints /\ stored \in Seq(Checkpoints)
        /\ instance[i] \in TypeOfInstance
    BY InstanceTypes
  <1>3. CASE instance[i].state = "storing" /\ Refused(i)
    BY <1>3, RefusedKeeps
  <1>4. CASE /\ \/ Written(i, <<instance[i].upTo>>)
                \/ Written(i, Added(i))
                \/ \E d \in DOMAIN stored : Written(i, Replaced(d, i))
             /\ IsTransactional => 1..instance[i].last \subseteq handled
    <2>1. <<instance[i].upTo>> \in Seq(Checkpoints)
      BY <1>2
    <2>2. Added(i) \in Seq(Checkpoints)
      BY <1>2 DEF Added
    <2>3. \A d \in DOMAIN Added(i) :
            \/ Added(i)[d] = instance[i].upTo
            \/ (d \in DOMAIN stored /\ Added(i)[d] = stored[d])
      BY <1>2 DEF Added
    <2>4. ASSUME NEW d \in DOMAIN stored
          PROVE  /\ Replaced(d, i) \in Seq(Checkpoints)
                 /\ \A e \in DOMAIN Replaced(d, i) :
                      \/ Replaced(d, i)[e] = instance[i].upTo
                      \/ (e \in DOMAIN stored /\ Replaced(d, i)[e] = stored[e])
      BY <1>2 DEF Replaced
    <2>5. ASSUME NEW new \in Seq(Checkpoints), Written(i, new),
                 \A d \in DOMAIN new :
                   \/ new[d] = instance[i].upTo
                   \/ (d \in DOMAIN stored /\ new[d] = stored[d])
          PROVE  CheckpointsInv'
      BY <1>1, <1>4, <2>5, WrittenKeeps
    <2>6. \A d \in DOMAIN <<instance[i].upTo>> :
            <<instance[i].upTo>>[d] = instance[i].upTo
      OBVIOUS
    <2>7. CASE Written(i, <<instance[i].upTo>>)
      <3> DEFINE new == <<instance[i].upTo>>
      <3>1. new \in Seq(Checkpoints) /\ Written(i, new)
        BY <2>1, <2>7
      <3>2. \A d \in DOMAIN new : new[d] = instance[i].upTo
        BY <2>6
      <3> HIDE DEF new
      <3>3. QED BY <3>1, <3>2, <2>5
    <2>8. CASE Written(i, Added(i))
      BY <2>2, <2>3, <2>5, <2>8
    <2>9. CASE \E d \in DOMAIN stored : Written(i, Replaced(d, i))
      BY <2>4, <2>5, <2>9
    <2>10. QED BY <1>4, <2>7, <2>8, <2>9
  <1>5. CASE /\ Becomes(i, [instance[i] EXCEPT !.state = "writing"])
             /\ instance[i].state = "storing"
             /\ UNCHANGED <<store, stored, handled, told, resets>>
    <2> DEFINE new == [instance[i] EXCEPT !.state = "writing"]
    <2>1. new \in TypeOfInstance
      BY <1>2, UpdatesHold
    <2>2. /\ new.state = "writing" /\ new.last = instance[i].last
          /\ new.position = instance[i].position /\ new.upTo = instance[i].upTo
      BY <1>2 DEF TypeOfInstance
    <2>3. InstanceHolds(new, handled)
      BY <1>5, <2>2, InstanceTypes DEF InstanceHolds
    <2> HIDE DEF new
    <2>4. Becomes(i, new) /\ UNCHANGED <<store, stored, handled, told, resets>>
      BY <1>5 DEF new
    <2>5. QED BY <2>1, <2>2, <2>3, <2>4, InstanceTypes, InstanceChanges
  <1>6. CASE StoreSQLite(i)
    <2>1. MayWriteRow(i) => 1..instance[i].last \subseteq handled
      <3>1. CASE instance[i].last = 0
        BY <3>1
      <3>2. CASE instance[i].last # 0 /\ MayWriteRow(i)
        <4>1. 1 \in DOMAIN stored /\ stored[1] = instance[i].last
          BY <1>2, <3>2 DEF MayWriteRow
        <4>2. QED BY <4>1, InstanceTypes
      <3>3. QED BY <3>1, <3>2
    <2>2. QED BY <1>3, <1>4, <1>6, <2>1 DEF StoreSQLite
  <1>7. CASE StoreEventStoreDB(i)
    BY <1>3, <1>4, <1>7 DEF StoreEventStoreDB, IsTransactional
  <1>8. CASE FindDocument(i)
    BY <1>3, <1>5, <1>8 DEF FindDocument
  <1>9. CASE UpdateDocument(i)
    BY <1>4, <1>9 DEF UpdateDocument, IsTransactional
  <1>10. CASE HandleDocument(i)
    BY <1>4, <1>10 DEF HandleDocument, IsTransactional
  <1>11. QED BY <1>6, <1>7, <1>8, <1>9, <1>10

LEMMA ResetKeeps ==
  ASSUME CheckpointersAssumption, CheckpointsInv, Reset
  PROVE  CheckpointsInv'
  <1>1. /\ stored \in Seq(Checkpoints) /\ 0 \in Checkpoints
        /\ resets \in Nat /\ MaxResets \in Nat
    BY DEF CheckpointsInv, TypeOK, Checkpoints, CheckpointersAssumption
  <1>2. /\ stored' = Append(stored, 0) /\ told' = 0
        /\ resets' \in 0..MaxResets /\ store = "eventstoredb"
        /\ UNCHANGED <<store, instance, handled>>
    BY <1>1 DEF Reset
  <1>3. /\ stored' \in Seq(Checkpoints)
        /\ \A d \in DOMAIN stored' :
             stored'[d] = 0 \/ (d \in DOMAIN stored /\ stored'[d] = stored[d])
    BY <1>1, <1>2
  <1>4. CheckpointCoversHandled'
    BY <1>2, <1>3 DEF CheckpointsInv, CheckpointCoversHandled
  <1>5. \A i \in Instances : instance[i].state = "storing" => Batch(i)' # {}
    BY <1>2 DEF CheckpointsInv, TypeOK, Batch
  <1>6. TypeOK'
    BY <1>1, <1>2, <1>3, <1>5 DEF CheckpointsInv, TypeOK
  <1>7. \A i \in Instances : InstanceHolds(instance[i], handled)'
    BY <1>2 DEF CheckpointsInv, InstanceHolds, IsTransactional
  <1>8. QED BY <1>4, <1>6, <1>7 DEF CheckpointsInv

(* The types and the coverage hold at the start and through every step.      *)
LEMMA InitHolds ==
  ASSUME CheckpointersAssumption, Init
  PROVE  CheckpointsInv
  <1>1. Gone \in TypeOfInstance /\ Gone.state = "gone" /\ Gone.last = 0
    BY HoldingHolds DEF Gone, TypeOfInstance, Checkpoints,
       CheckpointersAssumption
  <1>2. 0 \in Checkpoints /\ 0 \in 0..MaxResets
    BY DEF Checkpoints, CheckpointersAssumption
  <1>3. TypeOK
    BY <1>1, <1>2 DEF Init, TypeOK
  <1>4. \A i \in Instances : InstanceHolds(instance[i], handled)
    BY <1>1 DEF Init, InstanceHolds
  <1>5. QED BY <1>3, <1>4 DEF CheckpointsInv, CheckpointCoversHandled, Init

LEMMA StepHolds ==
  ASSUME CheckpointersAssumption, CheckpointsInv, [Next]_vars
  PROVE  CheckpointsInv'
  <1>1. CASE UNCHANGED vars
    BY <1>1 DEF vars, CheckpointsInv, TypeOK, InstanceHolds, IsTransactional,
                CheckpointCoversHandled, Batch
  <1>2. ASSUME NEW i \in Instances, Step(i)
        PROVE  CheckpointsInv'
    BY <1>2, StartKeeps, LeaveKeeps, HandleKeeps, FailKeeps, FailCommitKeeps,
       StoresKeep
       DEF Step
  <1>3. QED BY <1>1, <1>2, ResetKeeps DEF Next

LEMMA InvHolds == Spec => []CheckpointsInv
  <1>1. Init => CheckpointsInv
    BY InitHolds, CheckpointersAssumption
  <1>2. CheckpointsInv /\ [Next]_vars => CheckpointsInv'
    BY StepHolds, CheckpointersAssumption
  <1>3. QED BY <1>1, <1>2, PTL DEF Spec

(* Every variable stays in its type, and what is to be stored is the          *)
(* checkpoint of a batch that is not empty.                                   *)
THEOREM CheckpointerTypes == Spec => []TypeOK
  <1>1. CheckpointsInv => TypeOK
    BY DEF CheckpointsInv
  <1>2. QED BY <1>1, InvHolds, PTL

(* In every store, shared or not, a stored checkpoint covers only messages    *)
(* that were handled (mongoDBCheckpointer.ts, eventStoreDBCheckpointer.ts,    *)
(* storeProcessorCheckpoint.ts of SQLite, inMemoryCheckpointer).              *)
THEOREM EveryCheckpointCoversHandled == Spec => []CheckpointCoversHandled
  <1>1. CheckpointsInv => CheckpointCoversHandled
    BY DEF CheckpointsInv
  <1>2. QED BY <1>1, InvHolds, PTL

-----------------------------------------------------------------------------
(* One register: what a start reads is the last that was stored, and who      *)
(* writes holds just that.                                                    *)

ReadsFirst == store \in ReadingFirst

OneAtATime ==
  ReadsFirst =>
    \A i, j \in Instances :
      instance[i].state # "gone" /\ instance[j].state # "gone" => i = j

OneDocument ==
  store # "eventstoredb" =>
    /\ Len(stored) <= 1
    /\ \A d \in DOMAIN stored : stored[d] # 0
    /\ ReadsFirst =>
         \A i \in Instances : instance[i].last # 0 => stored # <<>>

WritersHoldTheLast ==
  \A i \in Instances :
    /\ instance[i].state = "gone" => instance[i].last = 0
    /\ instance[i].state = "writing" =>
         ReadsFirst /\ instance[i].last = LastOf(stored)

RegisterInv ==
  /\ CheckpointsInv
  /\ OneAtATime
  /\ OneDocument
  /\ WritersHoldTheLast
  /\ RevisionIsOfTheCheckpoint
  /\ told <= LastOf(stored)

(* A write on top of what is stored, by an instance that holds just that.    *)
OnTop(i, new) ==
  /\ new \in Seq(Checkpoints)
  /\ LastOf(new) = instance[i].upTo
  /\ instance[i].last = LastOf(stored)
  /\ IF store = "eventstoredb" THEN new = Append(stored, instance[i].upTo)
     ELSE Len(new) = 1 /\ new[1] = instance[i].upTo

(* Sequences of checkpoints that get one more, or another one.               *)
LEMMA LastAppended ==
  ASSUME NEW s \in Seq(Checkpoints), NEW c \in Checkpoints
  PROVE  /\ Append(s, c) \in Seq(Checkpoints)
         /\ Len(Append(s, c)) = Len(s) + 1
         /\ Append(s, c)[Len(s) + 1] = c
         /\ \A d \in 1..Len(s) : Append(s, c)[d] = s[d]
         /\ LastOf(Append(s, c)) = c
         /\ s = <<>> => Append(s, c) = <<c>>
  <1>1. /\ Append(s, c) \in Seq(Checkpoints)
        /\ Len(Append(s, c)) = Len(s) + 1
        /\ Append(s, c)[Len(s) + 1] = c
        /\ \A d \in 1..Len(s) : Append(s, c)[d] = s[d]
    OBVIOUS
  <1>2. Append(s, c) # <<>>
    BY <1>1
  <1>3. s = <<>> => Append(s, c) = <<c>>
    OBVIOUS
  <1>4. QED BY <1>1, <1>2, <1>3 DEF LastOf

LEMMA OneLong ==
  ASSUME NEW s \in Seq(Checkpoints), Len(s) = 1
  PROVE  s # <<>> /\ DOMAIN s = 1..Len(s)
  <1>1. DOMAIN s = 1..Len(s)
    OBVIOUS
  <1>2. s = <<>> => Len(s) = 0
    OBVIOUS
  <1>3. QED BY <1>1, <1>2

LEMMA OneReplaced ==
  ASSUME NEW s \in Seq(Checkpoints), NEW c \in Checkpoints, Len(s) <= 1,
         NEW d \in DOMAIN s
  PROVE  /\ d = 1
         /\ [s EXCEPT ![d] = c] \in Seq(Checkpoints)
         /\ Len([s EXCEPT ![d] = c]) = 1
         /\ [s EXCEPT ![d] = c][1] = c
         /\ LastOf([s EXCEPT ![d] = c]) = c
  <1>1. DOMAIN s = 1..Len(s) /\ Len(s) \in Nat
    OBVIOUS
  <1>2. d = 1 /\ Len(s) = 1
    BY <1>1
  <1>3. /\ [s EXCEPT ![d] = c] \in Seq(Checkpoints)
        /\ Len([s EXCEPT ![d] = c]) = Len(s)
    OBVIOUS
  <1>4. [s EXCEPT ![d] = c][1] = c
    BY <1>1, <1>2
  <1>5. [s EXCEPT ![d] = c] # <<>>
    BY <1>2, <1>3
  <1>6. QED BY <1>2, <1>3, <1>4, <1>5 DEF LastOf

LEMMA ReadableIsLast ==
  ASSUME CheckpointersAssumption, RegisterInv, NEW c \in Readable
  PROVE  c = LastOf(stored) /\ c \in Checkpoints
  <1>1. stored \in Seq(Checkpoints)
    BY DEF RegisterInv, CheckpointsInv, TypeOK
  <1>2. c = LastOf(stored)
    BY <1>1 DEF RegisterInv, OneDocument, Readable, LastOf
  <1>3. QED BY <1>2, ReadableIsCovered DEF RegisterInv

(* Three outcomes of a store: refused, a write on top, or, where it reads
   first, a write that is yet to come.                                       *)
LEMMA StoreOutcomes ==
  ASSUME CheckpointersAssumption, RegisterInv, NEW i \in Instances,
         \/ StoreSQLite(i) \/ StoreEventStoreDB(i)
         \/ FindDocument(i) \/ UpdateDocument(i) \/ HandleDocument(i)
  PROVE  /\ instance[i].state \in {"storing", "writing"}
         /\ \/ Refused(i)
            \/ \E new \in Seq(Checkpoints) : Written(i, new) /\ OnTop(i, new)
            \/ /\ ReadsFirst /\ instance[i].last = LastOf(stored)
               /\ Becomes(i, [instance[i] EXCEPT !.state = "writing"])
               /\ UNCHANGED <<store, stored, handled, told, resets>>
  <1>1. /\ instance[i].upTo \in Checkpoints /\ stored \in Seq(Checkpoints)
        /\ instance[i].last \in Checkpoints
        /\ \A d \in DOMAIN stored : stored[d] \in Checkpoints
        /\ instance[i].last < instance[i].upTo \/ instance[i].state = "running"
             \/ instance[i].state = "gone" \/ instance[i].state = "stopped"
    <2>1. /\ instance[i].upTo \in Checkpoints /\ stored \in Seq(Checkpoints)
          /\ instance[i].last \in Checkpoints
          /\ instance[i] \in TypeOfInstance
      BY InstanceTypes DEF RegisterInv
    <2>2. instance[i].state \in {"storing", "writing"} =>
            instance[i].last < instance[i].upTo
      BY CommittedIsHandled DEF RegisterInv
    <2>3. QED BY <2>1, <2>2 DEF TypeOfInstance
  <1>2. instance[i].state \in {"storing", "writing"}
    BY DEF StoreSQLite, StoreEventStoreDB, FindDocument, UpdateDocument,
           HandleDocument
  <1> DEFINE one == <<instance[i].upTo>>
  <1>3. one \in Seq(Checkpoints) /\ Len(one) = 1 /\ one[1] = instance[i].upTo
        /\ LastOf(one) = instance[i].upTo
    BY <1>1 DEF LastOf
  <1>4. /\ Added(i) \in Seq(Checkpoints)
        /\ LastOf(Added(i)) = instance[i].upTo
        /\ stored = <<>> => Added(i) = one
    BY <1>1, LastAppended DEF Added
  <1>5. CASE StoreSQLite(i)
    <2>1. CASE MayWriteRow(i) /\ Written(i, one)
      <3>1. instance[i].last = LastOf(stored)
        BY <1>1, <1>5, <2>1 DEF MayWriteRow, LastOf, StoreSQLite, RegisterInv,
                                OneDocument
      <3>2. store # "eventstoredb"
        BY <1>5 DEF StoreSQLite
      <3> HIDE DEF one
      <3>3. OnTop(i, one)
        BY <1>3, <3>1, <3>2 DEF OnTop
      <3>4. QED BY <1>2, <1>3, <2>1, <3>3
    <2>2. QED BY <1>2, <1>5, <2>1 DEF StoreSQLite
  <1>6. CASE StoreEventStoreDB(i)
    <2>1. CASE IsExpectedRevision(i) /\ Written(i, Added(i))
      <3>1. instance[i].last = LastOf(stored)
        BY <1>1, <1>6, <2>1 DEF IsExpectedRevision, LastOf, StoreEventStoreDB,
                                RegisterInv, RevisionIsOfTheCheckpoint
      <3>2. OnTop(i, Added(i))
        BY <1>4, <1>6, <3>1 DEF OnTop, Added, StoreEventStoreDB
      <3>3. QED BY <1>2, <1>4, <2>1, <3>2
    <2>2. QED BY <1>2, <1>6, <2>1 DEF StoreEventStoreDB
  <1>7. CASE FindDocument(i)
    <2>1. CASE Refused(i)
      BY <1>2, <2>1
    <2>2. CASE /\ \E current \in Readable : ~IsAhead(current, i)
               /\ Becomes(i, [instance[i] EXCEPT !.state = "writing"])
               /\ UNCHANGED <<store, stored, handled, told, resets>>
      <3>1. PICK current \in Readable : ~IsAhead(current, i)
        BY <2>2
      <3>2. current = LastOf(stored)
        BY ReadableIsLast
      <3>3. store \in ReadingFirst /\ store # "eventstoredb"
        BY <1>7 DEF FindDocument, ReadingFirst
      <3>4. instance[i].last = LastOf(stored)
        BY <1>1, <3>1, <3>2, <3>3
           DEF IsAhead, LastOf, RegisterInv, OneDocument, ReadsFirst
      <3>5. QED BY <1>2, <2>2, <3>3, <3>4 DEF ReadsFirst
    <2>3. QED BY <1>7, <2>1, <2>2 DEF FindDocument
  <1>8. CASE UpdateDocument(i)
    <2>1. /\ instance[i].last = LastOf(stored) /\ store # "eventstoredb"
          /\ Len(stored) <= 1
      BY <1>8 DEF UpdateDocument, RegisterInv, WritersHoldTheLast, OneDocument
    <2>2. ASSUME NEW d \in DOMAIN stored, Written(i, Replaced(d, i))
          PROVE  Replaced(d, i) \in Seq(Checkpoints) /\ OnTop(i, Replaced(d, i))
      <3>1. /\ Replaced(d, i) \in Seq(Checkpoints)
            /\ Len(Replaced(d, i)) = 1 /\ Replaced(d, i)[1] = instance[i].upTo
            /\ LastOf(Replaced(d, i)) = instance[i].upTo
        BY <1>1, <2>1, OneReplaced DEF Replaced
      <3>2. QED BY <2>1, <3>1 DEF OnTop
    <2>3. CASE /\ \A d \in DOMAIN stored : stored[d] # instance[i].last
               /\ Written(i, Added(i))
      <3>1. stored = <<>>
        BY <1>1, <2>1, <2>3 DEF LastOf
      <3>2. OnTop(i, one)
        <4> HIDE DEF one
        <4>1. QED BY <1>3, <2>1 DEF OnTop
      <3>3. Added(i) = one
        BY <1>4, <3>1
      <3> HIDE DEF one
      <3>4. QED BY <1>2, <1>3, <2>3, <3>2, <3>3
    <2>4. QED BY <1>2, <1>8, <2>2, <2>3 DEF UpdateDocument
  <1>9. CASE HandleDocument(i)
    <2>1. instance[i].last = LastOf(stored) /\ store # "eventstoredb"
      BY <1>9 DEF HandleDocument, RegisterInv, WritersHoldTheLast
    <2>2. Written(i, one)
      BY <1>9 DEF HandleDocument
    <2> HIDE DEF one
    <2>3. OnTop(i, one)
      BY <1>3, <2>1 DEF OnTop
    <2>4. QED BY <1>2, <1>3, <2>2, <2>3
  <1>10. QED BY <1>5, <1>6, <1>7, <1>8, <1>9

(* A step of one instance that leaves what is stored alone.                  *)
LEMMA HoldersChange ==
  ASSUME CheckpointersAssumption, RegisterInv, CheckpointsInv',
         NEW i \in Instances, NEW new, Becomes(i, new),
         UNCHANGED <<store, stored, told>>,
         ReadsFirst => \/ instance[i].state # "gone" \/ new.state = "gone"
                       \/ \A j \in Instances \ {i} : instance[j].state = "gone",
         new.state = "gone" => new.last = 0,
         new.state = "writing" => ReadsFirst /\ new.last = LastOf(stored),
         \/ new.last = 0 /\ new.revision = 0
         \/ new.last = LastOf(stored) /\ new.revision = Revision
         \/ new.last = instance[i].last /\ new.revision = instance[i].revision
         \/ IsTransactional
  PROVE  RegisterInv'
  <1>1. /\ instance'[i] = new
        /\ \A j \in Instances \ {i} : instance'[j] = instance[j]
    BY DEF Becomes, RegisterInv, CheckpointsInv, TypeOK
  <1>2. stored \in Seq(Checkpoints)
    BY DEF RegisterInv, CheckpointsInv, TypeOK
  <1>3. OneAtATime'
    BY <1>1 DEF RegisterInv, OneAtATime, ReadsFirst
  <1>4. OneDocument'
    BY <1>1, <1>2 DEF RegisterInv, OneDocument, LastOf, ReadsFirst, ReadingFirst,
                      IsTransactional
  <1>5. WritersHoldTheLast'
    BY <1>1 DEF RegisterInv, WritersHoldTheLast, ReadsFirst
  <1>6. RevisionIsOfTheCheckpoint'
    <2>1. CASE store = "eventstoredb"
      <3>1. ASSUME NEW j \in Instances
            PROVE  /\ instance'[j].revision <= Len(stored)
                   /\ instance'[j].last = IF instance'[j].revision = 0 THEN 0
                                          ELSE stored[instance'[j].revision]
        <4>1. /\ instance[j].revision <= Len(stored)
              /\ instance[j].last = IF instance[j].revision = 0 THEN 0
                                    ELSE stored[instance[j].revision]
          BY <2>1 DEF RegisterInv, RevisionIsOfTheCheckpoint
        <4>2. CASE j # i
          BY <1>1, <4>1, <4>2
        <4>3. CASE j = i
          BY <1>1, <1>2, <2>1, <4>1, <4>3 DEF LastOf, Revision, IsTransactional
        <4>4. QED BY <4>2, <4>3
      <3>2. QED BY <3>1 DEF RevisionIsOfTheCheckpoint
    <2>2. CASE store # "eventstoredb"
      BY <2>2 DEF RevisionIsOfTheCheckpoint
    <2>3. QED BY <2>1, <2>2
  <1>7. (told <= LastOf(stored))'
    BY DEF RegisterInv, LastOf
  <1>8. QED BY <1>3, <1>4, <1>5, <1>6, <1>7 DEF RegisterInv

LEMMA WriteKeepsRegister ==
  ASSUME CheckpointersAssumption, RegisterInv, CheckpointsInv',
         NEW i \in Instances, instance[i].state \in {"storing", "writing"},
         NEW new \in Seq(Checkpoints), Written(i, new), OnTop(i, new)
  PROVE  RegisterInv'
  <1>1. /\ instance[i].upTo \in Nat /\ instance[i].last \in Nat
        /\ instance[i].last < instance[i].upTo
        /\ instance[i].upTo \in Checkpoints /\ instance[i].last \in Checkpoints
        /\ instance[i].revision \in Nat
        /\ stored \in Seq(Checkpoints) /\ told \in Nat /\ 0 \in Checkpoints
    BY InstanceTypes, CommittedIsHandled DEF RegisterInv, Checkpoints
  <1> DEFINE next   == Holding("running", instance[i].upTo,
                               IF store = "eventstoredb" THEN Len(new) ELSE 0,
                               instance[i].upTo)
             kept   == IF IsTransactional THEN instance[i].upTo
                       ELSE instance[i].last
             failed == Holding("stopped", kept, instance[i].revision, 0)
  <1>2. \E x \in {next, failed} : Becomes(i, x) /\ (x = next \/ told' = told)
    BY DEF Written, Stopped
  <1>3. /\ stored' = new /\ store' = store
        /\ told' = instance[i].upTo \/ told' = told
    BY DEF Written
  <1>4. /\ next.state = "running" /\ next.last = instance[i].upTo
        /\ next.revision = IF store = "eventstoredb" THEN Len(new) ELSE 0
        /\ failed.state = "stopped" /\ failed.last = kept
        /\ failed.revision = instance[i].revision
    <2> HIDE DEF kept
    <2>1. QED BY DEF Holding, Gone
  <1>5. PICK x : /\ Becomes(i, x) /\ x.state \in {"running", "stopped"}
                 /\ \/ /\ x.last = instance[i].upTo
                       /\ x.revision = IF store = "eventstoredb" THEN Len(new)
                                       ELSE 0
                    \/ /\ x.last = instance[i].last
                       /\ x.revision = instance[i].revision
                    \/ store # "eventstoredb"
    <2> HIDE DEF next, failed
    <2>1. QED BY <1>2, <1>4 DEF IsTransactional
  <1>6. /\ instance'[i] = x
        /\ \A j \in Instances \ {i} : instance'[j] = instance[j]
    BY <1>5 DEF Becomes, RegisterInv, CheckpointsInv, TypeOK
  <1>7. OneAtATime'
    BY <1>3, <1>5, <1>6 DEF RegisterInv, OneAtATime, ReadsFirst
  <1>8. OneDocument'
    <2>1. CASE store = "eventstoredb"
      BY <1>3, <2>1 DEF OneDocument
    <2>2. CASE store # "eventstoredb"
      <3>1. /\ Len(new) = 1 /\ new[1] # 0 /\ new # <<>>
            /\ DOMAIN new = 1..Len(new)
        <4>1. Len(new) = 1 /\ new[1] = instance[i].upTo
          BY <2>2 DEF OnTop
        <4>2. new # <<>> /\ DOMAIN new = 1..Len(new)
          BY ONLY new \in Seq(Checkpoints), <4>1, OneLong
        <4>3. QED BY <1>1, <4>1, <4>2
      <3>2. QED BY <1>3, <3>1 DEF OneDocument
    <2>3. QED BY <2>1, <2>2
  <1>9. WritersHoldTheLast'
    BY <1>3, <1>5, <1>6 DEF RegisterInv, WritersHoldTheLast, ReadsFirst,
                            OneAtATime
  <1>10. RevisionIsOfTheCheckpoint'
    <2>1. CASE store = "eventstoredb"
      <3>1. /\ new = Append(stored, instance[i].upTo)
            /\ Len(new) = Len(stored) + 1 /\ Len(stored) \in Nat
            /\ new[Len(new)] = instance[i].upTo
            /\ \A d \in 1..Len(stored) : new[d] = stored[d]
        <4>1. new = Append(stored, instance[i].upTo)
          BY <2>1 DEF OnTop
        <4>2. Len(stored) \in Nat
          BY <1>1
        <4> HIDE DEF next, failed
        <4>3. QED BY <1>1, <4>1, <4>2, LastAppended
      <3>2. ASSUME NEW j \in Instances
            PROVE  /\ instance'[j].revision <= Len(new)
                   /\ instance'[j].last = IF instance'[j].revision = 0 THEN 0
                                          ELSE new[instance'[j].revision]
        <4>1. /\ instance[j].revision <= Len(stored)
              /\ instance[j].revision \in Nat
              /\ instance[j].last = IF instance[j].revision = 0 THEN 0
                                    ELSE stored[instance[j].revision]
          BY <2>1, InstanceTypes DEF RegisterInv, RevisionIsOfTheCheckpoint
        <4>2. CASE instance'[j].last = instance[j].last
                     /\ instance'[j].revision = instance[j].revision
          BY <3>1, <4>1, <4>2
        <4>3. CASE instance'[j].last = instance[i].upTo
                     /\ instance'[j].revision = Len(new)
          BY <3>1, <4>3
        <4>4. QED BY <1>5, <1>6, <2>1, <4>2, <4>3
      <3>3. QED BY <1>3, <3>2 DEF RevisionIsOfTheCheckpoint
    <2>2. CASE store # "eventstoredb"
      BY <1>3, <2>2 DEF RevisionIsOfTheCheckpoint
    <2>3. QED BY <2>1, <2>2
  <1>11. (told <= LastOf(stored))'
    <2>1. LastOf(stored') = instance[i].upTo
      BY <1>3 DEF OnTop
    <2>2. told <= instance[i].last
      BY DEF OnTop, RegisterInv
    <2>3. QED BY <1>1, <1>3, <2>1, <2>2
  <1>12. QED BY <1>7, <1>8, <1>9, <1>10, <1>11 DEF RegisterInv

-----------------------------------------------------------------------------
(* Every step keeps the register, and is one of the register or none.        *)

LEMMA RegisterInit ==
  ASSUME CheckpointersAssumption, Init
  PROVE  RegisterInv
  <1>1. Gone.state = "gone" /\ Gone.last = 0 /\ Gone.revision = 0
    BY DEF Gone
  <1>2. LastOf(stored) = 0 /\ told = 0 /\ stored = <<>> /\ Len(stored) = 0
    BY DEF Init, LastOf
  <1>3. \A i \in Instances : instance[i] = Gone
    BY DEF Init
  <1>4. OneAtATime /\ WritersHoldTheLast
    BY <1>1, <1>3 DEF OneAtATime, WritersHoldTheLast
  <1>5. OneDocument /\ RevisionIsOfTheCheckpoint
    BY <1>1, <1>2, <1>3 DEF OneDocument, RevisionIsOfTheCheckpoint
  <1>6. QED BY <1>2, <1>4, <1>5, InitHolds DEF RegisterInv

LEMMA RegisterStart ==
  ASSUME CheckpointersAssumption, SharedStores \subseteq Comparing,
         RegisterInv, CheckpointsInv', NEW i \in Instances, Start(i)
  PROVE  /\ RegisterInv'
         /\ \E c \in {instance[i].last, 0, LastOf(stored)} :
              instance'[i].last = c
  <1>1. ReadsFirst =>
          \A j \in Instances \ {i} : instance[j].state = "gone"
    BY DEF Start, MayStart, ReadsFirst, ReadingFirst, Comparing
  <1>2. instance[i] \in TypeOfInstance
    BY InstanceTypes DEF RegisterInv
  <1>3. CASE instance[i].last = 0
    <2>1. PICK c \in Readable : Becomes(i, Holding("running", c, Revision, c))
      BY <1>3 DEF Start
    <2> DEFINE new == Holding("running", c, Revision, c)
    <2>2. new.state = "running" /\ new.last = c /\ new.revision = Revision
      BY DEF Holding, Gone
    <2>3. c = LastOf(stored)
      BY ReadableIsLast
    <2> HIDE DEF new
    <2>4. Becomes(i, new) /\ UNCHANGED <<store, stored, told>>
      BY <2>1 DEF new, Start
    <2>5. instance'[i] = new
      BY <2>4 DEF Becomes, RegisterInv, CheckpointsInv, TypeOK
    <2>6. QED BY <1>1, <2>2, <2>3, <2>4, <2>5, HoldersChange
  <1>4. CASE instance[i].last # 0
    <2> DEFINE new == [instance[i] EXCEPT !.state = "running",
                                          !.position = instance[i].last]
    <2>1. /\ new.state = "running" /\ new.last = instance[i].last
          /\ new.revision = instance[i].revision
      BY <1>2 DEF TypeOfInstance
    <2> HIDE DEF new
    <2>2. Becomes(i, new) /\ UNCHANGED <<store, stored, told>>
      BY <1>4 DEF new, Start
    <2>3. instance'[i] = new
      BY <2>2 DEF Becomes, RegisterInv, CheckpointsInv, TypeOK
    <2>4. QED BY <1>1, <2>1, <2>2, <2>3, HoldersChange
  <1>5. QED BY <1>3, <1>4

(* A commit that fails leaves the register alone, and the instance ahead.     *)
LEMMA RegisterFailCommit ==
  ASSUME CheckpointersAssumption, RegisterInv, CheckpointsInv',
         NEW i \in Instances, FailCommit(i)
  PROVE  /\ RegisterInv'
         /\ UNCHANGED <<store, stored>>
         /\ IsTransactional
         /\ instance[i].last = LastOf(stored)
         /\ instance'[i].last = instance[i].upTo
         /\ instance[i].last < instance[i].upTo
         /\ \A j \in Instances \ {i} : instance'[j].last = instance[j].last
  <1> DEFINE new == Holding("stopped", instance[i].upTo, instance[i].revision, 0)
  <1>1. /\ instance[i].state = "storing" /\ IsTransactional /\ ~ReadsFirst
        /\ store = "sqlite" /\ MayWriteRow(i)
        /\ UNCHANGED <<store, stored, told>>
    BY DEF FailCommit, IsTransactional, ReadsFirst, ReadingFirst
  <1>2. Becomes(i, new)
    BY DEF FailCommit, Stopped
  <1>3. new.state = "stopped" /\ new.last = instance[i].upTo
    BY DEF Holding, Gone
  <1> HIDE DEF new
  <1>4. RegisterInv'
    BY <1>1, <1>2, <1>3, HoldersChange
  <1>5. /\ instance'[i] = new
        /\ \A j \in Instances \ {i} : instance'[j] = instance[j]
    BY <1>2 DEF Becomes, RegisterInv, CheckpointsInv, TypeOK
  <1>6. stored \in Seq(Checkpoints) /\ Len(stored) <= 1
    BY <1>1, InstanceTypes DEF RegisterInv, OneDocument
  <1>7. instance[i].last = LastOf(stored)
    BY <1>1, <1>6 DEF MayWriteRow, LastOf
  <1>8. instance[i].last < instance[i].upTo
    BY <1>1, CommittedIsHandled DEF RegisterInv
  <1>9. QED BY <1>1, <1>3, <1>4, <1>5, <1>7, <1>8

(* What an instance holds stays when it handles, fails or is refused.        *)
LEMMA RegisterStays ==
  ASSUME CheckpointersAssumption, RegisterInv, CheckpointsInv',
         NEW i \in Instances,
         \/ Handle(i) \/ Fail(i)
         \/ instance[i].state \in {"storing", "writing"} /\ Refused(i)
         \/ /\ ReadsFirst /\ instance[i].last = LastOf(stored)
            /\ instance[i].state \in {"storing", "writing"}
            /\ Becomes(i, [instance[i] EXCEPT !.state = "writing"])
            /\ UNCHANGED <<store, stored, handled, told, resets>>
  PROVE  /\ RegisterInv'
         /\ UNCHANGED <<store, stored>>
         /\ \A j \in Instances : instance'[j].last = instance[j].last
  <1>1. instance[i] \in TypeOfInstance
    BY InstanceTypes DEF RegisterInv
  <1>2. instance[i].state # "gone" /\ UNCHANGED <<store, stored, told>>
    BY DEF Handle, Fail, Refused
  <1>3. PICK new : /\ Becomes(i, new)
                   /\ new.last = instance[i].last
                   /\ new.revision = instance[i].revision
                   /\ new.state # "gone"
                   /\ new.state = "writing" =>
                        ReadsFirst /\ new.last = LastOf(stored)
    <2>1. CASE Handle(i)
      <3>1. PICK upTo : Becomes(i, [instance[i] EXCEPT !.state = "storing",
                                                       !.upTo = upTo])
        BY <2>1 DEF Handle
      <3> DEFINE new == [instance[i] EXCEPT !.state = "storing", !.upTo = upTo]
      <3>2. /\ new.state = "storing" /\ new.last = instance[i].last
            /\ new.revision = instance[i].revision
        BY <1>1 DEF TypeOfInstance
      <3> HIDE DEF new
      <3>3. Becomes(i, new)
        BY <3>1 DEF new
      <3>4. QED BY <3>2, <3>3
    <2>2. CASE Fail(i)
      <3> DEFINE new == Holding("stopped", instance[i].last,
                                instance[i].revision, 0)
      <3>1. /\ new.state = "stopped" /\ new.last = instance[i].last
            /\ new.revision = instance[i].revision
        BY DEF Holding, Gone
      <3> HIDE DEF new
      <3>2. Becomes(i, new)
        BY <2>2 DEF new, Fail, Stopped
      <3>3. QED BY <3>1, <3>2
    <2>3. CASE Refused(i)
      <3> DEFINE next == Holding("running", instance[i].last,
                                 instance[i].revision, instance[i].upTo)
                 lost == Holding("stopped", instance[i].last,
                                 instance[i].revision, 0)
      <3>1. /\ next.state = "running" /\ next.last = instance[i].last
            /\ next.revision = instance[i].revision
            /\ lost.state = "stopped" /\ lost.last = instance[i].last
            /\ lost.revision = instance[i].revision
        BY DEF Holding, Gone
      <3> HIDE DEF next, lost
      <3>2. Becomes(i, next) \/ Becomes(i, lost)
        BY <2>3 DEF next, lost, Refused, Stopped
      <3>3. QED BY <3>1, <3>2
    <2>4. CASE /\ ReadsFirst /\ instance[i].last = LastOf(stored)
               /\ Becomes(i, [instance[i] EXCEPT !.state = "writing"])
      <3> DEFINE new == [instance[i] EXCEPT !.state = "writing"]
      <3>1. /\ new.state = "writing" /\ new.last = instance[i].last
            /\ new.revision = instance[i].revision
        BY <1>1 DEF TypeOfInstance
      <3> HIDE DEF new
      <3>2. Becomes(i, new)
        BY <2>4 DEF new
      <3>3. QED BY <2>4, <3>1, <3>2
    <2>5. QED BY <2>1, <2>2, <2>3, <2>4
  <1>4. RegisterInv'
    BY <1>2, <1>3, HoldersChange
  <1>5. \A j \in Instances : instance'[j].last = instance[j].last
    BY <1>3 DEF Becomes, RegisterInv, CheckpointsInv, TypeOK
  <1>6. QED BY <1>2, <1>4, <1>5

(* The register's view: its value, and what the instances hold.              *)
LEMMA HeldChanges ==
  ASSUME NEW i \in Instances,
         \A j \in Instances \ {i} : instance'[j].last = instance[j].last
  PROVE  [j \in Instances |-> instance'[j].last]
           = [[j \in Instances |-> instance[j].last]
                EXCEPT ![i] = instance'[i].last]
  OBVIOUS

LEMMA OthersKeep ==
  ASSUME CheckpointsInv, NEW i \in Instances, NEW new, Becomes(i, new)
  PROVE  /\ instance'[i] = new
         /\ \A j \in Instances \ {i} : instance'[j].last = instance[j].last
  BY DEF Becomes, CheckpointsInv, TypeOK

(* No step changes which store this is.                                      *)
LEMMA StoreStays ==
  ASSUME [Next]_vars
  PROVE  UNCHANGED store
  <1>1. \A i \in Instances :
          Refused(i) \/ (\E new : Written(i, new)) => UNCHANGED store
    BY DEF Refused, Written
  <1>2. ASSUME NEW i \in Instances,
               \/ StoreSQLite(i) \/ StoreEventStoreDB(i)
               \/ FindDocument(i) \/ UpdateDocument(i) \/ HandleDocument(i)
        PROVE  UNCHANGED store
    BY <1>1, <1>2 DEF StoreSQLite, StoreEventStoreDB, FindDocument,
                      UpdateDocument, HandleDocument
  <1>3. QED BY <1>2 DEF Next, Step, vars, Start, Leave, Handle, Fail,
                        FailCommit, Reset

LEMMA RegisterStep ==
  ASSUME CheckpointersAssumption, SharedStores \subseteq Comparing,
         RegisterInv, [Next]_vars
  PROVE  RegisterInv' /\ [Register!Next]_Register!vars
  <1> DEFINE held == [j \in Instances |-> instance[j].last]
  <1>1. CheckpointsInv /\ CheckpointsInv'
    BY StepHolds DEF RegisterInv
  <1>a. UNCHANGED IsTransactional
    BY StoreStays DEF IsTransactional
  <1>2. CASE UNCHANGED vars
    <2>1. RegisterInv'
      BY <1>1, <1>2 DEF vars, RegisterInv, OneAtATime, OneDocument, ReadsFirst,
                   WritersHoldTheLast, RevisionIsOfTheCheckpoint
    <2>2. UNCHANGED Register!vars
      BY <1>2, <1>a DEF vars, Register!vars
    <2>3. QED BY <2>1, <2>2
  <1>3. ASSUME NEW i \in Instances,
               UNCHANGED stored,
               \A j \in Instances : instance'[j].last = instance[j].last
        PROVE  [Register!Next]_Register!vars
    BY <1>3, <1>a DEF Register!vars
  <1>4. ASSUME NEW i \in Instances, UNCHANGED stored,
               \A j \in Instances \ {i} : instance'[j].last = instance[j].last,
               instance'[i].last \in {0, LastOf(stored)}
        PROVE  [Register!Next]_Register!vars
    <2>1. held' = [held EXCEPT ![i] = instance'[i].last]
      BY <1>4, HeldChanges
    <2>2. Register!Read(i)
      BY <1>4, <1>a, <2>1 DEF Register!Read
    <2>3. QED BY <2>2 DEF Register!Next
  <1>5. ASSUME NEW i \in Instances, Start(i)
        PROVE  RegisterInv' /\ [Register!Next]_Register!vars
    <2>1. /\ RegisterInv'
          /\ instance'[i].last \in {instance[i].last, 0, LastOf(stored)}
      BY <1>1, <1>5, RegisterStart
    <2>2. UNCHANGED stored
      BY <1>5 DEF Start
    <2>3. \A j \in Instances \ {i} : instance'[j].last = instance[j].last
      BY <1>1, <1>5, OthersKeep DEF Start
    <2>4. QED BY <1>3, <1>4, <2>1, <2>2, <2>3
  <1>6. ASSUME NEW i \in Instances, Leave(i)
        PROVE  RegisterInv' /\ [Register!Next]_Register!vars
    <2>1. /\ Becomes(i, Gone) /\ UNCHANGED <<store, stored, told>>
          /\ instance[i].state # "gone"
      BY <1>6 DEF Leave
    <2>2. Gone.state = "gone" /\ Gone.last = 0 /\ Gone.revision = 0
      BY DEF Gone
    <2>3. RegisterInv'
      BY <1>1, <2>1, <2>2, HoldersChange
    <2>4. QED BY <1>1, <1>4, <2>1, <2>2, <2>3, OthersKeep
  <1>7. ASSUME NEW i \in Instances, Handle(i) \/ Fail(i)
        PROVE  RegisterInv' /\ [Register!Next]_Register!vars
    BY <1>1, <1>3, <1>7, RegisterStays
  <1>8. ASSUME NEW i \in Instances,
               instance[i].state \in {"storing", "writing"},
               NEW new \in Seq(Checkpoints), Written(i, new), OnTop(i, new)
        PROVE  RegisterInv' /\ [Register!Next]_Register!vars
    <2>1. RegisterInv'
      BY <1>1, <1>8, WriteKeepsRegister
    <2>2. LastOf(stored') = instance[i].upTo
      BY <1>8 DEF Written, OnTop
    <2>3. /\ instance[i].last = LastOf(stored)
          /\ instance[i].last < instance[i].upTo
          /\ instance[i].last \in Nat /\ instance[i].upTo \in Nat
      BY <1>1, <1>8, CommittedIsHandled, InstanceTypes DEF OnTop
    <2>4. \E x : Becomes(i, x) /\ x.last \in {instance[i].last, instance[i].upTo}
      <3> DEFINE next   == Holding("running", instance[i].upTo,
                                   IF store = "eventstoredb" THEN Len(new)
                                   ELSE 0, instance[i].upTo)
                 kept   == IF IsTransactional THEN instance[i].upTo
                           ELSE instance[i].last
                 failed == Holding("stopped", kept, instance[i].revision, 0)
      <3>1. Becomes(i, next) \/ Becomes(i, failed)
        BY <1>8 DEF Written, Stopped
      <3>2. next.last = instance[i].upTo /\ failed.last = kept
        BY DEF Holding, Gone
      <3> HIDE DEF next, failed
      <3>3. QED BY <3>1, <3>2
    <2>5. /\ instance'[i].last \in {instance[i].last, instance[i].upTo}
          /\ \A j \in Instances \ {i} : instance'[j].last = instance[j].last
      BY <1>1, <2>4, OthersKeep
    <2>6. held' = [held EXCEPT ![i] = instance'[i].last]
      BY <2>5, HeldChanges
    <2>7. Register!Advance(i)
      BY <1>a, <2>2, <2>3, <2>5, <2>6 DEF Register!Advance
    <2>8. QED BY <2>1, <2>7 DEF Register!Next
  <1>9. ASSUME NEW i \in Instances,
               \/ StoreSQLite(i) \/ StoreEventStoreDB(i)
               \/ FindDocument(i) \/ UpdateDocument(i) \/ HandleDocument(i)
        PROVE  RegisterInv' /\ [Register!Next]_Register!vars
    <2>1. instance[i].state \in {"storing", "writing"}
      BY <1>9, StoreOutcomes
    <2>2. CASE Refused(i)
      BY <1>1, <1>3, <2>1, <2>2, RegisterStays
    <2>3. CASE \E new \in Seq(Checkpoints) : Written(i, new) /\ OnTop(i, new)
      BY <1>8, <2>1, <2>3
    <2>4. CASE /\ ReadsFirst /\ instance[i].last = LastOf(stored)
               /\ Becomes(i, [instance[i] EXCEPT !.state = "writing"])
               /\ UNCHANGED <<store, stored, handled, told, resets>>
      BY <1>1, <1>3, <2>1, <2>4, RegisterStays
    <2>5. QED BY <1>9, <2>2, <2>3, <2>4, StoreOutcomes
  <1>10. CASE Reset
    <2>1. /\ stored \in Seq(Checkpoints) /\ 0 \in Checkpoints
          /\ stored' = Append(stored, 0) /\ store = "eventstoredb"
          /\ told' = 0 /\ UNCHANGED <<store, instance>>
      BY <1>1, <1>10 DEF Reset, CheckpointsInv, TypeOK, Checkpoints,
                         CheckpointersAssumption
    <2>2. /\ LastOf(stored') = 0 /\ Len(stored') = Len(stored) + 1
          /\ \A d \in 1..Len(stored) : stored'[d] = stored[d]
          /\ Len(stored) \in Nat
      BY <2>1, LastAppended
    <2>3. OneAtATime' /\ OneDocument' /\ WritersHoldTheLast'
      BY <2>1 DEF RegisterInv, OneAtATime, OneDocument, WritersHoldTheLast,
                  ReadsFirst, ReadingFirst
    <2>4. RevisionIsOfTheCheckpoint'
      <3>1. ASSUME NEW j \in Instances
            PROVE  /\ instance[j].revision <= Len(stored')
                   /\ instance[j].last = IF instance[j].revision = 0 THEN 0
                                         ELSE stored'[instance[j].revision]
        <4>1. /\ instance[j].revision <= Len(stored)
              /\ instance[j].revision \in Nat
              /\ instance[j].last = IF instance[j].revision = 0 THEN 0
                                    ELSE stored[instance[j].revision]
          BY <1>1, <2>1, InstanceTypes DEF RegisterInv, RevisionIsOfTheCheckpoint
        <4>2. QED BY <2>2, <4>1
      <3>2. QED BY <2>1, <3>1 DEF RevisionIsOfTheCheckpoint
    <2>5. RegisterInv'
      BY <1>1, <2>1, <2>2, <2>3, <2>4 DEF RegisterInv
    <2>6. Register!Reset
      BY <1>a, <2>1, <2>2 DEF Register!Reset
    <2>7. QED BY <2>5, <2>6 DEF Register!Next
  <1>11. ASSUME NEW i \in Instances, FailCommit(i)
         PROVE  RegisterInv' /\ [Register!Next]_Register!vars
    <2>1. /\ RegisterInv' /\ UNCHANGED stored /\ IsTransactional
          /\ instance[i].last = LastOf(stored)
          /\ instance'[i].last = instance[i].upTo
          /\ instance[i].last < instance[i].upTo
          /\ \A j \in Instances \ {i} : instance'[j].last = instance[j].last
      BY <1>1, <1>11, RegisterFailCommit
    <2>2. held' = [held EXCEPT ![i] = instance'[i].last]
      BY <2>1, HeldChanges
    <2>3. Register!Overrun(i)
      BY <1>a, <2>1, <2>2 DEF Register!Overrun
    <2>4. QED BY <2>1, <2>3 DEF Register!Next
  <1>12. QED BY <1>2, <1>5, <1>6, <1>7, <1>9, <1>10, <1>11 DEF Next, Step

(* The register, of which the theorems below take a part each.               *)
LEMMA RegisterHolds ==
  ASSUME SharedStores \subseteq Comparing
  PROVE  Spec => []RegisterInv
  <1>1. Init => RegisterInv
    BY RegisterInit, CheckpointersAssumption
  <1>2. RegisterInv /\ [Next]_vars => RegisterInv'
    BY RegisterStep, CheckpointersAssumption
  <1>3. QED BY <1>1, <1>2, PTL DEF Spec

(* Where only SQLite and EventStoreDB are shared, whoever starts anew reads at *)
(* least the checkpoint that an instance was told to be stored, through lost   *)
(* races, lost answers, commits that fail and crashes; within a transaction of *)
(* SQLite nobody is told before the commit is answered.                        *)
THEOREM WhatWasToldStays ==
  ASSUME SharedStores \subseteq Comparing
  PROVE  Spec => []WhatWasToldIsRead
  <1>1. RegisterInv => WhatWasToldIsRead
    BY ReadableIsLast, CheckpointersAssumption
       DEF WhatWasToldIsRead, RegisterInv
  <1>2. QED BY <1>1, RegisterHolds, PTL

(* The revision that a process keeps is always that of the checkpoint which    *)
(* its instance holds (the Map of eventStoreDBCheckpointer).                   *)
THEOREM RevisionsAreKept ==
  ASSUME SharedStores \subseteq Comparing
  PROVE  Spec => []RevisionIsOfTheCheckpoint
  <1>1. RegisterInv => RevisionIsOfTheCheckpoint
    BY DEF RegisterInv
  <1>2. QED BY <1>1, RegisterHolds, PTL

(* The instances and what is stored implement one register that an instance    *)
(* moves on only from what it holds itself; where the checkpoint is stored in  *)
(* a transaction, the instance may come to hold what was rolled back.          *)
THEOREM CheckpointersImplementRegister ==
  ASSUME SharedStores \subseteq Comparing
  PROVE  Spec => ImplementsRegister
  <1>1. Init => Register!Init
    BY DEF Init, Register!Init, Gone, LastOf, IsTransactional
  <1>2. RegisterInv /\ [Next]_vars => [Register!Next]_Register!vars
    BY RegisterStep, CheckpointersAssumption
  <1>3. Spec => Register!Spec
    BY <1>1, <1>2, RegisterHolds, PTL DEF Spec, Register!Spec
  <1>4. QED BY <1>3 DEF ImplementsRegister

=============================================================================
