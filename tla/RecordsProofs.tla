---------------------------- MODULE RecordsProofs ----------------------------
(***************************************************************************)
(* Proofs about the durable records, for every value of the constants:     *)
(* WorkClose with any registered resources, cleanup executions and faults, *)
(* RetryCommand with any Works, keys, Workers and Attempts, EffectLedger   *)
(* with any operations, keys and grants.                                   *)
(*                                                                         *)
(* A close is safe because its facts only ever grow: what is reserved      *)
(* stays reserved, what is sealed stays sealed, what is gone stays gone,   *)
(* an effect that began stays recorded.  A retry is applied once because   *)
(* the Boundary of a key is decided once, in the transaction that makes    *)
(* the Attempt, and Attempts are numbered like the generations they begin. *)
(*                                                                         *)
(* In the ledger (LedgerInv) a command runs only while its operation is    *)
(* unresolved.  That needs to be known of the calls of resolve_effect that *)
(* have read and not yet written (PendingSound): one that will write a     *)
(* final outcome was admitted when no command ran, and none can start.     *)
(* So the ledger implements EffectGuard.                                   *)
(***************************************************************************)
EXTENDS WorkClose, RetryCommand, EffectLedger, FiniteSetTheorems, TLAPS

-----------------------------------------------------------------------------
(* WorkClose: the inductive invariant.                                       *)

\* The reservation seals the artifacts, finds no running Worker, and starts every effect.
ReservedOnce == prep.reserved => kept.sealed /\ ~usage.live /\ \A t \in Targets : effect[t] # "none"

\* A call runs only under the reservation, one at a time, and knows what it has removed.
CallsAccounted ==
    /\ \A c \in Calls : call[c].st # "idle" => prep.reserved
    /\ \A c, d \in Calls : call[c].st # "idle" /\ call[d].st # "idle" => c = d
    /\ \A c \in Calls : call[c].st = "removing" => \A t \in Targets \ call[c].left : disk[t].st = "gone"
    /\ \A c \in Calls : call[c].st = "recording" => \A t \in Targets : disk[t].st = "gone"

\* What is not there was removed by the execution or by the effect that is recorded for it.
RemovalsAccounted ==
    /\ \A t \in Targets : effect[t] = "succeeded" => disk[t].st = "gone"
    /\ \A t \in Targets : disk[t].st # "present" => prep.reserved \/ effect[t] # "none"

CloseInv == CloseTypeOK /\ ReservedOnce /\ CallsAccounted /\ RemovalsAccounted /\ ReceiptTruthful

-----------------------------------------------------------------------------
(* WorkClose: types.                                                         *)

\* What AdoptManagedWork to ForeignChange do keeps the types.
LEMMA TypesBefore ==
    ASSUME CloseTypeOK,
           \/ AdoptManagedWork \/ SharedWorkEnds \/ DeliveriesSettle \/ StopWorkRuntime \/ Reattach
           \/ \E t \in Targets : GrantCleanup(t) \/ ForeignChange(t)
    PROVE  CloseTypeOK'
<1> USE CloseAssumption DEF CloseConstants
<1>1. CASE AdoptManagedWork
  BY <1>1 DEF AdoptManagedWork, CloseTypeOK
<1>2. CASE SharedWorkEnds
  BY <1>2 DEF SharedWorkEnds, CloseTypeOK
<1>3. CASE DeliveriesSettle
  BY <1>3 DEF DeliveriesSettle, CloseTypeOK
<1>4. CASE StopWorkRuntime
  BY <1>4 DEF StopWorkRuntime, CloseTypeOK
<1>5. CASE Reattach
  <2>1. faults' \in 0 .. MaxFaults /\ attachment' \in 1 .. faults' + 1 /\ prep.gen <= attachment'
    BY <1>5 DEF Reattach, CloseTypeOK, Preparation
  <2> QED BY <1>5, <2>1 DEF Reattach, CloseTypeOK
<1>6. ASSUME NEW t \in Targets, GrantCleanup(t) PROVE CloseTypeOK'
  BY <1>6 DEF GrantCleanup, CloseTypeOK
<1>7. ASSUME NEW t \in Targets, ForeignChange(t) PROVE CloseTypeOK'
  <2>1. faults' \in 0 .. MaxFaults /\ attachment \in 1 .. faults' + 1
    BY <1>7 DEF ForeignChange, CloseTypeOK
  <2>2. disk' \in [Targets -> [st : {"present", "half", "gone"}, same : BOOLEAN]]
    BY <1>7 DEF ForeignChange, CloseTypeOK
  <2>3. \A r \in Targets : disk'[r].st = disk[r].st
    BY <1>7 DEF ForeignChange, CloseTypeOK
  <2> QED BY <1>7, <2>1, <2>2, <2>3 DEF ForeignChange, CloseTypeOK
<1> QED BY <1>1, <1>2, <1>3, <1>4, <1>5, <1>6, <1>7

\* The preparation, direct effects and the close keep the types.
LEMMA TypesOfCao ==
    ASSUME CloseTypeOK,
           \/ PrepareWorkClose \/ FinishReserved \/ CloseWork
           \/ \E t \in Targets : StartCleanupEffect(t) \/ ResolveEffect(t) \/ DirectRemoval(t)
           \/ \E c \in Calls : Reserve(c) \/ RefusedAfterSealing(c)
    PROVE  CloseTypeOK'
<1> USE CloseAssumption DEF CloseConstants
<1>1. CASE PrepareWorkClose
  <2>1. attachment \in 0 .. MaxFaults + 1 /\ attachment <= attachment
    BY DEF CloseTypeOK
  <2>2. /\ prep' \in Preparation /\ prep'.gen = attachment /\ prep'.sealed
        /\ prep'.reserved = prep.reserved /\ prep'.executed = prep.executed
    BY <1>1, <2>1 DEF PrepareWorkClose, CloseTypeOK, Preparation
  <2> QED BY <1>1, <2>1, <2>2 DEF PrepareWorkClose, CloseTypeOK
<1>2. CASE FinishReserved
  <2>1. /\ prep' \in Preparation /\ prep'.gen = prep.gen /\ prep'.sealed = prep.sealed
        /\ prep'.reserved
    BY <1>2 DEF FinishReserved, CloseTypeOK, Preparation
  <2>2. prep.sealed
    BY <1>2 DEF FinishReserved, CloseTypeOK
  <2> QED BY <1>2, <2>1, <2>2 DEF FinishReserved, CloseTypeOK, Sealed
<1>3. CASE CloseWork
  <2>1. \A t \in Targets : effect[t] \in Final
    BY <1>3 DEF CloseWork, Closable
  <2>2. receipt' \in [Targets -> Final]
    BY <1>3, <2>1 DEF CloseWork, DerivedCleanup, CloseTypeOK
  <2> QED BY <1>3, <2>2 DEF CloseWork, CloseTypeOK
<1>4. ASSUME NEW t \in Targets, StartCleanupEffect(t) PROVE CloseTypeOK'
  BY <1>4 DEF StartCleanupEffect, CloseTypeOK, Effects
<1>5. ASSUME NEW t \in Targets, ResolveEffect(t) PROVE CloseTypeOK'
  <2>1. effect' \in [Targets -> Effects]
    BY <1>5 DEF ResolveEffect, CloseTypeOK, Effects, Final
  <2> QED BY <1>5, <2>1 DEF ResolveEffect, CloseTypeOK
<1>6. ASSUME NEW t \in Targets, DirectRemoval(t) PROVE CloseTypeOK'
  <2>1. /\ disk' \in [Targets -> [st : {"present", "half", "gone"}, same : BOOLEAN]]
        /\ \A r \in Targets : disk'[r].st = "half" => disk[r].st = "half"
    BY <1>6 DEF DirectRemoval, CloseTypeOK
  <2> QED BY <1>6, <2>1 DEF DirectRemoval, CloseTypeOK
<1>7. ASSUME NEW c \in Calls, Reserve(c) PROVE CloseTypeOK'
  <2>1. /\ prep' \in Preparation /\ prep'.gen = prep.gen /\ prep'.sealed /\ prep'.reserved
    BY <1>7 DEF Reserve, ClosePreconditions, CloseAuthority, CloseTypeOK, Preparation
  <2>2. effect' \in [Targets -> Effects] /\ grants' \subseteq Targets
    BY <1>7 DEF Reserve, StartedBatch, Effects
  <2>3. call' \in [Calls -> [st : {"idle", "reserved", "removing", "recording"}, left : SUBSET Targets]]
    BY <1>7 DEF Reserve, CloseTypeOK
  <2>4. kept' \in [staged : BOOLEAN, sealed : BOOLEAN]
    BY <1>7 DEF Reserve, Sealed, CloseTypeOK
  <2> QED BY <1>7, <2>1, <2>2, <2>3, <2>4 DEF Reserve, CloseTypeOK
<1>8. ASSUME NEW c \in Calls, RefusedAfterSealing(c) PROVE CloseTypeOK'
  BY <1>8 DEF RefusedAfterSealing, Sealed, CloseTypeOK
<1> QED BY <1>1, <1>2, <1>3, <1>4, <1>5, <1>6, <1>7, <1>8

\* The states of a call.
CallRows == [st : {"idle", "reserved", "removing", "recording"}, left : SUBSET Targets]

\* The execution and its deaths keep the types.
LEMMA TypesOfExecution ==
    ASSUME CloseTypeOK, CallsAccounted,
           \/ Crash
           \/ \E c \in Calls : \/ RemoveFails(c) \/ Validate(c) \/ RecordRemovals(c)
                               \/ \E t \in Targets : Remove(c, t)
    PROVE  CloseTypeOK'
<1> USE CloseAssumption DEF CloseConstants
<1>0. IdleCall \in CallRows /\ [st |-> "removing", left |-> Targets] \in CallRows
  BY DEF IdleCall, CallRows
<1>1. CASE Crash
  <2>1. call' \in [Calls -> CallRows] /\ faults' \in 0 .. MaxFaults /\ attachment \in 1 .. faults' + 1
    BY <1>0, <1>1 DEF Crash, CloseTypeOK
  <2> QED BY <1>1, <2>1 DEF Crash, CloseTypeOK, CallRows
<1>2. ASSUME NEW c \in Calls, RemoveFails(c) PROVE CloseTypeOK'
  <2>1. call' \in [Calls -> CallRows] /\ faults' \in 0 .. MaxFaults /\ attachment \in 1 .. faults' + 1
    BY <1>0, <1>2 DEF RemoveFails, CloseTypeOK, CallRows
  <2> QED BY <1>2, <2>1 DEF RemoveFails, CloseTypeOK, CallRows
<1>3. ASSUME NEW c \in Calls, Validate(c) PROVE CloseTypeOK'
  <2>1. call' \in [Calls -> CallRows]
    BY <1>0, <1>3 DEF Validate, CloseTypeOK, CallRows
  <2> QED BY <1>3, <2>1 DEF Validate, CloseTypeOK, CallRows
<1>4. ASSUME NEW c \in Calls, RecordRemovals(c) PROVE CloseTypeOK'
  <2>1. call' \in [Calls -> CallRows]
    BY <1>0, <1>4 DEF RecordRemovals, CloseTypeOK, CallRows
  <2>2. effect' \in [Targets -> Effects]
    BY <1>4 DEF RecordRemovals, CloseTypeOK, Effects, Final
  <2>3. prep.reserved
    BY <1>4 DEF RecordRemovals, CallsAccounted
  <2>4. prep' = prep \/ prep' = [prep EXCEPT !.executed = TRUE]
    BY <1>4 DEF RecordRemovals
  <2>5. /\ prep' \in Preparation /\ prep'.gen = prep.gen /\ prep'.sealed = prep.sealed
        /\ prep'.reserved
    BY <2>3, <2>4 DEF CloseTypeOK, Preparation
  <2> QED BY <1>4, <2>1, <2>2, <2>3, <2>5 DEF RecordRemovals, CloseTypeOK, CallRows
<1>5. ASSUME NEW c \in Calls, NEW t \in Targets, Remove(c, t) PROVE CloseTypeOK'
  <2>1. CASE t = Workspace /\ disk[t].st = "present"
    <3>1. /\ disk' \in [Targets -> [st : {"present", "half", "gone"}, same : BOOLEAN]]
          /\ \A r \in Targets : disk'[r].st = "half" => r = Workspace
      BY <1>5, <2>1 DEF Remove, CloseTypeOK
    <3> QED BY <1>5, <2>1, <3>1 DEF Remove, CloseTypeOK
  <2>2. CASE ~(t = Workspace /\ disk[t].st = "present")
    <3>1. disk' = [disk EXCEPT ![t].st = "gone"]
      BY <1>5, <2>2 DEF Remove
    <3>2. /\ disk' \in [Targets -> [st : {"present", "half", "gone"}, same : BOOLEAN]]
          /\ \A r \in Targets : disk'[r].st = "half" => disk[r].st = "half"
      BY <3>1 DEF CloseTypeOK
    <3>3. PICK state \in {call[c].st, "recording"} :
             call' = [call EXCEPT ![c] = [st |-> state, left |-> call[c].left \ {t}]]
      <4>1. CASE call[c].left = {t}
        BY <1>5, <2>2, <4>1 DEF Remove, CloseTypeOK
      <4>2. CASE call[c].left # {t}
        BY <1>5, <2>2, <4>2 DEF Remove, CloseTypeOK
      <4> QED BY <4>1, <4>2
    <3>4. call' \in [Calls -> CallRows]
      BY <3>3 DEF CloseTypeOK, CallRows
    <3> QED BY <1>5, <2>2, <3>2, <3>4 DEF Remove, CloseTypeOK, CallRows
  <2> QED BY <2>1, <2>2
<1> QED BY <1>1, <1>2, <1>3, <1>4, <1>5

\* Every step of a close keeps the types.
LEMMA CloseTypes ==
    ASSUME CloseTypeOK, CallsAccounted, [CloseNext]_closing
    PROVE  CloseTypeOK'
<1>1. CASE \/ AdoptManagedWork \/ SharedWorkEnds \/ DeliveriesSettle \/ StopWorkRuntime \/ Reattach
           \/ \E t \in Targets : GrantCleanup(t) \/ ForeignChange(t)
  BY <1>1, TypesBefore
<1>2. CASE \/ PrepareWorkClose \/ FinishReserved \/ CloseWork
           \/ \E t \in Targets : StartCleanupEffect(t) \/ ResolveEffect(t) \/ DirectRemoval(t)
           \/ \E c \in Calls : Reserve(c) \/ RefusedAfterSealing(c)
  BY <1>2, TypesOfCao
<1>3. CASE \/ Crash
           \/ \E c \in Calls : \/ RemoveFails(c) \/ Validate(c) \/ RecordRemovals(c)
                               \/ \E t \in Targets : Remove(c, t)
  BY <1>3, TypesOfExecution
<1>4. CASE UNCHANGED closing
  BY <1>4 DEF closing, CloseTypeOK
<1> QED BY <1>1, <1>2, <1>3, <1>4 DEF CloseNext, Cao, Others, Execution

-----------------------------------------------------------------------------
(* WorkClose: what happens outside the execution.                            *)

\* What happens outside the execution, but for the two removals and the end of an effect: no call,
\* no resource's presence, no effect that has begun, and no reservation changes.
Elsewhere ==
    /\ call' = call /\ prep'.reserved = prep.reserved
    /\ kept.sealed => kept'.sealed
    /\ ~usage.live => ~usage'.live
    /\ \A t \in Targets : disk'[t].st = disk[t].st
    /\ \A t \in Targets : effect'[t] = effect[t] \/ (effect[t] = "none" /\ effect'[t] = "started")
    /\ receipt' = receipt \/ (receipt = None /\ receipt' = effect)

\* Everything that happens elsewhere.
LEMMA ElsewhereSteps ==
    ASSUME CloseTypeOK,
           \/ AdoptManagedWork \/ SharedWorkEnds \/ DeliveriesSettle \/ StopWorkRuntime \/ Reattach
           \/ PrepareWorkClose \/ FinishReserved \/ CloseWork
           \/ \E t \in Targets : GrantCleanup(t) \/ ForeignChange(t) \/ StartCleanupEffect(t)
           \/ \E c \in Calls : RefusedAfterSealing(c)
           \/ UNCHANGED closing
    PROVE  Elsewhere
<1>1. CASE AdoptManagedWork
  BY <1>1 DEF AdoptManagedWork, Elsewhere
<1>2. CASE SharedWorkEnds
  BY <1>2 DEF SharedWorkEnds, Elsewhere, CloseTypeOK
<1>3. CASE DeliveriesSettle
  BY <1>3 DEF DeliveriesSettle, Elsewhere, CloseTypeOK
<1>4. CASE StopWorkRuntime
  BY <1>4 DEF StopWorkRuntime, Elsewhere, CloseTypeOK
<1>5. CASE Reattach
  BY <1>5 DEF Reattach, Elsewhere
<1>6. CASE PrepareWorkClose
  BY <1>6 DEF PrepareWorkClose, Elsewhere, CloseTypeOK, Preparation
<1>7. CASE FinishReserved
  BY <1>7 DEF FinishReserved, Elsewhere, CloseTypeOK, Preparation, Sealed
<1>8. CASE CloseWork
  BY <1>8 DEF CloseWork, DerivedCleanup, Elsewhere
<1>9. ASSUME NEW t \in Targets, GrantCleanup(t) PROVE Elsewhere
  BY <1>9 DEF GrantCleanup, Elsewhere
<1>10. ASSUME NEW t \in Targets, ForeignChange(t) PROVE Elsewhere
  BY <1>10 DEF ForeignChange, Elsewhere, CloseTypeOK
<1>11. ASSUME NEW t \in Targets, StartCleanupEffect(t) PROVE Elsewhere
  BY <1>11 DEF StartCleanupEffect, Elsewhere, CloseTypeOK
<1>12. ASSUME NEW c \in Calls, RefusedAfterSealing(c) PROVE Elsewhere
  BY <1>12 DEF RefusedAfterSealing, Elsewhere, CloseTypeOK, Sealed
<1>13. CASE UNCHANGED closing
  BY <1>13 DEF closing, Elsewhere
<1> QED BY <1>1, <1>2, <1>3, <1>4, <1>5, <1>6, <1>7, <1>8, <1>9, <1>10, <1>11, <1>12, <1>13

\* A step after which every fact of a close that only grows has grown keeps the receipt truthful.
LEMMA ReceiptKept ==
    ASSUME ReceiptTruthful, receipt' = receipt,
           \A t \in Targets : disk[t].st = "gone" => disk'[t].st = "gone"
    PROVE  ReceiptTruthful'
  BY DEF ReceiptTruthful

\* What happens elsewhere keeps the invariant.
LEMMA ElsewhereKeeps ==
    ASSUME CloseInv, Elsewhere
    PROVE  ReservedOnce' /\ CallsAccounted' /\ RemovalsAccounted' /\ ReceiptTruthful'
<1>1. ReservedOnce'
  BY DEF CloseInv, Elsewhere, ReservedOnce
<1>2. CallsAccounted'
  BY DEF CloseInv, Elsewhere, CallsAccounted
<1>3. RemovalsAccounted'
  BY DEF CloseInv, Elsewhere, RemovalsAccounted
<1>4. ReceiptTruthful'
  BY DEF CloseInv, Elsewhere, ReceiptTruthful, RemovalsAccounted
<1> QED BY <1>1, <1>2, <1>3, <1>4

-----------------------------------------------------------------------------
(* WorkClose: the execution.                                                 *)

\* A direct effect's command removes its resource under an effect that began.
LEMMA DirectRemovalKeeps ==
    ASSUME CloseInv, NEW t \in Targets, DirectRemoval(t)
    PROVE  ReservedOnce' /\ CallsAccounted' /\ RemovalsAccounted' /\ ReceiptTruthful'
<1>1. /\ UNCHANGED <<usage, kept, prep, effect, call, receipt>> /\ effect[t] = "started"
      /\ \A r \in Targets : disk'[r].st = IF r = t THEN "gone" ELSE disk[r].st
  BY DEF DirectRemoval, CloseInv, CloseTypeOK
<1>2. ReservedOnce' /\ CallsAccounted'
  BY <1>1 DEF CloseInv, ReservedOnce, CallsAccounted
<1>3. RemovalsAccounted'
  BY <1>1 DEF CloseInv, RemovalsAccounted
<1> QED BY <1>1, <1>2, <1>3, ReceiptKept DEF CloseInv

\* An effect resolved as succeeded is one whose resource the CAO saw gone.
LEMMA ResolveKeeps ==
    ASSUME CloseInv, NEW t \in Targets, ResolveEffect(t)
    PROVE  ReservedOnce' /\ CallsAccounted' /\ RemovalsAccounted' /\ ReceiptTruthful'
<1>1. /\ UNCHANGED <<usage, kept, prep, disk, call, receipt>>
      /\ \A r \in Targets \ {t} : effect'[r] = effect[r]
      /\ effect'[t] # "none" /\ (effect'[t] = "succeeded" => disk[t].st = "gone")
  BY DEF ResolveEffect, CloseInv, CloseTypeOK
<1>2. ReservedOnce' /\ CallsAccounted'
  BY <1>1 DEF CloseInv, ReservedOnce, CallsAccounted
<1>3. RemovalsAccounted'
  BY <1>1 DEF CloseInv, RemovalsAccounted
<1> QED BY <1>1, <1>2, <1>3, ReceiptKept DEF CloseInv

\* The reservation seals the artifacts of a stopped Work, none of whose effects had begun.
LEMMA ReserveKeeps ==
    ASSUME CloseInv, NEW c \in Calls, Reserve(c)
    PROVE  ReservedOnce' /\ CallsAccounted' /\ RemovalsAccounted' /\ ReceiptTruthful'
<1>1. /\ UNCHANGED <<usage, disk, receipt>> /\ ~usage.live /\ ~prep.reserved
      /\ \A t \in Targets : effect[t] = "none"
  BY DEF Reserve, ClosePreconditions, Replayable
<1>2. /\ prep'.reserved /\ kept'.sealed /\ \A t \in Targets : effect'[t] = "started"
  BY DEF Reserve, Sealed, StartedBatch, CloseInv, CloseTypeOK, Preparation
<1>3. \A d \in Calls : call[d].st = "idle"
  BY <1>1 DEF CloseInv, CallsAccounted
<1>4. /\ call'[c].st = "reserved" /\ \A d \in Calls \ {c} : call'[d].st = "idle"
  BY <1>3 DEF Reserve, CloseInv, CloseTypeOK
<1>5. ReservedOnce'
  BY <1>1, <1>2 DEF ReservedOnce
<1>6. CallsAccounted'
  BY <1>2, <1>4 DEF CallsAccounted
<1>7. RemovalsAccounted'
  BY <1>2 DEF RemovalsAccounted
<1> QED BY <1>1, <1>5, <1>6, <1>7, ReceiptKept DEF CloseInv

\* A call that only moves on, or ends, with what it has accounted for.
LEMMA CallMoves ==
    ASSUME CloseInv, UNCHANGED <<usage, kept, prep, effect, disk, receipt>>,
           \A c \in Calls : \/ call'[c] = call[c] \/ call'[c].st = "idle"
                            \/ call[c].st = "reserved" /\ call'[c] = [st |-> "removing", left |-> Targets]
    PROVE  ReservedOnce' /\ CallsAccounted' /\ RemovalsAccounted' /\ ReceiptTruthful'
<1>1. \A c \in Calls : call'[c].st # "idle" => call[c].st # "idle"
  OBVIOUS
<1>2. \A c \in Calls : call'[c].st = "removing" => \A t \in Targets \ call'[c].left : disk[t].st = "gone"
  BY DEF CloseInv, CallsAccounted
<1>3. \A c \in Calls : call'[c].st = "recording" => \A t \in Targets : disk[t].st = "gone"
  BY DEF CloseInv, CallsAccounted
<1>4. CallsAccounted'
  BY <1>1, <1>2, <1>3 DEF CloseInv, CallsAccounted
<1>5. ReservedOnce' /\ RemovalsAccounted' /\ ReceiptTruthful'
  BY DEF CloseInv, ReservedOnce, RemovalsAccounted, ReceiptTruthful
<1> QED BY <1>4, <1>5

\* One removal of the execution under way.
LEMMA RemoveKeeps ==
    ASSUME CloseInv, NEW c \in Calls, NEW t \in Targets, Remove(c, t)
    PROVE  ReservedOnce' /\ CallsAccounted' /\ RemovalsAccounted' /\ ReceiptTruthful'
<1>1. /\ UNCHANGED <<usage, kept, prep, effect, receipt>>
      /\ call[c].st = "removing" /\ t \in call[c].left
  BY DEF Remove
<1>2. prep.reserved /\ \A d \in Calls \ {c} : call[d].st = "idle"
  BY <1>1 DEF CloseInv, CallsAccounted
<1>3. ReservedOnce'
  BY <1>1 DEF CloseInv, ReservedOnce
<1>4. \A r \in Targets \ call[c].left : disk[r].st = "gone"
  BY <1>1 DEF CloseInv, CallsAccounted
<1>5. CASE t = Workspace /\ disk[t].st = "present"
  <2>1. /\ call' = call
        /\ \A r \in Targets : disk'[r].st = IF r = t THEN "half" ELSE disk[r].st
    BY <1>5 DEF Remove, CloseInv, CloseTypeOK
  <2>2. CallsAccounted'
    BY <1>1, <1>2, <1>4, <2>1 DEF CloseInv, CallsAccounted
  <2>3. RemovalsAccounted' /\ \A r \in Targets : disk[r].st = "gone" => disk'[r].st = "gone"
    BY <1>1, <1>2, <1>5, <2>1 DEF CloseInv, RemovalsAccounted
  <2> QED BY <1>1, <1>3, <2>2, <2>3, ReceiptKept DEF CloseInv
<1>6. CASE ~(t = Workspace /\ disk[t].st = "present")
  <2>1. \A r \in Targets : disk'[r].st = IF r = t THEN "gone" ELSE disk[r].st
    BY <1>6 DEF Remove, CloseInv, CloseTypeOK
  <2>2. /\ \A d \in Calls \ {c} : call'[d] = call[d]
        /\ call'[c].left = call[c].left \ {t}
        /\ call'[c].st = IF call[c].left = {t} THEN "recording" ELSE "removing"
    BY <1>1, <1>6 DEF Remove, CloseInv, CloseTypeOK
  <2>3. /\ \A r \in Targets \ call'[c].left : disk'[r].st = "gone"
        /\ call[c].left = {t} => \A r \in Targets : disk'[r].st = "gone"
    BY <1>4, <2>1, <2>2
  <2>4. CallsAccounted'
    <3>1. \A d \in Calls : call'[d].st # "idle" => d = c
      BY <1>2, <2>2
    <3> QED BY <1>1, <1>2, <2>2, <2>3, <3>1 DEF CallsAccounted
  <2>5. RemovalsAccounted' /\ \A r \in Targets : disk[r].st = "gone" => disk'[r].st = "gone"
    BY <1>1, <1>2, <2>1 DEF CloseInv, RemovalsAccounted
  <2> QED BY <1>1, <1>3, <2>4, <2>5, ReceiptKept DEF CloseInv
<1> QED BY <1>5, <1>6

\* The removals are recorded only when all of them are done.
LEMMA RecordKeeps ==
    ASSUME CloseInv, NEW c \in Calls, RecordRemovals(c)
    PROVE  ReservedOnce' /\ CallsAccounted' /\ RemovalsAccounted' /\ ReceiptTruthful'
<1>1. /\ UNCHANGED <<usage, kept, disk, receipt>> /\ call[c].st = "recording"
      /\ call'[c].st = "idle" /\ \A d \in Calls \ {c} : call'[d] = call[d]
  BY DEF RecordRemovals, CloseInv, CloseTypeOK, IdleCall
<1>2. /\ prep.reserved /\ (\A t \in Targets : disk[t].st = "gone")
      /\ \A d \in Calls \ {c} : call[d].st = "idle"
  BY <1>1 DEF CloseInv, CallsAccounted
<1>3. prep'.reserved /\ \A t \in Targets : effect'[t] = effect[t] \/ effect'[t] = "succeeded"
  <2>1. CASE \A t \in Targets : effect[t] = "started"
    BY <1>2, <2>1 DEF RecordRemovals, CloseInv, CloseTypeOK, Preparation
  <2>2. CASE ~\A t \in Targets : effect[t] = "started"
    BY <1>2, <2>2 DEF RecordRemovals
  <2> QED BY <2>1, <2>2
<1>4. ReservedOnce'
  BY <1>1, <1>2, <1>3 DEF CloseInv, ReservedOnce
<1>5. CallsAccounted'
  BY <1>1, <1>2 DEF CallsAccounted
<1>6. RemovalsAccounted'
  BY <1>1, <1>2, <1>3 DEF RemovalsAccounted
<1> QED BY <1>1, <1>4, <1>5, <1>6, ReceiptKept DEF CloseInv

-----------------------------------------------------------------------------
(* WorkClose: the theorem.                                                   *)

\* Before anything happens nothing is reserved, removed or stated.
LEMMA CloseStarts == CloseInit => CloseInv
<1> SUFFICES ASSUME CloseInit PROVE CloseInv
  OBVIOUS
<1>1. CloseTypeOK
  BY CloseAssumption DEF CloseInit, CloseTypeOK, CloseConstants, NoPrep, Preparation, IdleCall, Effects
<1>2. ReservedOnce /\ CallsAccounted /\ RemovalsAccounted /\ ReceiptTruthful
  BY DEF CloseInit, NoPrep, IdleCall, ReservedOnce, CallsAccounted, RemovalsAccounted, ReceiptTruthful
<1> QED BY <1>1, <1>2 DEF CloseInv

\* Every step of a close keeps what is reserved, running, removed and stated in agreement.
LEMMA CloseSteps == CloseInv /\ [CloseNext]_closing => CloseInv'
<1> SUFFICES ASSUME CloseInv, [CloseNext]_closing PROVE CloseInv'
  OBVIOUS
<1> DEFINE Goal == ReservedOnce' /\ CallsAccounted' /\ RemovalsAccounted' /\ ReceiptTruthful'
<1>1. CloseTypeOK'
  BY CloseTypes DEF CloseInv
<1>2. CASE \/ AdoptManagedWork \/ SharedWorkEnds \/ DeliveriesSettle \/ StopWorkRuntime \/ Reattach
           \/ PrepareWorkClose \/ FinishReserved \/ CloseWork
           \/ \E t \in Targets : GrantCleanup(t) \/ ForeignChange(t) \/ StartCleanupEffect(t)
           \/ \E c \in Calls : RefusedAfterSealing(c)
           \/ UNCHANGED closing
  <2>1. Elsewhere
    BY <1>2, ElsewhereSteps DEF CloseInv
  <2> QED BY <2>1, <1>1, ElsewhereKeeps DEF CloseInv
<1>3. CASE \E t \in Targets : DirectRemoval(t) \/ ResolveEffect(t)
  BY <1>1, <1>3, DirectRemovalKeeps, ResolveKeeps DEF CloseInv
<1>4. CASE \E c \in Calls : Reserve(c) \/ RecordRemovals(c) \/ \E t \in Targets : Remove(c, t)
  BY <1>1, <1>4, ReserveKeeps, RecordKeeps, RemoveKeeps DEF CloseInv
<1>5. ASSUME NEW c \in Calls, Validate(c) PROVE CloseInv'
  <2>1. /\ UNCHANGED <<usage, kept, prep, effect, disk, receipt>> /\ call[c].st = "reserved"
        /\ \A d \in Calls \ {c} : call'[d] = call[d]
        /\ call'[c].st = "idle" \/ call'[c] = [st |-> "removing", left |-> Targets]
    BY <1>5 DEF Validate, IdleCall, CloseInv, CloseTypeOK
  <2> QED BY <2>1, <1>1, CallMoves DEF CloseInv
<1>6. ASSUME NEW c \in Calls, RemoveFails(c) PROVE CloseInv'
  <2>1. /\ UNCHANGED <<usage, kept, prep, effect, disk, receipt>>
        /\ (\A d \in Calls \ {c} : call'[d] = call[d]) /\ call'[c].st = "idle"
    BY <1>6 DEF RemoveFails, IdleCall, CloseInv, CloseTypeOK
  <2> QED BY <2>1, <1>1, CallMoves DEF CloseInv
<1>7. CASE Crash
  <2>1. UNCHANGED <<usage, kept, prep, effect, disk, receipt>> /\ \A c \in Calls : call'[c].st = "idle"
    BY <1>7 DEF Crash, IdleCall
  <2> QED BY <2>1, <1>1, CallMoves DEF CloseInv
<1> QED BY <1>2, <1>3, <1>4, <1>5, <1>6, <1>7 DEF CloseNext, Cao, Others, Execution

\* The invariant of execute_prepared_cleanup and close_work, for any resources, concurrent calls,
\* crashes, changed resources and reattached CAOs.
THEOREM CloseInvariant == CloseSpec => []CloseInv
<1>1. CloseInit => CloseInv
  BY CloseStarts
<1>2. CloseInv /\ [CloseNext]_closing => CloseInv'
  BY CloseSteps
<1> QED BY <1>1, <1>2, PTL DEF CloseSpec

\* RemovalSafe, whatever the number of resources, calls and faults: nothing is removed before it is
\* preserved and its receipt sealed, or under a running Worker, unless the CAO started that effect by
\* itself; and what the close receipt calls removed is gone.
THEOREM RemovalIsSafe == CloseSpec => []RemovalSafe
<1>1. CloseInv => RemovalSafe
  <2> SUFFICES ASSUME CloseInv PROVE RemovalSafe
    OBVIOUS
  <2>1. \A t \in Targets : disk[t].st # "present" => (kept.sealed /\ ~usage.live) \/ RemovedDirectly(t)
    BY DEF CloseInv, RemovalsAccounted, ReservedOnce, RemovedDirectly
  <2> QED BY <2>1 DEF CloseInv, RemovalSafe, PreservedBeforeRemoval, NoRemovalUnderWorker
<1> QED BY <1>1, CloseInvariant, PTL

-----------------------------------------------------------------------------
(* RetryCommand: the inductive invariant.                                    *)

Begun(a) == att[a].worker # NoWorker
Successor(k) == <<bnd[k].at[1], bnd[k].at[2] + 1>>

\* Attempts are numbered like the generations they begin, and a new goal begins one.
Numbered ==
    /\ \A w \in Works : work[w].gen = work[w].last /\ work[w].goal <= work[w].last
    /\ \A a \in Attempts : Begun(a) => att[a].gen = a[2]

\* A Boundary is about an Attempt that was the last one when it was recorded. While it still is, the
\* goal is the same, and the Boundary is undecided.
BoundariesCurrent ==
    \A k \in RetryKeys : Exists(k) =>
        /\ bnd[k].gen = bnd[k].at[2] /\ bnd[k].gen <= work[bnd[k].at[1]].last
        /\ bnd[k].gen = work[bnd[k].at[1]].last =>
             bnd[k].goal = work[bnd[k].at[1]].goal /\ bnd[k].disp = "none"

\* What decided a Boundary made its successor, with its goal and Worker; when its own key did, that
\* is what the successor remembers.
DecidedBySuccessor ==
    \A k \in RetryKeys : bnd[k].disp # "none" =>
        /\ Successor(k) \in Attempts
        /\ att[Successor(k)].worker = bnd[k].worker /\ att[Successor(k)].goal = bnd[k].goal
        /\ bnd[k].disp = "retry" => /\ att[Successor(k)].by = k
                                    /\ att[Successor(k)].reason = bnd[k].reason

\* An Attempt that a key made is the successor of the Boundary that the key decided.
MadeByDecision ==
    \A a \in Attempts : att[a].by # NoKey => bnd[att[a].by].disp = "retry" /\ a = Successor(att[a].by)

\* The Attempt n of its Work is the one that the key k made for the request q.
Applied(k, q, n) ==
    /\ <<q.w, n>> \in Attempts /\ att[<<q.w, n>>].by = k /\ att[<<q.w, n>>].reason = q.reason
    /\ q.worker # NoWorker => att[<<q.w, n>>].worker = q.worker
    /\ q.lane # 0 => att[<<q.w, n>>].lane = q.lane

ResultsApplied ==
    /\ \A k \in RetryKeys : results[k] # NoRes => Applied(k, results[k].req, results[k].n)
    /\ answer.ok /\ answer.k # NoKey => Applied(answer.k, answer.req, answer.n)

RetryInv == RetryTypeOK /\ Numbered /\ BoundariesCurrent /\ DecidedBySuccessor /\ MadeByDecision
            /\ ResultsApplied

-----------------------------------------------------------------------------
(* RetryCommand: Attempts and rows.                                          *)

\* An Attempt is a Work and a number.
LEMMA AttemptIsPair ==
    /\ \A w \in Works, n \in 1 .. MaxAttempts :
          <<w, n>> \in Attempts /\ <<w, n>>[1] = w /\ <<w, n>>[2] = n
    /\ \A a \in Attempts : a[1] \in Works /\ a[2] \in 1 .. MaxAttempts /\ a = <<a[1], a[2]>>
  BY DEF Attempts

\* The bounds are naturals, and no key is the empty one.
LEMMA RetryBounds ==
    /\ MaxAttempts \in Nat /\ MaxAttempts >= 1 /\ MaxLane \in Nat /\ MaxLane >= 1
    /\ FirstWorker \in Workers /\ NoWorker \notin Workers /\ NoKey \notin RetryKeys
    /\ Managed \subseteq Workers
  BY RetryConstants DEF RetryAssumption, FirstWorker

\* The columns of no Boundary.
LEMMA EmptyRow == NoBnd.disp = "none" /\ NoBnd.gen = 0
  BY DEF NoBnd

\* A Boundary row that is decided, held by a turn, superseded or of a generation is no empty row.
LEMMA RowsExist ==
    ASSUME RetryTypeOK, NEW k \in RetryKeys
    PROVE  /\ Exists(k) => bnd[k] \in BoundaryRows
           /\ bnd[k] \in BoundaryRows => Exists(k)
           /\ bnd[k].disp # "none" => Exists(k)
<1>1. bnd[k] \in BoundaryRows \cup {NoBnd} /\ NoBnd.disp = "none" /\ NoBnd.gen = 0
  BY EmptyRow DEF RetryTypeOK
<1>2. bnd[k] \in BoundaryRows => bnd[k].gen # 0
  BY RetryBounds DEF BoundaryRows
<1> QED BY <1>1, <1>2 DEF Exists

\* The Worker of a request is that of the last Attempt when it names none, and its lane exists.
LEMMA TargetIsWorker ==
    ASSUME RetryTypeOK, NEW r \in Requests
    PROVE  /\ TargetWorker(r) \in Workers /\ Lane(TargetWorker(r)) \in 0 .. MaxLane
           /\ <<r.w, work[r.w].last>> \in Attempts
           /\ r.worker # NoWorker => TargetWorker(r) = r.worker
<1>1. r.w \in Works /\ work[r.w].last \in 1 .. MaxAttempts /\ r.worker \in Workers \cup {NoWorker}
  BY DEF Requests, RetryTypeOK
<1>2. /\ <<r.w, work[r.w].last>> \in Attempts
      /\ <<r.w, work[r.w].last>>[1] = r.w /\ <<r.w, work[r.w].last>>[2] = work[r.w].last
  BY <1>1, AttemptIsPair
<1>3. att[<<r.w, work[r.w].last>>].worker # NoWorker
  BY <1>1, <1>2, RetryBounds DEF RetryTypeOK
<1>4. att[<<r.w, work[r.w].last>>].worker \in Workers \cup {NoWorker}
  BY <1>2 DEF RetryTypeOK, AttemptRows
<1>5. TargetWorker(r) \in Workers
  BY <1>1, <1>3, <1>4 DEF TargetWorker
<1>6. Lane(TargetWorker(r)) \in 0 .. MaxLane
  BY <1>5, RetryBounds DEF Lane, RetryTypeOK
<1> QED BY <1>1, <1>2, <1>5, <1>6 DEF TargetWorker

\* The row that a request records is a Boundary of its Work's last Attempt.
LEMMA RecordedRow ==
    ASSUME RetryTypeOK, NEW r \in Requests, NEW legacy \in BOOLEAN
    PROVE  RetryBoundary(r, legacy) \in BoundaryRows
<1>1. r.w \in Works /\ r.lane \in 0 .. MaxLane /\ r.reason \in Reasons
  BY DEF Requests
<1>2. work[r.w].goal \in 1 .. MaxAttempts /\ work[r.w].gen \in 1 .. MaxAttempts
  BY <1>1 DEF RetryTypeOK
<1>3. (IF legacy THEN 0 ELSE r.lane) \in 0 .. MaxLane
  BY <1>1, RetryBounds
<1> QED BY <1>1, <1>2, <1>3, TargetIsWorker DEF RetryBoundary, BoundaryRows

-----------------------------------------------------------------------------
(* RetryCommand: a new Attempt.                                              *)

Next1(w) == <<w, work[w].last + 1>>

\* The rows of the Works.
WorkRows == [goal : 1 .. MaxAttempts, gen : 1 .. MaxAttempts, last : 1 .. MaxAttempts,
             state : {"active", "suspended", "completed"}]

\* A Work begins its next Attempt and generation with the given row: Materialize, or a new goal.
Begins(w, row) ==
    /\ work[w].last < MaxAttempts
    /\ work' \in [Works -> WorkRows] /\ \A v \in Works \ {w} : work'[v] = work[v]
    /\ work'[w].last = work[w].last + 1 /\ work'[w].gen = work[w].gen + 1 /\ work'[w].goal = row.goal
    /\ att' = [att EXCEPT ![Next1(w)] = row]
    /\ asg' = [asg EXCEPT ![Next1(w)] = "queued"]
    /\ row \in AttemptRows /\ row.worker \in Workers /\ row.gen = work[w].gen + 1
    /\ row.goal \in {work[w].goal, work[w].goal + 1}

\* The types of the Works and Attempts.
AttemptTypes ==
    /\ work \in [Works -> WorkRows] /\ att \in [Attempts -> AttemptRows]
    /\ \A a \in Attempts : att[a].worker = NoWorker <=> a[2] > work[a[1]].last
    /\ asg \in [Attempts -> {"none", "queued", "handled"}]

\* The next Attempt is one that had not begun, and the others stay as they are.
LEMMA NextIsNew ==
    ASSUME RetryTypeOK, NEW w \in Works, work[w].last < MaxAttempts
    PROVE  /\ Next1(w) \in Attempts /\ Next1(w)[1] = w /\ Next1(w)[2] = work[w].last + 1
           /\ work[w].last + 1 \in 2 .. MaxAttempts
           /\ att[Next1(w)].worker = NoWorker
<1>1. work[w].last \in 1 .. MaxAttempts
  BY DEF RetryTypeOK
<1>2. work[w].last + 1 \in 1 .. MaxAttempts /\ work[w].last + 1 \in 2 .. MaxAttempts
  BY <1>1, RetryBounds
<1>3. Next1(w) \in Attempts /\ Next1(w)[1] = w /\ Next1(w)[2] = work[w].last + 1
  BY <1>2, AttemptIsPair DEF Next1
<1>4. work[w].last + 1 > work[w].last
  BY <1>1
<1> QED BY <1>2, <1>3, <1>4 DEF RetryTypeOK

\* A new Attempt keeps the types of the Works and Attempts, and their numbers.
LEMMA BeginsTypes ==
    ASSUME RetryTypeOK, Numbered, NEW w \in Works, NEW row, Begins(w, row)
    PROVE  AttemptTypes' /\ Numbered'
<1>1. /\ Next1(w) \in Attempts /\ Next1(w)[1] = w /\ Next1(w)[2] = work[w].last + 1
      /\ work[w].last + 1 \in 2 .. MaxAttempts
  BY NextIsNew DEF Begins
<1>2. /\ work[w].gen = work[w].last /\ work[w].goal <= work[w].last /\ work[w].goal \in 1 .. MaxAttempts
      /\ work[w].last \in 1 .. MaxAttempts
  BY DEF Numbered, RetryTypeOK
<1>3. /\ row.goal \in 1 .. MaxAttempts /\ row.goal <= work[w].last + 1
      /\ row.gen = work[w].last + 1 /\ row \in AttemptRows /\ row.worker # NoWorker
  BY <1>1, <1>2, RetryBounds DEF Begins
<1>4. /\ work' \in [Works -> WorkRows]
      /\ work'[w].last = work[w].last + 1 /\ work'[w].gen = work[w].last + 1 /\ work'[w].goal = row.goal
      /\ \A v \in Works \ {w} : work'[v] = work[v]
  BY <1>2 DEF Begins
<1>5. /\ att' \in [Attempts -> AttemptRows] /\ asg' \in [Attempts -> {"none", "queued", "handled"}]
      /\ att'[Next1(w)] = row /\ \A a \in Attempts : a # Next1(w) => att'[a] = att[a]
  BY <1>1, <1>3 DEF Begins, RetryTypeOK
<1>6. ASSUME NEW a \in Attempts
      PROVE  /\ (att'[a].worker = NoWorker) <=> (a[2] > work'[a[1]].last)
             /\ att'[a].worker # NoWorker => att'[a].gen = a[2]
  <2>1. a[1] \in Works /\ a[2] \in 1 .. MaxAttempts /\ a = <<a[1], a[2]>>
    BY AttemptIsPair
  <2>2. CASE a = Next1(w)
    BY <1>1, <1>2, <1>3, <1>4, <1>5, <2>2
  <2>3. CASE a # Next1(w) /\ a[1] = w
    <3>1. a[2] # work[w].last + 1
      BY <2>1, <2>3 DEF Next1
    <3>2. (att[a].worker = NoWorker) <=> (a[2] > work[w].last)
      BY <2>3 DEF RetryTypeOK
    <3>3. (a[2] > work[w].last) <=> (a[2] > work'[w].last)
      BY <1>2, <1>4, <2>1, <3>1
    <3> QED BY <1>5, <2>3, <3>2, <3>3 DEF Numbered, Begun
  <2>4. CASE a[1] # w
    BY <1>1, <1>4, <1>5, <2>1, <2>4 DEF RetryTypeOK, Numbered, Begun
  <2> QED BY <2>2, <2>3, <2>4
<1>7. \A v \in Works : work'[v].gen = work'[v].last /\ work'[v].goal <= work'[v].last
  BY <1>2, <1>3, <1>4 DEF Numbered
<1> QED BY <1>4, <1>5, <1>6, <1>7 DEF AttemptTypes, Numbered, Begun

\* An Attempt that had begun stays as it is, and the one that begins had not.
LEMMA BeginsKeeps ==
    ASSUME RetryTypeOK, NEW w \in Works, NEW row, Begins(w, row)
    PROVE  /\ Next1(w) \in Attempts /\ att'[Next1(w)] = row
           /\ \A a \in Attempts : a # Next1(w) => att'[a] = att[a]
           /\ \A a \in Attempts : Begun(a) => a # Next1(w) /\ att'[a] = att[a]
           /\ \A v \in Works : work'[v].last >= work[v].last
           /\ work'[w].last = work[w].last + 1 /\ \A v \in Works \ {w} : work'[v] = work[v]
<1>1. Next1(w) \in Attempts /\ att[Next1(w)].worker = NoWorker
  BY NextIsNew DEF Begins
<1>2. att'[Next1(w)] = row /\ \A a \in Attempts : a # Next1(w) => att'[a] = att[a]
  BY <1>1 DEF Begins, RetryTypeOK
<1>3. /\ work'[w].last = work[w].last + 1 /\ \A v \in Works \ {w} : work'[v] = work[v]
      /\ \A v \in Works : work[v].last \in Nat
  BY RetryBounds DEF Begins, RetryTypeOK
<1> QED BY <1>1, <1>2, <1>3 DEF Begun

\* The row that Materialize gives the next Attempt of a request.
RetriedRow(r, by) ==
    [worker |-> TargetWorker(r), lane |-> Lane(TargetWorker(r)), goal |-> work[r.w].goal,
     gen |-> work[r.w].gen + 1, by |-> by, reason |-> r.reason]

\* Materialize begins the next Attempt with that row.
LEMMA MaterializeBegins ==
    ASSUME RetryTypeOK, Numbered, NEW r \in Requests, NEW by \in RetryKeys \cup {NoKey},
           Materialize(r, by), Retryable(r)
    PROVE  /\ Begins(r.w, RetriedRow(r, by)) /\ r.w \in Works
           /\ created' \subseteq Attempts
<1>1. r.w \in Works /\ r.reason \in Reasons
  BY DEF Requests
<1>2. work[r.w].last < MaxAttempts
  BY DEF Retryable
<1>3. /\ work[r.w].goal \in 1 .. MaxAttempts /\ work[r.w].gen \in 1 .. MaxAttempts
      /\ work[r.w].gen = work[r.w].last /\ work[r.w] \in WorkRows
  BY <1>1 DEF RetryTypeOK, Numbered, WorkRows
<1>4. RetriedRow(r, by) \in AttemptRows
  <2>1. work[r.w].goal \in 0 .. MaxAttempts /\ work[r.w].gen + 1 \in 0 .. MaxAttempts
    BY <1>2, <1>3, RetryBounds
  <2>2. TargetWorker(r) \in Workers /\ Lane(TargetWorker(r)) \in 0 .. MaxLane
    BY TargetIsWorker
  <2> QED BY <1>1, <2>1, <2>2 DEF RetriedRow, AttemptRows
<1>5. /\ work' \in [Works -> WorkRows] /\ \A v \in Works \ {r.w} : work'[v] = work[v]
      /\ work'[r.w].last = work[r.w].last + 1 /\ work'[r.w].gen = work[r.w].gen + 1
      /\ work'[r.w].goal = work[r.w].goal
  <2>1. work[r.w].gen + 1 \in 1 .. MaxAttempts /\ work[r.w].last + 1 \in 1 .. MaxAttempts
    BY <1>2, <1>3, RetryBounds
  <2>2. work \in [Works -> WorkRows]
    BY DEF RetryTypeOK, WorkRows
  <2> QED BY <1>1, <2>1, <2>2 DEF Materialize, WorkRows
<1>6. /\ att' = [att EXCEPT ![Next1(r.w)] = RetriedRow(r, by)]
      /\ asg' = [asg EXCEPT ![Next1(r.w)] = "queued"]
      /\ created' = created \cup {Next1(r.w)}
  BY DEF Materialize, RetriedRow, Next1
<1>7. Next1(r.w) \in Attempts
  BY <1>1, <1>2, NextIsNew
<1>8. RetriedRow(r, by).worker \in Workers /\ RetriedRow(r, by).gen = work[r.w].gen + 1
      /\ RetriedRow(r, by).goal = work[r.w].goal
  BY TargetIsWorker DEF RetriedRow
<1> QED BY <1>1, <1>2, <1>4, <1>5, <1>6, <1>7, <1>8 DEF Begins, RetryTypeOK

-----------------------------------------------------------------------------
(* RetryCommand: Boundaries, decisions and Attempts agree.                   *)

\* A step that leaves a Boundary as it is, but for its turn and its supersession.
SameBoundary(k) ==
    /\ Exists(k)' => Exists(k)
    /\ bnd'[k].at = bnd[k].at /\ bnd'[k].goal = bnd[k].goal /\ bnd'[k].gen = bnd[k].gen
    /\ bnd'[k].worker = bnd[k].worker /\ bnd'[k].reason = bnd[k].reason /\ bnd'[k].disp = bnd[k].disp

\* A step that decides the Boundary of a key about the last Attempt of w, by making its next one.
Decides(k, w, row) ==
    /\ bnd[k].disp = "none" /\ Exists(k)'
    /\ bnd'[k].at = <<w, work[w].last>> /\ bnd'[k].gen = work[w].gen
    /\ bnd'[k].goal = row.goal /\ bnd'[k].worker = row.worker
    /\ \/ bnd'[k].disp = "turn"
       \/ bnd'[k].disp = "retry" /\ row.by = k /\ row.reason = bnd'[k].reason

\* A step that records an undecided Boundary about the last Attempt of its Work.
Records(k) ==
    /\ bnd[k].disp = "none" /\ bnd'[k].disp = "none"
    /\ \E w \in Works : /\ bnd'[k].at = <<w, work[w].last>> /\ bnd'[k].gen = work[w].gen
                        /\ bnd'[k].goal = work[w].goal

\* What decided a Boundary has begun; what a key made was made by a decision.
LEMMA DecisionsBegun ==
    ASSUME RetryInv
    PROVE  /\ \A k \in RetryKeys : bnd[k].disp # "none" => Begun(Successor(k))
           /\ \A a \in Attempts : att[a].by # NoKey => Begun(a) /\ att[a].by \in RetryKeys
<1>1. ASSUME NEW k \in RetryKeys, bnd[k].disp # "none" PROVE Begun(Successor(k))
  <2>1. bnd[k] \in BoundaryRows
    BY <1>1, RowsExist DEF RetryInv
  <2>2. bnd[k].worker # NoWorker
    BY <2>1, RetryBounds DEF BoundaryRows
  <2> QED BY <1>1, <2>2 DEF RetryInv, DecidedBySuccessor, Begun
<1>2. ASSUME NEW a \in Attempts, att[a].by # NoKey PROVE Begun(a) /\ att[a].by \in RetryKeys
  <2>1. att[a].by \in RetryKeys
    BY <1>2 DEF RetryInv, RetryTypeOK, AttemptRows
  <2>2. bnd[att[a].by].disp = "retry" /\ a = Successor(att[a].by)
    BY <1>2 DEF RetryInv, MadeByDecision
  <2> QED BY <1>1, <2>1, <2>2
<1> QED BY <1>1, <1>2

\* A new Attempt, and at most one Boundary that its request decides.
LEMMA BeginsDecides ==
    ASSUME RetryInv, NEW w \in Works, NEW row, Begins(w, row), row.by \in RetryKeys \cup {NoKey},
           \A k \in RetryKeys : SameBoundary(k) \/ Decides(k, w, row),
           row.by # NoKey => bnd'[row.by].disp = "retry" /\ Decides(row.by, w, row)
    PROVE  BoundariesCurrent' /\ DecidedBySuccessor' /\ MadeByDecision'
<1>1. /\ Next1(w) \in Attempts /\ att'[Next1(w)] = row
      /\ \A a \in Attempts : a # Next1(w) => att'[a] = att[a]
      /\ \A a \in Attempts : Begun(a) => a # Next1(w) /\ att'[a] = att[a]
      /\ work'[w].last = work[w].last + 1 /\ \A v \in Works \ {w} : work'[v] = work[v]
  BY BeginsKeeps DEF RetryInv
<1>2. /\ \A v \in Works : work[v].last \in 1 .. MaxAttempts /\ work[v].gen = work[v].last
      /\ MaxAttempts \in Nat
  BY RetryBounds DEF RetryInv, RetryTypeOK, Numbered
<1>3. ASSUME NEW k \in RetryKeys, Decides(k, w, row) PROVE Successor(k)' = Next1(w)
  BY <1>3 DEF Decides, Successor, Next1
<1>4. ASSUME NEW k \in RetryKeys, SameBoundary(k), Exists(k)'
      PROVE  /\ bnd'[k].gen = bnd'[k].at[2] /\ bnd'[k].gen <= work'[bnd'[k].at[1]].last
             /\ bnd'[k].gen = work'[bnd'[k].at[1]].last =>
                  bnd'[k].goal = work'[bnd'[k].at[1]].goal /\ bnd'[k].disp = "none"
  <2>1. bnd[k] \in BoundaryRows
    BY <1>4, RowsExist DEF SameBoundary, RetryInv
  <2>2. bnd[k].at[1] \in Works /\ bnd[k].gen \in 1 .. MaxAttempts
    BY <2>1, AttemptIsPair DEF BoundaryRows
  <2>3. /\ bnd[k].gen = bnd[k].at[2] /\ bnd[k].gen <= work[bnd[k].at[1]].last
        /\ bnd[k].gen = work[bnd[k].at[1]].last =>
             bnd[k].goal = work[bnd[k].at[1]].goal /\ bnd[k].disp = "none"
    BY <1>4 DEF SameBoundary, RetryInv, BoundariesCurrent
  <2>4. CASE bnd[k].at[1] = w
    <3>1. bnd[k].gen < work'[w].last
      BY <1>1, <1>2, <2>2, <2>3, <2>4
    <3> QED BY <1>1, <1>2, <1>4, <2>2, <2>3, <2>4, <3>1 DEF SameBoundary
  <2>5. CASE bnd[k].at[1] # w
    BY <1>1, <1>4, <2>2, <2>3, <2>5 DEF SameBoundary
  <2> QED BY <2>4, <2>5
<1>5. ASSUME NEW k \in RetryKeys, Decides(k, w, row)
      PROVE  /\ bnd'[k].gen = bnd'[k].at[2] /\ bnd'[k].gen <= work'[bnd'[k].at[1]].last
             /\ bnd'[k].gen # work'[bnd'[k].at[1]].last
  <2>1. bnd'[k].at[1] = w /\ bnd'[k].at[2] = work[w].last /\ bnd'[k].gen = work[w].last
    BY <1>2, <1>5 DEF Decides
  <2> QED BY <1>1, <1>2, <2>1
<1>6. BoundariesCurrent'
  BY <1>4, <1>5 DEF BoundariesCurrent
<1>7. ASSUME NEW k \in RetryKeys, bnd'[k].disp # "none"
      PROVE  /\ Successor(k)' \in Attempts
             /\ att'[Successor(k)'].worker = bnd'[k].worker /\ att'[Successor(k)'].goal = bnd'[k].goal
             /\ bnd'[k].disp = "retry" => /\ att'[Successor(k)'].by = k
                                          /\ att'[Successor(k)'].reason = bnd'[k].reason
  <2>1. CASE Decides(k, w, row)
    BY <1>1, <1>3, <1>7, <2>1 DEF Decides
  <2>2. CASE SameBoundary(k)
    <3>1. bnd[k].disp # "none" /\ Successor(k)' = Successor(k)
      BY <1>7, <2>2 DEF SameBoundary, Successor
    <3>2. Successor(k) \in Attempts /\ att'[Successor(k)] = att[Successor(k)]
      BY <1>1, <3>1, DecisionsBegun DEF RetryInv, DecidedBySuccessor
    <3> QED BY <2>2, <3>1, <3>2 DEF SameBoundary, RetryInv, DecidedBySuccessor
  <2> QED BY <2>1, <2>2
<1>8. DecidedBySuccessor'
  BY <1>7 DEF DecidedBySuccessor
<1>9. ASSUME NEW a \in Attempts, att'[a].by # NoKey
      PROVE  bnd'[att'[a].by].disp = "retry" /\ a = <<bnd'[att'[a].by].at[1], bnd'[att'[a].by].at[2] + 1>>
  <2>1. CASE a = Next1(w)
    <3>1. att'[a].by = row.by /\ row.by \in RetryKeys
      BY <1>1, <1>9, <2>1
    <3>2. bnd'[row.by].disp = "retry" /\ Successor(row.by)' = Next1(w)
      BY <1>3, <3>1, RetryBounds
    <3> QED BY <2>1, <3>1, <3>2 DEF Successor
  <2>2. CASE a # Next1(w)
    <3>1. att'[a].by = att[a].by /\ att[a].by # NoKey
      BY <1>1, <1>9, <2>2
    <3>2. PICK k \in RetryKeys : k = att[a].by
      BY <3>1, DecisionsBegun
    <3>3. bnd[k].disp = "retry" /\ a = Successor(k)
      BY <3>1, <3>2 DEF RetryInv, MadeByDecision
    <3>4. SameBoundary(k)
      BY <3>3 DEF Decides
    <3> QED BY <3>1, <3>2, <3>3, <3>4 DEF SameBoundary, Successor
  <2> QED BY <2>1, <2>2
<1>10. MadeByDecision'
  BY <1>9 DEF MadeByDecision, Successor
<1> QED BY <1>6, <1>8, <1>10

\* A step that begins no Attempt, and decides no Boundary.
LEMMA QuietAgrees ==
    ASSUME RetryInv, att' = att, \A k \in RetryKeys : SameBoundary(k) \/ Records(k),
           \A w \in Works : /\ work'[w].last = work[w].last /\ work'[w].gen = work[w].gen
                            /\ work'[w].goal = work[w].goal
    PROVE  Numbered' /\ BoundariesCurrent' /\ DecidedBySuccessor' /\ MadeByDecision'
<1>1. Numbered'
  BY DEF RetryInv, Numbered, Begun
<1>2. ASSUME NEW k \in RetryKeys, Exists(k)'
      PROVE  /\ bnd'[k].gen = bnd'[k].at[2] /\ bnd'[k].gen <= work'[bnd'[k].at[1]].last
             /\ bnd'[k].gen = work'[bnd'[k].at[1]].last =>
                  bnd'[k].goal = work'[bnd'[k].at[1]].goal /\ bnd'[k].disp = "none"
  <2>1. CASE SameBoundary(k)
    <3>1. bnd[k] \in BoundaryRows
      BY <1>2, <2>1, RowsExist DEF SameBoundary, RetryInv
    <3>2. bnd[k].at[1] \in Works
      BY <3>1, AttemptIsPair DEF BoundaryRows
    <3> QED BY <1>2, <2>1, <3>2 DEF SameBoundary, RetryInv, BoundariesCurrent
  <2>2. CASE Records(k)
    <3>1. PICK w \in Works : /\ bnd'[k].at = <<w, work[w].last>> /\ bnd'[k].gen = work[w].gen
                             /\ bnd'[k].goal = work[w].goal
      BY <2>2 DEF Records
    <3>2. work[w].gen = work[w].last /\ work[w].last \in 1 .. MaxAttempts
      BY DEF RetryInv, Numbered, RetryTypeOK
    <3> QED BY <2>2, <3>1, <3>2, RetryBounds DEF Records
  <2> QED BY <2>1, <2>2
<1>3. BoundariesCurrent'
  BY <1>2 DEF BoundariesCurrent
<1>4. ASSUME NEW k \in RetryKeys, bnd[k].disp # "none" \/ bnd'[k].disp # "none"
      PROVE  Successor(k)' = Successor(k) /\ SameBoundary(k)
  BY <1>4 DEF SameBoundary, Records, Successor
<1>5. DecidedBySuccessor'
  <2> SUFFICES ASSUME NEW k \in RetryKeys, bnd'[k].disp # "none"
               PROVE  /\ Successor(k)' \in Attempts
                      /\ att[Successor(k)'].worker = bnd'[k].worker /\ att[Successor(k)'].goal = bnd'[k].goal
                      /\ bnd'[k].disp = "retry" => /\ att[Successor(k)'].by = k
                                                   /\ att[Successor(k)'].reason = bnd'[k].reason
    BY DEF DecidedBySuccessor
  <2> QED BY <1>4 DEF SameBoundary, RetryInv, DecidedBySuccessor
<1>6. MadeByDecision'
  <2> SUFFICES ASSUME NEW a \in Attempts, att[a].by # NoKey
               PROVE  /\ bnd'[att[a].by].disp = "retry"
                      /\ a = <<bnd'[att[a].by].at[1], bnd'[att[a].by].at[2] + 1>>
    BY DEF MadeByDecision, Successor
  <2>1. att[a].by \in RetryKeys /\ bnd[att[a].by].disp = "retry" /\ a = Successor(att[a].by)
    BY DecisionsBegun DEF RetryInv, MadeByDecision
  <2>2. SameBoundary(att[a].by)
    BY <1>4, <2>1
  <2> QED BY <2>1, <2>2 DEF SameBoundary, Successor
<1> QED BY <1>1, <1>3, <1>5, <1>6

-----------------------------------------------------------------------------
(* RetryCommand: results and answers.                                        *)

\* Attempts that have begun stay as they are.
AttemptsKept == \A a \in Attempts : Begun(a) => att'[a] = att[a]

\* A result that is not written, and an answer that is not given, stay true.
LEMMA ResultsKept ==
    ASSUME RetryInv, AttemptsKept
    PROVE  /\ \A k \in RetryKeys : results'[k] = results[k] /\ results'[k] # NoRes =>
                 Applied(k, results[k].req, results[k].n)'
           /\ answer' = answer /\ answer'.ok /\ answer'.k # NoKey => Applied(answer.k, answer.req, answer.n)'
<1>1. ASSUME NEW k \in RetryKeys, results'[k] = results[k], results'[k] # NoRes
      PROVE  Applied(k, results[k].req, results[k].n)'
  <2> DEFINE a == <<results[k].req.w, results[k].n>>
  <2>1. Applied(k, results[k].req, results[k].n)
    BY <1>1 DEF RetryInv, ResultsApplied
  <2>2. a \in Attempts /\ att[a].by # NoKey
    BY <2>1, RetryBounds DEF Applied
  <2>3. att'[a] = att[a]
    BY <2>2, DecisionsBegun DEF AttemptsKept
  <2> QED BY <1>1, <2>1, <2>3 DEF Applied
<1>2. ASSUME answer' = answer, answer'.ok, answer'.k # NoKey PROVE Applied(answer.k, answer.req, answer.n)'
  <2> DEFINE a == <<answer.req.w, answer.n>>
  <2>1. Applied(answer.k, answer.req, answer.n)
    BY <1>2 DEF RetryInv, ResultsApplied
  <2>2. a \in Attempts /\ att[a].by # NoKey
    BY <1>2, <2>1 DEF Applied
  <2>3. att'[a] = att[a]
    BY <2>2, DecisionsBegun DEF AttemptsKept
  <2> QED BY <1>2, <2>1, <2>3 DEF Applied
<1> QED BY <1>1, <1>2

\* A step that stores no result and answers nothing.
LEMMA NothingAnswered ==
    ASSUME RetryInv, AttemptsKept, results' = results, answer' = answer
    PROVE  ResultsApplied'
  BY ResultsKept DEF ResultsApplied

\* A step that stores a result of k, or answers with it, answers about the Attempt of k.
LEMMA AnsweredWith ==
    ASSUME RetryInv, AttemptsKept, NEW k \in RetryKeys, NEW r \in Requests, NEW n \in 2 .. MaxAttempts,
           results' = results \/ Put(k, r, n), Answer(k, r, n),
           <<r.w, n>> \in Attempts /\ att'[<<r.w, n>>].by = k /\ att'[<<r.w, n>>].reason = r.reason,
           r.worker # NoWorker => att'[<<r.w, n>>].worker = r.worker,
           r.lane # 0 => att'[<<r.w, n>>].lane = r.lane
    PROVE  ResultsApplied'
<1>1. answer'.k = k /\ answer'.req = r /\ answer'.n = n
  BY DEF Answer
<1>2. Applied(answer.k, answer.req, answer.n)'
  BY <1>1 DEF Applied
<1>3. ASSUME NEW j \in RetryKeys, results'[j] # NoRes
      PROVE  Applied(j, results[j].req, results[j].n)'
  <2>1. CASE results'[j] = results[j]
    BY <1>3, <2>1, ResultsKept
  <2>2. CASE results'[j] # results[j]
    <3>1. results' = [results EXCEPT ![k] = [req |-> r, n |-> n]]
      BY <2>2 DEF Put
    <3>2. j = k /\ results'[k].req = r /\ results'[k].n = n
      BY <2>2, <3>1 DEF RetryInv, RetryTypeOK
    <3> QED BY <3>2 DEF Applied
  <2> QED BY <2>1, <2>2
<1> QED BY <1>2, <1>3 DEF ResultsApplied

-----------------------------------------------------------------------------
(* RetryCommand: the steps.                                                  *)

\* The types of the Boundaries, of what is recorded about them, and of the answers.
BoundaryTypes ==
    /\ bnd \in [RetryKeys -> BoundaryRows \cup {NoBnd}] /\ open \subseteq Works
    /\ created \subseteq Attempts /\ disposed \subseteq RetryKeys
    /\ lane \in [Managed -> 1 .. MaxLane]
AnswerTypes ==
    /\ results \in [RetryKeys -> [req : Requests, n : 2 .. MaxAttempts] \cup {NoRes}]
    /\ answer.ok => answer \in [ok : {TRUE}, k : RetryKeys \cup {NoKey}, req : Requests, n : 2 .. MaxAttempts]

\* The parts of the types.
LEMMA TypeParts == RetryTypeOK <=> AttemptTypes /\ BoundaryTypes /\ AnswerTypes
  BY DEF RetryTypeOK, AttemptTypes, BoundaryTypes, AnswerTypes, WorkRows

\* The parts of the invariant, in the next state.
LEMMA InvParts ==
    AttemptTypes' /\ BoundaryTypes' /\ AnswerTypes' /\ Numbered' /\ BoundariesCurrent'
      /\ DecidedBySuccessor' /\ MadeByDecision' /\ ResultsApplied' => RetryInv'
<1>1. (AttemptTypes /\ BoundaryTypes /\ AnswerTypes => RetryTypeOK)'
  <2>1. AttemptTypes /\ BoundaryTypes /\ AnswerTypes => RetryTypeOK
    BY TypeParts
  <2> QED BY <2>1, PTL
<1> QED BY <1>1 DEF RetryInv

\* A Boundary that a step does not touch.
LEMMA Untouched ==
    ASSUME NEW k \in RetryKeys, bnd'[k] = bnd[k]
    PROVE  SameBoundary(k)
  BY DEF SameBoundary, Exists

\* Storing a result and answering with it keep the types.
LEMMA AnswerTyped ==
    ASSUME RetryTypeOK, NEW k \in RetryKeys, NEW j \in RetryKeys \cup {NoKey}, NEW r \in Requests,
           NEW n \in 2 .. MaxAttempts,
           results' = results \/ Put(k, r, n), answer' = answer \/ Answer(j, r, n)
    PROVE  AnswerTypes'
<1>1. results' \in [RetryKeys -> [req : Requests, n : 2 .. MaxAttempts] \cup {NoRes}]
  BY DEF Put, RetryTypeOK
<1>2. answer'.ok => answer' \in [ok : {TRUE}, k : RetryKeys \cup {NoKey}, req : Requests, n : 2 .. MaxAttempts]
  <2>1. CASE answer' = answer
    BY <2>1, Zenon DEF RetryTypeOK
  <2>2. CASE Answer(j, r, n)
    BY <2>2 DEF Answer
  <2> QED BY <2>1, <2>2
<1> QED BY <1>1, <1>2 DEF AnswerTypes

\* A step that only answers, and may store what it answers.
LEMMA AnswerKeeps ==
    ASSUME RetryInv, UNCHANGED <<work, att, bnd, open, asg, created, disposed, lane>>,
           AnswerTypes', ResultsApplied'
    PROVE  RetryInv'
<1>1. AttemptTypes' /\ BoundaryTypes'
  BY TypeParts DEF RetryInv, AttemptTypes, BoundaryTypes
<1>2. \A k \in RetryKeys : SameBoundary(k)
  BY Untouched
<1>3. Numbered' /\ BoundariesCurrent' /\ DecidedBySuccessor' /\ MadeByDecision'
  BY <1>2, QuietAgrees
<1> QED BY <1>1, <1>3, InvParts

\* The stored answer of a key is about the Attempt that the key made.
LEMMA ReplayKeeps ==
    ASSUME RetryInv, NEW k \in RetryKeys, NEW r \in Requests, Replay(k, r)
    PROVE  RetryInv'
<1>1. /\ UNCHANGED <<work, att, bnd, open, asg, created, disposed, results, lane>>
      /\ results[k] # NoRes /\ results[k].req = r /\ Answer(k, r, results[k].n)
  BY DEF Replay, AcceptedDigest
<1>2. results[k].n \in 2 .. MaxAttempts
  BY <1>1 DEF RetryInv, RetryTypeOK
<1>3. Applied(k, r, results[k].n)
  BY <1>1 DEF RetryInv, ResultsApplied
<1>4. AnswerTypes'
  BY <1>1, <1>2, AnswerTyped DEF RetryInv
<1>5. AttemptsKept
  BY <1>1 DEF AttemptsKept
<1>6. ResultsApplied'
  BY <1>1, <1>2, <1>3, <1>5, AnsweredWith DEF Applied
<1> QED BY <1>1, <1>4, <1>6, AnswerKeeps

\* A disposed Boundary without a result is answered only when its successor is proven to be the one
\* that this very request made.
LEMMA ReplayResidueKeeps ==
    ASSUME RetryInv, NEW k \in RetryKeys, NEW r \in Requests, ReplayResidue(k, r)
    PROVE  RetryInv'
<1>1. /\ UNCHANGED <<work, att, bnd, open, asg, created, disposed, lane>>
      /\ bnd[k].at[1] = r.w /\ bnd[k].disp = "retry" /\ ResidueProven(k, r)
      /\ Put(k, r, bnd[k].at[2] + 1) /\ Answer(k, r, bnd[k].at[2] + 1)
  BY DEF ReplayResidue, ResidueProven, DispositionProvenance
<1>2. bnd[k] \in BoundaryRows
  BY <1>1, RowsExist DEF RetryInv
<1>3. bnd[k].at[2] + 1 \in 2 .. MaxAttempts /\ Successor(k) = <<r.w, bnd[k].at[2] + 1>>
  <2>1. Successor(k) \in Attempts /\ bnd[k].at[2] \in 1 .. MaxAttempts
    BY <1>1, <1>2, AttemptIsPair DEF RetryInv, DecidedBySuccessor, BoundaryRows
  <2>2. bnd[k].at[2] + 1 \in 1 .. MaxAttempts
    BY <2>1, AttemptIsPair DEF Successor
  <2> QED BY <1>1, <2>1, <2>2, RetryBounds DEF Successor
<1>4. /\ Successor(k) \in Attempts /\ att[Successor(k)].by = k
      /\ att[Successor(k)].reason = bnd[k].reason /\ att[Successor(k)].worker = bnd[k].worker
  BY <1>1 DEF RetryInv, DecidedBySuccessor
<1>5. bnd[k].reason = r.reason /\ (r.worker # NoWorker => r.worker = bnd[k].worker)
  BY <1>1 DEF ResidueProven, BoundaryProvenance
<1>6. r.lane # 0 => r.lane = att[Successor(k)].lane
  BY <1>1, <1>3 DEF ResidueProven, LaneExact
<1>7. AttemptsKept
  BY <1>1 DEF AttemptsKept
<1>8. ResultsApplied'
  BY <1>1, <1>3, <1>4, <1>5, <1>6, <1>7, AnsweredWith
<1>9. AnswerTypes'
  BY <1>1, <1>3, AnswerTyped DEF RetryInv
<1> QED BY <1>1, <1>8, <1>9, AnswerKeeps

\* The row decides the Boundary that is recorded for the last Attempt of a request's Work.
DecidedRow(X, r) ==
    /\ X \in BoundaryRows
    /\ X.at = <<r.w, work[r.w].last>> /\ X.gen = work[r.w].gen /\ X.goal = work[r.w].goal
    /\ X.worker = TargetWorker(r) /\ X.reason = r.reason

\* A row that a request records has these columns.
LEMMA RecordedIsDecided ==
    ASSUME RetryTypeOK, NEW r \in Requests, NEW legacy \in BOOLEAN
    PROVE  DecidedRow(RetryBoundary(r, legacy), r)
  BY RecordedRow DEF DecidedRow, RetryBoundary

\* A retry of a key: the next Attempt, the decided Boundary, and perhaps result and answer.
LEMMA RetryKeeps ==
    ASSUME RetryInv, NEW k \in RetryKeys, NEW r \in Requests, NEW X, Retryable(r), Materialize(r, k),
           DecidedRow(X, r), bnd[k].disp = "none",
           bnd' = [bnd EXCEPT ![k] = [X EXCEPT !.disp = "retry"]],
           disposed' = disposed \cup {k}, UNCHANGED <<open, lane>>,
           \/ Put(k, r, work[r.w].last + 1) /\ Answer(k, r, work[r.w].last + 1)
           \/ UNCHANGED <<results, answer>>
    PROVE  RetryInv'
<1> DEFINE row == RetriedRow(r, k)
<1>0. RetryTypeOK /\ Numbered
  BY DEF RetryInv
<1>1. Begins(r.w, row) /\ r.w \in Works /\ created' \subseteq Attempts
  BY <1>0, MaterializeBegins
<1>2. row.worker = TargetWorker(r) /\ row.goal = work[r.w].goal /\ row.by = k /\ row.reason = r.reason
      /\ row.lane = Lane(TargetWorker(r))
  BY DEF RetriedRow
<1>3. AttemptTypes' /\ Numbered'
  BY <1>0, <1>1, BeginsTypes
<1>4. /\ [X EXCEPT !.disp = "retry"] \in BoundaryRows
      /\ bnd'[k] = [X EXCEPT !.disp = "retry"]
      /\ \A j \in RetryKeys \ {k} : bnd'[j] = bnd[j]
      /\ bnd' \in [RetryKeys -> BoundaryRows \cup {NoBnd}]
  <2>1. [X EXCEPT !.disp = "retry"] \in BoundaryRows
    BY DEF DecidedRow, BoundaryRows
  <2> QED BY <1>0, <2>1 DEF RetryTypeOK
<1>5. BoundaryTypes'
  BY <1>0, <1>1, <1>4 DEF RetryTypeOK, BoundaryTypes
<1>6. /\ bnd'[k].at = X.at /\ bnd'[k].gen = X.gen /\ bnd'[k].goal = X.goal
      /\ bnd'[k].worker = X.worker /\ bnd'[k].reason = X.reason /\ bnd'[k].disp = "retry"
  BY <1>4 DEF DecidedRow, BoundaryRows
<1>7. Exists(k)'
  <2>1. bnd'[k].disp # NoBnd.disp
    BY <1>6 DEF NoBnd
  <2> QED BY <2>1 DEF Exists, NoBnd
<1>8. Decides(k, r.w, row)
  BY <1>2, <1>6, <1>7 DEF Decides, DecidedRow
<1>9. \A j \in RetryKeys : SameBoundary(j) \/ Decides(j, r.w, row)
  BY <1>4, <1>8, Untouched
<1> HIDE DEF row
<1>10. BoundariesCurrent' /\ DecidedBySuccessor' /\ MadeByDecision'
  BY <1>1, <1>2, <1>6, <1>8, <1>9, BeginsDecides
<1>11. AttemptsKept /\ Next1(r.w) \in Attempts /\ att'[Next1(r.w)] = row
  BY <1>0, <1>1, BeginsKeeps DEF AttemptsKept
<1>12. work[r.w].last + 1 \in 2 .. MaxAttempts
  BY <1>0, <1>1, NextIsNew DEF Begins
<1>13. CASE Put(k, r, work[r.w].last + 1) /\ Answer(k, r, work[r.w].last + 1)
  <2>1. AnswerTypes'
    BY <1>0, <1>12, <1>13, AnswerTyped
  <2>2. r.worker # NoWorker => row.worker = r.worker
    BY <1>0, <1>2, TargetIsWorker
  <2>3. r.lane # 0 => row.lane = r.lane
    BY <1>2 DEF Retryable
  <2>4. ResultsApplied'
    BY <1>2, <1>11, <1>12, <1>13, <2>2, <2>3, AnsweredWith DEF Next1
  <2> QED BY <1>3, <1>5, <1>10, <2>1, <2>4, InvParts
<1>14. CASE UNCHANGED <<results, answer>>
  <2>1. AnswerTypes'
    BY <1>0, <1>14, Zenon DEF RetryTypeOK, AnswerTypes
  <2>2. ResultsApplied'
    BY <1>11, <1>14, NothingAnswered
  <2> QED BY <1>3, <1>5, <1>10, <2>1, <2>2, InvParts
<1> QED BY <1>13, <1>14

\* The first run of a key takes over its undisposed Boundary only when it is the one it would record.
LEMMA FirstRetryKeeps ==
    ASSUME RetryInv, NEW k \in RetryKeys, NEW r \in Requests, FirstRetry(k, r)
    PROVE  RetryInv'
<1> DEFINE X == IF PriorOf(k, r) = NoBnd THEN RetryBoundary(r, FALSE) ELSE bnd[k]
<1>0. RetryTypeOK
  BY DEF RetryInv
<1>1. /\ Retryable(r) /\ Materialize(r, k) /\ disposed' = disposed \cup {k} /\ UNCHANGED <<open, lane>>
      /\ bnd' = [bnd EXCEPT ![k] = [X EXCEPT !.disp = "retry"]]
      /\ Put(k, r, work[r.w].last + 1) /\ Answer(k, r, work[r.w].last + 1)
  BY DEF FirstRetry
<1>2. DecidedRow(X, r) /\ bnd[k].disp = "none"
  <2>1. CASE bnd[k] = NoBnd
    <3>1. X = RetryBoundary(r, FALSE)
      BY <2>1 DEF PriorOf
    <3>2. DecidedRow(X, r)
      BY <1>0, <3>1, RecordedIsDecided
    <3> QED BY <2>1, <3>2, EmptyRow
  <2>2. CASE bnd[k] # NoBnd
    <3>1. X = bnd[k] /\ ExactUndisposed(k, r)
      BY <2>2 DEF PriorOf, FirstRetry
    <3>2. bnd[k] \in BoundaryRows
      BY <1>0, <2>2, RowsExist DEF Exists
    <3>3. PICK legacy \in BOOLEAN : [bnd[k] EXCEPT !.sup = FALSE] = RetryBoundary(r, legacy)
      BY <3>1 DEF ExactUndisposed
    <3>4. DecidedRow([bnd[k] EXCEPT !.sup = FALSE], r)
      BY <1>0, <3>3, RecordedIsDecided
    <3>5. DecidedRow(bnd[k], r)
      BY <3>2, <3>4 DEF DecidedRow, BoundaryRows
    <3> QED BY <3>1, <3>5 DEF ExactUndisposed
  <2> QED BY <2>1, <2>2
<1> HIDE DEF X
<1> QED BY <1>1, <1>2, RetryKeeps

\* An earlier release made the same transition.
LEMMA LegacyRetryKeeps ==
    ASSUME RetryInv, NEW k \in RetryKeys, NEW r \in Requests, LegacyRetry(k, r)
    PROVE  RetryInv'
<1>1. DecidedRow(RetryBoundary(r, TRUE), r)
  BY RecordedIsDecided DEF RetryInv
<1>2. bnd[k].disp = "none"
  BY EmptyRow DEF LegacyRetry, Exists
<1>3. /\ Retryable(r) /\ Materialize(r, k) /\ disposed' = disposed \cup {k} /\ UNCHANGED <<open, lane>>
      /\ bnd' = [bnd EXCEPT ![k] = [RetryBoundary(r, TRUE) EXCEPT !.disp = "retry"]]
      /\ UNCHANGED <<results, answer>>
  BY DEF LegacyRetry
<1> QED BY <1>1, <1>2, <1>3, RetryKeeps

\* A retry without a key makes an Attempt that no key claims.
LEMMA RetryUnkeyedKeeps ==
    ASSUME RetryInv, NEW r \in Requests, RetryUnkeyed(r)
    PROVE  RetryInv'
<1> DEFINE row == RetriedRow(r, NoKey)
<1>0. RetryTypeOK /\ Numbered
  BY DEF RetryInv
<1>1. /\ Retryable(r) /\ Materialize(r, NoKey) /\ Answer(NoKey, r, work[r.w].last + 1)
      /\ UNCHANGED <<bnd, open, disposed, results, lane>>
  BY DEF RetryUnkeyed
<1>2. Begins(r.w, row) /\ r.w \in Works /\ created' \subseteq Attempts
  BY <1>0, <1>1, MaterializeBegins
<1>3. row.by = NoKey
  BY DEF RetriedRow
<1> HIDE DEF row
<1>4. AttemptTypes' /\ Numbered'
  BY <1>0, <1>2, BeginsTypes
<1>5. BoundaryTypes'
  BY <1>0, <1>1, <1>2 DEF RetryTypeOK, BoundaryTypes
<1>6. \A k \in RetryKeys : SameBoundary(k)
  BY <1>1, Untouched
<1>7. BoundariesCurrent' /\ DecidedBySuccessor' /\ MadeByDecision'
  BY <1>2, <1>3, <1>6, BeginsDecides
<1>8. work[r.w].last + 1 \in 2 .. MaxAttempts
  BY <1>0, <1>2, NextIsNew DEF Begins
<1>9. AnswerTypes'
  <2>1. results' \in [RetryKeys -> [req : Requests, n : 2 .. MaxAttempts] \cup {NoRes}]
    BY <1>0, <1>1 DEF RetryTypeOK
  <2> QED BY <1>1, <1>8, <2>1 DEF Answer, AnswerTypes
<1>10. AttemptsKept
  BY <1>0, <1>2, BeginsKeeps DEF AttemptsKept
<1>11. ResultsApplied'
  <2>1. answer'.k = NoKey
    BY <1>1 DEF Answer
  <2> QED BY <1>1, <1>10, <2>1, ResultsKept DEF ResultsApplied
<1> QED BY <1>4, <1>5, <1>7, <1>9, <1>11, InvParts

\* A reasoner turn decides a Boundary of the Work's generation, hence of its last Attempt and goal.
LEMMA TurnRetriesKeeps ==
    ASSUME RetryInv, NEW k \in RetryKeys, TurnRetries(k)
    PROVE  RetryInv'
<1> DEFINE b == bnd[k]
           r == [w |-> b.at[1], worker |-> b.worker, lane |-> b.lane, reason |-> b.reason]
           row == RetriedRow(r, NoKey)
<1>0. RetryTypeOK /\ Numbered /\ BoundariesCurrent
  BY DEF RetryInv
<1>1. /\ Exists(k) /\ b.disp = "none" /\ b.gen = work[b.at[1]].gen
      /\ Retryable(r) /\ Materialize(r, NoKey)
      /\ bnd' = [bnd EXCEPT ![k].disp = "turn", ![k].turn = FALSE]
      /\ disposed' = disposed \cup {k} /\ UNCHANGED <<open, results, lane, answer>>
  BY DEF TurnRetries
<1>2. b \in BoundaryRows
  BY <1>0, <1>1, RowsExist
<1>3. b.at[1] \in Works /\ b.at = <<b.at[1], b.at[2]>>
  BY <1>2, AttemptIsPair DEF BoundaryRows
<1>4. r \in Requests
  BY <1>2, <1>3 DEF BoundaryRows, Requests
<1>5. Begins(r.w, row) /\ r.w \in Works /\ created' \subseteq Attempts
  BY <1>0, <1>1, <1>4, MaterializeBegins
<1>6. row.by = NoKey /\ row.goal = work[r.w].goal /\ row.worker = b.worker
  <2>1. r.worker # NoWorker
    BY <1>2, RetryBounds DEF BoundaryRows
  <2> QED BY <2>1 DEF RetriedRow, TargetWorker
<1>7. b.at[2] = work[b.at[1]].last /\ b.goal = work[b.at[1]].goal
  BY <1>0, <1>1, <1>3 DEF BoundariesCurrent, Numbered
<1>8. /\ bnd'[k] = [b EXCEPT !.disp = "turn", !.turn = FALSE] /\ bnd'[k] \in BoundaryRows
      /\ \A j \in RetryKeys \ {k} : bnd'[j] = bnd[j]
      /\ bnd' \in [RetryKeys -> BoundaryRows \cup {NoBnd}]
  <2>1. [b EXCEPT !.disp = "turn", !.turn = FALSE] \in BoundaryRows
    BY <1>2 DEF BoundaryRows
  <2>2. bnd' = [bnd EXCEPT ![k] = [b EXCEPT !.disp = "turn", !.turn = FALSE]]
    BY <1>0, <1>1 DEF RetryTypeOK
  <2> QED BY <1>0, <2>1, <2>2 DEF RetryTypeOK
<1>9. BoundaryTypes'
  BY <1>0, <1>1, <1>5, <1>8 DEF RetryTypeOK, BoundaryTypes
<1>10. /\ bnd'[k].at = b.at /\ bnd'[k].gen = b.gen /\ bnd'[k].goal = b.goal
       /\ bnd'[k].worker = b.worker /\ bnd'[k].disp = "turn"
  BY <1>2, <1>8 DEF BoundaryRows
<1>11. Exists(k)'
  <2>1. bnd'[k].disp # NoBnd.disp
    BY <1>10, EmptyRow
  <2> QED BY <2>1 DEF Exists, NoBnd
<1>12. Decides(k, r.w, row)
  BY <1>1, <1>3, <1>6, <1>7, <1>10, <1>11 DEF Decides
<1>13. \A j \in RetryKeys : SameBoundary(j) \/ Decides(j, r.w, row)
  BY <1>8, <1>12, Untouched
<1> HIDE DEF b, r, row
<1>14. AttemptTypes' /\ Numbered'
  BY <1>0, <1>5, BeginsTypes
<1>15. BoundariesCurrent' /\ DecidedBySuccessor' /\ MadeByDecision'
  BY <1>5, <1>6, <1>13, BeginsDecides
<1>16. AttemptsKept
  BY <1>0, <1>5, BeginsKeeps DEF AttemptsKept
<1>17. AnswerTypes' /\ ResultsApplied'
  <2>1. AnswerTypes'
    BY <1>0, <1>1, Zenon DEF RetryTypeOK, AnswerTypes
  <2> QED BY <1>1, <1>16, <2>1, NothingAnswered
<1> QED BY <1>9, <1>14, <1>15, <1>17, InvParts

\* A new goal begins an Attempt that no key claims, and supersedes the Boundaries of the old one.
LEMMA ReviseGoalKeeps ==
    ASSUME RetryInv, NEW w \in Works, ReviseGoal(w)
    PROVE  RetryInv'
<1> DEFINE old == att[<<w, work[w].last>>]
           row == [old EXCEPT !.goal = work[w].goal + 1, !.gen = work[w].gen + 1, !.by = NoKey, !.reason = "",
                              !.lane = Lane(old.worker)]
<1>0. RetryTypeOK /\ Numbered
  BY DEF RetryInv
<1>1. /\ work[w].state = "active" /\ work[w].last < MaxAttempts
      /\ UNCHANGED <<created, disposed, results, lane, answer>> /\ open' = open \ {w}
  BY DEF ReviseGoal
<1>2. /\ work[w].gen = work[w].last /\ work[w].goal <= work[w].last
      /\ work[w].last \in 1 .. MaxAttempts /\ work[w].goal \in 1 .. MaxAttempts
      /\ work[w] \in WorkRows /\ work \in [Works -> WorkRows]
  BY <1>0 DEF RetryTypeOK, Numbered, WorkRows
<1>3. work[w].goal + 1 \in 0 .. MaxAttempts /\ work[w].gen + 1 \in 0 .. MaxAttempts
  BY <1>1, <1>2, RetryBounds
<1>4. old \in AttemptRows /\ old.worker \in Workers
  <2>1. <<w, work[w].last>> \in Attempts /\ <<w, work[w].last>>[1] = w /\ <<w, work[w].last>>[2] = work[w].last
    BY <1>2, AttemptIsPair
  <2>2. old \in AttemptRows /\ old.worker # NoWorker
    BY <1>0, <1>2, <2>1 DEF RetryTypeOK
  <2> QED BY <2>2 DEF AttemptRows
<1>5. Lane(old.worker) \in 0 .. MaxLane
  BY <1>0, <1>4, RetryBounds DEF Lane, RetryTypeOK
<1>6. /\ row \in AttemptRows /\ row.worker \in Workers /\ row.by = NoKey
      /\ row.gen = work[w].gen + 1 /\ row.goal = work[w].goal + 1
  BY <1>3, <1>4, <1>5 DEF AttemptRows
<1>7. Begins(w, row)
  <2>1. /\ work' \in [Works -> WorkRows] /\ \A v \in Works \ {w} : work'[v] = work[v]
        /\ work'[w].last = work[w].last + 1 /\ work'[w].gen = work[w].gen + 1
        /\ work'[w].goal = work[w].goal + 1
    <3>1. work' = [work EXCEPT ![w].goal = @ + 1, ![w].gen = @ + 1, ![w].last = @ + 1]
      BY DEF ReviseGoal
    <3>2. /\ work[w].goal + 1 \in 1 .. MaxAttempts /\ work[w].gen + 1 \in 1 .. MaxAttempts
          /\ work[w].last + 1 \in 1 .. MaxAttempts
      BY <1>1, <1>2, RetryBounds
    <3> QED BY <1>2, <3>1, <3>2 DEF WorkRows
  <2>2. /\ att' = [att EXCEPT ![Next1(w)] = row]
        /\ asg' = [asg EXCEPT ![Next1(w)] = "queued"]
    BY DEF ReviseGoal, Next1
  <2> QED BY <1>1, <1>6, <2>1, <2>2 DEF Begins
<1> HIDE DEF row, old
<1>8. AttemptTypes' /\ Numbered'
  BY <1>0, <1>7, BeginsTypes
<1>9. ASSUME NEW k \in RetryKeys PROVE SameBoundary(k) /\ bnd'[k] \in BoundaryRows \cup {NoBnd}
  <2>1. bnd'[k] = bnd[k] \/ (Exists(k) /\ bnd'[k] = [bnd[k] EXCEPT !.sup = TRUE, !.turn = FALSE])
    BY DEF ReviseGoal
  <2>2. CASE bnd'[k] = bnd[k]
    BY <1>0, <2>2, Untouched DEF RetryTypeOK
  <2>3. CASE Exists(k) /\ bnd'[k] = [bnd[k] EXCEPT !.sup = TRUE, !.turn = FALSE]
    <3>1. bnd[k] \in BoundaryRows
      BY <1>0, <2>3, RowsExist
    <3> QED BY <2>3, <3>1 DEF BoundaryRows, SameBoundary
  <2> QED BY <2>1, <2>2, <2>3
<1>10. BoundaryTypes'
  <2>1. bnd' \in [RetryKeys -> BoundaryRows \cup {NoBnd}]
    BY <1>9 DEF ReviseGoal
  <2> QED BY <1>0, <1>1, <2>1 DEF RetryTypeOK, BoundaryTypes
<1>11. BoundariesCurrent' /\ DecidedBySuccessor' /\ MadeByDecision'
  BY <1>6, <1>7, <1>9, BeginsDecides
<1>12. AttemptsKept
  BY <1>0, <1>7, BeginsKeeps DEF AttemptsKept
<1>13. AnswerTypes' /\ ResultsApplied'
  <2>1. AnswerTypes'
    BY <1>0, <1>1, Zenon DEF RetryTypeOK, AnswerTypes
  <2> QED BY <1>1, <1>12, <2>1, NothingAnswered
<1> QED BY <1>8, <1>10, <1>11, <1>13, InvParts

\* A step that answers nothing, begins no Attempt, and leaves every Boundary as it is or records one.
LEMMA QuietKeeps ==
    ASSUME RetryInv, AttemptTypes', BoundaryTypes', UNCHANGED <<att, results, answer>>,
           \A k \in RetryKeys : SameBoundary(k) \/ Records(k),
           \A w \in Works : /\ work'[w].last = work[w].last /\ work'[w].gen = work[w].gen
                            /\ work'[w].goal = work[w].goal
    PROVE  RetryInv'
<1>1. Numbered' /\ BoundariesCurrent' /\ DecidedBySuccessor' /\ MadeByDecision'
  BY QuietAgrees
<1>2. AttemptsKept
  BY DEF AttemptsKept
<1>3. AnswerTypes'
  BY Zenon DEF RetryInv, RetryTypeOK, AnswerTypes
<1>4. ResultsApplied'
  BY <1>2, NothingAnswered
<1> QED BY <1>1, <1>3, <1>4, InvParts

\* What the CAO and its reasoner turns do to a Boundary before it is decided.
LEMMA BoundarySteps ==
    ASSUME RetryInv, NEW k \in RetryKeys,
           \/ AcquireTurn(k) \/ TurnLapses(k) \/ \E r \in Requests : RecordBoundary(k, r)
    PROVE  RetryInv'
<1>0. RetryTypeOK
  BY DEF RetryInv
<1>1. /\ UNCHANGED <<work, att, open, asg, created, disposed, results, lane, answer>>
      /\ \A j \in RetryKeys \ {k} : bnd'[j] = bnd[j]
      /\ bnd'[k] \in BoundaryRows /\ bnd' \in [RetryKeys -> BoundaryRows \cup {NoBnd}]
      /\ SameBoundary(k) \/ Records(k)
  <2>1. ASSUME NEW held \in BOOLEAN, Exists(k), bnd' = [bnd EXCEPT ![k].turn = held]
        PROVE  /\ \A j \in RetryKeys \ {k} : bnd'[j] = bnd[j]
               /\ bnd'[k] \in BoundaryRows /\ bnd' \in [RetryKeys -> BoundaryRows \cup {NoBnd}]
               /\ SameBoundary(k)
    <3>1. bnd[k] \in BoundaryRows
      BY <1>0, <2>1, RowsExist
    <3>2. [bnd[k] EXCEPT !.turn = held] \in BoundaryRows
      BY <3>1 DEF BoundaryRows
    <3>3. /\ bnd'[k] = [bnd[k] EXCEPT !.turn = held] /\ bnd' \in [RetryKeys -> BoundaryRows \cup {NoBnd}]
          /\ \A j \in RetryKeys \ {k} : bnd'[j] = bnd[j]
      BY <1>0, <2>1, <3>2 DEF RetryTypeOK
    <3>4. SameBoundary(k)
      BY <2>1, <3>1, <3>3 DEF SameBoundary, BoundaryRows
    <3> QED BY <3>2, <3>3, <3>4
  <2>2. CASE AcquireTurn(k)
    BY <2>1, <2>2 DEF AcquireTurn
  <2>3. CASE TurnLapses(k)
    BY <2>1, <2>3 DEF TurnLapses
  <2>4. ASSUME NEW r \in Requests, RecordBoundary(k, r)
        PROVE  /\ UNCHANGED <<work, att, open, asg, created, disposed, results, lane, answer>>
               /\ \A j \in RetryKeys \ {k} : bnd'[j] = bnd[j]
               /\ bnd'[k] \in BoundaryRows /\ bnd' \in [RetryKeys -> BoundaryRows \cup {NoBnd}]
               /\ Records(k)
    <3>1. PICK legacy \in BOOLEAN : bnd' = [bnd EXCEPT ![k] = RetryBoundary(r, legacy)]
      BY <2>4 DEF RecordBoundary
    <3>2. RetryBoundary(r, legacy) \in BoundaryRows
      BY <1>0, RecordedRow
    <3>3. /\ bnd'[k] = RetryBoundary(r, legacy) /\ \A j \in RetryKeys \ {k} : bnd'[j] = bnd[j]
          /\ bnd' \in [RetryKeys -> BoundaryRows \cup {NoBnd}]
      BY <1>0, <3>1, <3>2 DEF RetryTypeOK
    <3>4. bnd[k].disp = "none"
      BY <2>4, EmptyRow DEF RecordBoundary, Exists
    <3>5. r.w \in Works
      BY DEF Requests
    <3>6. Records(k)
      BY <3>3, <3>4, <3>5 DEF Records, RetryBoundary
    <3> QED BY <2>4, <3>2, <3>3, <3>6 DEF RecordBoundary
  <2> QED BY <2>2, <2>3, <2>4
<1>2. AttemptTypes' /\ BoundaryTypes'
  BY <1>0, <1>1, TypeParts DEF AttemptTypes, BoundaryTypes
<1>3. \A j \in RetryKeys : SameBoundary(j) \/ Records(j)
  BY <1>1, Untouched
<1> QED BY <1>1, <1>2, <1>3, QuietKeeps

\* What happens around the retries: reports and dispositions of other Boundaries, the states of the
\* Work, the Assignments, the lanes and the retention run touch no Attempt and no Boundary.
LEMMA QuietSteps ==
    ASSUME RetryInv,
           \/ \E w \in Works : Report(w) \/ Dispose(w) \/ Suspend(w) \/ Resume(w) \/ Complete(w) \/ Prune(w)
           \/ \E a \in Attempts : Handle(a)
           \/ \E p \in Managed : RestartLane(p)
           \/ UNCHANGED retrying
    PROVE  RetryInv'
<1>0. RetryTypeOK
  BY DEF RetryInv
<1> DEFINE Quiet == /\ AttemptTypes' /\ BoundaryTypes' /\ UNCHANGED <<att, bnd, results, answer>>
                    /\ \A w \in Works : /\ work'[w].last = work[w].last /\ work'[w].gen = work[w].gen
                                         /\ work'[w].goal = work[w].goal
<1>1. ASSUME NEW w \in Works, Report(w) \/ Dispose(w) PROVE Quiet
  BY <1>0, <1>1 DEF Report, Dispose, RetryTypeOK, AttemptTypes, BoundaryTypes, WorkRows
<1>2. ASSUME NEW w \in Works, Suspend(w) \/ Resume(w) \/ Complete(w) PROVE Quiet
  <2>1. PICK to \in {"active", "suspended", "completed"} : work' = [work EXCEPT ![w].state = to]
    BY <1>2 DEF Suspend, Resume, Complete, SetState
  <2>2. work \in [Works -> WorkRows]
    BY <1>0 DEF RetryTypeOK, WorkRows
  <2>3. /\ work' \in [Works -> WorkRows]
        /\ \A v \in Works : /\ work'[v].last = work[v].last /\ work'[v].gen = work[v].gen
                             /\ work'[v].goal = work[v].goal
    BY <2>1, <2>2 DEF WorkRows
  <2>4. UNCHANGED <<att, bnd, open, asg, created, disposed, results, lane, answer>>
    BY <1>2 DEF Suspend, Resume, Complete, SetState
  <2>5. AttemptTypes'
    <3>1. \A a \in Attempts : work'[a[1]].last = work[a[1]].last
      BY <2>3, AttemptIsPair
    <3> QED BY <1>0, <2>3, <2>4, <3>1 DEF RetryTypeOK, AttemptTypes
  <2> QED BY <1>0, <2>3, <2>4, <2>5 DEF RetryTypeOK, BoundaryTypes
<1>3. ASSUME NEW w \in Works, Prune(w) PROVE Quiet
  BY <1>0, <1>3 DEF Prune, RetryTypeOK, AttemptTypes, BoundaryTypes, WorkRows
<1>4. ASSUME NEW a \in Attempts, Handle(a) PROVE Quiet
  BY <1>0, <1>4 DEF Handle, RetryTypeOK, AttemptTypes, BoundaryTypes, WorkRows
<1>5. ASSUME NEW p \in Managed, RestartLane(p) PROVE Quiet
  <2>1. lane' \in [Managed -> 1 .. MaxLane]
    BY <1>0, <1>5, RetryBounds DEF RestartLane, RetryTypeOK
  <2> QED BY <1>0, <1>5, <2>1 DEF RestartLane, RetryTypeOK, AttemptTypes, BoundaryTypes, WorkRows
<1>6. ASSUME UNCHANGED retrying PROVE Quiet
  BY <1>0, <1>6 DEF retrying, RetryTypeOK, AttemptTypes, BoundaryTypes, WorkRows
<1>7. Quiet
  BY <1>1, <1>2, <1>3, <1>4, <1>5, <1>6
<1>8. \A k \in RetryKeys : SameBoundary(k)
  BY <1>7, Untouched
<1> QED BY <1>7, <1>8, QuietKeeps

-----------------------------------------------------------------------------
(* RetryCommand: the theorem.                                                *)

\* Every Work starts with its first Attempt, and nothing is recorded or decided.
LEMMA RetryStarts == RetryInit => RetryInv
<1> SUFFICES ASSUME RetryInit PROVE RetryInv
  OBVIOUS
<1> DEFINE first == [NoAtt EXCEPT !.worker = FirstWorker, !.lane = Lane(FirstWorker), !.goal = 1, !.gen = 1]
<1>1. \A k \in RetryKeys : bnd[k] = NoBnd /\ ~Exists(k) /\ results[k] = NoRes
  BY DEF RetryInit, Exists
<1>2. Lane(FirstWorker) \in 0 .. MaxLane
  BY RetryBounds DEF RetryInit, Lane
<1>3. /\ NoAtt \in AttemptRows /\ NoAtt.worker = NoWorker /\ NoAtt.by = NoKey
      /\ first \in AttemptRows /\ first.worker = FirstWorker /\ first.by = NoKey /\ first.gen = 1
  <2>1. /\ NoAtt \in AttemptRows /\ NoAtt.worker = NoWorker /\ NoAtt.by = NoKey
    BY RetryBounds DEF NoAtt, AttemptRows
  <2>2. first \in AttemptRows /\ first.worker = FirstWorker /\ first.by = NoAtt.by /\ first.gen = 1
    <3>1. 1 \in 0 .. MaxAttempts /\ FirstWorker \in Workers
      BY RetryBounds
    <3> QED BY <1>2, <2>1, <3>1 DEF AttemptRows
  <2> QED BY <2>1, <2>2, RetryBounds
<1>4. \A w \in Works : work[w].last = 1 /\ work[w].gen = 1 /\ work[w].goal = 1 /\ work[w] \in WorkRows
  BY RetryBounds DEF RetryInit, WorkRows
<1>5. \A a \in Attempts : att[a] = IF a[2] = 1 THEN first ELSE NoAtt
  BY DEF RetryInit
<1> HIDE DEF first
<1>6. \A a \in Attempts : (att[a].worker = NoWorker) <=> (a[2] > work[a[1]].last)
  BY <1>3, <1>4, <1>5, AttemptIsPair, RetryBounds
<1>7. AttemptTypes
  <2>1. work \in [Works -> WorkRows] /\ asg \in [Attempts -> {"none", "queued", "handled"}]
    BY <1>4 DEF RetryInit
  <2>2. att \in [Attempts -> AttemptRows]
    BY <1>3, <1>5 DEF RetryInit
  <2> QED BY <1>6, <2>1, <2>2 DEF AttemptTypes
<1>8. BoundaryTypes
  BY RetryBounds DEF RetryInit, BoundaryTypes
<1>9. AnswerTypes
  BY DEF RetryInit, AnswerTypes
<1>10. Numbered
  BY <1>3, <1>4, <1>5 DEF Numbered, Begun
<1>11. BoundariesCurrent /\ DecidedBySuccessor
  BY <1>1, EmptyRow DEF BoundariesCurrent, DecidedBySuccessor
<1>12. MadeByDecision
  BY <1>3, <1>5 DEF MadeByDecision
<1>13. ResultsApplied
  BY <1>1 DEF ResultsApplied, RetryInit
<1> QED BY <1>7, <1>8, <1>9, <1>10, <1>11, <1>12, <1>13, TypeParts DEF RetryInv

\* Every step of the retries keeps Boundaries, Attempts, results and answers in agreement.
LEMMA RetrySteps == RetryInv /\ [RetryNext]_retrying => RetryInv'
<1> SUFFICES ASSUME RetryInv, [RetryNext]_retrying PROVE RetryInv'
  OBVIOUS
<1>1. CASE \E k \in RetryKeys, r \in Requests :
             Replay(k, r) \/ ReplayResidue(k, r) \/ FirstRetry(k, r) \/ LegacyRetry(k, r)
  BY <1>1, ReplayKeeps, ReplayResidueKeeps, FirstRetryKeeps, LegacyRetryKeeps
<1>2. CASE \E r \in Requests : RetryUnkeyed(r)
  BY <1>2, RetryUnkeyedKeeps
<1>3. CASE \E k \in RetryKeys : \/ AcquireTurn(k) \/ TurnLapses(k)
                               \/ \E r \in Requests : RecordBoundary(k, r)
  BY <1>3, BoundarySteps
<1>4. CASE \E k \in RetryKeys : TurnRetries(k)
  BY <1>4, TurnRetriesKeeps
<1>5. CASE \E w \in Works : ReviseGoal(w)
  BY <1>5, ReviseGoalKeeps
<1>6. CASE \/ \E w \in Works : Report(w) \/ Dispose(w) \/ Suspend(w) \/ Resume(w) \/ Complete(w) \/ Prune(w)
           \/ \E a \in Attempts : Handle(a)
           \/ \E p \in Managed : RestartLane(p)
           \/ UNCHANGED retrying
  BY <1>6, QuietSteps
<1> QED BY <1>1, <1>2, <1>3, <1>4, <1>5, <1>6 DEF RetryNext

\* The invariant of create_attempt, for any Works, keys, Workers, Attempts and restarted threads.
THEOREM RetryInvariant == RetrySpec => []RetryInv
<1>1. RetryInit => RetryInv
  BY RetryStarts
<1>2. RetryInv /\ [RetryNext]_retrying => RetryInv'
  BY RetrySteps
<1> QED BY <1>1, <1>2, PTL DEF RetrySpec

\* RetriedOnce, however often a command is repeated and whatever happens in between: one key makes at
\* most one Attempt, that Attempt succeeds the Boundary it decides, and only it is the answer.
THEOREM RetryIsOnce == RetrySpec => []RetriedOnce
<1>1. RetryInv => RetriedOnce
  <2> SUFFICES ASSUME RetryInv PROVE RetriedOnce
    OBVIOUS
  <2>1. AppliedOnce
    <3> SUFFICES ASSUME NEW k \in RetryKeys PROVE Cardinality({a \in Attempts : att[a].by = k}) <= 1
      BY DEF AppliedOnce
    <3> DEFINE made == {a \in Attempts : att[a].by = k}
    <3>1. \A a \in made : a = Successor(k)
      BY RetryBounds DEF RetryInv, MadeByDecision
    <3>2. made = {} \/ made = {Successor(k)}
      BY <3>1
    <3> HIDE DEF made
    <3>3. Cardinality(made) = 0 \/ Cardinality(made) = 1
      BY <3>2, FS_EmptySet, FS_Singleton
    <3> QED BY <3>3 DEF made
  <2>2. RetryOfCurrent
    <3> SUFFICES ASSUME NEW k \in RetryKeys, Exists(k), bnd[k].disp # "none"
                 PROVE  /\ att[Successor(k)] # NoAtt
                        /\ att[Successor(k)].gen = bnd[k].gen + 1 /\ att[Successor(k)].goal = bnd[k].goal
      BY DEF RetryOfCurrent, Successor
    <3>1. Begun(Successor(k)) /\ Successor(k) \in Attempts /\ att[Successor(k)].goal = bnd[k].goal
      BY DecisionsBegun DEF RetryInv, DecidedBySuccessor
    <3>2. Successor(k)[2] = bnd[k].at[2] + 1 /\ bnd[k].gen = bnd[k].at[2]
      BY DEF Successor, RetryInv, BoundariesCurrent
    <3>3. att[Successor(k)].gen = bnd[k].gen + 1
      BY <3>1, <3>2 DEF RetryInv, Numbered
    <3>4. NoAtt.worker = NoWorker
      BY DEF NoAtt
    <3> QED BY <3>1, <3>3, <3>4 DEF Begun
  <2>3. AnsweredAsApplied
    BY DEF RetryInv, ResultsApplied, Applied, AnsweredAsApplied
  <2> QED BY <2>1, <2>2, <2>3 DEF RetryInv, RetriedOnce
<1> QED BY <1>1, RetryInvariant, PTL

-----------------------------------------------------------------------------
(* EffectLedger: the inductive invariant.                                    *)

LedgerRows == [st : Unresolved \cup Resolved \cup {"none"}, kind : {"local", "external"},
         key : Keys, grant : Grants \cup {NoGrant}]
LedgerCalls == [op : Ops, to : Resolved \cup {"unknown"}, by : {"executor", "recover", "cao"}]

\* An operation whose command runs is unresolved; one that is not reserved has
\* done nothing and names no grant; an exit with 0 comes after the effect.
RunningIsOpen ==
    \A o \in Ops :
        /\ Running(o) => op[o].st \in Unresolved
        /\ op[o].st = "none" => proc[o] = "idle" /\ o \notin applied /\ op[o].grant = NoGrant
        /\ proc[o] = "zero" => o \in applied

\* What a call of resolve_effect read still holds when it writes.
PendingSound ==
    \A p \in pending :
        /\ op[p.op].st # "none"
        /\ p.to \in Resolved \/ p.by = "executor" => ~Running(p.op)
        /\ p.to = "succeeded" => p.op \in applied
        /\ p.to = "not_applied" => p.op \notin applied

\* A one-time grant that an operation names is not open any more, and no
\* second operation names it.
GrantSpent ==
    \A o \in Ops, g \in Grants \ Standing : op[o].grant = g =>
        /\ grant[g] \notin {"absent", "open"}
        /\ \A q \in Ops : op[q].grant = g => q = o

LedgerInv == /\ TypeOK /\ NoBlindRepeat /\ LedgerTruthful
             /\ RunningIsOpen /\ PendingSound /\ GrantSpent

-----------------------------------------------------------------------------
(* EffectLedger: its operations.                                             *)

\* An operation before it is reserved.
LEMMA NoOpRow == NoOp \in LedgerRows /\ NoOp.st = "none" /\ NoOp.grant = NoGrant
<1>1. (CHOOSE k \in Keys : TRUE) \in Keys
  BY LedgerConstants
<1> QED BY <1>1 DEF NoOp, LedgerRows

\* The empty ledger.
LEMMA LedgerInit == Init => LedgerInv
<1> SUFFICES ASSUME Init PROVE LedgerInv
  OBVIOUS
<1>1. \A o \in Ops : op[o] = NoOp /\ proc[o] = "idle"
  BY DEF Init
<1>2. op \in [Ops -> LedgerRows]
  BY NoOpRow DEF Init
<1>3. TypeOK
  BY <1>2 DEF Init, TypeOK, LedgerRows, ProcStates
<1>4. NoBlindRepeat /\ LedgerTruthful /\ RunningIsOpen
  BY <1>1, NoOpRow DEF Init, NoBlindRepeat, LedgerTruthful, RunningIsOpen, Running
<1>5. PendingSound
  BY DEF Init, PendingSound
<1>6. GrantSpent
  BY <1>1, NoOpRow, LedgerConstants DEF GrantSpent
<1> QED BY <1>3, <1>4, <1>5, <1>6 DEF LedgerInv

\* GrantEffect, RevokeGrant, ExpireGrant: a grant changes, and never becomes
\* open again.
LEMMA GrantStep ==
    ASSUME LedgerInv, NEW g \in Grants, GrantEffect(g) \/ RevokeGrant(g) \/ ExpireGrant(g)
    PROVE  LedgerInv'
<1>1. PICK s \in {"open", "revoked", "expired"} :
        /\ grant' = [grant EXCEPT ![g] = s]
        /\ s = "open" => grant[g] = "absent"
  BY DEF GrantEffect, RevokeGrant, ExpireGrant
<1>2. UNCHANGED <<op, proc, applied, scan, pending>>
  BY DEF GrantEffect, RevokeGrant, ExpireGrant
<1>3. TypeOK'
  BY <1>1, <1>2 DEF LedgerInv, TypeOK
<1>4. NoBlindRepeat' /\ LedgerTruthful' /\ RunningIsOpen' /\ PendingSound'
  BY <1>2 DEF LedgerInv, NoBlindRepeat, LedgerTruthful, RunningIsOpen, PendingSound, Running
<1>5. GrantSpent'
  BY <1>1, <1>2 DEF LedgerInv, TypeOK, GrantSpent
<1> QED BY <1>3, <1>4, <1>5 DEF LedgerInv

\* StartEffect: the key is settled, so no other command runs for it; a
\* one-time grant is used up by the row that names it.
LEMMA StartStep ==
    ASSUME LedgerInv, NEW o \in Ops, NEW kind \in {"local", "external"}, NEW k \in Keys,
           NEW g \in Grants \cup {NoGrant}, StartEffect(o, kind, k, g)
    PROVE  LedgerInv'
<1> DEFINE row == [st |-> "started", kind |-> kind, key |-> k, grant |-> g]
<1>1. /\ op[o].st = "none" /\ op' = [op EXCEPT ![o] = row]
      /\ proc' = [proc EXCEPT ![o] = "running"]
      /\ UNCHANGED <<applied, scan, pending>>
      /\ \A q \in Ops : op[q].key = k => op[q].st \notin Unresolved
      /\ op \in [Ops -> LedgerRows] /\ proc \in [Ops -> ProcStates]
  BY DEF StartEffect, MustVerify, LedgerInv, TypeOK, LedgerRows
<1>2. row \in LedgerRows /\ row.st = "started" /\ row.key = k /\ row.grant = g
  BY DEF LedgerRows, Unresolved
<1> HIDE DEF row
<1>3. /\ op'[o] = row /\ proc'[o] = "running" /\ o \notin applied
      /\ op[o].grant = NoGrant
      /\ \A q \in Ops \ {o} : op'[q] = op[q] /\ proc'[q] = proc[q]
  BY <1>1 DEF LedgerInv, RunningIsOpen
<1>4. g \in Grants => grant[g] = "open"
  BY LedgerConstants DEF StartEffect, Authority, Usable
<1>5. /\ g \in Grants \ Standing => grant' = [grant EXCEPT ![g] = "consumed"]
      /\ g \notin Grants \ Standing => grant' = grant
  BY DEF StartEffect, Spent
<1>6. TypeOK'
  <2>1. op' \in [Ops -> LedgerRows]
    BY <1>1, <1>2
  <2>2. proc' \in [Ops -> ProcStates]
    BY <1>1 DEF ProcStates
  <2>3. grant' \in [Grants -> {"absent", "open", "consumed", "expired", "revoked"}]
    BY <1>5 DEF LedgerInv, TypeOK
  <2> QED BY <1>1, <2>1, <2>2, <2>3 DEF LedgerInv, TypeOK, LedgerRows
<1>7. NoBlindRepeat'
  <2>1. \A q \in Ops \ {o} : op[q].key = k => ~Running(q)
    BY <1>1 DEF LedgerInv, RunningIsOpen
  <2>2. \A q \in Ops \ {o} : Running(q)' <=> Running(q)
    BY <1>3 DEF Running
  <2> QED BY <1>2, <1>3, <2>1, <2>2 DEF LedgerInv, NoBlindRepeat
<1>8. LedgerTruthful'
  BY <1>1, <1>2, <1>3 DEF LedgerInv, LedgerTruthful
<1>9. RunningIsOpen'
  BY <1>1, <1>2, <1>3 DEF LedgerInv, RunningIsOpen, Running, Unresolved
<1>10. PendingSound'
  <2>1. \A p \in pending : p.op \in Ops \ {o}
    BY <1>1 DEF LedgerInv, TypeOK, PendingSound
  <2> QED BY <1>1, <1>3, <2>1 DEF LedgerInv, PendingSound, Running
<1>11. GrantSpent'
  <2> SUFFICES ASSUME NEW q \in Ops, NEW h \in Grants \ Standing, op'[q].grant = h
               PROVE  /\ grant'[h] \notin {"absent", "open"}
                      /\ \A r \in Ops : op'[r].grant = h => r = q
    BY DEF GrantSpent
  <2>1. CASE h = g
    <3>1. grant'[h] = "consumed"
      BY <1>5, <2>1 DEF LedgerInv, TypeOK
    <3>2. \A r \in Ops : op[r].grant # h
      BY <1>4, <2>1 DEF LedgerInv, GrantSpent
    <3> QED BY <1>3, <3>1, <3>2
  <2>2. CASE h # g
    <3>1. grant'[h] = grant[h]
      BY <1>5, <2>2 DEF LedgerInv, TypeOK
    <3>2. \A r \in Ops : op'[r].grant = h => op[r].grant = h
      BY <1>2, <1>3, <2>2
    <3> QED BY <3>1, <3>2 DEF LedgerInv, GrantSpent
  <2> QED BY <2>1, <2>2
<1> QED BY <1>6, <1>7, <1>8, <1>9, <1>10, <1>11 DEF LedgerInv

\* TakesEffect: only an unresolved operation can still take effect, and no
\* pending call claims it did not.
LEMMA TakesEffectStep == ASSUME LedgerInv, NEW o \in Ops, TakesEffect(o) PROVE LedgerInv'
<1>1. /\ Running(o) /\ applied' = applied \cup {o} /\ UNCHANGED <<op, grant, proc, scan, pending>>
      /\ op[o].st \in Unresolved
  BY DEF TakesEffect, LedgerInv, RunningIsOpen
<1>2. TypeOK'
  BY <1>1 DEF LedgerInv, TypeOK
<1>3. NoBlindRepeat' /\ GrantSpent'
  BY <1>1 DEF LedgerInv, NoBlindRepeat, GrantSpent, Running
<1>4. LedgerTruthful'
  BY <1>1 DEF LedgerInv, LedgerTruthful, Unresolved
<1>5. RunningIsOpen'
  BY <1>1 DEF LedgerInv, RunningIsOpen, Running, Unresolved
<1>6. PendingSound'
  BY <1>1 DEF LedgerInv, PendingSound, Running, Resolved
<1> QED BY <1>2, <1>3, <1>4, <1>5, <1>6 DEF LedgerInv

\* A process that ends, or loses its executor, while no call is added: no
\* command starts by it.
LEMMA ProcessStep ==
    ASSUME LedgerInv, NEW o \in Ops, NEW s \in ProcStates, proc' = [proc EXCEPT ![o] = s],
           proc[o] # "idle", s # "idle", s \in {"running", "orphan"} => Running(o),
           s = "zero" => o \in applied,
           pending' \subseteq pending, UNCHANGED <<op, grant, applied, scan>>
    PROVE  LedgerInv'
<1>1. proc'[o] = s /\ (\A q \in Ops \ {o} : proc'[q] = proc[q]) /\ proc' \in [Ops -> ProcStates]
  BY DEF LedgerInv, TypeOK
<1>2. \A q \in Ops : Running(q)' => Running(q)
  BY <1>1 DEF Running
<1>3. TypeOK'
  BY <1>1 DEF LedgerInv, TypeOK
<1>4. NoBlindRepeat' /\ GrantSpent' /\ LedgerTruthful'
  BY <1>2 DEF LedgerInv, NoBlindRepeat, GrantSpent, LedgerTruthful
<1>5. RunningIsOpen'
  BY <1>1, <1>2 DEF LedgerInv, RunningIsOpen
<1>6. PendingSound'
  BY <1>2 DEF LedgerInv, TypeOK, PendingSound
<1> QED BY <1>3, <1>4, <1>5, <1>6 DEF LedgerInv

\* CommandEnds, ExecutorDies
LEMMA EndingStep ==
    ASSUME LedgerInv, NEW o \in Ops, CommandEnds(o) \/ ExecutorDies(o) PROVE LedgerInv'
<1>1. CASE CommandEnds(o)
  <2>1. PICK s \in {"zero", "nonzero", "killed", "gone"} :
          proc' = [proc EXCEPT ![o] = s] /\ (s = "zero" => o \in applied)
    BY <1>1 DEF CommandEnds
  <2>2. proc[o] # "idle" /\ UNCHANGED <<op, grant, applied, scan, pending>>
    BY <1>1 DEF CommandEnds
  <2> QED BY <2>1, <2>2, ProcessStep DEF ProcStates
<1>2. CASE ExecutorDies(o)
  <2>1. PICK s \in {"orphan", "gone"} :
          proc' = [proc EXCEPT ![o] = s] /\ (s = "orphan" => Running(o))
    BY <1>2 DEF ExecutorDies, Running
  <2>2. proc[o] # "idle" /\ UNCHANGED <<op, grant, applied, scan>> /\ pending' \subseteq pending
    BY <1>2 DEF ExecutorDies
  <2> QED BY <2>1, <2>2, ProcessStep DEF ProcStates
<1> QED BY <1>1, <1>2

\* A call of resolve_effect that has read: what it is going to write is true.
LEMMA CheckStep ==
    ASSUME LedgerInv, NEW p \in LedgerCalls, pending' = pending \cup {p}, scan' \subseteq Ops,
           op[p.op].st # "none",
           p.to \in Resolved \/ p.by = "executor" => ~Running(p.op),
           p.to = "succeeded" => p.op \in applied,
           p.to = "not_applied" => p.op \notin applied,
           UNCHANGED <<op, grant, proc, applied>>
    PROVE  LedgerInv'
<1>1. TypeOK'
  BY DEF LedgerInv, TypeOK, LedgerCalls
<1>2. NoBlindRepeat' /\ GrantSpent' /\ LedgerTruthful' /\ RunningIsOpen'
  BY DEF LedgerInv, NoBlindRepeat, GrantSpent, LedgerTruthful, RunningIsOpen, Running
<1>3. PendingSound'
  BY DEF LedgerInv, PendingSound, Running
<1> QED BY <1>1, <1>2, <1>3 DEF LedgerInv

\* ExecutorReports, RecoverIncomplete, RecoverNext, CaoVerifies
LEMMA ReadStep ==
    ASSUME LedgerInv,
           \/ RecoverIncomplete
           \/ \E o \in Ops : ExecutorReports(o) \/ RecoverNext(o) \/ CaoVerifies(o)
    PROVE  LedgerInv'
<1>1. CASE pending' = pending /\ scan' \subseteq Ops /\ UNCHANGED <<op, grant, proc, applied>>
  <2>1. TypeOK'
    BY <1>1 DEF LedgerInv, TypeOK
  <2>2. NoBlindRepeat' /\ GrantSpent' /\ LedgerTruthful' /\ RunningIsOpen' /\ PendingSound'
    BY <1>1 DEF LedgerInv, NoBlindRepeat, GrantSpent, LedgerTruthful, RunningIsOpen,
       PendingSound, Running
  <2> QED BY <2>1, <2>2 DEF LedgerInv
<1>2. ASSUME NEW o \in Ops, ExecutorReports(o) PROVE LedgerInv'
  <2> DEFINE p == [op |-> o, to |-> Outcome(proc[o]), by |-> "executor"]
  <2>1. proc[o] \in {"zero", "nonzero", "killed"} /\ op[o].st \in Unresolved
    BY <1>2 DEF ExecutorReports, CheckResolve
  <2>2. Outcome(proc[o]) \in Resolved \cup {"unknown"} /\ Outcome(proc[o]) # "not_applied"
        /\ (Outcome(proc[o]) = "succeeded" => proc[o] = "zero")
    BY <2>1 DEF Outcome, Resolved
  <2>3. p \in LedgerCalls /\ p.op = o /\ p.to = Outcome(proc[o]) /\ pending' = pending \cup {p}
    BY <1>2, <2>2 DEF ExecutorReports, CheckResolve, LedgerCalls
  <2>4. UNCHANGED <<op, grant, proc, applied, scan>> /\ scan \subseteq Ops
    BY <1>2 DEF ExecutorReports, LedgerInv, TypeOK
  <2>5. ~Running(o) /\ op[o].st # "none" /\ (proc[o] = "zero" => o \in applied)
    BY <2>1 DEF Running, LedgerInv, RunningIsOpen, Unresolved
  <2> HIDE DEF p
  <2> QED BY <2>2, <2>3, <2>4, <2>5, CheckStep
<1>3. ASSUME NEW o \in Ops, RecoverNext(o) PROVE LedgerInv'
  <2>1. CASE op[o].st \in Unresolved /\ pending' = pending \cup {[op |-> o, to |-> "unknown", by |-> "recover"]}
    <3> DEFINE p == [op |-> o, to |-> "unknown", by |-> "recover"]
    <3>1. p \in LedgerCalls /\ p.op = o /\ p.to = "unknown" /\ p.by = "recover" /\ pending' = pending \cup {p}
      BY <2>1 DEF LedgerCalls
    <3>2. scan' \subseteq Ops /\ UNCHANGED <<op, grant, proc, applied>>
      BY <1>3 DEF RecoverNext, LedgerInv, TypeOK
    <3>3. op[o].st # "none" /\ "unknown" \notin Resolved
      BY <2>1 DEF Unresolved, Resolved
    <3> HIDE DEF p
    <3> QED BY <3>1, <3>2, <3>3, CheckStep
  <2>2. CASE pending' = pending
    BY <1>1, <1>3, <2>2 DEF RecoverNext, LedgerInv, TypeOK
  <2> QED BY <1>3, <2>1, <2>2 DEF RecoverNext, CheckResolve
<1>4. ASSUME NEW o \in Ops, CaoVerifies(o) PROVE LedgerInv'
  <2> DEFINE t == IF o \in applied THEN "succeeded" ELSE "not_applied"
  <2> DEFINE p == [op |-> o, to |-> t, by |-> "cao"]
  <2>1. p \in LedgerCalls /\ p.op = o /\ p.to = t /\ p.by = "cao" /\ pending' = pending \cup {p}
    BY <1>4 DEF CaoVerifies, CheckResolve, LedgerCalls, Resolved
  <2>2. UNCHANGED <<op, grant, proc, applied, scan>> /\ scan \subseteq Ops /\ ~Running(o) /\ op[o].st # "none"
    BY <1>4 DEF CaoVerifies, LedgerInv, TypeOK
  <2>3. t = "succeeded" => o \in applied
    OBVIOUS
  <2>4. t = "not_applied" => o \notin applied
    OBVIOUS
  <2> HIDE DEF p, t
  <2> QED BY <2>1, <2>2, <2>3, <2>4, CheckStep
<1>5. CASE RecoverIncomplete
  BY <1>1, <1>5 DEF RecoverIncomplete
<1> QED BY <1>2, <1>3, <1>4, <1>5

\* WriteResolve: the unconditional write of a call of resolve_effect.
LEMMA WriteStep == ASSUME LedgerInv, NEW p \in pending, WriteResolve(p) PROVE LedgerInv'
<1> DEFINE o == p.op
<1>1. /\ o \in Ops /\ p.to \in Resolved \cup {"unknown"} /\ op[o].st # "none"
      /\ p.to \in Resolved \/ p.by = "executor" => ~Running(o)
      /\ p.to = "succeeded" => o \in applied
      /\ p.to = "not_applied" => o \notin applied
  BY DEF LedgerInv, TypeOK, PendingSound
<1>2. op \in [Ops -> LedgerRows] /\ op[o] \in LedgerRows /\ proc \in [Ops -> ProcStates]
  BY <1>1 DEF LedgerInv, TypeOK, LedgerRows
<1>3. PICK s \in {op[o].st, p.to} : op' = [op EXCEPT ![o] = [op[o] EXCEPT !.st = s]]
  <2>1. CASE op' = [op EXCEPT ![o].st = p.to]
    BY <2>1
  <2>2. CASE op' = op
    <3>1. [op[o] EXCEPT !.st = op[o].st] = op[o]
      BY <1>2 DEF LedgerRows
    <3>2. [op EXCEPT ![o] = op[o]] = op
      BY <1>2
    <3> QED BY <2>2, <3>1, <3>2
  <2> QED BY <2>1, <2>2 DEF WriteResolve
<1>4. /\ op'[o] = [op[o] EXCEPT !.st = s] /\ \A q \in Ops \ {o} : op'[q] = op[q]
      /\ op'[o].st = s /\ op'[o].key = op[o].key /\ op'[o].grant = op[o].grant
      /\ op'[o] \in LedgerRows /\ op' \in [Ops -> LedgerRows]
  <2>1. [op[o] EXCEPT !.st = s] \in LedgerRows
    BY <1>1, <1>2, <1>3 DEF LedgerRows, Unresolved
  <2>2. op' \in [Ops -> LedgerRows] /\ op'[o] = [op[o] EXCEPT !.st = s] /\ \A q \in Ops \ {o} : op'[q] = op[q]
    BY <1>1, <1>2, <1>3, <2>1
  <2> QED BY <1>2, <2>1, <2>2 DEF LedgerRows
<1>5. /\ pending' \subseteq pending /\ UNCHANGED <<grant, applied, scan>>
      /\ proc' \in [Ops -> ProcStates]
      /\ \A q \in Ops : (proc'[q] = "gone" /\ q = o) \/ proc'[q] = proc[q]
  BY <1>1, <1>2 DEF WriteResolve, ProcStates
<1>6. s # "none" /\ \A q \in Ops : op'[q].st = "none" <=> op[q].st = "none"
  BY <1>1, <1>3, <1>4 DEF Resolved
<1> HIDE DEF o
<1>7. \A q \in Ops : Running(q)' => Running(q)
  BY <1>5 DEF Running
<1>8. TypeOK'
  BY <1>4, <1>5 DEF LedgerInv, TypeOK, LedgerRows
<1>9. \A q \in Ops : op'[q].key = op[q].key /\ op'[q].grant = op[q].grant
  BY <1>4
<1>10. NoBlindRepeat'
  BY <1>7, <1>9 DEF LedgerInv, NoBlindRepeat
<1>11. LedgerTruthful'
  <2>1. (s = "succeeded" => o \in applied) /\ (s = "not_applied" => o \notin applied)
    BY <1>1, <1>3 DEF LedgerInv, LedgerTruthful
  <2> QED BY <1>4, <1>5, <2>1 DEF LedgerInv, LedgerTruthful
<1>12. RunningIsOpen'
  <2>1. Running(o) => s \in Unresolved
    BY <1>1, <1>3 DEF LedgerInv, RunningIsOpen, Unresolved
  <2>2. \A q \in Ops : Running(q)' => op'[q].st \in Unresolved
    BY <1>4, <1>7, <2>1 DEF LedgerInv, RunningIsOpen
  <2>3. \A q \in Ops : op'[q].st = "none" =>
          proc'[q] = "idle" /\ q \notin applied' /\ op'[q].grant = NoGrant
    BY <1>1, <1>5, <1>6, <1>9 DEF LedgerInv, RunningIsOpen
  <2>4. \A q \in Ops : proc'[q] = "zero" => q \in applied'
    BY <1>5 DEF LedgerInv, RunningIsOpen
  <2> QED BY <2>2, <2>3, <2>4 DEF RunningIsOpen
<1>13. PendingSound'
  BY <1>5, <1>6, <1>7 DEF LedgerInv, TypeOK, PendingSound
<1>14. GrantSpent'
  BY <1>5, <1>9 DEF LedgerInv, GrantSpent
<1> QED BY <1>8, <1>10, <1>11, <1>12, <1>13, <1>14 DEF LedgerInv

\* Every step keeps the invariant.
LEMMA LedgerNext == ASSUME LedgerInv, [Next]_vars PROVE LedgerInv'
<1>1. CASE UNCHANGED vars
  BY <1>1 DEF vars, LedgerInv, TypeOK, NoBlindRepeat, LedgerTruthful, RunningIsOpen,
     PendingSound, GrantSpent, Running
<1>2. CASE Next
  BY <1>2, GrantStep, StartStep, TakesEffectStep, EndingStep, ReadStep, WriteStep DEF Next
<1> QED BY <1>1, <1>2

\* The inductive invariant of the ledger.
THEOREM LedgerInvariant == Spec => []LedgerInv
<1>1. Init => LedgerInv
  BY LedgerInit
<1>2. LedgerInv /\ [Next]_vars => LedgerInv'
  BY LedgerNext
<1> QED BY <1>1, <1>2, PTL DEF Spec

\* A set with at most one element.
LEMMA AtMostOne ==
    ASSUME NEW S, \A x, y \in S : x = y
    PROVE  Cardinality(S) <= 1
<1>1. CASE S = {}
  BY <1>1, FS_EmptySet
<1>2. CASE S # {}
  <2>1. PICK x \in S : S = {x}
    BY <1>2
  <2> QED BY <2>1, FS_Singleton
<1> QED BY <1>1, <1>2

\* Each one-time grant authorises one reservation.
LEMMA GrantUsedOnce == GrantSpent => OneTimeGrant
<1> SUFFICES ASSUME GrantSpent, NEW g \in Grants \ Standing
             PROVE  Cardinality({o \in Ops : op[o].grant = g}) <= 1
  BY DEF OneTimeGrant
<1>1. \A x, y \in {o \in Ops : op[o].grant = g} : x = y
  BY DEF GrantSpent
<1> QED BY <1>1, AtMostOne

\* No effect of unknown outcome is started again unverified, a one-time grant
\* starts one command, and a recorded outcome is what the command did: for any
\* number of operations, keys and grants, whenever executors die and
\* `effect recover` or a CAO writes what it read earlier.
THEOREM EffectsAreAccounted == Spec => []EffectsAccounted
<1>1. LedgerInv => EffectsAccounted
  BY GrantUsedOnce DEF LedgerInv, EffectsAccounted
<1> QED BY <1>1, LedgerInvariant, PTL

-----------------------------------------------------------------------------
(* EffectLedger: it implements EffectGuard.                                  *)

\* The guard of every key, as a value.
GuardNow == [k \in Keys |-> GuardOf(k)]

\* No key has been used.
LEMMA GuardInit == Init => Guard!Init
<1> SUFFICES ASSUME Init PROVE Guard!Init
  OBVIOUS
<1>1. \A o \in Ops : op[o].st = "none" /\ ~Running(o)
  BY NoOpRow DEF Init, Running
<1>2. \A k \in Keys : GuardOf(k) = "free"
  BY <1>1 DEF GuardOf, CommandRuns, MustVerify, Unresolved
<1> QED BY <1>2 DEF Guard!Init

\* A step after which every key is guarded as before.
LEMMA GuardKept ==
    ASSUME \A k \in Keys : GuardOf(k)' = GuardOf(k)
    PROVE  GuardNow' = GuardNow
BY DEF GuardNow

\* A step that leaves the operations' keys and states, and which commands run.
LEMMA SameGuards ==
    ASSUME UNCHANGED op, \A o \in Ops : Running(o)' <=> Running(o)
    PROVE  GuardNow' = GuardNow
<1>1. \A k \in Keys : GuardOf(k)' = GuardOf(k)
  BY DEF GuardOf, CommandRuns, MustVerify
<1> QED BY <1>1, GuardKept

\* A step that changes the guard of one key only.
LEMMA OneGuard ==
    ASSUME NEW k \in Keys, NEW v, GuardOf(k)' = v, \A j \in Keys \ {k} : GuardOf(j)' = GuardOf(j)
    PROVE  GuardNow' = [GuardNow EXCEPT ![k] = v]
BY DEF GuardNow

\* StartEffect is the Start of its key.
LEMMA StartRefines ==
    ASSUME LedgerInv, NEW o \in Ops, NEW kind \in {"local", "external"}, NEW k \in Keys,
           NEW g \in Grants \cup {NoGrant}, StartEffect(o, kind, k, g)
    PROVE  Guard!Start(k)
<1> DEFINE row == [st |-> "started", kind |-> kind, key |-> k, grant |-> g]
<1>1. /\ op[o].st = "none" /\ op' = [op EXCEPT ![o] = row]
      /\ proc' = [proc EXCEPT ![o] = "running"] /\ ~MustVerify(k)
      /\ op \in [Ops -> LedgerRows] /\ proc \in [Ops -> ProcStates]
  BY DEF StartEffect, LedgerInv, TypeOK, LedgerRows
<1>2. row.st = "started" /\ row.key = k
  OBVIOUS
<1> HIDE DEF row
<1>3. /\ op'[o] = row /\ Running(o)' /\ ~Running(o)
      /\ \A q \in Ops \ {o} : op'[q] = op[q] /\ (Running(q)' <=> Running(q))
  BY <1>1 DEF LedgerInv, RunningIsOpen, Running, Unresolved
<1>4. ~CommandRuns(k)
  BY <1>1 DEF LedgerInv, RunningIsOpen, CommandRuns, MustVerify
<1>5. GuardOf(k) = "free"
  BY <1>1, <1>4 DEF GuardOf
<1>6. GuardOf(k)' = "running"
  BY <1>2, <1>3 DEF GuardOf, CommandRuns
<1>7. ASSUME NEW j \in Keys \ {k} PROVE GuardOf(j)' = GuardOf(j)
  <2>1. CommandRuns(j)' <=> CommandRuns(j)
    BY <1>2, <1>3 DEF CommandRuns
  <2>2. MustVerify(j)' <=> MustVerify(j)
    BY <1>1, <1>2, <1>3 DEF MustVerify, Unresolved
  <2> QED BY <2>1, <2>2 DEF GuardOf
<1>8. GuardNow' = [GuardNow EXCEPT ![k] = "running"] /\ GuardNow[k] = "free"
  BY <1>5, <1>6, <1>7, OneGuard DEF GuardNow
<1> QED BY <1>8 DEF Guard!Start, GuardNow

\* The end of the command of an operation is the End of its key: it was the
\* only command of that key, and its outcome is open.
LEMMA EndRefines ==
    ASSUME LedgerInv, NEW o \in Ops, CommandEnds(o)
    PROVE  \E k \in Keys : Guard!End(k)
<1>0. PICK k \in Keys : k = op[o].key
  BY DEF LedgerInv, TypeOK
<1>1. Running(o) /\ op[o].st \in Unresolved /\ op' = op
  BY DEF CommandEnds, LedgerInv, RunningIsOpen, Running
<1>2. PICK s \in {"zero", "nonzero", "killed", "gone"} : proc' = [proc EXCEPT ![o] = s]
  BY DEF CommandEnds
<1>3. ~Running(o)' /\ \A q \in Ops \ {o} : Running(q)' <=> Running(q)
  BY <1>2 DEF LedgerInv, TypeOK, Running
<1>4. \A q \in Ops \ {o} : op[q].key = k => ~Running(q)
  BY <1>0, <1>1 DEF LedgerInv, NoBlindRepeat
<1>5. GuardOf(k) = "running"
  BY <1>0, <1>1 DEF GuardOf, CommandRuns
<1>6. GuardOf(k)' = "doubt"
  <2>1. ~CommandRuns(k)'
    BY <1>1, <1>3, <1>4 DEF CommandRuns
  <2>2. MustVerify(k)'
    BY <1>0, <1>1 DEF MustVerify
  <2> QED BY <2>1, <2>2 DEF GuardOf
<1>7. ASSUME NEW j \in Keys \ {k} PROVE GuardOf(j)' = GuardOf(j)
  <2>1. CommandRuns(j)' <=> CommandRuns(j)
    BY <1>0, <1>1, <1>3 DEF CommandRuns
  <2>2. MustVerify(j)' <=> MustVerify(j)
    BY <1>1 DEF MustVerify
  <2> QED BY <2>1, <2>2 DEF GuardOf
<1>8. GuardNow' = [GuardNow EXCEPT ![k] = "doubt"] /\ GuardNow[k] = "running"
  BY <1>5, <1>6, <1>7, OneGuard DEF GuardNow
<1> QED BY <1>8 DEF Guard!End, GuardNow

\* The write of a call of resolve_effect settles its key, brings it into doubt
\* again, or changes nothing about it; no command ends or starts by it.
LEMMA WriteRefines ==
    ASSUME LedgerInv, NEW p \in pending, WriteResolve(p)
    PROVE  GuardNow' = GuardNow \/ \E k \in Keys : Guard!Settle(k) \/ Guard!Doubt(k)
<1> DEFINE o == p.op
<1>1. o \in Ops /\ op \in [Ops -> LedgerRows] /\ op[o] \in LedgerRows
  BY DEF LedgerInv, TypeOK, LedgerRows
<1>2. p.by = "executor" => ~Running(o)
  BY DEF LedgerInv, PendingSound
<1>3. \A q \in Ops : Running(q)' <=> Running(q)
  <2>1. \A q \in Ops : proc'[q] = proc[q] \/ (q = o /\ p.by = "executor" /\ proc'[q] = "gone")
    BY <1>1 DEF WriteResolve, LedgerInv, TypeOK
  <2> QED BY <1>2, <2>1 DEF Running
<1>4. /\ \A q \in Ops : op'[q].key = op[q].key
      /\ \A q \in Ops \ {o} : op'[q] = op[q]
  <2>1. CASE op' = op
    BY <2>1
  <2>2. CASE op' = [op EXCEPT ![o] = [op[o] EXCEPT !.st = p.to]]
    <3>1. [op[o] EXCEPT !.st = p.to].key = op[o].key
      BY <1>1 DEF LedgerRows
    <3>2. op'[o] = [op[o] EXCEPT !.st = p.to] /\ \A q \in Ops \ {o} : op'[q] = op[q]
      BY <1>1, <2>2
    <3> QED BY <3>1, <3>2
  <2> QED BY <2>1, <2>2 DEF WriteResolve
<1>5. PICK k \in Keys : k = op[o].key
  BY <1>1 DEF LedgerRows
<1> HIDE DEF o
<1>6. \A j \in Keys : CommandRuns(j)' <=> CommandRuns(j)
  BY <1>3, <1>4 DEF CommandRuns
<1>7. ASSUME NEW j \in Keys \ {k} PROVE GuardOf(j)' = GuardOf(j)
  <2>1. MustVerify(j)' <=> MustVerify(j)
    BY <1>1, <1>4, <1>5 DEF MustVerify
  <2> QED BY <1>6, <2>1 DEF GuardOf
<1>8. CASE GuardOf(k)' = GuardOf(k)
  BY <1>7, <1>8, GuardKept
<1>9. CASE GuardOf(k)' # GuardOf(k)
  <2>1. ~CommandRuns(k) /\ ~CommandRuns(k)'
    BY <1>5, <1>6, <1>9 DEF GuardOf
  <2>2. \/ GuardOf(k) = "free" /\ GuardOf(k)' = "doubt"
        \/ GuardOf(k) = "doubt" /\ GuardOf(k)' = "free"
    BY <1>9, <2>1 DEF GuardOf
  <2>3. GuardNow' = [GuardNow EXCEPT ![k] = GuardOf(k)'] /\ GuardNow[k] = GuardOf(k)
    BY <1>5, <1>7, OneGuard DEF GuardNow
  <2> QED BY <1>5, <2>2, <2>3 DEF Guard!Settle, Guard!Doubt, GuardNow
<1> QED BY <1>8, <1>9

\* Every step of the ledger is a step of EffectGuard, or changes no guard.
LEMMA GuardStep == ASSUME LedgerInv, [Next]_vars PROVE [Guard!Next]_GuardNow
<1>1. CASE UNCHANGED vars
  BY <1>1, SameGuards DEF vars, Running
<1>2. ASSUME NEW g \in Grants, GrantEffect(g) \/ RevokeGrant(g) \/ ExpireGrant(g)
      PROVE  GuardNow' = GuardNow
  BY <1>2, SameGuards DEF GrantEffect, RevokeGrant, ExpireGrant, Running
<1>3. ASSUME NEW o \in Ops, NEW kind \in {"local", "external"}, NEW k \in Keys,
             NEW g \in Grants \cup {NoGrant}, StartEffect(o, kind, k, g)
      PROVE  Guard!Next
  BY <1>3, StartRefines DEF Guard!Next
<1>4. ASSUME NEW o \in Ops, TakesEffect(o) \/ ExecutorReports(o) \/ RecoverNext(o) \/ CaoVerifies(o)
      PROVE  GuardNow' = GuardNow
  BY <1>4, SameGuards DEF TakesEffect, ExecutorReports, RecoverNext, CaoVerifies, Running
<1>5. ASSUME NEW o \in Ops, CommandEnds(o) PROVE Guard!Next
  BY <1>5, EndRefines DEF Guard!Next
<1>6. ASSUME NEW o \in Ops, ExecutorDies(o) PROVE GuardNow' = GuardNow
  <2>1. \A q \in Ops : Running(q)' <=> Running(q)
    BY <1>6 DEF ExecutorDies, LedgerInv, TypeOK, Running
  <2> QED BY <1>6, <2>1, SameGuards DEF ExecutorDies
<1>7. CASE RecoverIncomplete
  BY <1>7, SameGuards DEF RecoverIncomplete, Running
<1>8. ASSUME NEW p \in pending, WriteResolve(p) PROVE [Guard!Next]_GuardNow
  BY <1>8, WriteRefines DEF Guard!Next
<1> QED BY <1>1, <1>2, <1>3, <1>4, <1>5, <1>6, <1>7, <1>8 DEF Next

\* A command for a key only ever starts when the key's last outcome is settled
\* (effects.py): the ledger, with its executors that die and its recovery that
\* writes late, implements the guard per key that EffectGuard describes.
THEOREM LedgerIsAGuard == Spec => ImplementsGuard
<1>1. Init => Guard!Init
  BY GuardInit
<1>2. LedgerInv /\ [Next]_vars => [Guard!Next]_GuardNow
  BY GuardStep
<1> QED BY <1>1, <1>2, LedgerInvariant, PTL DEF Spec, ImplementsGuard, Guard!Spec, GuardNow
=============================================================================
