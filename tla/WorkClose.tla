------------------------------ MODULE WorkClose ------------------------------
(***************************************************************************)
(* Closing one accepted Work: the runtime is stopped, the inventory of     *)
(* owner-private resources is frozen (close_inventory_edge.py), artifacts  *)
(* are preserved (artifact_preservation_edge.py), the reserved removals    *)
(* run outside the database and are recorded, and the close receipt is     *)
(* written (service.py).  The process may die between any two of these.    *)
(***************************************************************************)
EXTENDS Integers, FiniteSets

CONSTANTS
    Targets,       \* registered resources of the Work
    Workspace,     \* the linked worktree among them: removed with its branch
    Calls,         \* concurrent execute_prepared_cleanup calls
    MaxFaults,     \* bound: crashes, foreign changes and reattachments
    Topics,        \* bound: which independent events a run includes
    None

\* What the constants may be.
CloseConstants == Workspace \in Targets /\ MaxFaults \in Nat
                  /\ Topics \subseteq {"legacy", "direct", "foreign", "reattach"}
                  /\ None \notin [Targets -> {"succeeded", "not_applied"}]
ASSUME CloseAssumption == CloseConstants

VARIABLES
    usage,      \* live: runtime runs; shared: so does another Work on it; open: deliveries
    attachment, \* generation of the CAO's attachment
    registry,   \* resources adopted by the Work
    prep,       \* the close preparation
    kept,       \* the final artifact: staged at report time or still a file, and sealed
    grants,     \* resources with an unconsumed destructive grant
    effect,     \* the cleanup effect operation of each resource
    disk,       \* what is on disk, and whether it is still what was registered
    call,       \* the cleanup executions under way
    receipt,    \* the close receipt: the outcomes it states, or None
    faults

closing == <<usage, attachment, registry, prep, kept, grants, effect, disk, call, receipt, faults>>

NoPrep == [sealed |-> FALSE, gen |-> 0, reserved |-> FALSE, executed |-> FALSE]
IdleCall == [st |-> "idle", left |-> {}]
Final == {"succeeded", "not_applied"}

Preparation == [sealed : BOOLEAN, gen : 0 .. MaxFaults + 1, reserved : BOOLEAN, executed : BOOLEAN]
Effects == {"none", "started", "unknown", "failed"} \cup Final

\* The rows of a close: a preparation of an existing generation, its reservation and its end in that
\* order, and a receipt of final outcomes.
CloseTypeOK ==
    /\ usage \in [live : BOOLEAN, shared : BOOLEAN, open : BOOLEAN]
    /\ faults \in 0 .. MaxFaults /\ attachment \in 1 .. faults + 1 /\ registry \subseteq Targets
    /\ prep \in Preparation /\ prep.gen <= attachment
    /\ prep.reserved => prep.sealed
    /\ prep.executed => prep.reserved
    /\ kept \in [staged : BOOLEAN, sealed : BOOLEAN] /\ grants \subseteq Targets
    /\ effect \in [Targets -> Effects]
    /\ disk \in [Targets -> [st : {"present", "half", "gone"}, same : BOOLEAN]]
    /\ \A t \in Targets : disk[t].st = "half" => t = Workspace
    /\ call \in [Calls -> [st : {"idle", "reserved", "removing", "recording"}, left : SUBSET Targets]]
    /\ receipt \in {None} \cup [Targets -> Final]

CloseInit ==
    /\ usage = [live |-> TRUE, shared |-> TRUE, open |-> TRUE] /\ attachment = 1
    /\ registry = {} /\ prep = NoPrep /\ grants = {}
    /\ \E file \in {FALSE, "legacy" \in Topics} : kept = [staged |-> ~file, sealed |-> FALSE]
    /\ effect = [t \in Targets |-> "none"]
    /\ disk = [t \in Targets |-> [st |-> "present", same |-> TRUE]]
    /\ call = [c \in Calls |-> IdleCall] /\ receipt = None /\ faults = 0

-----------------------------------------------------------------------------
(* Before the close *)

\* adopt_managed_work: at launch, all or nothing, and again at every launch.
AdoptManagedWork ==
    /\ usage.live /\ registry = {}
    /\ registry' = Targets
    /\ UNCHANGED <<usage, attachment, prep, kept, grants, effect, disk, call, receipt, faults>>

SharedWorkEnds ==
    /\ usage.shared
    /\ usage' = [usage EXCEPT !.shared = FALSE]
    /\ UNCHANGED <<attachment, registry, prep, kept, grants, effect, disk, call, receipt, faults>>

DeliveriesSettle ==
    /\ usage.open
    /\ usage' = [usage EXCEPT !.open = FALSE]
    /\ UNCHANGED <<attachment, registry, prep, kept, grants, effect, disk, call, receipt, faults>>

\* stop_work_runtime: never a runtime another active Work is on.
StopWorkRuntime ==
    /\ usage.live /\ ~usage.shared /\ registry # {}
    /\ usage' = [usage EXCEPT !.live = FALSE]
    /\ UNCHANGED <<attachment, registry, prep, kept, grants, effect, disk, call, receipt, faults>>

\* A new generation of the same conversation; its preparation stays its own.
Reattach ==
    /\ "reattach" \in Topics /\ faults < MaxFaults
    /\ attachment' = attachment + 1 /\ faults' = faults + 1
    /\ UNCHANGED <<usage, registry, prep, kept, grants, effect, disk, call, receipt>>

GrantCleanup(t) ==
    /\ t \notin grants /\ prep.sealed /\ effect[t] = "none"
    /\ grants' = grants \cup {t}
    /\ UNCHANGED <<usage, attachment, registry, prep, kept, effect, disk, call, receipt, faults>>

\* The directory is replaced, or the branch moves: not what was registered.
ForeignChange(t) ==
    /\ "foreign" \in Topics /\ faults < MaxFaults /\ disk[t] = [st |-> "present", same |-> TRUE]
    /\ disk' = [disk EXCEPT ![t].same = FALSE] /\ faults' = faults + 1
    /\ UNCHANGED <<usage, attachment, registry, prep, kept, grants, effect, call, receipt>>

-----------------------------------------------------------------------------
(* Preparation *)

\* _revalidate_private_record
Revalidates(t) == disk[t] = [st |-> "present", same |-> TRUE]

\* prepare: every category is covered, and what is enumerated is still there.
Freezable == registry = Targets /\ \A t \in registry : Revalidates(t)

\* prepare_work_close: one preparation for the generation, of a complete registry.
PrepareWorkClose ==
    /\ ~prep.sealed /\ ~usage.open /\ Freezable
    /\ prep' = [prep EXCEPT !.sealed = TRUE, !.gen = attachment]
    /\ UNCHANGED <<usage, attachment, registry, kept, grants, effect, disk, call, receipt, faults>>

\* start_effect with a cleanup target of the preparation.
StartCleanupEffect(t) ==
    /\ "direct" \in Topics /\ prep.sealed /\ t \in grants /\ effect[t] = "none"
    /\ effect' = [effect EXCEPT ![t] = "started"]
    /\ grants' = grants \ {t}
    /\ UNCHANGED <<usage, attachment, registry, prep, kept, disk, call, receipt, faults>>

\* The command of such an effect.
DirectRemoval(t) ==
    /\ effect[t] = "started" /\ ~prep.reserved /\ disk[t].st = "present"
    /\ disk' = [disk EXCEPT ![t].st = "gone"]
    /\ UNCHANGED <<usage, attachment, registry, prep, kept, grants, effect, call, receipt, faults>>

-----------------------------------------------------------------------------
(* execute_prepared_cleanup *)

\* _require_accepted_work_close_authority_tx, for the sealed preparation: the
\* same conversation, in its generation or a later one.
CloseAuthority == prep.sealed /\ prep.gen <= attachment

\* No live runtime, no pending input of the Worker.
ClosePreconditions == CloseAuthority /\ ~usage.live /\ ~usage.open

\* register_file copies from the workspace on every call; a staged artifact
\* needs no source any more.
Preservable == kept.staged \/ disk[Workspace].st = "present"

\* No earlier effect of any kind.
Replayable == ~prep.reserved /\ \A t \in Targets : effect[t] = "none"

\* Every resource has its own unconsumed grant.
Authorised == grants = Targets
StartedBatch == [t \in Targets |-> "started"]
Sealed == [kept EXCEPT !.sealed = TRUE]

\* Mutant of Reserve: artifacts are left where they are.
ReserveUnpreserved(c) ==
    /\ call[c].st = "idle" /\ receipt = None
    /\ ClosePreconditions /\ Preservable /\ Replayable /\ Authorised
    /\ effect' = StartedBatch /\ grants' = {}
    /\ prep' = [prep EXCEPT !.reserved = TRUE]
    /\ call' = [call EXCEPT ![c] = [st |-> "reserved", left |-> Targets]]
    /\ UNCHANGED <<usage, attachment, registry, kept, disk, receipt, faults>>

\* The transaction before the first removal: artifacts sealed, authority
\* consumed, the whole batch of effects started.
Reserve(c) ==
    /\ call[c].st = "idle" /\ receipt = None
    /\ ClosePreconditions /\ Preservable /\ Replayable /\ Authorised
    /\ kept' = Sealed
    /\ effect' = StartedBatch /\ grants' = {}
    /\ prep' = [prep EXCEPT !.reserved = TRUE]
    /\ call' = [call EXCEPT ![c] = [st |-> "reserved", left |-> Targets]]
    /\ UNCHANGED <<usage, attachment, registry, disk, receipt, faults>>

\* A refused call preserved the artifacts all the same: the archive is no
\* part of the database transaction that is rolled back.
RefusedAfterSealing(c) ==
    /\ call[c].st = "idle" /\ ~kept.sealed
    /\ ClosePreconditions /\ Preservable /\ (~Replayable \/ ~Authorised)
    /\ kept' = Sealed
    /\ UNCHANGED <<usage, attachment, registry, prep, grants, effect, disk, call, receipt, faults>>

\* The whole frozen set is checked before the first removal.
Validate(c) ==
    /\ call[c].st = "reserved" /\ \A d \in Calls : call[d].st # "removing"
    /\ call' = [call EXCEPT ![c] = IF \A t \in Targets : Revalidates(t)
                                   THEN [st |-> "removing", left |-> Targets] ELSE IdleCall]
    /\ UNCHANGED <<usage, attachment, registry, prep, kept, grants, effect, disk, receipt, faults>>

\* Worktree before branch, temporary files and logs after them.
Remove(c, t) ==
    /\ call[c].st = "removing" /\ t \in call[c].left
    /\ t # Workspace => Workspace \notin call[c].left
    /\ IF t = Workspace /\ disk[t].st = "present"
       THEN /\ disk' = [disk EXCEPT ![t].st = "half"] /\ UNCHANGED call
       ELSE /\ disk' = [disk EXCEPT ![t].st = "gone"]
            /\ call' = [call EXCEPT ![c].left = @ \ {t}, ![c].st = IF call[c].left = {t} THEN "recording" ELSE @]
    /\ UNCHANGED <<usage, attachment, registry, prep, kept, grants, effect, receipt, faults>>

\* cleanup_execution_outcome_unknown: the effects stay started.
RemoveFails(c) ==
    /\ call[c].st = "removing" /\ faults < MaxFaults
    /\ call' = [call EXCEPT ![c] = IdleCall] /\ faults' = faults + 1
    /\ UNCHANGED <<usage, attachment, registry, prep, kept, grants, effect, disk, receipt>>

\* Every effect must still be started, or nothing is recorded.
RecordRemovals(c) ==
    /\ call[c].st = "recording"
    /\ IF \A t \in Targets : effect[t] = "started"
       THEN effect' = [t \in Targets |-> "succeeded"] /\ prep' = [prep EXCEPT !.executed = TRUE]
       ELSE UNCHANGED <<effect, prep>>
    /\ call' = [call EXCEPT ![c] = IdleCall]
    /\ UNCHANGED <<usage, attachment, registry, kept, grants, disk, receipt, faults>>

Crash ==
    /\ faults < MaxFaults /\ \E c \in Calls : call[c] # IdleCall
    /\ call' = [c \in Calls |-> IdleCall] /\ faults' = faults + 1
    /\ UNCHANGED <<usage, attachment, registry, prep, kept, grants, effect, disk, receipt>>

\* resolve_effect after the CAO looked at the resource.
ResolveEffect(t) ==
    /\ effect[t] \in {"started", "unknown"}
    /\ effect' = [effect EXCEPT ![t] = CASE disk[t].st = "gone" -> "succeeded"
                                         [] disk[t].st = "present" -> "not_applied"
                                         [] OTHER -> "failed"]
    /\ UNCHANGED <<usage, attachment, registry, prep, kept, grants, disk, call, receipt, faults>>

\* Mutant of FinishReserved: a reserved execution is only finished by itself.
FinishReservedNever ==
    /\ prep.executed /\ UNCHANGED closing

\* The next call of a reserved execution: it finishes when every effect of it
\* was resolved, and never runs it again.
FinishReserved ==
    /\ prep.reserved /\ ~prep.executed
    /\ ClosePreconditions /\ Preservable
    /\ \A t \in Targets : effect[t] \in Final
    /\ prep' = [prep EXCEPT !.executed = TRUE]
    /\ kept' = Sealed
    /\ UNCHANGED <<usage, attachment, registry, grants, effect, disk, call, receipt, faults>>

-----------------------------------------------------------------------------
(* close_work *)

\* Executed, with the preservation receipts sealed before.
Cleaned == Targets # {} => prep.executed /\ kept.sealed

\* evaluate_close, over what the transaction reads.
Closable == ~usage.live /\ ~usage.open /\ \A t \in Targets : effect[t] \in Final

\* The outcomes are derived from the effects, never from the caller.
DerivedCleanup == effect

CloseWork ==
    /\ receipt = None /\ CloseAuthority /\ Cleaned /\ Closable
    /\ receipt' = DerivedCleanup
    /\ UNCHANGED <<usage, attachment, registry, prep, kept, grants, effect, disk, call, faults>>

-----------------------------------------------------------------------------
Cao == AdoptManagedWork \/ StopWorkRuntime \/ PrepareWorkClose \/ FinishReserved \/ CloseWork
       \/ (\E t \in Targets : GrantCleanup(t) \/ StartCleanupEffect(t) \/ ResolveEffect(t))
       \/ (\E c \in Calls : Reserve(c) \/ RefusedAfterSealing(c))
Others == SharedWorkEnds \/ DeliveriesSettle \/ Reattach \/ Crash
          \/ (\E t \in Targets : ForeignChange(t) \/ DirectRemoval(t)) \/ (\E c \in Calls : RemoveFails(c))
Execution == \E c \in Calls : Validate(c) \/ RecordRemovals(c) \/ (\E t \in Targets : Remove(c, t))

CloseNext == Cao \/ Others \/ Execution

CloseSpec == CloseInit /\ [][CloseNext]_closing

-----------------------------------------------------------------------------
(* Properties *)

\* The command of an effect that the CAO started by itself may have removed the resource.
RemovedDirectly(t) == ~prep.reserved /\ effect[t] # "none"

\* Nothing of the workspace is removed by the close before the final artifact is archived and its
\* receipt sealed, whatever was refused, replayed or lost before.
PreservedBeforeRemoval == \A t \in Targets : disk[t].st # "present" => kept.sealed \/ RemovedDirectly(t)

\* A resource that the close receipt calls removed is gone.
ReceiptTruthful == receipt # None => \A t \in Targets : receipt[t] = "succeeded" => disk[t].st = "gone"

\* The close removes nothing while the Worker still runs in the workspace.
NoRemovalUnderWorker == usage.live => \A t \in Targets : disk[t].st # "present" => RemovedDirectly(t)

\* execute_prepared_cleanup as a whole: nothing is removed before it is preserved, or under a
\* running Worker, and what the receipt calls removed is gone.
RemovalSafe == CloseTypeOK /\ PreservedBeforeRemoval /\ NoRemovalUnderWorker /\ ReceiptTruthful

\* Every accepted Work is closed in the end, although executions die, unless
\* someone changed a resource or a removal stopped half way.
ClosedOrExcused == receipt # None \/ \E t \in Targets : effect[t] = "failed" \/ ~disk[t].same
=============================================================================
