------------------------------ MODULE MCFollowUp ------------------------------
(***************************************************************************)
(* What must eventually happen, in small instances of three modules; Init  *)
(* chooses one, and the variables of the others are 0.  CaoWake: "wake", a *)
(* wake of the CAO, its repair and the notices to the requester;           *)
(* PushOutbox: "push"; WorkClose with   *)
(* one execution, changes by others and a reattached CAO: "close".         *)
(***************************************************************************)
EXTENDS Integers, Sequences, FiniteSets, TLC

CONSTANT None
VARIABLES
    instance,
    msg, prov, job, boundary, turn, done, route, ready, proof, scan, retract, intents, epoch, faults,
    configs, push, pushJob, crashes, tally,
    work, att, registry, prep, kept, grants, effect, disk, call, receipt, closeFaults

wakes == <<msg, prov, job, boundary, turn, done, route, ready, proof, scan, retract, intents, epoch, faults>>
pushes == <<configs, push, pushJob, crashes, tally>>
closes == <<work, att, registry, prep, kept, grants, effect, disk, call, receipt, closeFaults>>
vars == <<instance, wakes, pushes, closes>>

MaxMessages == 3
Targets == {"wt", "tmp"}
Calls == {"c1"}
PushJobs == {"j1", "j2"}
Wake == INSTANCE CaoWake WITH
    Jobs <- {"j1"}, MaxInfos <- 0, MaxGen <- 1, MaxFaults <- 0, Topics <- {"turn", "activate"}
Push == INSTANCE PushOutbox WITH
    Configs <- {"c1"}, Events <- {"e1"}, Jobs <- PushJobs, MaxAttempts <- 2, MaxCrashes <- 1,
    Nobody <- None
Close == INSTANCE WorkClose WITH
    Workspace <- "wt", MaxFaults <- 2, Topics <- {"foreign", "reattach"}, faults <- closeFaults,
    usage <- work, attachment <- att

ASSUME /\ Wake!WakeConstants /\ Push!OutboxConstants /\ Close!CloseConstants

\* The state of a module that is not chosen.
NoWake ==
    /\ msg = 0 /\ prov = 0 /\ job = 0 /\ boundary = 0 /\ turn = 0 /\ done = 0 /\ route = 0
    /\ ready = 0 /\ proof = 0 /\ scan = 0 /\ retract = 0 /\ intents = 0 /\ epoch = 0 /\ faults = 0
NoPush == configs = 0 /\ push = 0 /\ pushJob = 0 /\ crashes = 0 /\ tally = 0
NoClose ==
    /\ work = 0 /\ att = 0 /\ registry = 0 /\ prep = 0 /\ kept = 0 /\ grants = 0 /\ effect = 0
    /\ disk = 0 /\ call = 0 /\ receipt = 0 /\ closeFaults = 0

Init ==
    \/ instance = "wake" /\ Wake!WakeInit /\ NoPush /\ NoClose
    \/ instance = "push" /\ NoWake /\ Push!PushInit /\ NoClose
    \/ instance = "close" /\ NoWake /\ NoPush /\ Close!CloseInit

InWake(A) == instance = "wake" /\ A /\ UNCHANGED <<instance, pushes, closes>>
InPush(A) == instance = "push" /\ A /\ UNCHANGED <<instance, wakes, closes>>
InClose(A) == instance = "close" /\ A /\ UNCHANGED <<instance, wakes, pushes>>

Next == InWake(Wake!WakeNext) \/ InPush(Push!PushNext) \/ InClose(Close!CloseNext)

\* The Dispatcher loop runs its scans for ever and its activation rounds visit every message; its
\* push jobs run into their timeout; a CAO keeps trying to close its Work.
Fairness ==
    /\ WF_vars(InWake(Wake!ObserveThread)) /\ WF_vars(InWake(Wake!ReconcileIncomplete))
    /\ WF_vars(InWake(Wake!ReplaceRoute))
    /\ \A m \in 1 .. MaxMessages : SF_vars(InWake(m \in Wake!Msgs /\ Wake!ActivationCandidate(m)))
    /\ \A p \in Push!Pushes : WF_vars(InPush(Push!BackoffPasses(p)))
    /\ \A j \in PushJobs : WF_vars(InPush(Push!JobStep(j)))
    /\ WF_vars(InPush(\E j \in PushJobs, p \in Push!Pushes : Push!Claim(j, p)))
    /\ WF_vars(InClose(Close!SharedWorkEnds)) /\ WF_vars(InClose(Close!DeliveriesSettle))
    /\ WF_vars(InClose(Close!Execution)) /\ WF_vars(InClose(Close!AdoptManagedWork))
    /\ WF_vars(InClose(Close!StopWorkRuntime)) /\ WF_vars(InClose(Close!PrepareWorkClose))
    /\ WF_vars(InClose(Close!FinishReserved)) /\ WF_vars(InClose(Close!CloseWork))
    /\ \A t \in Targets : WF_vars(InClose(Close!GrantCleanup(t))) /\ WF_vars(InClose(Close!ResolveEffect(t)))
    /\ \A c \in Calls : WF_vars(InClose(Close!Reserve(c)))

Spec == Init /\ [][Next]_vars /\ Fairness

\* A wake whose thread ended without a decision is followed up: by a repair, a decision turn, a new
\* route, or the Boundary is closed.  The last of the messages is always a notice.
EndedWakeFollowedUp ==
    \A m \in 1 .. MaxMessages - 1 :
        (instance = "wake" /\ Wake!EndedUndecided(m)) ~> (instance = "wake" /\ Wake!FollowedUp(m))
\* Every queued push is delivered, given up or deleted, although jobs outlive their lease.
EveryPushSettles ==
    \A p \in Push!Pushes :
        (instance = "push" /\ push[p].st = "queued") ~> (instance = "push" /\ push[p].st \in Push!Settled)
\* An accepted Work is closed, unless a removal failed or somebody changed a resource.
AcceptedWorkCloses == (instance = "close") ~> (instance = "close" /\ Close!ClosedOrExcused)
===============================================================================
