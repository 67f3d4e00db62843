-------------------------- MODULE DashboardUpgrade --------------------------
(* The controlled upgrade or restart of the shared system                    *)
(* (dashboard_lifecycle.py, upgrade_dashboard_lifecycle): preflight on a     *)
(* disposable copy, capture of both LaunchAgent process groups, bootout, the *)
(* fence that waits, terminates and kills the captured executions, the final *)
(* backup, and the restart. launchd restarts a crashed service while its job *)
(* is loaded, a booted-out process may take its time to exit, processes      *)
(* fork, and a freed process id goes to whoever asks next.                   *)
EXTENDS Naturals, FiniteSets

CONSTANTS
    Pids,        \* process ids of the host
    MaxProc,     \* bound: executions over a behaviour
    MaxWrite,    \* bound: committed writes
    Migrates     \* the target release changes the schema

VARIABLES
    step,      \* what the upgrade does next, or how it ended
    loaded,    \* jobs that launchd has loaded
    plist,     \* "reviewed" or "other", per job
    proc,      \* execution (audit token) -> its process id, group and life
    started,   \* executions so far
    data,      \* the live database: schema, committed writes and who made the last one
    backup,    \* the plan-bound backup, and the executions started before it
    group,     \* captured process groups, and whether the fence still waits for them
    hit,       \* executions that the fence signalled
    late       \* history: services that were restarted between their capture and their bootout

system == <<loaded, plist, proc, started, data>>
upgrade == <<step, system, backup, group, hit, late>>

ASSUME UpgradeAssumption ==
    /\ MaxProc \in Nat \ {0, 1} /\ MaxWrite \in Nat /\ Migrates \in BOOLEAN

Service == {"edge", "cp"}
Execution == 1 .. MaxProc
NoProc == [svc |-> "none", pid |-> 0, pgid |-> 0, live |-> FALSE, root |-> FALSE]
NoGroup == [pgid |-> 0, members |-> {}, open |-> FALSE]
Ended == {"ready", "refused", "unknown"}

UpgradeInit ==
    /\ step = "preflight" /\ loaded = Service /\ plist = [s \in Service |-> "reviewed"]
    /\ \E p, q \in Pids : p # q /\
         proc = [i \in Execution |->
                   CASE i = 1 -> [svc |-> "edge", pid |-> p, pgid |-> p, live |-> TRUE, root |-> TRUE]
                     [] i = 2 -> [svc |-> "cp", pid |-> q, pgid |-> q, live |-> TRUE, root |-> TRUE]
                     [] OTHER -> NoProc]
    /\ started = 2
    /\ data = [schema |-> "source", writes |-> 0, by |-> 0]
    /\ backup = [on |-> FALSE, schema |-> "source", writes |-> 0, at |-> 0]
    /\ group = [s \in Service |-> NoGroup] /\ hit = {} /\ late = {}

Live == {i \in Execution : proc[i].live}
Free == {p \in Pids : \A i \in Live : proc[i].pid # p /\ proc[i].pgid # p}
Root(s) == {i \in Live : proc[i].svc = s /\ proc[i].root}
InGroup(g) == {i \in Live : proc[i].pgid = g}
\* A new execution; one of the Control Plane opens the database and brings it to its schema.
Spawn(s, p, g, root, dying) ==
    /\ started < MaxProc /\ started' = started + 1
    /\ LET rest == IF dying = 0 THEN proc ELSE [proc EXCEPT ![dying].live = FALSE]
       IN proc' = [rest EXCEPT ![started + 1] =
                     [svc |-> s, pid |-> p, pgid |-> g, live |-> TRUE, root |-> root]]
Opened == [data EXCEPT !.schema = IF Migrates THEN "target" ELSE @]

----------------------------------------------------------------------------
(* The host.                                                                 *)

\* A service crashes and launchd, which keeps a loaded job alive, starts it again.
Restart(s) ==
    /\ step \notin Ended /\ s \in loaded /\ late' = IF group[s].open THEN late \cup {s} ELSE late
    /\ \E i \in Root(s), p \in Free : Spawn(s, p, p, TRUE, i)
    /\ data' = IF s = "cp" THEN Opened ELSE data
    /\ UNCHANGED <<step, loaded, plist, backup, group, hit>>
Fork(i) ==
    /\ step \notin Ended /\ i \in Live /\ proc[i].root
    /\ \E p \in Free : Spawn(proc[i].svc, p, proc[i].pgid, FALSE, 0)
    /\ UNCHANGED <<step, loaded, plist, data, backup, group, hit, late>>
\* Somebody else's process gets a free process id, and is the leader of its own group.
Bystander ==
    /\ step \notin Ended /\ \E p \in Free : Spawn("other", p, p, TRUE, 0)
    /\ UNCHANGED <<step, loaded, plist, data, backup, group, hit, late>>
\* Children exit when they are done, a booted-out root when it has shut down.
Exit(i) ==
    /\ step \notin Ended /\ i \in Live /\ proc[i].svc \in Service
    /\ ~proc[i].root \/ proc[i].svc \notin loaded
    /\ proc' = [proc EXCEPT ![i].live = FALSE]
    /\ UNCHANGED <<step, loaded, plist, started, data, backup, group, hit, late>>
Write(i) ==
    /\ step \notin Ended /\ i \in Root("cp") /\ data.writes < MaxWrite
    /\ data' = [data EXCEPT !.writes = @ + 1, !.by = i]
    /\ UNCHANGED <<step, loaded, plist, proc, started, backup, group, hit, late>>
EditPlist(s) ==
    /\ step \notin Ended /\ plist[s] = "reviewed" /\ plist' = [plist EXCEPT ![s] = "other"]
    /\ UNCHANGED <<step, loaded, proc, started, data, backup, group, hit, late>>

----------------------------------------------------------------------------
(* The upgrade.                                                              *)

Goto(l) == step' = l
HostUnchanged == UNCHANGED <<loaded, plist, proc, started, data>>
Stop(how) == Goto(how) /\ HostUnchanged /\ UNCHANGED <<backup, group, hit, late>>

Reviewed(s) == plist[s] = "reviewed"
\* A loaded, running job of the reviewed plist.
Bound(s) == Reviewed(s) /\ s \in loaded /\ Root(s) # {}
\* The database is the one of the plan.
SourceUnchanged == data.schema = "source"
\* Every identity of the plan is read again.
Preflight ==
    /\ step = "preflight"
    /\ IF (\A s \in Service : Bound(s)) /\ SourceUnchanged /\ ~backup.on
       THEN Stop("trial") ELSE Stop("refused")
\* The migration is tried on a disposable copy of a database that is still the one of the plan; it may fail.
Trial ==
    /\ step = "trial"
    /\ \/ SourceUnchanged /\ Stop("probe")
       \/ Stop("refused")
\* Both services answer before either is stopped.
Probe ==
    /\ step = "probe"
    /\ \/ (\A s \in Service : Root(s) # {}) /\ Stop("capture_edge")
       \/ Stop("refused")
\* capture: the members are listed twice, so the group is taken as it is at one moment.
Capture(s, here, next) ==
    /\ step = here
    /\ \/ /\ Bound(s)
          /\ \E r \in Root(s) : group' = [group EXCEPT ![s] = [pgid |-> proc[r].pgid,
                                                              members |-> InGroup(proc[r].pgid),
                                                              open |-> TRUE]]
          /\ Goto(next) /\ HostUnchanged /\ UNCHANGED <<backup, hit, late>>
       \/ ~Bound(s) /\ Stop("refused")
\* launchctl bootout: the plist is read again; a failed command may have had its effect.
Bootout(s, here, next) ==
    /\ step = here
    /\ \/ ~Reviewed(s) /\ Stop("refused")
       \/ /\ Reviewed(s) /\ loaded' = loaded \ {s} /\ Goto(next)
          /\ UNCHANGED <<plist, proc, started, data, backup, group, hit, late>>
       \/ Reviewed(s) /\ Stop("unknown")
Unloaded ==
    /\ step = "unloaded" /\ IF loaded = {} THEN Stop("wait") ELSE Stop("unknown")

Captured == UNION {group[s].members : s \in Service}
Remaining == {s \in Service : group[s].open}
CapturedPids(s) == {proc[i].pid : i \in group[s].members}
CurrentIds(s) == {proc[i].pid : i \in InGroup(group[s].pgid)}
\* _live_members: a group with a member that was not captured cannot be fenced.
Gained == {s \in Remaining : CurrentIds(s) \ CapturedPids(s) # {}}
\* A group is gone when none of its captured executions lives and nobody has its ids.
Empty(s) == group[s].members \cap Live = {} /\ CurrentIds(s) = {}
\* One polling phase of fence_after_bootout: it drops the groups that it finds gone, and ends with the
\* last of them or when its attempts ran out.
Wait(phase, then) ==
    /\ step = phase
    /\ \/ Gained # {} /\ Stop("unknown")
       \/ \E s \in Remaining :
            /\ Gained = {} /\ Empty(s) /\ group' = [group EXCEPT ![s].open = FALSE]
            /\ Goto(IF Remaining = {s} THEN "stopped" ELSE phase)
            /\ HostUnchanged /\ UNCHANGED <<backup, hit, late>>
       \/ Gained = {} /\ (\E s \in Remaining : ~Empty(s)) /\ Stop(then)
\* Mutant of Targets: signals go to process ids.
TargetsByPid(s) == {i \in Live : s \in Remaining /\ proc[i].pid \in CapturedPids(s)}
\* _signal_exact addresses the audit tokens of the captured executions.
Targets(s) == {i \in Live \cap group[s].members : s \in Remaining}
\* _signal_exact takes group after group, and reads the members of each again before its signals.
\* SIGTERM may be ignored, SIGKILL may not.
Signal(s, name, then) ==
    /\ step = name
    /\ \/ s \in Gained /\ Stop("unknown")
       \/ /\ s \notin Gained /\ Goto(then) /\ hit' = hit \cup Targets(s)
          /\ \E dead \in IF name \in {"kill", "kill_cp"} THEN {Targets(s)} ELSE SUBSET Targets(s) :
                proc' = [i \in Execution |-> IF i \in dead THEN [proc[i] EXCEPT !.live = FALSE] ELSE proc[i]]
          /\ UNCHANGED <<loaded, plist, started, data, backup, group, late>>
\* A booted-out root that is still shutting down may have closed its port already.
Stopped ==
    /\ step = "stopped"
    /\ \/ (\A s \in Service : Root(s) = {} \/ s \notin loaded) /\ Stop("backup")
       \/ Stop("unknown")
\* Mutant of Backup: the identity of the source is not compared.
BackupAnySchema ==
    /\ step = "backup" /\ backup' = [on |-> TRUE, schema |-> data.schema, writes |-> data.writes, at |-> started]
    /\ Goto("bootstrap_cp") /\ HostUnchanged /\ UNCHANGED <<group, hit, late>>
\* The final backup, with replacement disabled, of a database that is still the one of the preflight.
Backup ==
    /\ step = "backup"
    /\ IF SourceUnchanged /\ ~backup.on
       THEN /\ backup' = [on |-> TRUE, schema |-> data.schema, writes |-> data.writes, at |-> started]
            /\ Goto("bootstrap_cp") /\ HostUnchanged /\ UNCHANGED <<group, hit, late>>
       ELSE Stop("refused")
Bootstrap(s, here, next) ==
    /\ step = here
    /\ \/ ~Reviewed(s) /\ Stop("refused")
       \/ /\ Reviewed(s) /\ \E p \in Free : Spawn(s, p, p, TRUE, 0)
          /\ loaded' = loaded \cup {s} /\ Goto(next)
          /\ data' = IF s = "cp" THEN Opened ELSE data
          /\ UNCHANGED <<plist, backup, group, hit, late>>
       \/ Reviewed(s) /\ Stop("unknown")
\* The readiness the plan asks for, and after the Edge the refresh of the Codex host, or an attempt too many.
Ready(services, here, next) ==
    /\ step = here
    /\ \/ (\A s \in services : s \in loaded /\ Root(s) # {}) /\ Stop(next)
       \/ Stop("unknown")

Upgrade ==
    \/ Preflight \/ Trial \/ Probe \/ Unloaded \/ Stopped \/ Backup
    \/ Capture("edge", "capture_edge", "capture_cp") \/ Capture("cp", "capture_cp", "bootout_edge")
    \/ Bootout("edge", "bootout_edge", "bootout_cp") \/ Bootout("cp", "bootout_cp", "unloaded")
    \/ Wait("wait", "term") \/ Wait("wait_term", "kill") \/ Wait("wait_kill", "unknown")
    \/ Signal("edge", "term", "term_cp") \/ Signal("cp", "term_cp", "wait_term")
    \/ Signal("edge", "kill", "kill_cp") \/ Signal("cp", "kill_cp", "wait_kill")
    \/ Bootstrap("cp", "bootstrap_cp", "cp_ready") \/ Ready({"cp"}, "cp_ready", "bootstrap_edge")
    \/ Bootstrap("edge", "bootstrap_edge", "all_ready") \/ Ready(Service, "all_ready", "ready")

UpgradeNext ==
    \/ Upgrade \/ Bystander
    \/ \E s \in Service : Restart(s) \/ EditPlist(s)
    \/ \E i \in Execution : Fork(i) \/ Exit(i) \/ Write(i)

UpgradeSpec == UpgradeInit /\ [][UpgradeNext]_upgrade

----------------------------------------------------------------------------
(* Properties.                                                               *)

\* The steps of the upgrade, executions with their process ids and groups, and what was captured of
\* them. A process id belongs to one live execution, and the backup appears where its step is.
UpgradeSteps ==
    {"preflight", "trial", "probe", "capture_edge", "capture_cp", "bootout_edge", "bootout_cp",
     "unloaded", "wait", "term", "term_cp", "wait_term", "kill", "kill_cp", "wait_kill", "stopped", "backup",
     "bootstrap_cp", "cp_ready", "bootstrap_edge", "all_ready"} \cup Ended
Processes == [svc : Service \cup {"other"}, pid : Pids, pgid : Pids, live : BOOLEAN, root : BOOLEAN]
UpgradeTypeOK ==
    /\ step \in UpgradeSteps /\ loaded \subseteq Service /\ plist \in [Service -> {"reviewed", "other"}]
    /\ started \in 2 .. MaxProc /\ proc \in [Execution -> Processes \cup {NoProc}]
    /\ \A i \in Execution : proc[i] = NoProc <=> i > started
    /\ \A i, j \in Live : proc[i].pid = proc[j].pid => i = j
    /\ data \in [schema : {"source", "target"}, writes : 0 .. MaxWrite, by : 0 .. started]
    /\ backup \in [on : BOOLEAN, schema : {"source", "target"}, writes : 0 .. MaxWrite, at : 0 .. started]
    /\ backup.on => step \in {"bootstrap_cp", "cp_ready", "bootstrap_edge", "all_ready"} \cup Ended
    /\ group \in [Service -> [pgid : Pids \cup {0}, members : SUBSET (1 .. started), open : BOOLEAN]]
    /\ hit \subseteq 1 .. started /\ late \subseteq Service

\* Two executions of the Control Plane never serve one database, before, during or after the upgrade,
\* unless launchd restarted one between its capture and its bootout: that one is in no captured group.
OneControlPlane == "cp" \notin late => Cardinality(Root("cp")) <= 1

\* Escalation never reaches a process that is not of the two services, although process ids are reused.
BystanderUnharmed == \A i \in hit : proc[i].svc # "other"

\* An upgrade that reports ready replaced every execution: none that was alive when the groups were
\* captured, child or root, is left.
FreshGeneration == step = "ready" => Captured \cap Live = {} /\ Root("cp") \cap {1, 2} = {}

\* fence_after_bootout as a whole: one Control Plane, nobody else's process signalled, nothing of the
\* old generation left after a success.
UpgradeFenced == UpgradeTypeOK /\ OneControlPlane /\ BystanderUnharmed /\ FreshGeneration

\* The backup can be restored under the old release: a Control Plane that launchd restarted on the
\* way, and which migrated the database, ends the upgrade without one.
BackupOfSource == backup.on => backup.schema = "source"

\* The rollback backup is complete: every write it lacks was committed by an execution that was
\* started after it was taken, whatever was still shutting down until then; a Control Plane that was
\* restarted late is found out by the schema, if there is a migration.
RollbackComplete ==
    (Migrates \/ "cp" \notin late) /\ backup.on /\ data.writes > backup.writes => data.by > backup.at

\* What the operator is left with for a rollback: a backup of the old schema that lacks nothing.
RollbackRestorable == BackupOfSource /\ RollbackComplete
=============================================================================
