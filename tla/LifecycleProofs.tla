-------------------------- MODULE LifecycleProofs --------------------------
(***************************************************************************)
(* Proofs about the lifecycle of the Dashboard, of the Codex host and of   *)
(* the records that are retained.                                          *)
(*                                                                         *)
(* DashboardUpgrade, for every number of process ids, executions and       *)
(* writes, with or without a migration.  The fence is read off the process *)
(* table: executions only end, a new one takes a free process id, and      *)
(* until the restart every root of the Control Plane is a captured one or  *)
(* was restarted late.                                                     *)
(*                                                                         *)
(* CodexRefresh, for any number of hosts, executables, bridges and polls:  *)
(* the reload reaches the host that was attested.  The operation compares  *)
(* paths and reads them again, and the Desktop may put another host behind *)
(* the path in between.  Two reads that agree are enough because the       *)
(* generations behind the path only grow: the host that was connected to   *)
(* lies between the one attested and the one at the path, so it is both    *)
(* (PeerSound, ConnSound).  A host keeps the image it has mapped           *)
(* (ImageSound), and a bridge that is gone does not come back              *)
(* (BridgeSound).                                                          *)
(*                                                                         *)
(* Retention, for any finite WorkIds, Boundaries and every size and age:   *)
(* each thing that prune may delete is written beside the row that names   *)
(* it, and what it keeps covers what the rows name later.                  *)
(***************************************************************************)
EXTENDS DashboardUpgrade, CodexRefresh, Retention, FiniteSetTheorems, TLAPS

-----------------------------------------------------------------------------
(* DashboardUpgrade: the inductive invariant.                                *)

\* Where the upgrade is: nothing captured yet, both groups captured, all groups gone.
Before == {"preflight", "trial", "probe", "capture_edge", "capture_cp"}
Booting == {"bootout_edge", "bootout_cp"}
Stopping == {"unloaded", "wait", "term", "term_cp", "wait_term", "kill", "kill_cp", "wait_kill"}
Gone == {"stopped", "backup", "bootstrap_cp"}
Restarted == {"cp_ready", "bootstrap_edge", "all_ready", "ready"}

\* Executions that share a process group are of one service, and so is what was captured of it.
GroupsApart ==
    /\ \A i, j \in Live : proc[i].pgid = proc[j].pgid => proc[i].svc = proc[j].svc
    /\ \A s \in Service : \A i \in group[s].members : proc[i].svc = s
    /\ \A i \in hit : proc[i].svc \in Service
    /\ proc[1].svc = "edge"

\* A job that was captured is loaded only until its bootout, and the fence waits for its group
\* until the group is gone.
PhaseInv ==
    /\ step \in Before => ~group["cp"].open /\ "cp" \notin late
    /\ step \in Booting => group["cp"].open
    /\ step \in Stopping \cup Gone => "cp" \notin loaded
    /\ step \in Gone \cup Restarted => Remaining = {}

\* A group that the fence no longer waits for is gone. Until the restart every root of the Control
\* Plane is a captured one, or was restarted late and has opened the database.
RootInv ==
    /\ \A s \in Service : ~group[s].open => group[s].members \cap Live = {}
    /\ "cp" \notin late => \A i, j \in Root("cp") : i = j
    /\ step \in Booting \cup Stopping \cup Gone =>
         \/ Root("cp") \subseteq group["cp"].members
         \/ "cp" \in late /\ (Migrates => data.schema = "target")
    /\ step \in Booting \cup Stopping \cup Gone \cup Restarted /\ 2 \in Root("cp") =>
         2 \in group["cp"].members

\* Since the backup only executions that were started after it serve the database.
BackupInv ==
    /\ BackupOfSource
    /\ (Migrates \/ "cp" \notin late) /\ backup.on =>
         /\ data.writes >= backup.writes
         /\ data.writes > backup.writes => data.by > backup.at
         /\ \A i \in Root("cp") : i > backup.at

UpgradeInv == UpgradeTypeOK /\ GroupsApart /\ PhaseInv /\ RootInv /\ BackupInv

-----------------------------------------------------------------------------
(* What a step does to the executions.                                       *)

\* No execution changes but to end.
Ages ==
    \A i \in 1 .. started :
        /\ proc'[i].svc = proc[i].svc /\ proc'[i].pid = proc[i].pid
        /\ proc'[i].pgid = proc[i].pgid /\ proc'[i].root = proc[i].root
        /\ proc'[i].live => proc[i].live

\* A new execution appears, with a process id that is free.
Appears(s, p, g, root) ==
    /\ started' = started + 1 /\ started + 1 \in Execution /\ p \in Free
    /\ proc'[started + 1] = [svc |-> s, pid |-> p, pgid |-> g, live |-> TRUE, root |-> root]

\* The types of the executions.
ProcTypes ==
    /\ started \in 2 .. MaxProc /\ proc \in [Execution -> Processes \cup {NoProc}]
    /\ \A i \in Execution : (proc[i] = NoProc) <=> (i > started)
    /\ \A i, j \in Live : proc[i].pid = proc[j].pid => i = j

\* The bound on executions is a natural, and there are at least two.
LEMMA Bounds == MaxProc \in Nat /\ MaxProc > 1 /\ 1 \in Execution /\ 2 \in Execution
                /\ Execution \subseteq Nat /\ MaxWrite \in Nat /\ Migrates \in BOOLEAN
  BY UpgradeAssumption DEF Execution

\* An execution that runs was started, and has the columns of a process.
LEMMA LiveStarted ==
    ASSUME ProcTypes
    PROVE  /\ Live \subseteq 1 .. started /\ 1 .. started \subseteq Execution
           /\ \A i \in 1 .. started : proc[i] \in Processes
           /\ started \in Nat /\ started >= 2
<1>1. /\ started \in Nat /\ started >= 2 /\ started <= MaxProc
  BY Bounds DEF ProcTypes
<1>2. 1 .. started \subseteq Execution
  BY <1>1, Bounds DEF Execution
<1>3. \A i \in 1 .. started : proc[i] \in Processes
  BY <1>1, <1>2 DEF ProcTypes
<1>4. ASSUME NEW i \in Live PROVE i \in 1 .. started
  <2>1. i \in Execution /\ proc[i].live
    BY DEF Live
  <2>2. proc[i] # NoProc
    BY <2>1 DEF NoProc
  <2> QED BY <2>1, <2>2, <1>1, Bounds DEF ProcTypes, Execution
<1> QED BY <1>1, <1>2, <1>3, <1>4

\* LiveStarted, in the form that holds of the next state as well.
LEMMA LiveIsStarted == ProcTypes => Live \subseteq 1 .. started
  BY LiveStarted

\* The executions' part of the types.
LEMMA TypesOfProcs == UpgradeTypeOK => ProcTypes
  BY DEF UpgradeTypeOK, ProcTypes

\* Spawn: one new execution, and the one that crashed is the only one that changed.
LEMMA SpawnAppears ==
    ASSUME ProcTypes, NEW s \in Service \cup {"other"}, NEW p \in Free, NEW g \in Pids,
           NEW root \in BOOLEAN, NEW dying \in Live \cup {0}, Spawn(s, p, g, root, dying)
    PROVE  /\ Ages /\ Appears(s, p, g, root) /\ ProcTypes'
           /\ dying \notin Live'
<1> DEFINE rest == IF dying = 0 THEN proc ELSE [proc EXCEPT ![dying].live = FALSE]
           new == [svc |-> s, pid |-> p, pgid |-> g, live |-> TRUE, root |-> root]
<1>1. /\ started < MaxProc /\ started' = started + 1 /\ proc' = [rest EXCEPT ![started + 1] = new]
  BY DEF Spawn
<1>2. started \in Nat /\ started + 1 \in Execution /\ started >= 2
  BY <1>1, Bounds DEF ProcTypes, Execution
<1>3. p \in Pids
  BY DEF Free
<1>4. new \in Processes
  BY <1>3 DEF Processes
<1>5. /\ Live \subseteq 1 .. started /\ 1 .. started \subseteq Execution
      /\ \A i \in 1 .. started : proc[i] \in Processes
  BY LiveStarted
<1>6. rest \in [Execution -> Processes \cup {NoProc}]
  <2>1. CASE dying = 0
    BY <2>1 DEF ProcTypes
  <2>2. CASE dying # 0
    <3>1. proc[dying] \in Processes
      BY <2>2, <1>5
    <3>2. [proc[dying] EXCEPT !.live = FALSE] \in Processes
      BY <3>1 DEF Processes
    <3>3. rest = [proc EXCEPT ![dying] = [proc[dying] EXCEPT !.live = FALSE]]
      BY <2>2, <1>5 DEF ProcTypes
    <3> QED BY <3>2, <3>3 DEF ProcTypes
  <2> QED BY <2>1, <2>2
<1>7. \A i \in 1 .. started : /\ rest[i].svc = proc[i].svc /\ rest[i].pid = proc[i].pid
                              /\ rest[i].pgid = proc[i].pgid /\ rest[i].root = proc[i].root
                              /\ rest[i].live <=> (proc[i].live /\ i # dying)
                              /\ rest[i] # NoProc
  <2> SUFFICES ASSUME NEW i \in 1 .. started
               PROVE  /\ rest[i].svc = proc[i].svc /\ rest[i].pid = proc[i].pid
                      /\ rest[i].pgid = proc[i].pgid /\ rest[i].root = proc[i].root
                      /\ rest[i].live <=> (proc[i].live /\ i # dying)
                      /\ rest[i] # NoProc
    OBVIOUS
  <2>1. i \in Execution /\ proc[i] \in Processes /\ i # 0
    BY <1>2, <1>5
  <2>2. proc[i].svc # "none"
    BY <2>1 DEF Processes, Service
  <2>3. CASE dying = i
    <3>1. rest[i] = [proc[i] EXCEPT !.live = FALSE]
      BY <2>1, <2>3 DEF ProcTypes
    <3> QED BY <2>1, <2>2, <2>3, <3>1 DEF Processes, NoProc
  <2>4. CASE dying # i
    <3>1. rest[i] = proc[i]
      BY <2>1, <2>4, <1>5 DEF ProcTypes
    <3> QED BY <2>2, <2>4, <3>1 DEF NoProc
  <2> QED BY <2>3, <2>4
<1>8. \A i \in Execution : i > started => rest[i] = NoProc
  <2> SUFFICES ASSUME NEW i \in Execution, i > started PROVE rest[i] = NoProc
    OBVIOUS
  <2>1. proc[i] = NoProc
    BY DEF ProcTypes
  <2>2. dying # i
    BY <1>2, <1>5, Bounds
  <2> QED BY <2>1, <2>2, <1>5 DEF ProcTypes
<1> HIDE DEF rest, new
<1>9. /\ proc' \in [Execution -> Processes \cup {NoProc}]
      /\ proc'[started + 1] = new
      /\ \A i \in Execution : i # started + 1 => proc'[i] = rest[i]
  BY <1>1, <1>2, <1>4, <1>6
<1>10. Ages
  BY <1>2, <1>5, <1>7, <1>9 DEF Ages
<1>11. Live' = (Live \ {dying}) \cup {started + 1}
  <2>1. ASSUME NEW i \in Execution PROVE proc'[i].live <=> (i = started + 1 \/ (i \in Live /\ i # dying))
    <3>1. CASE i = started + 1
      BY <3>1, <1>9 DEF new
    <3>2. CASE i <= started
      <4>1. i \in 1 .. started /\ i # started + 1
        BY <3>2, <1>2 DEF Execution
      <4> QED BY <4>1, <1>7, <1>9 DEF Live
    <3>3. CASE i > started /\ i # started + 1
      <4>1. proc'[i] = NoProc
        BY <3>3, <1>8, <1>9
      <4>2. i \notin Live
        BY <3>3, <1>5, <1>2, Bounds
      <4> QED BY <3>3, <4>1, <4>2 DEF NoProc
    <3> QED BY <3>1, <3>2, <3>3, <1>2, Bounds
  <2> QED BY <2>1, <1>2 DEF Live
<1>12. ProcTypes'
  <2>1. started' \in 2 .. MaxProc
    BY <1>1, <1>2, Bounds
  <2>2. ASSUME NEW i \in Execution PROVE (proc'[i] = NoProc) <=> (i > started')
    <3>1. CASE i = started + 1
      BY <3>1, <1>1, <1>2, <1>4, <1>9 DEF Processes, NoProc, Service
    <3>2. CASE i <= started
      <4>1. i \in 1 .. started /\ i # started + 1 /\ ~(i > started + 1)
        BY <3>2, <1>2 DEF Execution
      <4> QED BY <4>1, <1>1, <1>7, <1>9
    <3>3. CASE i > started /\ i # started + 1
      <4>1. i > started + 1
        BY <3>3, <1>2, Bounds
      <4> QED BY <3>3, <4>1, <1>1, <1>8, <1>9
    <3> QED BY <3>1, <3>2, <3>3, <1>2, Bounds
  <2>3. ASSUME NEW i \in Live', NEW j \in Live', proc'[i].pid = proc'[j].pid PROVE i = j
    <3>1. \A k \in Live' : k # started + 1 => k \in Live /\ proc'[k].pid = proc[k].pid
      BY <1>11, <1>5, <1>10 DEF Ages
    <3>2. proc'[started + 1].pid = p
      BY <1>9 DEF new
    <3>3. \A k \in Live : proc[k].pid # p
      BY DEF Free
    <3>4. CASE i = started + 1 \/ j = started + 1
      BY <2>3, <3>1, <3>2, <3>3, <3>4
    <3>5. CASE i # started + 1 /\ j # started + 1
      BY <2>3, <3>1, <3>5 DEF ProcTypes
    <3> QED BY <3>4, <3>5
  <2> QED BY <2>1, <2>2, <2>3, <1>9 DEF ProcTypes, Execution
<1>13. dying \notin Live'
  BY <1>11, <1>5, <1>2
<1> QED BY <1>1, <1>2, <1>9, <1>10, <1>12, <1>13 DEF Appears, new

\* Executions end, and nothing else happens to the process table.
LEMMA DeathsAge ==
    ASSUME ProcTypes, NEW dead \in SUBSET Live, started' = started,
           proc' = [i \in Execution |-> IF i \in dead THEN [proc[i] EXCEPT !.live = FALSE] ELSE proc[i]]
    PROVE  /\ Ages /\ ProcTypes' /\ Live' = Live \ dead
<1>1. /\ Live \subseteq 1 .. started /\ 1 .. started \subseteq Execution
      /\ \A i \in 1 .. started : proc[i] \in Processes
  BY LiveStarted
<1>2. \A i \in Execution : i \in Live => [proc[i] EXCEPT !.live = FALSE] \in Processes
  BY <1>1 DEF Processes
<1>3. proc' \in [Execution -> Processes \cup {NoProc}]
  BY <1>2 DEF ProcTypes
<1>4. \A i \in 1 .. started : /\ proc'[i].svc = proc[i].svc /\ proc'[i].pid = proc[i].pid
                              /\ proc'[i].pgid = proc[i].pgid /\ proc'[i].root = proc[i].root
                              /\ proc'[i].live <=> (proc[i].live /\ i \notin dead)
  <2> SUFFICES ASSUME NEW i \in 1 .. started
               PROVE  /\ proc'[i].svc = proc[i].svc /\ proc'[i].pid = proc[i].pid
                      /\ proc'[i].pgid = proc[i].pgid /\ proc'[i].root = proc[i].root
                      /\ proc'[i].live <=> (proc[i].live /\ i \notin dead)
    OBVIOUS
  <2>1. i \in Execution /\ proc[i] \in Processes
    BY <1>1
  <2>2. proc'[i] = IF i \in dead THEN [proc[i] EXCEPT !.live = FALSE] ELSE proc[i]
    BY <2>1
  <2> QED BY <2>1, <2>2 DEF Processes
<1>5. \A i \in Execution : (proc'[i] = NoProc) <=> (proc[i] = NoProc)
  <2> SUFFICES ASSUME NEW i \in Execution, i \in dead PROVE proc'[i] # NoProc /\ proc[i] # NoProc
    OBVIOUS
  <2>1. proc'[i] \in Processes /\ proc[i] \in Processes
    BY <1>1, <1>2
  <2> QED BY <2>1 DEF Processes, NoProc, Service
<1>6. Live' = Live \ dead
  <2>1. ASSUME NEW i \in Execution PROVE proc'[i].live <=> (i \in Live /\ i \notin dead)
    <3>1. CASE i \in 1 .. started
      BY <3>1, <1>4 DEF Live
    <3>2. CASE i \notin 1 .. started
      BY <3>2, <1>1 DEF Live
    <3> QED BY <3>1, <3>2
  <2> QED BY <2>1 DEF Live
<1>7. Ages
  BY <1>4 DEF Ages
<1>8. \A i, j \in Live' : proc'[i].pid = proc'[j].pid => i = j
  BY <1>1, <1>4, <1>6 DEF ProcTypes
<1> QED BY <1>3, <1>5, <1>6, <1>7, <1>8 DEF ProcTypes

\* What the columns allowed before a new execution they allow after it.
LEMMA Widened ==
    ASSUME UpgradeTypeOK, started' \in {started, started + 1}
    PROVE  /\ 0 .. started \subseteq 0 .. started' /\ 1 .. started \subseteq 1 .. started'
           /\ data \in [schema : {"source", "target"}, writes : 0 .. MaxWrite, by : 0 .. started']
           /\ backup \in [on : BOOLEAN, schema : {"source", "target"}, writes : 0 .. MaxWrite, at : 0 .. started']
           /\ group \in [Service -> [pgid : Pids \cup {0}, members : SUBSET (1 .. started'), open : BOOLEAN]]
           /\ hit \subseteq 1 .. started'
<1>1. started \in Nat
  BY TypesOfProcs, LiveStarted
<1>2. 0 .. started \subseteq 0 .. started' /\ 1 .. started \subseteq 1 .. started'
  BY <1>1
<1>3. /\ data \in [schema : {"source", "target"}, writes : 0 .. MaxWrite, by : 0 .. started']
      /\ backup \in [on : BOOLEAN, schema : {"source", "target"}, writes : 0 .. MaxWrite, at : 0 .. started']
  BY <1>2 DEF UpgradeTypeOK
<1>4. [pgid : Pids \cup {0}, members : SUBSET (1 .. started), open : BOOLEAN]
        \subseteq [pgid : Pids \cup {0}, members : SUBSET (1 .. started'), open : BOOLEAN]
  BY <1>2
<1>5. group \in [Service -> [pgid : Pids \cup {0}, members : SUBSET (1 .. started'), open : BOOLEAN]]
  BY <1>4 DEF UpgradeTypeOK
<1> QED BY <1>2, <1>3, <1>5 DEF UpgradeTypeOK

-----------------------------------------------------------------------------
(* What keeps the parts of the invariant.                                    *)

SameMembers == \A s \in Service : group'[s].members = group[s].members

\* No group is shared by two services, although a freed process id becomes a new group.
LEMMA ApartKept ==
    ASSUME UpgradeTypeOK, GroupsApart, ProcTypes', Ages, SameMembers, hit' \subseteq hit \cup Captured,
           \/ started' = started
           \/ \E s \in Service \cup {"other"}, p \in Pids, g \in Pids, root \in BOOLEAN :
                 Appears(s, p, g, root) /\ \A j \in Live : proc[j].pgid = g => proc[j].svc = s
    PROVE  GroupsApart'
<1>1. /\ Live \subseteq 1 .. started /\ 1 .. started \subseteq Execution
      /\ started \in Nat /\ started >= 2
  BY TypesOfProcs, LiveStarted
<1>2. Live' \subseteq 1 .. started'
  <2>1. (ProcTypes => Live \subseteq 1 .. started)'
    BY LiveIsStarted, PTL
  <2> QED BY <2>1
<1>3. \A i \in 1 .. started : i \in Live' => i \in Live
  BY <1>1 DEF Ages, Live
<1>4. \A i, j \in Live' : proc'[i].pgid = proc'[j].pgid => proc'[i].svc = proc'[j].svc
  <2>1. CASE started' = started
    BY <2>1, <1>2, <1>3 DEF Ages, GroupsApart
  <2>2. ASSUME NEW s \in Service \cup {"other"}, NEW p \in Pids, NEW g \in Pids, NEW root \in BOOLEAN,
               Appears(s, p, g, root), \A j \in Live : proc[j].pgid = g => proc[j].svc = s
        PROVE  \A i, j \in Live' : proc'[i].pgid = proc'[j].pgid => proc'[i].svc = proc'[j].svc
    <3>1. proc'[started + 1].svc = s /\ proc'[started + 1].pgid = g /\ started' = started + 1
      BY <2>2 DEF Appears
    <3>2. \A i \in Live' : i # started + 1 => /\ i \in Live
                                              /\ proc'[i].pgid = proc[i].pgid /\ proc'[i].svc = proc[i].svc
      <4>1. \A i \in Live' : i # started + 1 => i \in 1 .. started
        BY <1>1, <1>2, <3>1
      <4> QED BY <1>3, <4>1 DEF Ages
    <3> QED BY <3>1, <3>2, <2>2 DEF GroupsApart
  <2> QED BY <2>1, <2>2
<1>5. \A s \in Service : \A i \in group'[s].members : proc'[i].svc = s
  <2>1. \A s \in Service : group[s].members \subseteq 1 .. started
    BY DEF UpgradeTypeOK
  <2> QED BY <2>1 DEF Ages, GroupsApart, SameMembers
<1>6. \A i \in hit' : proc'[i].svc \in Service
  <2>1. \A i \in hit \cup Captured : i \in 1 .. started /\ proc[i].svc \in Service
    <3>1. \A i \in hit : i \in 1 .. started /\ proc[i].svc \in Service
      BY DEF UpgradeTypeOK, GroupsApart
    <3>2. \A s \in Service : group[s].members \subseteq 1 .. started
      BY DEF UpgradeTypeOK
    <3>3. \A i \in Captured : i \in 1 .. started /\ proc[i].svc \in Service
      BY <3>2 DEF GroupsApart, Captured
    <3> QED BY <3>1, <3>3
  <2> QED BY <2>1 DEF Ages
<1>7. proc'[1].svc = "edge"
  BY <1>1 DEF Ages, GroupsApart
<1> QED BY <1>4, <1>5, <1>6, <1>7 DEF GroupsApart

\* A root of a service was one before, or has just appeared as one.
LEMMA RootsAge ==
    ASSUME UpgradeTypeOK, ProcTypes', Ages, NEW svc \in Service, started' \in {started, started + 1}
    PROVE  \A i \in Root(svc)' : \/ i \in Root(svc)
                                 \/ /\ i = started + 1 /\ started' = started + 1
                                    /\ proc'[i].svc = svc /\ proc'[i].root
<1>1. 1 .. started \subseteq Execution /\ started \in Nat
  BY TypesOfProcs, LiveStarted
<1>2. Live' \subseteq 1 .. started'
  <2>1. (ProcTypes => Live \subseteq 1 .. started)'
    BY LiveIsStarted, PTL
  <2> QED BY <2>1
<1> SUFFICES ASSUME NEW i \in Root(svc)', i \notin Root(svc)
             PROVE  /\ i = started + 1 /\ started' = started + 1
                    /\ proc'[i].svc = svc /\ proc'[i].root
  OBVIOUS
<1>3. i \in Live' /\ i \in 1 .. started' /\ proc'[i].svc = svc /\ proc'[i].root /\ proc'[i].live
  BY <1>2 DEF Root, Live
<1>4. i \notin 1 .. started
  BY <1>1, <1>3 DEF Ages, Root, Live
<1> QED BY <1>1, <1>3, <1>4

\* Both groups have been captured, and the upgrade has not given up.
Fencing == Booting \cup Stopping \cup Gone

\* A step that makes no root of the Control Plane, and drops only groups that are gone.
LEMMA RootsKept ==
    ASSUME RootInv, Root("cp")' \subseteq Root("cp"), SameMembers, late' = late,
           data'.schema = data.schema,
           \A s \in Service : /\ group[s].members \cap Live' \subseteq Live
                              /\ group'[s].open \/ ~group[s].open \/ group[s].members \cap Live = {},
           step' \in Fencing => step \in Fencing,
           step' \in Restarted => step \in Fencing \cup Restarted
    PROVE  RootInv'
<1>1. \A s \in Service : ~group'[s].open => group'[s].members \cap Live' = {}
  <2> SUFFICES ASSUME NEW s \in Service, ~group'[s].open PROVE group'[s].members \cap Live' = {}
    OBVIOUS
  <2>1. group[s].members \cap Live = {}
    BY DEF RootInv
  <2>2. group'[s].members = group[s].members
    BY DEF SameMembers
  <2> QED BY <2>1, <2>2
<1>2. "cp" \notin late' => \A i, j \in Root("cp")' : i = j
  BY DEF RootInv
<1>3. group'["cp"].members = group["cp"].members
  BY DEF SameMembers, Service
<1>4. step' \in Fencing => \/ Root("cp")' \subseteq group'["cp"].members
                           \/ "cp" \in late' /\ (Migrates => data'.schema = "target")
  BY <1>3 DEF RootInv, Fencing
<1>5. step' \in Fencing \cup Restarted /\ 2 \in Root("cp")' => 2 \in group'["cp"].members
  BY <1>3 DEF RootInv, Fencing
<1> QED BY <1>1, <1>2, <1>4, <1>5 DEF RootInv, Fencing

\* A step that writes nothing, and whose new roots are younger than the backup.
LEMMA BackupKept ==
    ASSUME UpgradeTypeOK, BackupInv, backup' = backup, late \subseteq late',
           data'.writes = data.writes, data'.by = data.by,
           \A i \in Root("cp")' : i \in Root("cp") \/ i = started + 1
    PROVE  BackupInv'
<1>1. started \in Nat /\ backup.at \in 0 .. started
  BY TypesOfProcs, LiveStarted DEF UpgradeTypeOK
<1>2. started + 1 > backup.at
  BY <1>1
<1>3. BackupOfSource'
  BY DEF BackupInv, BackupOfSource
<1>4. ASSUME Migrates \/ "cp" \notin late', backup'.on
      PROVE  /\ data'.writes >= backup'.writes
             /\ data'.writes > backup'.writes => data'.by > backup'.at
             /\ \A i \in Root("cp")' : i > backup'.at
  <2>1. (Migrates \/ "cp" \notin late) /\ backup.on
    BY <1>4
  <2> QED BY <1>2, <2>1 DEF BackupInv
<1> QED BY <1>3, <1>4 DEF BackupInv

\* A step that ends executions at most, and moves on as the upgrade moves.
Fades ==
    /\ ProcTypes' /\ Ages /\ started' = started /\ Live' \subseteq Live

\* Such a step makes no process a service's root.
LEMMA RootsFade ==
    ASSUME UpgradeTypeOK, Fades
    PROVE  \A s \in Service : Root(s)' \subseteq Root(s)
<1> SUFFICES ASSUME NEW s \in Service PROVE Root(s)' \subseteq Root(s)
  OBVIOUS
<1>1. started \in Nat /\ started' = started
  BY TypesOfProcs, LiveStarted DEF Fades
<1> QED BY <1>1, RootsAge DEF Fades

-----------------------------------------------------------------------------
(* The host.                                                                 *)

\* What the host does to the processes of a captured group, or to a new execution that is no root
\* of the Control Plane, leaves the phase, the groups and the backup alone.
HostMove(s, p, g, root) ==
    /\ ProcTypes' /\ Ages
    /\ started' = started \/ Appears(s, p, g, root)
    /\ \A j \in Live : proc[j].pgid = g => proc[j].svc = s
    /\ UNCHANGED <<step, loaded, backup, group, hit, late>>
    /\ plist' \in [Service -> {"reviewed", "other"}]

\* Everything but the roots and the writes is as it was.
LEMMA HostKeeps ==
    ASSUME UpgradeInv, NEW s \in Service \cup {"other"}, NEW p \in Pids, NEW g \in Pids,
           NEW root \in BOOLEAN, HostMove(s, p, g, root),
           data' \in [schema : {"source", "target"}, writes : 0 .. MaxWrite, by : 0 .. started']
    PROVE  UpgradeTypeOK' /\ GroupsApart' /\ PhaseInv'
<1>1. started' \in {started, started + 1}
  BY DEF HostMove, Appears
<1>2. UpgradeTypeOK'
  BY <1>1, Widened DEF UpgradeInv, UpgradeTypeOK, HostMove, ProcTypes
<1>3. GroupsApart'
  BY ApartKept DEF UpgradeInv, HostMove, SameMembers
<1>4. PhaseInv'
  BY DEF UpgradeInv, HostMove, PhaseInv, Remaining
<1> QED BY <1>2, <1>3, <1>4

\* The rest of the invariant, when no root of the Control Plane appears and nothing is written.
LEMMA HostKeepsAll ==
    ASSUME UpgradeInv, NEW s \in Service \cup {"other"}, NEW p \in Pids, NEW g \in Pids,
           NEW root \in BOOLEAN, HostMove(s, p, g, root), s # "cp" \/ ~root \/ started' = started,
           data' = data
    PROVE  UpgradeInv'
<1>0. started' \in {started, started + 1}
  BY DEF HostMove, Appears
<1>1. UpgradeTypeOK' /\ GroupsApart' /\ PhaseInv'
  BY <1>0, HostKeeps, Widened DEF UpgradeInv
<1>2. Root("cp")' \subseteq Root("cp")
  <2>1. "cp" \in Service /\ started \in Nat
    BY TypesOfProcs, LiveStarted DEF UpgradeInv, Service
  <2>2. \A i \in Root("cp")' : \/ i \in Root("cp")
                                \/ /\ i = started + 1 /\ started' = started + 1
                                   /\ proc'[i].svc = "cp" /\ proc'[i].root
    BY <1>0, <2>1, RootsAge DEF UpgradeInv, HostMove
  <2>3. started' = started + 1 => Appears(s, p, g, root)
    BY <2>1 DEF HostMove
  <2> QED BY <2>1, <2>2, <2>3 DEF Appears
<1>3. \A t \in Service : group[t].members \cap Live' \subseteq Live
  <2>1. \A t \in Service : group[t].members \subseteq 1 .. started
    BY DEF UpgradeInv, UpgradeTypeOK
  <2>2. 1 .. started \subseteq Execution
    BY TypesOfProcs, LiveStarted DEF UpgradeInv
  <2> QED BY <2>1, <2>2 DEF HostMove, Ages, Live
<1>4. RootInv'
  BY <1>2, <1>3, RootsKept DEF UpgradeInv, HostMove, SameMembers
<1>5. BackupInv'
  BY <1>2, BackupKept DEF UpgradeInv, HostMove
<1> QED BY <1>1, <1>4, <1>5 DEF UpgradeInv

\* A process of a captured group may fork.
LEMMA ForkKeeps == ASSUME UpgradeInv, NEW i \in Execution, Fork(i) PROVE UpgradeInv'
<1>1. i \in Live /\ ProcTypes
  BY TypesOfProcs DEF Fork, UpgradeInv
<1>2. proc[i].svc \in Service \cup {"other"} /\ proc[i].pgid \in Pids
  BY <1>1, LiveStarted DEF Processes
<1>3. PICK p \in Free : Spawn(proc[i].svc, p, proc[i].pgid, FALSE, 0)
  BY DEF Fork
<1>4. p \in Pids
  BY DEF Free
<1>5. Ages /\ Appears(proc[i].svc, p, proc[i].pgid, FALSE) /\ ProcTypes'
  BY <1>1, <1>2, <1>3, SpawnAppears
<1>6. \A j \in Live : proc[j].pgid = proc[i].pgid => proc[j].svc = proc[i].svc
  BY <1>1 DEF UpgradeInv, GroupsApart
<1>7. UNCHANGED <<step, loaded, plist, data, backup, group, hit, late>>
  BY DEF Fork
<1>8. HostMove(proc[i].svc, p, proc[i].pgid, FALSE)
  BY <1>5, <1>6, <1>7 DEF HostMove, UpgradeInv, UpgradeTypeOK
<1> QED BY <1>2, <1>4, <1>7, <1>8, HostKeepsAll

\* Somebody else's process takes a free process id, and with it a group of its own.
LEMMA BystanderKeeps == ASSUME UpgradeInv, Bystander PROVE UpgradeInv'
<1>1. PICK p \in Free : Spawn("other", p, p, TRUE, 0)
  BY DEF Bystander
<1>2. p \in Pids /\ ProcTypes
  BY TypesOfProcs DEF Free, UpgradeInv
<1>3. Ages /\ Appears("other", p, p, TRUE) /\ ProcTypes'
  BY <1>1, <1>2, SpawnAppears
<1>4. \A j \in Live : proc[j].pgid # p
  BY DEF Free
<1>5. UNCHANGED <<step, loaded, plist, data, backup, group, hit, late>>
  BY DEF Bystander
<1>6. HostMove("other", p, p, TRUE)
  BY <1>3, <1>4, <1>5 DEF HostMove, UpgradeInv, UpgradeTypeOK
<1> QED BY <1>2, <1>5, <1>6, HostKeepsAll

\* A process exits.
LEMMA ExitKeeps == ASSUME UpgradeInv, NEW i \in Execution, Exit(i) PROVE UpgradeInv'
<1>1. i \in Live /\ ProcTypes
  BY TypesOfProcs DEF Exit, UpgradeInv
<1>2. proc' = [k \in Execution |-> IF k \in {i} THEN [proc[k] EXCEPT !.live = FALSE] ELSE proc[k]]
  BY <1>1 DEF Exit, ProcTypes
<1>3. UNCHANGED <<step, loaded, plist, started, data, backup, group, hit, late>>
  BY DEF Exit
<1>4. Ages /\ ProcTypes'
  BY <1>1, <1>2, <1>3, DeathsAge
<1>5. PICK p \in Pids : TRUE
  BY <1>1, LiveStarted DEF Processes
<1>6. proc[i].svc \in Service \cup {"other"} /\ proc[i].pgid \in Pids
  BY <1>1, LiveStarted DEF Processes
<1>7. \A j \in Live : proc[j].pgid = proc[i].pgid => proc[j].svc = proc[i].svc
  BY <1>1 DEF UpgradeInv, GroupsApart
<1>8. HostMove(proc[i].svc, p, proc[i].pgid, FALSE)
  BY <1>3, <1>4, <1>7 DEF HostMove, UpgradeInv, UpgradeTypeOK
<1> QED BY <1>3, <1>6, <1>8, HostKeepsAll

\* A service crashes and launchd starts it again.
LEMMA RestartKeeps == ASSUME UpgradeInv, NEW s \in Service, Restart(s) PROVE UpgradeInv'
<1>1. PICK i \in Root(s), p \in Free : Spawn(s, p, p, TRUE, i)
  BY DEF Restart
<1>2. /\ s \in loaded /\ late' = IF group[s].open THEN late \cup {s} ELSE late
      /\ data' = IF s = "cp" THEN Opened ELSE data
      /\ UNCHANGED <<step, loaded, plist, backup, group, hit>>
  BY DEF Restart
<1>3. i \in Live /\ i \in Execution /\ p \in Pids /\ ProcTypes /\ started \in Nat
  BY TypesOfProcs, LiveStarted DEF Root, Live, Free, UpgradeInv
<1>4. Ages /\ Appears(s, p, p, TRUE) /\ ProcTypes' /\ i \notin Live'
  BY <1>1, <1>3, SpawnAppears
<1>5. started' = started + 1 /\ started' \in {started, started + 1}
  BY <1>4 DEF Appears
<1>6. /\ data' \in [schema : {"source", "target"}, writes : 0 .. MaxWrite, by : 0 .. started']
      /\ data'.writes = data.writes /\ data'.by = data.by
      /\ s = "cp" /\ Migrates => data'.schema = "target"
      /\ data.schema = "target" => data'.schema = "target"
  <2>1. data \in [schema : {"source", "target"}, writes : 0 .. MaxWrite, by : 0 .. started']
    BY <1>5, Widened DEF UpgradeInv
  <2> QED BY <1>2, <2>1 DEF Opened
<1>7. late \subseteq late' /\ late' \subseteq Service /\ (group[s].open => s \in late')
  BY <1>2 DEF UpgradeInv, UpgradeTypeOK
<1>8. UpgradeTypeOK'
  BY <1>2, <1>4, <1>5, <1>6, <1>7, Widened DEF UpgradeInv, UpgradeTypeOK, ProcTypes
<1>9. GroupsApart'
  <2>1. \A j \in Live : proc[j].pgid # p
    BY DEF Free
  <2> QED BY <1>2, <1>3, <1>4, <2>1, ApartKept DEF UpgradeInv, SameMembers
<1>10. PhaseInv'
  <2>1. step \in Before => "cp" \notin late'
    BY <1>2 DEF UpgradeInv, PhaseInv
  <2>2. PhaseInv /\ Remaining' = Remaining
    BY <1>2 DEF UpgradeInv, Remaining
  <2>3. step' = step /\ loaded' = loaded /\ group' = group
    BY <1>2
  <2>4. step' \in Before => ~group'["cp"].open /\ "cp" \notin late'
    BY <2>1, <2>2, <2>3 DEF PhaseInv
  <2>5. step' \in Booting => group'["cp"].open
    BY <2>2, <2>3 DEF PhaseInv
  <2>6. step' \in Stopping \cup Gone => "cp" \notin loaded'
    BY <2>2, <2>3 DEF PhaseInv
  <2>7. step' \in Gone \cup Restarted => Remaining' = {}
    BY <2>2, <2>3 DEF PhaseInv
  <2> QED BY <2>4, <2>5, <2>6, <2>7 DEF PhaseInv
<1>11. \A t \in Service : \A j \in Root(t)' : (j \in Root(t) /\ j # i) \/ (j = started + 1 /\ t = s)
  <2> SUFFICES ASSUME NEW t \in Service, NEW j \in Root(t)'
               PROVE  (j \in Root(t) /\ j # i) \/ (j = started + 1 /\ t = s)
    OBVIOUS
  <2>1. j \in Live'
    BY DEF Root
  <2>2. \A k \in Root(t)' : \/ k \in Root(t)
                            \/ /\ k = started + 1 /\ started' = started + 1
                               /\ proc'[k].svc = t /\ proc'[k].root
    BY <1>4, <1>5, RootsAge DEF UpgradeInv
  <2> QED BY <1>4, <2>1, <2>2 DEF Appears
<1>12. RootInv'
  <2>1. \A t \in Service : ~group'[t].open => group'[t].members \cap Live' = {}
    <3>1. \A t \in Service : group[t].members \cap Live' \subseteq Live
      <4>1. \A t \in Service : group[t].members \subseteq 1 .. started
        BY DEF UpgradeInv, UpgradeTypeOK
      <4>2. 1 .. started \subseteq Execution
        BY <1>3, LiveStarted
      <4> QED BY <1>4, <4>1, <4>2 DEF Ages, Live
    <3> QED BY <1>2, <3>1 DEF UpgradeInv, RootInv
  <2>2. ASSUME "cp" \notin late' PROVE \A j, k \in Root("cp")' : j = k
    <3>1. \A j, k \in Root("cp") : j = k
      BY <1>7, <2>2 DEF UpgradeInv, RootInv
    <3> QED BY <1>11, <3>1, <1>1 DEF Service
  <2>3. ASSUME step' \in Fencing
        PROVE  \/ Root("cp")' \subseteq group'["cp"].members
               \/ "cp" \in late' /\ (Migrates => data'.schema = "target")
    <3>1. CASE s = "cp"
      <4>1. step \in Booting
        BY <1>2, <2>3, <3>1 DEF UpgradeInv, PhaseInv, Fencing
      <4>2. "cp" \in late'
        BY <1>7, <3>1, <4>1 DEF UpgradeInv, PhaseInv
      <4> QED BY <1>6, <3>1, <4>2
    <3>2. CASE s # "cp"
      <4>1. Root("cp")' \subseteq Root("cp")
        BY <1>11, <3>2 DEF Service
      <4>2. \/ Root("cp") \subseteq group["cp"].members
            \/ "cp" \in late /\ (Migrates => data.schema = "target")
        BY <1>2, <2>3 DEF UpgradeInv, RootInv, Fencing
      <4> QED BY <1>2, <1>6, <1>7, <4>1, <4>2
    <3> QED BY <3>1, <3>2
  <2>4. step' \in Fencing \cup Restarted /\ 2 \in Root("cp")' => 2 \in group'["cp"].members
    <3>1. started + 1 # 2
      BY <1>3, LiveStarted
    <3>2. 2 \in Root("cp")' => 2 \in Root("cp")
      BY <1>11, <3>1 DEF Service
    <3> QED BY <1>2, <3>2 DEF UpgradeInv, RootInv, Fencing
  <2> QED BY <2>1, <2>2, <2>3, <2>4 DEF RootInv, Fencing
<1>13. BackupInv'
  <2>1. \A j \in Root("cp")' : j \in Root("cp") \/ j = started + 1
    BY <1>11 DEF Service
  <2> QED BY <1>2, <1>6, <1>7, <2>1, BackupKept DEF UpgradeInv
<1> QED BY <1>8, <1>9, <1>10, <1>12, <1>13 DEF UpgradeInv

\* The Control Plane commits a write.
LEMMA WriteKeeps == ASSUME UpgradeInv, NEW i \in Execution, Write(i) PROVE UpgradeInv'
<1>1. /\ i \in Root("cp") /\ data.writes < MaxWrite
      /\ data' = [data EXCEPT !.writes = @ + 1, !.by = i]
      /\ UNCHANGED <<step, loaded, plist, proc, started, backup, group, hit, late>>
  BY DEF Write
<1>2. i \in 1 .. started /\ 1 .. started \subseteq 0 .. started
  BY <1>1, TypesOfProcs, LiveStarted DEF Root, UpgradeInv
<1>3. data' \in [schema : {"source", "target"}, writes : 0 .. MaxWrite, by : 0 .. started]
  <2>1. data \in [schema : {"source", "target"}, writes : 0 .. MaxWrite, by : 0 .. started]
    BY DEF UpgradeInv, UpgradeTypeOK
  <2>2. data.writes + 1 \in 0 .. MaxWrite
    BY <1>1, <2>1, Bounds
  <2> QED BY <1>1, <1>2, <2>1, <2>2
<1>4. data'.schema = data.schema /\ data'.writes = data.writes + 1 /\ data'.by = i
  BY <1>1 DEF UpgradeInv, UpgradeTypeOK
<1>5. Live' = Live /\ Root("cp")' = Root("cp")
  BY <1>1 DEF Live, Root
<1>6. UpgradeTypeOK'
  BY <1>1, <1>3, <1>5 DEF UpgradeInv, UpgradeTypeOK
<1>7. GroupsApart' /\ PhaseInv'
  BY <1>1, <1>5 DEF UpgradeInv, GroupsApart, PhaseInv, Remaining
<1>8. RootInv'
  BY <1>1, <1>4, <1>5, RootsKept DEF UpgradeInv, SameMembers
<1>9. BackupInv'
  <2>1. BackupOfSource'
    BY <1>1 DEF UpgradeInv, BackupInv, BackupOfSource
  <2>2. data.writes \in Nat /\ backup.writes \in Nat
    <3>1. data.writes \in 0 .. MaxWrite /\ backup.writes \in 0 .. MaxWrite
      BY DEF UpgradeInv, UpgradeTypeOK
    <3> QED BY <3>1, Bounds
  <2> QED BY <1>1, <1>4, <1>5, <2>1, <2>2 DEF UpgradeInv, BackupInv
<1> QED BY <1>6, <1>7, <1>8, <1>9 DEF UpgradeInv

\* A plist is edited.
LEMMA EditKeeps == ASSUME UpgradeInv, NEW s \in Service, EditPlist(s) PROVE UpgradeInv'
<1>1. /\ plist' = [plist EXCEPT ![s] = "other"]
      /\ UNCHANGED <<step, loaded, proc, started, data, backup, group, hit, late>>
  BY DEF EditPlist
<1>2. Live' = Live /\ Root("cp")' = Root("cp")
  BY <1>1 DEF Live, Root
<1>3. UpgradeTypeOK'
  BY <1>1, <1>2 DEF UpgradeInv, UpgradeTypeOK
<1>4. GroupsApart' /\ PhaseInv' /\ RootInv' /\ BackupInv'
  BY <1>1, <1>2 DEF UpgradeInv, GroupsApart, PhaseInv, Remaining, RootInv, BackupInv, BackupOfSource
<1> QED BY <1>3, <1>4 DEF UpgradeInv

-----------------------------------------------------------------------------
(* The upgrade.                                                              *)

\* How the upgrade goes on, or gives up, without touching anything.
Moves ==
    \/ step' \in {"refused", "unknown"}
    \/ step \in Before /\ step' \in Before
    \/ step = "unloaded" /\ loaded = {} /\ step' = "wait"
    \/ step \in Stopping \ {"unloaded"} /\ step' \in Stopping \ {"unloaded"}
    \/ step = "stopped" /\ step' = "backup"
    \/ step \in Restarted /\ step' \in Restarted

\* A step of the upgrade that only moves on.
LEMMA StopKeeps ==
    ASSUME UpgradeInv, NEW how \in UpgradeSteps, Stop(how), Moves
    PROVE  UpgradeInv'
<1>1. step' = how /\ UNCHANGED <<loaded, plist, proc, started, data, backup, group, hit, late>>
  BY DEF Stop, Goto, HostUnchanged
<1>2. Live' = Live /\ Root("cp")' = Root("cp")
  BY <1>1 DEF Live, Root
<1>3. backup.on => step \in {"bootstrap_cp", "cp_ready", "bootstrap_edge", "all_ready"} \cup Ended
  BY DEF UpgradeInv, UpgradeTypeOK
<1>4. backup'.on => step' \in {"bootstrap_cp", "cp_ready", "bootstrap_edge", "all_ready"} \cup Ended
  BY <1>1, <1>3 DEF Moves, Before, Stopping, Restarted, Ended
<1>5. UpgradeTypeOK'
  BY <1>1, <1>2, <1>4 DEF UpgradeInv, UpgradeTypeOK
<1>6. GroupsApart'
  BY <1>1, <1>2 DEF UpgradeInv, GroupsApart
<1>7. PhaseInv'
  <2>1. PhaseInv /\ Remaining' = Remaining
    BY <1>1 DEF UpgradeInv, Remaining
  <2> QED BY <1>1, <2>1 DEF PhaseInv, Moves, Before, Booting, Stopping, Gone, Restarted
<1>8. RootInv'
  <2>1. step' \in Fencing => step \in Fencing
    BY DEF Moves, Fencing, Before, Booting, Stopping, Gone, Restarted
  <2>2. step' \in Restarted => step \in Fencing \cup Restarted
    BY DEF Moves, Fencing, Before, Booting, Stopping, Gone, Restarted
  <2> QED BY <1>1, <1>2, <2>1, <2>2, RootsKept DEF UpgradeInv, SameMembers
<1>9. BackupInv'
  BY <1>1, <1>2 DEF UpgradeInv, BackupInv, BackupOfSource
<1> QED BY <1>5, <1>6, <1>7, <1>8, <1>9 DEF UpgradeInv

\* The preflight and its trial, what is refused or fails, and what only waits.
LEMMA IdleKeeps ==
    ASSUME UpgradeInv, Preflight \/ Trial \/ Probe \/ Unloaded \/ Stopped
                       \/ Ready({"cp"}, "cp_ready", "bootstrap_edge") \/ Ready(Service, "all_ready", "ready")
    PROVE  UpgradeInv'
<1>1. CASE Preflight
  BY <1>1, StopKeeps DEF Preflight, Moves, Before, UpgradeSteps, Ended, Stop, Goto
<1>2. CASE Trial
  BY <1>2, StopKeeps DEF Trial, Moves, Before, UpgradeSteps, Ended, Stop, Goto
<1>3. CASE Probe
  BY <1>3, StopKeeps DEF Probe, Moves, Before, UpgradeSteps, Ended, Stop, Goto
<1>4. CASE Unloaded
  BY <1>4, StopKeeps DEF Unloaded, Moves, UpgradeSteps, Ended, Stop, Goto
<1>5. CASE Stopped
  BY <1>5, StopKeeps DEF Stopped, Moves, UpgradeSteps, Ended, Stop, Goto
<1>6. CASE Ready({"cp"}, "cp_ready", "bootstrap_edge")
  BY <1>6, StopKeeps DEF Ready, Moves, Restarted, UpgradeSteps, Ended, Stop, Goto
<1>7. CASE Ready(Service, "all_ready", "ready")
  BY <1>7, StopKeeps DEF Ready, Moves, Restarted, UpgradeSteps, Ended, Stop, Goto
<1> QED BY <1>1, <1>2, <1>3, <1>4, <1>5, <1>6, <1>7

\* A capture that is refused stops the upgrade, as does a failed bootout or bootstrap.
LEMMA RefusedKeeps ==
    ASSUME UpgradeInv, NEW how \in {"refused", "unknown"}, Stop(how)
    PROVE  UpgradeInv'
  BY StopKeeps DEF Moves, UpgradeSteps, Ended, Stop, Goto

\* The group of a running root is captured as it is.
LEMMA CaptureKeeps ==
    ASSUME UpgradeInv, NEW s \in Service, NEW here \in UpgradeSteps, NEW next \in UpgradeSteps,
           Capture(s, here, next),
           \/ s = "edge" /\ here = "capture_edge" /\ next = "capture_cp"
           \/ s = "cp" /\ here = "capture_cp" /\ next = "bootout_edge"
    PROVE  UpgradeInv'
<1>1. CASE ~Bound(s) /\ Stop("refused")
  BY <1>1, RefusedKeeps
<1>2. ASSUME NEW r \in Root(s),
             group' = [group EXCEPT ![s] = [pgid |-> proc[r].pgid, members |-> InGroup(proc[r].pgid),
                                            open |-> TRUE]],
             Goto(next), HostUnchanged, UNCHANGED <<backup, hit, late>>
      PROVE  UpgradeInv'
  <2>1. step = here /\ step' = next
        /\ UNCHANGED <<loaded, plist, proc, started, data, backup, hit, late>>
    BY <1>2 DEF Capture, Goto, HostUnchanged
  <2>2. Live' = Live /\ Root("cp")' = Root("cp")
    BY <2>1 DEF Live, Root
  <2>3. /\ r \in Live /\ proc[r].svc = s /\ r \in 1 .. started /\ proc[r] \in Processes
        /\ Live \subseteq 1 .. started
    BY TypesOfProcs, LiveStarted DEF Root, UpgradeInv
  <2>4. /\ InGroup(proc[r].pgid) \subseteq Live /\ r \in InGroup(proc[r].pgid)
        /\ \A i \in InGroup(proc[r].pgid) : proc[i].svc = s
    BY <2>3 DEF InGroup, UpgradeInv, GroupsApart
  <2>5. [pgid |-> proc[r].pgid, members |-> InGroup(proc[r].pgid), open |-> TRUE]
          \in [pgid : Pids \cup {0}, members : SUBSET (1 .. started), open : BOOLEAN]
    BY <2>3, <2>4 DEF Processes
  <2>6. /\ group'[s].members = InGroup(proc[r].pgid) /\ group'[s].open
        /\ \A t \in Service : t # s => group'[t] = group[t]
        /\ group' \in [Service -> [pgid : Pids \cup {0}, members : SUBSET (1 .. started), open : BOOLEAN]]
    BY <1>2, <2>5 DEF UpgradeInv, UpgradeTypeOK
  <2>7. step' \in UpgradeSteps /\ step \in Before /\ ~backup.on
    <3>1. step \in Before /\ step' \in UpgradeSteps
      BY <2>1 DEF Before, UpgradeSteps
    <3>2. step \notin {"bootstrap_cp", "cp_ready", "bootstrap_edge", "all_ready"} \cup Ended
      BY <3>1 DEF Before, Ended
    <3> QED BY <3>1, <3>2 DEF UpgradeInv, UpgradeTypeOK
  <2>8. UpgradeTypeOK'
    BY <2>1, <2>2, <2>6, <2>7 DEF UpgradeInv, UpgradeTypeOK
  <2>9. GroupsApart'
    <3>1. \A i, j \in Live' : proc'[i].pgid = proc'[j].pgid => proc'[i].svc = proc'[j].svc
      BY <2>1, <2>2 DEF UpgradeInv, GroupsApart
    <3>2. \A t \in Service : \A i \in group'[t].members : proc[i].svc = t
      <4>1. \A i \in group'[s].members : proc[i].svc = s
        BY <2>4, <2>6
      <4>2. \A t \in Service : \A i \in group[t].members : proc[i].svc = t
        BY DEF UpgradeInv, GroupsApart
      <4> QED BY <2>6, <4>1, <4>2
    <3> QED BY <2>1, <3>1, <3>2 DEF UpgradeInv, GroupsApart
  <2>10. PhaseInv'
    <3>1. "cp" \notin late /\ ~group["cp"].open
      BY <2>7 DEF UpgradeInv, PhaseInv
    <3>2. CASE s = "edge"
      BY <2>1, <2>6, <3>1, <3>2 DEF PhaseInv, Before, Booting, Stopping, Gone, Restarted, Service
    <3>3. CASE s = "cp"
      BY <2>1, <2>6, <3>1, <3>3 DEF PhaseInv, Before, Booting, Stopping, Gone, Restarted, Service
    <3> QED BY <3>2, <3>3 DEF Service
  <2>11. RootInv'
    <3>1. \A t \in Service : ~group'[t].open => group'[t].members \cap Live' = {}
      BY <2>2, <2>6 DEF UpgradeInv, RootInv
    <3>2. \A i, j \in Root("cp") : i = j
      BY <2>7 DEF UpgradeInv, RootInv, PhaseInv
    <3>3. CASE s = "edge"
      BY <2>1, <2>2, <3>1, <3>2, <3>3 DEF RootInv, Booting, Stopping, Gone, Restarted
    <3>4. CASE s = "cp"
      <4>1. Root("cp")' \subseteq group'["cp"].members
        <5>1. \A i \in Root("cp") : i = r
          BY <3>2, <3>4
        <5> QED BY <2>2, <2>4, <2>6, <3>4, <5>1
      <4> QED BY <2>2, <3>1, <3>2, <4>1 DEF RootInv
    <3> QED BY <3>3, <3>4 DEF Service
  <2>12. BackupInv'
    BY <2>1, <2>7 DEF UpgradeInv, BackupInv, BackupOfSource
  <2> QED BY <2>8, <2>9, <2>10, <2>11, <2>12 DEF UpgradeInv
<1> QED BY <1>1, <1>2 DEF Capture

\* A job is booted out; its processes are still there.
LEMMA BootoutKeeps ==
    ASSUME UpgradeInv, NEW s \in Service, NEW here \in UpgradeSteps, NEW next \in UpgradeSteps,
           Bootout(s, here, next),
           \/ s = "edge" /\ here = "bootout_edge" /\ next = "bootout_cp"
           \/ s = "cp" /\ here = "bootout_cp" /\ next = "unloaded"
    PROVE  UpgradeInv'
<1>1. CASE Stop("refused") \/ Stop("unknown")
  BY <1>1, RefusedKeeps
<1>2. CASE /\ loaded' = loaded \ {s} /\ Goto(next)
           /\ UNCHANGED <<plist, proc, started, data, backup, group, hit, late>>
  <2>1. step = here /\ step' = next /\ step \in Booting /\ step' \in Booting \cup Stopping
    BY <1>2 DEF Bootout, Goto, Booting, Stopping
  <2>2. Live' = Live /\ Root("cp")' = Root("cp") /\ Remaining' = Remaining
    BY <1>2 DEF Live, Root, Remaining
  <2>3. ~backup.on
    BY <2>1 DEF UpgradeInv, UpgradeTypeOK, Booting, Ended
  <2>4. step' \in UpgradeSteps /\ loaded' \subseteq Service
    BY <1>2, <2>1 DEF UpgradeInv, UpgradeTypeOK, Booting, Stopping, UpgradeSteps
  <2>5. UpgradeTypeOK'
    BY <1>2, <2>2, <2>3, <2>4 DEF UpgradeInv, UpgradeTypeOK
  <2>6. GroupsApart'
    BY <1>2, <2>2 DEF UpgradeInv, GroupsApart
  <2>7. PhaseInv'
    <3>1. step' \notin Before \cup Gone \cup Restarted
      BY <2>1 DEF Before, Booting, Stopping, Gone, Restarted
    <3>2. group'["cp"].open
      BY <1>2, <2>1 DEF UpgradeInv, PhaseInv
    <3>3. step' \in Stopping => "cp" \notin loaded'
      BY <1>2, <2>1 DEF Stopping
    <3> QED BY <3>1, <3>2, <3>3 DEF PhaseInv
  <2>8. RootInv'
    <3>1. step' \in Fencing => step \in Fencing
      BY <2>1 DEF Fencing
    <3>2. step' \notin Restarted
      BY <2>1 DEF Booting, Stopping, Restarted
    <3> QED BY <1>2, <2>2, <3>1, <3>2, RootsKept DEF UpgradeInv, SameMembers
  <2>9. BackupInv'
    BY <1>2, <2>3 DEF UpgradeInv, BackupInv, BackupOfSource
  <2> QED BY <2>5, <2>6, <2>7, <2>8, <2>9 DEF UpgradeInv
<1> QED BY <1>1, <1>2 DEF Bootout

\* A polling phase drops a group that it finds gone, goes on to the next measure, or gives up.
LEMMA WaitKeeps ==
    ASSUME UpgradeInv, NEW phase \in UpgradeSteps, NEW then \in UpgradeSteps,
           Wait(phase, then),
           \/ phase = "wait" /\ then = "term"
           \/ phase = "wait_term" /\ then = "kill"
           \/ phase = "wait_kill" /\ then = "unknown"
    PROVE  UpgradeInv'
<1>0. step = phase /\ phase \in Stopping \ {"unloaded"}
  BY DEF Wait, Stopping
<1>1. CASE Stop("unknown")
  BY <1>1, RefusedKeeps
<1>2. CASE Stop(then)
  <2>1. CASE then = "unknown"
    BY <1>2, <2>1, RefusedKeeps
  <2>2. CASE then \in {"term", "kill"}
    BY <1>0, <1>2, <2>2, StopKeeps DEF Moves, Stopping, UpgradeSteps, Stop, Goto
  <2> QED BY <2>1, <2>2
<1>3. ASSUME NEW s \in Remaining, Empty(s), group' = [group EXCEPT ![s].open = FALSE],
             Goto(IF Remaining = {s} THEN "stopped" ELSE phase),
             HostUnchanged, UNCHANGED <<backup, hit, late>>
      PROVE  UpgradeInv'
  <2>1. step' = (IF Remaining = {s} THEN "stopped" ELSE phase)
        /\ UNCHANGED <<loaded, plist, proc, started, data, backup, hit, late>>
    BY <1>3 DEF Goto, HostUnchanged
  <2>2. s \in Service /\ group[s].members \cap Live = {}
    BY <1>3 DEF Remaining, Empty
  <2>3. Live' = Live /\ Root("cp")' = Root("cp")
    BY <2>1 DEF Live, Root
  <2>4. /\ group' \in [Service -> [pgid : Pids \cup {0}, members : SUBSET (1 .. started), open : BOOLEAN]]
        /\ \A t \in Service : /\ group'[t].members = group[t].members
                              /\ group'[t].open <=> (group[t].open /\ t # s)
    <3>1. /\ group \in [Service -> [pgid : Pids \cup {0}, members : SUBSET (1 .. started), open : BOOLEAN]]
          /\ group' = [group EXCEPT ![s] = [group[s] EXCEPT !.open = FALSE]]
      BY <1>3, <2>2 DEF UpgradeInv, UpgradeTypeOK
    <3>2. /\ [group[s] EXCEPT !.open = FALSE].members = group[s].members
          /\ ~[group[s] EXCEPT !.open = FALSE].open
          /\ [group[s] EXCEPT !.open = FALSE]
               \in [pgid : Pids \cup {0}, members : SUBSET (1 .. started), open : BOOLEAN]
      BY <2>2, <3>1
    <3> QED BY <2>2, <3>1, <3>2
  <2>5. step' \in UpgradeSteps /\ ~backup.on /\ step' \in Stopping \cup Gone
    <3>1. step' \in UpgradeSteps /\ step' \in Stopping \cup Gone
      BY <1>0, <2>1 DEF Stopping, Gone, UpgradeSteps
    <3>2. step \notin {"bootstrap_cp", "cp_ready", "bootstrap_edge", "all_ready"} \cup Ended
      BY <1>0 DEF Stopping, Ended
    <3> QED BY <3>1, <3>2 DEF UpgradeInv, UpgradeTypeOK
  <2>6. UpgradeTypeOK'
    BY <2>1, <2>3, <2>4, <2>5 DEF UpgradeInv, UpgradeTypeOK
  <2>7. GroupsApart'
    BY <2>1, <2>3, <2>4 DEF UpgradeInv, GroupsApart
  <2>8. PhaseInv'
    <3>1. step' \notin Before \cup Booting \cup Restarted
      BY <2>5 DEF Before, Booting, Stopping, Gone, Restarted
    <3>2. "cp" \notin loaded'
      BY <1>0, <2>1 DEF UpgradeInv, PhaseInv
    <3>3. step' \in Gone => Remaining' = {}
      <4>1. step' \in Gone => Remaining = {s}
        BY <1>0, <2>1 DEF Stopping, Gone
      <4>2. Remaining' = Remaining \ {s}
        BY <2>4 DEF Remaining
      <4> QED BY <4>1, <4>2
    <3> QED BY <3>1, <3>2, <3>3 DEF PhaseInv
  <2>9. RootInv'
    <3>1. step \in Fencing
      BY <1>0 DEF Fencing
    <3>2. \A t \in Service : /\ group[t].members \cap Live' \subseteq Live
                             /\ group'[t].open \/ ~group[t].open \/ group[t].members \cap Live = {}
      BY <2>2, <2>3, <2>4
    <3> QED BY <2>1, <2>3, <2>4, <3>1, <3>2, RootsKept DEF UpgradeInv, SameMembers
  <2>10. BackupInv'
    BY <2>1, <2>5 DEF UpgradeInv, BackupInv, BackupOfSource
  <2> QED BY <2>6, <2>7, <2>8, <2>9, <2>10 DEF UpgradeInv
<1> QED BY <1>1, <1>2, <1>3 DEF Wait

\* The phases of the fence are steps of the upgrade, for one of the two services each.
LEMMA FencePhases ==
    /\ "edge" \in Service /\ "cp" \in Service
    /\ {"term", "term_cp", "wait_term", "kill", "kill_cp", "wait_kill"} \subseteq UpgradeSteps
  BY DEF Service, UpgradeSteps

\* Signals reach the captured executions that live, and end some or all of them.
LEMMA SignalKeeps ==
    ASSUME UpgradeInv, NEW s \in Service, NEW name \in UpgradeSteps, NEW then \in UpgradeSteps,
           Signal(s, name, then),
           \/ name = "term" /\ then = "term_cp"
           \/ name = "term_cp" /\ then = "wait_term"
           \/ name = "kill" /\ then = "kill_cp"
           \/ name = "kill_cp" /\ then = "wait_kill"
    PROVE  UpgradeInv'
<1>1. CASE Stop("unknown")
  BY <1>1, RefusedKeeps
<1>2. ASSUME Goto(then), hit' = hit \cup Targets(s), NEW dead \in SUBSET Targets(s),
             proc' = [i \in Execution |-> IF i \in dead THEN [proc[i] EXCEPT !.live = FALSE] ELSE proc[i]],
             UNCHANGED <<loaded, plist, started, data, backup, group, late>>
      PROVE  UpgradeInv'
  <2>1. step = name /\ step' = then /\ step \in Stopping /\ step' \in Stopping \ {"unloaded"}
    BY <1>2 DEF Signal, Goto, Stopping
  <2>2. Targets(s) \subseteq Live /\ Targets(s) \subseteq Captured
    BY DEF Targets, Captured
  <2>3. ProcTypes /\ Live \subseteq 1 .. started
    BY TypesOfProcs, LiveStarted DEF UpgradeInv
  <2>4. Ages /\ ProcTypes' /\ Live' = Live \ dead
    BY <1>2, <2>2, <2>3, DeathsAge
  <2>5. \A t \in Service : Root(t)' \subseteq Root(t)
    BY <1>2, <2>4, RootsFade DEF Fades, UpgradeInv
  <2>6. ~backup.on /\ step' \in UpgradeSteps /\ hit' \subseteq 1 .. started
    <3>1. step \notin {"bootstrap_cp", "cp_ready", "bootstrap_edge", "all_ready"} \cup Ended
      BY <2>1 DEF Stopping, Ended
    <3>2. step' \in UpgradeSteps
      BY <2>1 DEF Stopping, UpgradeSteps
    <3> QED BY <1>2, <2>2, <2>3, <3>1, <3>2 DEF UpgradeInv, UpgradeTypeOK
  <2>7. UpgradeTypeOK'
    BY <1>2, <2>4, <2>6 DEF UpgradeInv, UpgradeTypeOK, ProcTypes
  <2>8. GroupsApart'
    BY <1>2, <2>2, <2>4, ApartKept DEF UpgradeInv, SameMembers
  <2>9. PhaseInv'
    <3>1. step' \notin Before \cup Booting \cup Gone \cup Restarted
      BY <2>1 DEF Before, Booting, Stopping, Gone, Restarted
    <3>2. "cp" \notin loaded'
      BY <1>2, <2>1 DEF UpgradeInv, PhaseInv
    <3> QED BY <3>1, <3>2 DEF PhaseInv
  <2>10. RootInv'
    <3>1. step \in Fencing
      BY <2>1 DEF Fencing
    <3> QED BY <1>2, <2>4, <2>5, <3>1, RootsKept DEF UpgradeInv, SameMembers, Service
  <2>11. BackupInv'
    BY <1>2, <2>6 DEF UpgradeInv, BackupInv, BackupOfSource
  <2> QED BY <2>7, <2>8, <2>9, <2>10, <2>11 DEF UpgradeInv
<1>3. \A dead \in IF name \in {"kill", "kill_cp"} THEN {Targets(s)} ELSE SUBSET Targets(s) : dead \in SUBSET Targets(s)
  OBVIOUS
<1> QED BY <1>1, <1>2, <1>3 DEF Signal

\* When the groups are gone no root of the Control Plane is left, or one was restarted late.
LEMMA GoneIsGone ==
    ASSUME UpgradeInv, step \in Gone
    PROVE  Root("cp") = {} \/ ("cp" \in late /\ (Migrates => data.schema = "target"))
<1>1. ~group["cp"].open
  BY DEF UpgradeInv, PhaseInv, Remaining, Service
<1>2. group["cp"].members \cap Live = {}
  BY <1>1 DEF UpgradeInv, RootInv, Service
<1> QED BY <1>2 DEF UpgradeInv, RootInv, Root

\* The final backup is one of the plan's database, and no captured Control Plane writes after it.
LEMMA BackupKeeps == ASSUME UpgradeInv, Backup PROVE UpgradeInv'
<1>1. CASE Stop("refused")
  BY <1>1, RefusedKeeps
<1>2. CASE /\ SourceUnchanged
           /\ backup' = [on |-> TRUE, schema |-> data.schema, writes |-> data.writes, at |-> started]
           /\ Goto("bootstrap_cp") /\ HostUnchanged /\ UNCHANGED <<group, hit, late>>
  <2>1. /\ step = "backup" /\ step' = "bootstrap_cp" /\ step \in Gone /\ step' \in Gone
        /\ UNCHANGED <<loaded, plist, proc, started, data, group, hit, late>>
    BY <1>2 DEF Backup, Goto, HostUnchanged, Gone
  <2>2. Live' = Live /\ Root("cp")' = Root("cp") /\ Remaining' = Remaining
    BY <2>1 DEF Live, Root, Remaining
  <2>3. /\ started \in Nat /\ data.schema = "source" /\ data.writes \in 0 .. MaxWrite
        /\ data.writes \in Nat /\ started \in 0 .. started
    <3>1. started \in Nat /\ data.schema = "source"
      BY <1>2, TypesOfProcs, LiveStarted DEF UpgradeInv, SourceUnchanged
    <3>2. data.writes \in 0 .. MaxWrite
      BY DEF UpgradeInv, UpgradeTypeOK
    <3> QED BY <3>1, <3>2, Bounds
  <2>4. /\ backup' \in [on : BOOLEAN, schema : {"source", "target"}, writes : 0 .. MaxWrite, at : 0 .. started]
        /\ backup'.schema = "source" /\ backup'.writes = data.writes
    BY <1>2, <2>3
  <2>5. UpgradeTypeOK'
    BY <2>1, <2>2, <2>4 DEF UpgradeInv, UpgradeTypeOK, UpgradeSteps
  <2>6. GroupsApart'
    BY <2>1, <2>2 DEF UpgradeInv, GroupsApart
  <2>7. PhaseInv'
    <3>1. PhaseInv /\ step' \notin Before \cup Booting
      BY <2>1 DEF UpgradeInv, Before, Booting
    <3> QED BY <2>1, <2>2, <3>1 DEF PhaseInv
  <2>8. RootInv'
    <3>1. step \in Fencing
      BY <2>1 DEF Fencing
    <3> QED BY <2>1, <2>2, <3>1, RootsKept DEF UpgradeInv, SameMembers
  <2>9. BackupInv'
    <3>1. BackupOfSource'
      BY <2>4 DEF BackupOfSource
    <3>2. Migrates \/ "cp" \notin late' => Root("cp")' = {}
      BY <2>1, <2>2, <2>3, GoneIsGone
    <3>3. data'.writes = backup'.writes /\ data'.writes \in Nat
      BY <2>1, <2>3, <2>4
    <3> QED BY <3>1, <3>2, <3>3 DEF BackupInv
  <2> QED BY <2>5, <2>6, <2>7, <2>8, <2>9 DEF UpgradeInv
<1> QED BY <1>1, <1>2 DEF Backup

\* A job is loaded again, with the one new root of its service.
LEMMA BootstrapKeeps ==
    ASSUME UpgradeInv, NEW s \in Service, NEW here \in UpgradeSteps, NEW next \in UpgradeSteps,
           Bootstrap(s, here, next),
           \/ s = "cp" /\ here = "bootstrap_cp" /\ next = "cp_ready"
           \/ s = "edge" /\ here = "bootstrap_edge" /\ next = "all_ready"
    PROVE  UpgradeInv'
<1>1. CASE Stop("refused") \/ Stop("unknown")
  BY <1>1, RefusedKeeps
<1>2. ASSUME NEW p \in Free, Spawn(s, p, p, TRUE, 0), loaded' = loaded \cup {s}, Goto(next),
             data' = IF s = "cp" THEN Opened ELSE data,
             UNCHANGED <<plist, backup, group, hit, late>>
      PROVE  UpgradeInv'
  <2>1. step = here /\ step' = next /\ step \in Gone \cup Restarted /\ step' \in Restarted
    BY <1>2 DEF Bootstrap, Goto, Gone, Restarted
  <2>2. p \in Pids /\ ProcTypes /\ started \in Nat /\ started >= 2
    BY TypesOfProcs, LiveStarted DEF Free, UpgradeInv
  <2>3. Ages /\ Appears(s, p, p, TRUE) /\ ProcTypes'
    BY <1>2, <2>2, SpawnAppears
  <2>4. started' = started + 1 /\ started' \in {started, started + 1}
    BY <2>3 DEF Appears
  <2>5. /\ data' \in [schema : {"source", "target"}, writes : 0 .. MaxWrite, by : 0 .. started']
        /\ data'.writes = data.writes /\ data'.by = data.by
    <3>1. data \in [schema : {"source", "target"}, writes : 0 .. MaxWrite, by : 0 .. started']
      BY <2>4, Widened DEF UpgradeInv
    <3> QED BY <1>2, <3>1 DEF Opened
  <2>6. /\ step' \in UpgradeSteps /\ loaded' \subseteq Service
        /\ step' \in {"bootstrap_cp", "cp_ready", "bootstrap_edge", "all_ready"} \cup Ended
    BY <1>2, <2>1 DEF UpgradeInv, UpgradeTypeOK, UpgradeSteps
  <2>7. UpgradeTypeOK'
    BY <1>2, <2>3, <2>4, <2>5, <2>6, Widened DEF UpgradeInv, UpgradeTypeOK, ProcTypes
  <2>8. GroupsApart'
    <3>1. \A j \in Live : proc[j].pgid # p
      BY DEF Free
    <3> QED BY <1>2, <2>2, <2>3, <3>1, ApartKept DEF UpgradeInv, SameMembers
  <2>9. PhaseInv'
    <3>1. step' \notin Before \cup Booting \cup Stopping \cup Gone
      BY <2>1 DEF Before, Booting, Stopping, Gone, Restarted
    <3>2. Remaining' = {}
      BY <1>2, <2>1 DEF UpgradeInv, PhaseInv, Remaining
    <3> QED BY <3>1, <3>2 DEF PhaseInv
  <2>10. \A j \in Root("cp")' : j \in Root("cp") \/ (j = started + 1 /\ proc'[j].svc = "cp")
    <3>1. \A j \in Root("cp")' : \/ j \in Root("cp")
                                 \/ /\ j = started + 1 /\ started' = started + 1
                                    /\ proc'[j].svc = "cp" /\ proc'[j].root
      BY <2>3, <2>4, RootsAge DEF UpgradeInv, Service
    <3> QED BY <3>1
  <2>14. proc'[started + 1].svc = s
    BY <2>3 DEF Appears
  <2>11. s = "cp" => Root("cp") = {} \/ "cp" \in late
    BY <2>1, GoneIsGone DEF Gone
  <2>12. RootInv'
    <3>1. \A t \in Service : ~group'[t].open => group'[t].members \cap Live' = {}
      <4>1. \A t \in Service : group[t].members \cap Live' \subseteq Live
        <5>1. \A t \in Service : group[t].members \subseteq 1 .. started
          BY DEF UpgradeInv, UpgradeTypeOK
        <5>2. 1 .. started \subseteq Execution
          BY <2>2, LiveStarted
        <5> QED BY <2>3, <5>1, <5>2 DEF Ages, Live
      <4> QED BY <1>2, <4>1 DEF UpgradeInv, RootInv
    <3>2. "cp" \notin late' => \A i, j \in Root("cp")' : i = j
      <4>1. "cp" \notin late => \A i, j \in Root("cp") : i = j
        BY DEF UpgradeInv, RootInv
      <4> QED BY <1>2, <2>10, <2>11, <2>14, <4>1
    <3>3. step' \notin Booting \cup Stopping \cup Gone
      BY <2>1 DEF Booting, Stopping, Gone, Restarted
    <3>4. 2 \in Root("cp")' => 2 \in group'["cp"].members
      <4>1. started + 1 # 2
        <5>1. started \in Nat /\ started >= 2
          BY <2>2
        <5> QED BY <5>1
      <4> QED BY <1>2, <2>1, <2>10, <4>1 DEF UpgradeInv, RootInv
    <3> QED BY <3>1, <3>2, <3>3, <3>4 DEF RootInv
  <2>13. BackupInv'
    BY <1>2, <2>5, <2>10, BackupKept DEF UpgradeInv
  <2> QED BY <2>7, <2>8, <2>9, <2>12, <2>13 DEF UpgradeInv
<1> QED BY <1>1, <1>2 DEF Bootstrap

-----------------------------------------------------------------------------
(* The theorems.                                                             *)

\* A system that runs: one root per service, nothing captured.
LEMMA UpgradeInitInv == ASSUME UpgradeInit PROVE UpgradeInv
<1>1. PICK p \in Pids, q \in Pids :
        /\ p # q
        /\ proc = [i \in Execution |->
                     CASE i = 1 -> [svc |-> "edge", pid |-> p, pgid |-> p, live |-> TRUE, root |-> TRUE]
                       [] i = 2 -> [svc |-> "cp", pid |-> q, pgid |-> q, live |-> TRUE, root |-> TRUE]
                       [] OTHER -> NoProc]
  BY DEF UpgradeInit
<1>2. /\ proc[1] = [svc |-> "edge", pid |-> p, pgid |-> p, live |-> TRUE, root |-> TRUE]
      /\ proc[2] = [svc |-> "cp", pid |-> q, pgid |-> q, live |-> TRUE, root |-> TRUE]
      /\ \A i \in Execution : i # 1 /\ i # 2 => proc[i] = NoProc
  BY <1>1, Bounds
<1>3. /\ proc[1] \in Processes /\ proc[2] \in Processes
      /\ proc[1] # NoProc /\ proc[2] # NoProc
  BY <1>2 DEF Processes, Service, NoProc
<1>4. proc \in [Execution -> Processes \cup {NoProc}]
  <2>1. \A i \in Execution : proc[i] \in Processes \cup {NoProc}
    BY <1>2, <1>3
  <2>2. DOMAIN proc = Execution /\ proc = [i \in Execution |-> proc[i]]
    BY <1>1
  <2> QED BY <2>1, <2>2
<1>5. Live = {1, 2}
  <2>1. ASSUME NEW i \in Execution PROVE proc[i].live <=> i \in {1, 2}
    BY <1>2 DEF NoProc
  <2> QED BY <2>1, Bounds DEF Live
<1>6. /\ step = "preflight" /\ loaded = Service /\ plist = [s \in Service |-> "reviewed"]
      /\ started = 2 /\ data = [schema |-> "source", writes |-> 0, by |-> 0]
      /\ backup = [on |-> FALSE, schema |-> "source", writes |-> 0, at |-> 0]
      /\ group = [s \in Service |-> NoGroup] /\ hit = {} /\ late = {}
  BY DEF UpgradeInit
<1>7. UpgradeTypeOK
  <2>1. \A i \in Execution : proc[i] = NoProc <=> i > 2
    BY <1>2, <1>3, Bounds DEF Execution
  <2>2. \A i, j \in Live : proc[i].pid = proc[j].pid => i = j
    BY <1>1, <1>2, <1>5
  <2>3. started \in 2 .. MaxProc /\ 0 \in 0 .. MaxWrite /\ 0 \in 0 .. started
    BY <1>6, Bounds
  <2>4. group \in [Service -> [pgid : Pids \cup {0}, members : SUBSET (1 .. started), open : BOOLEAN]]
    BY <1>6 DEF NoGroup
  <2>5. plist \in [Service -> {"reviewed", "other"}] /\ step \in UpgradeSteps
    BY <1>6 DEF UpgradeSteps
  <2>6. /\ data \in [schema : {"source", "target"}, writes : 0 .. MaxWrite, by : 0 .. started]
        /\ backup \in [on : BOOLEAN, schema : {"source", "target"}, writes : 0 .. MaxWrite, at : 0 .. started]
        /\ ~backup.on
    BY <1>6, <2>3
  <2> QED BY <1>4, <1>6, <2>1, <2>2, <2>3, <2>4, <2>5, <2>6 DEF UpgradeTypeOK
<1>8. GroupsApart
  BY <1>1, <1>2, <1>5, <1>6 DEF GroupsApart, NoGroup
<1>9. PhaseInv
  BY <1>6 DEF PhaseInv, NoGroup, Booting, Stopping, Gone, Restarted, Service
<1>10. RootInv
  <2>1. Root("cp") \subseteq {2}
    BY <1>2, <1>5 DEF Root
  <2>2. step \notin Booting \cup Stopping \cup Gone \cup Restarted
    BY <1>6 DEF Booting, Stopping, Gone, Restarted
  <2>3. \A s \in Service : group[s].members = {}
    BY <1>6 DEF NoGroup
  <2> QED BY <2>1, <2>2, <2>3 DEF RootInv
<1>11. BackupInv
  BY <1>6 DEF BackupInv, BackupOfSource
<1> QED BY <1>7, <1>8, <1>9, <1>10, <1>11 DEF UpgradeInv

\* Every step of the host and of the upgrade keeps the invariant.
LEMMA UpgradeNextInv == ASSUME UpgradeInv, UpgradeNext PROVE UpgradeInv'
<1>1. CASE Bystander
  BY <1>1, BystanderKeeps
<1>2. ASSUME NEW s \in Service, Restart(s) \/ EditPlist(s) PROVE UpgradeInv'
  BY <1>2, RestartKeeps, EditKeeps
<1>3. ASSUME NEW i \in Execution, Fork(i) \/ Exit(i) \/ Write(i) PROVE UpgradeInv'
  BY <1>3, ForkKeeps, ExitKeeps, WriteKeeps
<1>4. CASE Upgrade
  <2>1. CASE Preflight \/ Trial \/ Probe \/ Unloaded \/ Stopped
             \/ Ready({"cp"}, "cp_ready", "bootstrap_edge") \/ Ready(Service, "all_ready", "ready")
    BY <2>1, IdleKeeps
  <2>2. CASE Backup
    BY <2>2, BackupKeeps
  <2>3. CASE Capture("edge", "capture_edge", "capture_cp") \/ Capture("cp", "capture_cp", "bootout_edge")
    BY <2>3, CaptureKeeps DEF Service, UpgradeSteps, Ended
  <2>4. CASE Bootout("edge", "bootout_edge", "bootout_cp") \/ Bootout("cp", "bootout_cp", "unloaded")
    BY <2>4, BootoutKeeps DEF Service, UpgradeSteps, Ended
  <2>5. CASE Wait("wait", "term") \/ Wait("wait_term", "kill") \/ Wait("wait_kill", "unknown")
    <3>1. CASE Wait("wait", "term")
      BY <3>1, WaitKeeps DEF UpgradeSteps, Ended
    <3>2. CASE Wait("wait_term", "kill")
      BY <3>2, WaitKeeps DEF UpgradeSteps, Ended
    <3>3. CASE Wait("wait_kill", "unknown")
      BY <3>3, WaitKeeps DEF UpgradeSteps, Ended
    <3> QED BY <2>5, <3>1, <3>2, <3>3
  <2>6. CASE \/ Signal("edge", "term", "term_cp") \/ Signal("cp", "term_cp", "wait_term")
             \/ Signal("edge", "kill", "kill_cp") \/ Signal("cp", "kill_cp", "wait_kill")
    <3>1. CASE Signal("edge", "term", "term_cp")
      BY <3>1, SignalKeeps, FencePhases
    <3>2. CASE Signal("cp", "term_cp", "wait_term")
      BY <3>2, SignalKeeps, FencePhases
    <3>3. CASE Signal("edge", "kill", "kill_cp")
      BY <3>3, SignalKeeps, FencePhases
    <3>4. CASE Signal("cp", "kill_cp", "wait_kill")
      BY <3>4, SignalKeeps, FencePhases
    <3> QED BY <2>6, <3>1, <3>2, <3>3, <3>4
  <2>7. CASE Bootstrap("cp", "bootstrap_cp", "cp_ready") \/ Bootstrap("edge", "bootstrap_edge", "all_ready")
    BY <2>7, BootstrapKeeps DEF Service, UpgradeSteps, Ended
  <2> QED BY <1>4, <2>1, <2>2, <2>3, <2>4, <2>5, <2>6, <2>7 DEF Upgrade
<1> QED BY <1>1, <1>2, <1>3, <1>4 DEF UpgradeNext

\* The inductive invariant holds in every reachable state.
THEOREM UpgradeInvariant == UpgradeSpec => []UpgradeInv
<1>1. UpgradeInit => UpgradeInv
  BY UpgradeInitInv
<1>2. UpgradeInv /\ [UpgradeNext]_upgrade => UpgradeInv'
  <2>1. CASE UpgradeNext
    BY <2>1, UpgradeNextInv
  <2>2. ASSUME UNCHANGED upgrade, UpgradeInv PROVE UpgradeInv'
    <3>1. UNCHANGED <<step, loaded, plist, proc, started, data, backup, group, hit, late>>
      BY <2>2 DEF upgrade, system
    <3>2. Live' = Live /\ Root("cp")' = Root("cp") /\ Remaining' = Remaining
      BY <3>1 DEF Live, Root, Remaining
    <3>3. UpgradeTypeOK'
      BY <2>2, <3>1, <3>2 DEF UpgradeInv, UpgradeTypeOK
    <3>4. GroupsApart' /\ PhaseInv'
      BY <2>2, <3>1, <3>2 DEF UpgradeInv, GroupsApart, PhaseInv
    <3>5. RootInv' /\ BackupInv'
      BY <2>2, <3>1, <3>2 DEF UpgradeInv, RootInv, BackupInv, BackupOfSource
    <3> QED BY <3>3, <3>4, <3>5 DEF UpgradeInv
  <2> QED BY <2>1, <2>2
<1> QED BY <1>1, <1>2, PTL DEF UpgradeSpec

\* fence_after_bootout: before, during and after the upgrade one Control Plane at most serves the
\* database, no process of somebody else is signalled, and after a success nothing is left of the
\* generation that was captured, for every number of executions and however process ids are reused.
THEOREM UpgradeIsFenced == UpgradeSpec => []UpgradeFenced
<1>1. UpgradeInv => UpgradeFenced
  <2> SUFFICES ASSUME UpgradeInv PROVE UpgradeFenced
    OBVIOUS
  <2>1. OneControlPlane
    <3>1. CASE Root("cp") = {}
      BY <3>1, FS_EmptySet DEF OneControlPlane
    <3>2. ASSUME NEW i \in Root("cp"), "cp" \notin late PROVE Cardinality(Root("cp")) <= 1
      <4>1. Root("cp") = {i}
        BY <3>2 DEF UpgradeInv, RootInv
      <4> QED BY <4>1, FS_Singleton
    <3> QED BY <3>1, <3>2 DEF OneControlPlane
  <2>2. BystanderUnharmed
    BY DEF BystanderUnharmed, UpgradeInv, GroupsApart, Service
  <2>3. ASSUME step = "ready" PROVE Captured \cap Live = {} /\ Root("cp") \cap {1, 2} = {}
    <3>1. Remaining = {} /\ step \in Restarted
      BY <2>3 DEF UpgradeInv, PhaseInv, Restarted
    <3>2. \A s \in Service : group[s].members \cap Live = {}
      BY <3>1 DEF UpgradeInv, RootInv, Remaining
    <3>3. Captured \cap Live = {}
      BY <3>2 DEF Captured
    <3>4. 1 \notin Root("cp")
      BY DEF UpgradeInv, GroupsApart, Root
    <3>5. 2 \notin Root("cp")
      <4>1. 2 \in Root("cp") => 2 \in group["cp"].members
        BY <3>1 DEF UpgradeInv, RootInv
      <4> QED BY <3>2, <4>1 DEF Root, Service
    <3> QED BY <3>3, <3>4, <3>5
  <2> QED BY <2>1, <2>2, <2>3 DEF UpgradeFenced, FreshGeneration, UpgradeInv
<1> QED BY <1>1, UpgradeInvariant, PTL

\* The final backup is one the old release can open, and every write that it lacks was committed by
\* an execution that the restart brought up: restoring it loses nothing of the old generation.
THEOREM RollbackIsRestorable == UpgradeSpec => []RollbackRestorable
<1>1. UpgradeInv => RollbackRestorable
  BY DEF UpgradeInv, BackupInv, RollbackRestorable, RollbackComplete, BackupOfSource
<1> QED BY <1>1, UpgradeInvariant, PTL

-----------------------------------------------------------------------------
(* CodexRefresh: the inductive invariant and its preservation.               *)

\* The reload is about to be sent, or was.
Submitting == pc \in {"reload", "connect", "connected", "send"} \/ got # 0

\* Which steps lie before the kickstart and which after the reload.
PhaseSound ==
    /\ pc \in {"observe", "attest", "managed", "attested", "fence", "kick", "refused"} => kicked = 0
    /\ pc \in {"poll", "not_submitted", "reload_unknown"} => kicked # 0
    /\ got # 0 => pc \in {"sent", "done", "unknown", "reload_unknown"}
    /\ pc \in {"sent", "done", "reload_unknown"} => got # 0
    /\ pc = "managed" => backend = "managed"

\* The attested peer is the host of the attested socket, and the path moves forward only.
PeerSound ==
    /\ prep.sock <= sock /\ prep.peer \in {0, prep.sock}
    /\ pc \in {"managed", "attested", "fence", "kick", "poll"} \/ Submitting => prep.peer # 0

\* The host of the connection is no older than the attested one and no newer than the path.
ConnSound ==
    /\ pc = "connected" => conn \in prep.sock .. sock
    /\ pc = "send" => conn = prep.peer
    /\ got # 0 => got = prep.peer

\* A Desktop host that was found current, or that replaced a stale one, maps the plan's executable.
ImageSound ==
    backend = "desktop" /\ (Submitting \/ (pc = "attested" /\ ~prep.stale)) => img[prep.peer] = PlanExe

\* Bridges are numbered as they are opened; after a replacement none of the captured ones is left.
BridgeSound ==
    /\ \A b \in Bridge : bridge[b] # 0 => b <= made
    /\ \A b \in prep.bridges : b <= made
    /\ Submitting /\ kicked # 0 => kicked = prep.peer /\ \A b \in prep.bridges : bridge[b] = 0

RefreshInv == TypeOK /\ PhaseSound /\ PeerSound /\ ConnSound /\ ImageSound /\ BridgeSound

\* The bounds as numbers, and what that makes of the ranges.
LEMMA RefreshConstants ==
    /\ MaxHost \in Nat \ {0} /\ MaxExe \in Nat \ {0} /\ MaxBridge \in Nat \ {0}
    /\ Attempts \in Nat \ {0} /\ Bridge \subseteq Nat /\ Host \subseteq Nat
    /\ TypeOK => /\ cur \in Nat /\ sock \in Nat /\ made \in Nat /\ exe \in Nat /\ prep.sock \in Nat
                 /\ prep.bridges \subseteq Bridge
<1>1. /\ MaxHost \in Nat \ {0} /\ MaxExe \in Nat \ {0} /\ MaxBridge \in Nat \ {0}
      /\ Attempts \in Nat \ {0}
  BY RefreshAssumption
<1>2. Bridge \subseteq Nat /\ Host \subseteq Nat
  BY <1>1 DEF Bridge, Host
<1>3. TypeOK => /\ cur \in Nat /\ sock \in Nat /\ made \in Nat /\ exe \in Nat /\ prep.sock \in Nat
                /\ prep.bridges \subseteq Bridge
  <2> SUFFICES ASSUME TypeOK
               PROVE  /\ cur \in Nat /\ sock \in Nat /\ made \in Nat /\ exe \in Nat /\ prep.sock \in Nat
                      /\ prep.bridges \subseteq Bridge
    OBVIOUS
  <2>1. cur \in Nat
    BY <1>2 DEF TypeOK
  <2>2. sock \in Nat
    BY <2>1 DEF TypeOK
  <2>3. made \in Nat /\ exe \in Nat
    BY <1>1 DEF TypeOK
  <2>4. prep \in Preps
    BY DEF TypeOK
  <2>5. prep.sock \in Host \cup {0} /\ prep.bridges \subseteq Bridge
    BY <2>4 DEF Preps
  <2>6. prep.sock \in Nat
    <3>1. \A h \in Host \cup {0} : h \in Nat
      BY <1>2
    <3> QED BY <2>5, <3>1
  <2> QED BY <2>1, <2>2, <2>3, <2>5, <2>6
<1> QED BY <1>1, <1>2, <1>3

-----------------------------------------------------------------------------
(* The Desktop.                                                            *)

\* What the Desktop may do to the operation: the path and the executable move forward, hosts keep
\* their images, and only bridges that did not exist yet appear.
DesktopMoves ==
    /\ pc \notin Final /\ UNCHANGED <<pc, backend, prep, kicked, left, conn, got>>
    /\ cur <= cur' /\ sock <= sock' /\ made <= made'
    /\ \A h \in 1 .. cur : img'[h] = img[h]
    /\ \A b \in Bridge : bridge'[b] # 0 => b <= made' /\ (bridge[b] # 0 \/ b > made)

\* No move of the Desktop disturbs the invariant.
LEMMA DesktopKeeps ==
    ASSUME RefreshInv, DesktopMoves, TypeOK'
    PROVE  RefreshInv'
<1> USE DEF RefreshInv, DesktopMoves
<1>1. PhaseSound'
  BY DEF PhaseSound
<1>2. PeerSound'
  BY DEF PeerSound, Submitting, TypeOK, Preps, Host
<1>3. ConnSound'
  BY DEF ConnSound, TypeOK, Preps, Host
<1>4. ImageSound'
  <2>1. prep.peer # 0 => prep.peer \in 1 .. cur
    BY DEF PeerSound, TypeOK, Preps, Host
  <2> QED BY <2>1 DEF ImageSound, PeerSound, Submitting
<1>5. BridgeSound'
  <2>1. prep.bridges \subseteq Bridge /\ Bridge \subseteq Nat /\ made \in Nat /\ made' \in Nat
    BY RefreshConstants DEF TypeOK
  <2>2. \A b \in prep.bridges : bridge[b] = 0 => bridge'[b] = 0
    <3> SUFFICES ASSUME NEW b \in prep.bridges, bridge[b] = 0 PROVE bridge'[b] = 0
      OBVIOUS
    <3>1. b \in Nat /\ b \in Bridge /\ b <= made
      BY <2>1 DEF BridgeSound
    <3> QED BY <2>1, <3>1
  <2>3. \A b \in Bridge : bridge'[b] # 0 => b <= made'
    OBVIOUS
  <2>4. \A b \in prep.bridges : b <= made'
    <3> SUFFICES ASSUME NEW b \in prep.bridges PROVE b <= made'
      OBVIOUS
    <3>1. b \in Nat /\ b <= made
      BY <2>1 DEF BridgeSound
    <3> QED BY <2>1, <3>1
  <2> QED BY <2>2, <2>3, <2>4 DEF BridgeSound, Submitting
<1> QED BY <1>1, <1>2, <1>3, <1>4, <1>5

\* A new host maps the executable of its time, and no host before it changes.
LEMMA StartedHost ==
    ASSUME TypeOK, NEW old \in {{}, {cur}}, Started(old)
    PROVE  /\ cur < MaxHost /\ cur' = cur + 1 /\ cur' \in Host /\ live' \subseteq 1 .. cur'
           /\ img' \in [Host -> 0 .. MaxExe] /\ \A h \in 1 .. cur : img'[h] = img[h]
<1>1. cur + 1 \in Host /\ cur \in Nat
  BY RefreshConstants DEF TypeOK, Host, Started
<1>2. live \subseteq 1 .. cur /\ img \in [Host -> 0 .. MaxExe] /\ exe \in 0 .. MaxExe
  BY RefreshConstants DEF TypeOK
<1>3. /\ cur < MaxHost /\ cur' = cur + 1 /\ img' = [img EXCEPT ![cur + 1] = exe]
      /\ live' \subseteq live \cup {cur + 1}
  BY DEF Started
<1>4. live' \subseteq 1 .. cur'
  BY <1>1, <1>2, <1>3
<1>5. img' \in [Host -> 0 .. MaxExe] /\ \A h \in 1 .. cur : img'[h] = img[h]
  <2>1. \A h \in 1 .. cur : h \in Host /\ h # cur + 1
    <3>1. cur \in 1 .. MaxHost /\ MaxHost \in Nat
      BY RefreshConstants DEF TypeOK, Host
    <3>2. ASSUME NEW h \in 1 .. cur PROVE h \in 1 .. MaxHost /\ h # cur + 1
      BY <3>1
    <3> QED BY <3>2 DEF Host
  <2>2. img' \in [Host -> 0 .. MaxExe]
    BY <1>1, <1>2, <1>3
  <2>3. \A h \in Host : h # cur + 1 => img'[h] = img[h]
    BY <1>2, <1>3
  <2> QED BY <2>1, <2>2, <2>3
<1> QED BY <1>1, <1>3, <1>4, <1>5

\* RestartHost, Listen, Linger, UpdateApp, OpenBridge, CloseBridge: the Desktop is free to do any
\* of them between two steps of the operation.
LEMMA DesktopStep ==
    ASSUME RefreshInv,
           \/ RestartHost \/ Listen \/ UpdateApp \/ OpenBridge
           \/ \E h \in Host : Linger(h)
           \/ \E b \in Bridge : CloseBridge(b)
    PROVE  RefreshInv'
<1> TypeOK /\ BridgeSound
  BY DEF RefreshInv
<1>0. /\ cur \in Nat /\ sock \in Nat /\ made \in Nat /\ Bridge \subseteq Nat /\ MaxBridge \in Nat
      /\ MaxHost \in Nat /\ MaxExe \in Nat /\ exe \in Nat
  BY RefreshConstants
<1>1. CASE RestartHost
  <2>1. Started({cur}) /\ pc \notin Final
        /\ UNCHANGED <<pc, backend, exe, sock, bridge, made, prep, kicked, left, conn, got>>
    BY <1>1 DEF RestartHost
  <2>2. /\ cur' = cur + 1 /\ cur' \in Host /\ live' \subseteq 1 .. cur'
        /\ img' \in [Host -> 0 .. MaxExe] /\ \A h \in 1 .. cur : img'[h] = img[h]
    BY <2>1, StartedHost
  <2>3. TypeOK'
    BY <1>0, <2>1, <2>2 DEF TypeOK
  <2>4. DesktopMoves
    BY <1>0, <2>1, <2>2 DEF DesktopMoves, BridgeSound
  <2> QED BY <2>3, <2>4, DesktopKeeps
<1>2. CASE Listen
  <2>1. TypeOK'
    BY <1>0, <1>2 DEF Listen, TypeOK, Host
  <2>2. DesktopMoves
    BY <1>0, <1>2 DEF Listen, TypeOK, DesktopMoves, BridgeSound
  <2> QED BY <2>1, <2>2, DesktopKeeps
<1>3. CASE UpdateApp
  <2>1. TypeOK'
    BY <1>0, <1>3 DEF UpdateApp, TypeOK
  <2>2. DesktopMoves
    BY <1>0, <1>3 DEF UpdateApp, TypeOK, DesktopMoves, BridgeSound
  <2> QED BY <2>1, <2>2, DesktopKeeps
<1>4. CASE OpenBridge
  <2>1. TypeOK'
    <3>1. cur \in Host /\ made + 1 \in 0 .. MaxBridge /\ made + 1 \in Bridge
      BY <1>0, <1>4 DEF OpenBridge, TypeOK, Bridge
    <3> QED BY <1>4, <3>1 DEF OpenBridge, TypeOK
  <2>2. DesktopMoves
    BY <1>0, <1>4 DEF OpenBridge, TypeOK, DesktopMoves, BridgeSound
  <2> QED BY <2>1, <2>2, DesktopKeeps
<1>5. CASE \E h \in Host : Linger(h)
  <2>1. TypeOK'
    BY <1>5 DEF Linger, TypeOK
  <2>2. DesktopMoves
    BY <1>0, <1>5 DEF Linger, TypeOK, DesktopMoves, BridgeSound
  <2> QED BY <2>1, <2>2, DesktopKeeps
<1>6. CASE \E b \in Bridge : CloseBridge(b)
  <2>1. TypeOK'
    BY <1>6 DEF CloseBridge, TypeOK
  <2>2. DesktopMoves
    BY <1>0, <1>6 DEF CloseBridge, TypeOK, DesktopMoves, BridgeSound
  <2> QED BY <2>1, <2>2, DesktopKeeps
<1> QED BY <1>1, <1>2, <1>3, <1>4, <1>5, <1>6

-----------------------------------------------------------------------------
(* The preflight.                                                          *)

\* Before the reload nothing has been sent, so a refusal changes nothing.
LEMMA Refuse ==
    ASSUME RefreshInv, To("refused"), kicked = 0, got = 0
    PROVE  RefreshInv'
<1> USE DEF RefreshInv, To, host
<1>1. TypeOK'
  BY DEF TypeOK, Steps, Final
<1>2. PhaseSound' /\ PeerSound' /\ ConnSound' /\ ImageSound' /\ BridgeSound'
  BY DEF PhaseSound, PeerSound, ConnSound, ImageSound, BridgeSound, Submitting
<1> QED BY <1>1, <1>2

\* preflight_codex_app_server_mcp up to the socket.
LEMMA ObserveStep == ASSUME RefreshInv, Observe PROVE RefreshInv'
<1>1. kicked = 0 /\ got = 0
  BY DEF RefreshInv, PhaseSound, Observe
<1>2. CASE To("refused")
  BY <1>1, <1>2, Refuse
<1>3. CASE /\ exe = PlanExe /\ prep' = [NoPrep EXCEPT !.sock = sock, !.exe = exe] /\ pc' = "attest"
           /\ UNCHANGED <<backend, host, kicked, left, conn, got>>
  <2> USE <1>3 DEF host
  <2>1. prep' \in Preps /\ prep'.sock = sock /\ prep'.peer = 0 /\ prep'.bridges = {}
    <3>1. sock \in Host
      BY RefreshConstants DEF RefreshInv, TypeOK, Host
    <3> QED BY <3>1 DEF NoPrep, Preps
  <2>2. TypeOK'
    BY <2>1 DEF RefreshInv, TypeOK, Steps
  <2>3. PhaseSound' /\ ConnSound' /\ ImageSound'
    BY <1>1 DEF PhaseSound, ConnSound, ImageSound, Submitting
  <2>4. PeerSound'
    BY <1>1, <2>1 DEF PeerSound, Submitting, RefreshInv, TypeOK, Host
  <2>5. BridgeSound'
    BY <1>1, <2>1 DEF BridgeSound, RefreshInv
  <2> QED BY <2>2, <2>3, <2>4, <2>5 DEF RefreshInv
<1> QED BY <1>2, <1>3 DEF Observe

\* The attestation: the peer is the host at the attested path; a current one maps the plan's image.
LEMMA AttestStep == ASSUME RefreshInv, Attest PROVE RefreshInv'
<1>1. kicked = 0 /\ got = 0
  BY DEF RefreshInv, PhaseSound, Attest
<1>2. CASE To("refused")
  BY <1>1, <1>2, Refuse
<1>3. CASE /\ sock = prep.sock /\ backend = "managed"
           /\ prep' = [prep EXCEPT !.peer = sock] /\ pc' = "managed"
           /\ UNCHANGED <<backend, host, kicked, left, conn, got>>
  <2> USE <1>3 DEF host
  <2>1. /\ prep' \in Preps /\ prep'.sock = sock /\ prep'.peer = sock
        /\ prep'.bridges = prep.bridges
    BY DEF Preps, RefreshInv, TypeOK, Host
  <2>2. TypeOK'
    BY <2>1 DEF RefreshInv, TypeOK, Steps
  <2>3. PhaseSound' /\ ConnSound' /\ ImageSound'
    BY <1>1 DEF PhaseSound, ConnSound, ImageSound, Submitting
  <2>4. PeerSound'
    BY <1>1, <2>1 DEF PeerSound, Submitting, RefreshInv, TypeOK, Host
  <2>5. BridgeSound'
    BY <1>1, <2>1 DEF BridgeSound, RefreshInv
  <2> QED BY <2>2, <2>3, <2>4, <2>5 DEF RefreshInv
<1>4. CASE /\ sock = prep.sock /\ backend = "desktop" /\ Peer(sock) /\ exe = prep.exe
           /\ prep' = [prep EXCEPT !.peer = sock, !.stale = Stale(sock),
                                   !.bridges = IF Stale(sock) THEN BridgesOf(sock) ELSE {}]
           /\ pc' = "attested" /\ UNCHANGED <<backend, host, kicked, left, conn, got>>
  <2> USE <1>4 DEF host
  <2>1. Stale(sock) \in BOOLEAN /\ BridgesOf(sock) \subseteq Bridge
    BY DEF Stale, BridgesOf
  <2>2. /\ prep' \in Preps /\ prep'.sock = sock /\ prep'.peer = sock /\ prep'.stale = Stale(sock)
        /\ prep'.bridges \subseteq BridgesOf(sock)
    BY <2>1 DEF Preps, RefreshInv, TypeOK, Host
  <2>3. TypeOK'
    BY <2>2 DEF RefreshInv, TypeOK, Steps
  <2>4. PhaseSound' /\ ConnSound'
    BY <1>1 DEF PhaseSound, ConnSound
  <2>5. ImageSound'
    <3>1. exe = PlanExe
      BY DEF RefreshInv, TypeOK, Preps, PlanExe
    <3> QED BY <1>1, <2>2, <3>1 DEF ImageSound, Submitting, Stale
  <2>6. PeerSound'
    BY <1>1, <2>2 DEF PeerSound, Submitting, RefreshInv, TypeOK, Host
  <2>7. BridgeSound'
    <3>1. \A b \in BridgesOf(sock) : b \in Bridge /\ bridge[b] # 0
      BY DEF BridgesOf, RefreshInv, TypeOK
    <3> QED BY <1>1, <2>2, <3>1 DEF BridgeSound, RefreshInv
  <2> QED BY <2>3, <2>4, <2>5, <2>6, <2>7 DEF RefreshInv
<1> QED BY <1>2, <1>3, <1>4 DEF Attest

\* Managed, Attested, Fence: the checks before an effect move on or refuse.
LEMMA CheckStep == ASSUME RefreshInv, Managed \/ Attested \/ Fence PROVE RefreshInv'
<1>1. kicked = 0 /\ got = 0 /\ prep.peer # 0
  BY DEF RefreshInv, PhaseSound, PeerSound, Managed, Attested, Fence
<1>2. CASE To("refused")
  BY <1>1, <1>2, Refuse
<1>3. ASSUME NEW l \in {"reload", "fence", "kick"}, To(l),
             l = "reload" => pc = "managed" \/ (pc = "attested" /\ ~prep.stale),
             pc = "managed" => backend = "managed"
      PROVE  RefreshInv'
  <2> USE <1>3 DEF To, host
  <2>1. TypeOK'
    BY DEF RefreshInv, TypeOK, Steps
  <2>2. PhaseSound' /\ PeerSound' /\ ConnSound' /\ BridgeSound'
    BY <1>1 DEF RefreshInv, PhaseSound, PeerSound, ConnSound, BridgeSound, Submitting
  <2>3. ImageSound'
    BY <1>1 DEF RefreshInv, ImageSound, Submitting
  <2> QED BY <2>1, <2>2, <2>3 DEF RefreshInv
<1>4. CASE Managed
  <2>1. backend = "managed"
    BY <1>4 DEF RefreshInv, PhaseSound, Managed
  <2> QED BY <1>2, <1>3, <1>4, <2>1 DEF Managed
<1>5. CASE Attested
  BY <1>2, <1>3, <1>5 DEF Attested
<1>6. CASE Fence
  BY <1>2, <1>3, <1>6 DEF Fence
<1> QED BY <1>4, <1>5, <1>6

-----------------------------------------------------------------------------
(* The replacement of a stale host.                                        *)

\* What a step that only moves on, or also counts a poll, leaves as it was.
LEMMA SameHosts ==
    ASSUME RefreshInv, UNCHANGED <<backend, host, prep, kicked, conn, got>>, TypeOK',
           PhaseSound', got = 0,
           pc' \in {"managed", "attested", "fence", "kick", "poll"} => prep.peer # 0,
           pc' \in {"reload", "connect", "connected", "send"} =>
               /\ pc \in {"reload", "connect", "connected", "send"}
               /\ pc' = "connected" => pc = "connected"
               /\ pc' = "send" => conn = prep.peer,
           pc' # "attested"
    PROVE  RefreshInv'
<1> USE DEF RefreshInv, host
<1>1. PeerSound' /\ ConnSound'
  BY DEF PeerSound, ConnSound, Submitting
<1>2. ImageSound' /\ BridgeSound'
  BY DEF ImageSound, BridgeSound, Submitting
<1> QED BY <1>1, <1>2

\* _kickstart_codex_desktop_app_server: the one effect, whose answer may be lost.
LEMMA KickStep == ASSUME RefreshInv, Kick PROVE RefreshInv'
<1>1. got = 0 /\ kicked = 0 /\ prep.peer # 0 /\ pc = "kick"
  BY DEF RefreshInv, PhaseSound, PeerSound, Kick
<1>2. CASE To("unknown")
  <2>1. TypeOK' /\ PhaseSound'
    BY <1>1, <1>2 DEF To, host, RefreshInv, TypeOK, Steps, Final, PhaseSound
  <2> QED BY <1>1, <1>2, <2>1, SameHosts DEF To
<1>3. CASE /\ \E old \in {{}, {cur}} : Started(old)
           /\ kicked' = cur + 1 /\ pc' \in {"poll", "unknown"}
           /\ UNCHANGED <<backend, exe, sock, bridge, made, prep, left, conn, got>>
  <2> USE DEF RefreshInv
  <2>1. PICK old \in {{}, {cur}} : Started(old)
    BY <1>3
  <2>2. /\ cur' = cur + 1 /\ cur' \in Host /\ live' \subseteq 1 .. cur'
        /\ img' \in [Host -> 0 .. MaxExe] /\ \A h \in 1 .. cur : img'[h] = img[h]
    BY <2>1, StartedHost
  <2>3. cur \in Nat /\ sock \in 1 .. cur'
    BY <2>2, RefreshConstants DEF TypeOK
  <2>4. {kicked', conn, got} \subseteq 0 .. cur'
    BY <1>3, <2>2, <2>3 DEF TypeOK
  <2>5. TypeOK'
    BY <1>3, <2>2, <2>3, <2>4 DEF TypeOK, Steps, Final
  <2>6. PhaseSound' /\ PeerSound' /\ ConnSound' /\ ImageSound' /\ BridgeSound'
    <3>1. PhaseSound'
      BY <1>1, <1>3, <2>3 DEF PhaseSound
    <3>2. PeerSound' /\ ConnSound'
      BY <1>1, <1>3 DEF PeerSound, ConnSound, Submitting
    <3>3. ImageSound' /\ BridgeSound'
      BY <1>1, <1>3 DEF ImageSound, BridgeSound, Submitting
    <3> QED BY <3>1, <3>2, <3>3
  <2> QED BY <2>5, <2>6
<1> QED BY <1>2, <1>3 DEF Kick

\* The postcondition of the restart: the new host is attested, current, and alone.
LEMMA PollStep == ASSUME RefreshInv, Poll PROVE RefreshInv'
<1>1. got = 0 /\ kicked # 0 /\ prep.peer # 0 /\ pc = "poll"
  BY DEF RefreshInv, PhaseSound, PeerSound, Poll
<1>2. CASE /\ sock # prep.sock /\ sock = kicked /\ Peer(sock) /\ Retired /\ exe = PlanExe /\ ~Stale(sock)
           /\ prep' = [prep EXCEPT !.sock = sock, !.peer = sock, !.stale = FALSE] /\ pc' = "reload"
           /\ UNCHANGED <<backend, host, kicked, left, conn, got>>
  <2> USE DEF RefreshInv, host
  <2>1. sock \in Host
    BY RefreshConstants DEF TypeOK, Host
  <2>2. /\ prep' \in Preps /\ prep'.sock = sock /\ prep'.peer = sock /\ prep'.bridges = prep.bridges
    BY <1>2, <2>1 DEF TypeOK, Preps
  <2>3. TypeOK'
    BY <1>2, <2>2 DEF TypeOK, Steps
  <2>4. PhaseSound' /\ ConnSound'
    BY <1>1, <1>2 DEF PhaseSound, ConnSound
  <2>5. PeerSound'
    BY <1>2, <2>2, RefreshConstants DEF PeerSound, TypeOK
  <2>6. ImageSound'
    BY <1>2, <2>2 DEF ImageSound, Stale
  <2>7. BridgeSound'
    BY <1>2, <2>2 DEF BridgeSound, Retired
  <2> QED BY <2>3, <2>4, <2>5, <2>6, <2>7
<1>3. CASE left > 1 /\ left' = left - 1 /\ UNCHANGED <<pc, backend, host, prep, kicked, conn, got>>
  <2>1. TypeOK' /\ PhaseSound'
    BY <1>3, RefreshConstants DEF host, RefreshInv, TypeOK, PhaseSound
  <2> QED BY <1>1, <1>3, <2>1, SameHosts
<1>4. CASE To("unknown")
  <2>1. TypeOK' /\ PhaseSound'
    BY <1>1, <1>4 DEF To, host, RefreshInv, TypeOK, Steps, Final, PhaseSound
  <2> QED BY <1>1, <1>4, <2>1, SameHosts DEF To
<1> QED BY <1>2, <1>3, <1>4 DEF Poll

-----------------------------------------------------------------------------
(* The reload.                                                             *)

\* An error before the request is reported as refused or not submitted.
LEMMA FailedStep ==
    ASSUME RefreshInv, To(Failed), got = 0
    PROVE  RefreshInv'
<1>1. TypeOK' /\ PhaseSound'
  BY DEF To, Failed, host, RefreshInv, TypeOK, Steps, Final, PhaseSound
<1> QED BY <1>1, SameHosts DEF To, Failed

\* Reload, Connect: the path is compared with the attested one, and then opened.
LEMMA ConnectStep == ASSUME RefreshInv, Reload \/ Connect PROVE RefreshInv'
<1>1. got = 0
  BY DEF RefreshInv, PhaseSound, Reload, Connect
<1>2. CASE To(Failed)
  BY <1>1, <1>2, FailedStep
<1>3. CASE pc = "reload" /\ To("connect")
  <2>1. TypeOK' /\ PhaseSound'
    BY <1>1, <1>3 DEF To, host, RefreshInv, TypeOK, Steps, PhaseSound
  <2> QED BY <1>1, <1>3, <2>1, SameHosts DEF To
<1>4. CASE /\ pc = "connect" /\ sock \in live /\ conn' = sock /\ pc' = "connected"
           /\ UNCHANGED <<backend, host, prep, kicked, left, got>>
  <2> USE DEF RefreshInv, host
  <2>1. TypeOK'
    BY <1>4, RefreshConstants DEF TypeOK, Steps
  <2>2. PhaseSound' /\ PeerSound'
    BY <1>1, <1>4 DEF PhaseSound, PeerSound, Submitting
  <2>3. ConnSound'
    BY <1>1, <1>4, RefreshConstants DEF ConnSound, PeerSound
  <2>4. ImageSound' /\ BridgeSound'
    BY <1>1, <1>4 DEF ImageSound, BridgeSound, Submitting
  <2> QED BY <2>1, <2>2, <2>3, <2>4
<1> QED BY <1>2, <1>3, <1>4 DEF Reload, Connect

\* Connected: the path is still the attested one, so the connection is to the attested host.
LEMMA ConnectedStep == ASSUME RefreshInv, Connected PROVE RefreshInv'
<1>1. got = 0 /\ pc = "connected" /\ conn \in prep.sock .. sock /\ prep.peer = prep.sock
  BY DEF RefreshInv, PhaseSound, ConnSound, PeerSound, Submitting, Connected
<1>2. CASE To(Failed)
  BY <1>1, <1>2, FailedStep
<1>3. CASE sock = prep.sock /\ To("send")
  <2>1. conn = prep.peer
    BY <1>1, <1>3, RefreshConstants DEF RefreshInv
  <2>2. TypeOK' /\ PhaseSound'
    BY <1>1, <1>3 DEF To, host, RefreshInv, TypeOK, Steps, PhaseSound
  <2> QED BY <1>1, <1>3, <2>1, <2>2, SameHosts DEF To
<1> QED BY <1>2, <1>3 DEF Connected

\* Send: the reload goes to the peer of the connection.
LEMMA SendStep == ASSUME RefreshInv, Send PROVE RefreshInv'
<1> USE DEF RefreshInv, Send, host
<1>1. conn = prep.peer /\ prep.peer # 0
  BY DEF ConnSound, PeerSound, Submitting
<1>2. TypeOK'
  BY DEF TypeOK, Steps
<1>3. PhaseSound' /\ PeerSound' /\ ConnSound'
  BY <1>1 DEF PhaseSound, PeerSound, ConnSound, Submitting
<1>4. ImageSound' /\ BridgeSound'
  BY <1>1 DEF ImageSound, BridgeSound, Submitting
<1> QED BY <1>2, <1>3, <1>4

\* Answer: the outcome that is reported after the request.
LEMMA AnswerStep == ASSUME RefreshInv, Answer PROVE RefreshInv'
<1> USE DEF RefreshInv, Answer, To, host
<1>1. got # 0 /\ pc = "sent"
  BY DEF PhaseSound
<1>2. TypeOK'
  BY <1>1 DEF TypeOK, Steps, Final
<1>3. PhaseSound'
  BY <1>1 DEF PhaseSound
<1>4. PeerSound' /\ ConnSound' /\ ImageSound' /\ BridgeSound'
  BY <1>1 DEF PeerSound, ConnSound, ImageSound, BridgeSound, Submitting
<1> QED BY <1>2, <1>3, <1>4

-----------------------------------------------------------------------------
(* The theorems.                                                           *)

\* A refresh that has not begun.
LEMMA RefreshInit == Init => RefreshInv
<1> SUFFICES ASSUME Init PROVE RefreshInv
  OBVIOUS
<1> USE DEF Init, NoPrep
<1>1. 1 \in Host /\ 0 .. MaxExe # {} /\ 1 \in 0 .. MaxExe /\ 1 \in 1 .. MaxExe /\ 0 \in 0 .. MaxBridge
      /\ Attempts \in 1 .. Attempts
  BY RefreshConstants DEF Host
<1>2. prep \in Preps
  BY DEF Preps
<1>3. TypeOK
  <2>1. img \in [Host -> 0 .. MaxExe] /\ bridge \in [Bridge -> Host \cup {0}]
    BY RefreshConstants
  <2> QED BY <1>1, <1>2, <2>1 DEF TypeOK, Steps
<1>4. PhaseSound /\ PeerSound /\ ConnSound /\ ImageSound
  BY DEF PhaseSound, PeerSound, ConnSound, ImageSound, Submitting
<1>5. BridgeSound
  BY DEF BridgeSound, Submitting
<1> QED BY <1>3, <1>4, <1>5 DEF RefreshInv

\* The invariant that the steps of the refresh and of the Desktop keep between them.
THEOREM RefreshInvariant == Spec => []RefreshInv
<1>1. Init => RefreshInv
  BY RefreshInit
<1>2. RefreshInv /\ [Next]_vars => RefreshInv'
  <2> SUFFICES ASSUME RefreshInv, [Next]_vars PROVE RefreshInv'
    OBVIOUS
  <2>1. CASE Refresh
    BY <2>1, ObserveStep, AttestStep, CheckStep, KickStep, PollStep, ConnectStep, ConnectedStep,
       SendStep, AnswerStep DEF Refresh
  <2>2. CASE \/ RestartHost \/ Listen \/ UpdateApp \/ OpenBridge
             \/ \E h \in Host : Linger(h)
             \/ \E b \in Bridge : CloseBridge(b)
    BY <2>2, DesktopStep
  <2>3. CASE UNCHANGED vars
    BY <2>3 DEF vars, host, RefreshInv, TypeOK, PhaseSound, PeerSound, ConnSound, ImageSound,
       BridgeSound, Submitting
  <2> QED BY <2>1, <2>2, <2>3 DEF Next
<1> QED BY <1>1, <1>2, PTL DEF Spec

\* The reload of refresh_codex_app_server_mcp reaches the host that the preflight attested, with the
\* plan's executable, whatever the Desktop does in between; the reported outcome is true; and after a
\* success no captured bridge of a replaced host is left.
THEOREM ReloadReachesAttested == Spec => []ReloadToAttested
<1>1. RefreshInv => ReloadToAttested
  <2> SUFFICES ASSUME RefreshInv PROVE ReloadToAttested
    OBVIOUS
  <2> USE DEF RefreshInv
  <2>1. OnlyTheAttested
    BY DEF OnlyTheAttested, ConnSound, ImageSound, Submitting
  <2>2. OutcomeTrue
    BY DEF OutcomeTrue, PhaseSound
  <2>3. OldGenerationGone
    BY DEF OldGenerationGone, PhaseSound, ConnSound, BridgeSound, Submitting
  <2> QED BY <2>1, <2>2, <2>3 DEF ReloadToAttested
<1> QED BY <1>1, RefreshInvariant, PTL

-----------------------------------------------------------------------------
(* Retention: the inductive invariant.                                       *)

\* The audits of chunk reads, and the events that belong to the close of a generation.
ReadTypes == {"output_read", "artifact_read"}
EndTypes == {"closed", "canceled", "stopped"}
Results == [done : BOOLEAN, legacy : BOOLEAN, works : Nat, specs : Nat]

\* The columns of a Boundary and of a message, and every row of their tables.
BoundaryRow == [state : {"none", "open", "disposed", "canceled", "superseded"},
                work : WorkIds \cup {Nothing}, recon : BOOLEAN]
MessageRow == [role : {"none", "source", "notice", "continuation", "resumption", "notification",
                       "plain", "pruned"},
               of : WorkIds \cup Boundaries \cup {Nothing}, at : 0 .. MaxSeq,
               state : {"none", "queued", "handled", "dead"}]
BoundaryRows == [Boundaries -> BoundaryRow]
MessageRows == [Msgs -> MessageRow]

\* The types of the rows.
RowTypes ==
    /\ seq \in 0 .. MaxSeq /\ circuit \in 0 .. seq /\ pushes \subseteq 1 .. seq
    /\ bounds \in BoundaryRows
    /\ works \in [WorkIds -> [state : {"none", "active", "canceled"}, gen : 0 .. MaxGen]]
    /\ msg \in MessageRows
    /\ session \in [gen : Gens, active : BOOLEAN]
    /\ closed \in [Gens -> Results]

\* The types of what the CAO reads.
ReadingTypes ==
    /\ output \in [Outputs -> {"none", "available", "partial", "withheld"}]
    /\ turn \in {"none", "completed", "failed"}
    /\ reviewed \in 0 .. MaxGen
    /\ seen \in [Texts -> [Gens -> SUBSET (0 .. (Bytes - 1))]]

\* A sequence is given out once, and to finitely many events.
EventsNumbered ==
    /\ IsFiniteSet(events)
    /\ \A e \in events : e.seq \in 1 .. seq
    /\ \A e, d \in events : e.seq = d.seq => e = d

\* What an event names was there when it was written and is there still.
EventsHaveSubject ==
    \A e \in events :
      /\ e.type = "recorded" => e.of \in Boundaries /\ bounds[e.of].state # "none"
      /\ e.type \in EndTypes \/ (e.type = "disposed" /\ e.gen # 0) =>
           e.gen \in Gens /\ closed[e.gen].done
      /\ e.type = "artifact_read" => e.of \in Artifacts
      /\ e.type = "output_read" =>
           /\ e.of \in Outputs /\ output[e.of] \in {"available", "partial"}
           /\ e.gen \in Gens /\ e.lo \in Nat /\ e.hi \in 0 .. Bytes
           /\ e.lo .. (e.hi - 1) \subseteq seen[e.of][e.gen]
      /\ e.seq = circuit => e.type = "recorded"

\* A generation is closed while it is the current one, and then no longer active.
CloseOnce == \A g \in Gens : closed[g].done => g <= session.gen /\ (session.active => g < session.gen)

\* The source of the circuit has the decision of the close that disposed of its Boundary.
CircuitDecided ==
    \A e \in events : e.seq = circuit /\ bounds[e.of].state = "canceled" =>
      \E d \in events : d.type = "disposed" /\ d.of = e.of /\ d.gen # 0 /\ d.seq > e.seq

\* A reply is the audit event of its key, and a key has one.
RepliesAudited ==
    /\ \A r \in replies : \E e \in events :
         /\ e.type \in ReadTypes
         /\ r = [type |-> e.type, key |-> e.key, seq |-> e.seq,
                 ask |-> [of |-> e.of, gen |-> e.gen, lo |-> e.lo, hi |-> e.hi]]
    /\ \A e, d \in events : e.type \in ReadTypes /\ e.type = d.type /\ e.key = d.key => e = d

\* A byte that was shown has the audit of the read that showed it.
SeenAudited ==
    \A o \in Outputs, g \in Gens : \A i \in seen[o][g] : \E e \in events :
       e.type = "output_read" /\ e.of = o /\ e.gen = g /\ e.lo <= i /\ i < e.hi

\* A review is of a completed turn, of which nothing is captured any more.
ReviewOfTurn == reviewed # 0 => turn # "none" /\ ReviewedAfterFullRead

RetentionInv ==
    /\ RowTypes /\ ReadingTypes
    /\ EventsNumbered /\ EventsHaveSubject
    /\ AuthorityAnchored
    /\ CloseOnce /\ CircuitDecided /\ CloseProvable
    /\ RepliesAudited /\ SeenAudited /\ ReviewOfTurn
    /\ NoticeOfOpenRecovery

USE DEF BoundaryRow, MessageRow, BoundaryRows, MessageRows

\* The smaller of two naturals, and the smallest of one: where a chunk ends, and the one audit
\* event of a key.
LEMMA MinOfFew ==
    /\ \A m, n \in Nat : Min({m, n}) \in {m, n} /\ Min({m, n}) <= m /\ Min({m, n}) <= n
    /\ \A n \in Nat : Min({n}) = n
PROOF
<1>1. ASSUME NEW m \in Nat, NEW n \in Nat
      PROVE  Min({m, n}) \in {m, n} /\ Min({m, n}) <= m /\ Min({m, n}) <= n
  <2>1. \E x \in {m, n} : \A y \in {m, n} : x <= y
    <3>1. CASE m <= n
      BY <3>1
    <3>2. CASE n <= m
      BY <3>2
    <3> QED BY <3>1, <3>2
  <2> QED BY <2>1 DEF Min
<1>2. ASSUME NEW n \in Nat PROVE Min({n}) = n
  BY DEF Min
<1> QED BY <1>1, <1>2

\* A chunk ends within the text.
LEMMA ChunkWithin ==
    ASSUME Bytes \in Nat, NEW lo \in Nat, NEW len \in Nat
    PROVE  ChunkEnd(lo, len) \in 0 .. Bytes
BY MinOfFew, lo + len \in Nat DEF ChunkEnd

\* Spans reach to the end of the text exactly when they cover every byte: where they reach is the
\* size of a set of naturals that holds, with a number, every smaller one.
LEMMA ReachedMeansCovered ==
    ASSUME Bytes \in Nat \ {0}, NEW spans
    PROVE  Reached(spans) = Bytes
             <=> \A i \in 0 .. (Bytes - 1) : \E s \in spans : s[1] <= i /\ i < s[2]
PROOF
<1> DEFINE Covered(n) == \A i \in 0 .. (n - 1) : \E s \in spans : s[1] <= i /\ i < s[2]
           R == {0} \cup {n \in 1 .. Bytes : Covered(n)}
           c == Cardinality(R)
<1>1. Reached(spans) = Max(R)
  BY DEF Reached
<1>2. R \subseteq 0 .. Bytes /\ 0 \in R
  OBVIOUS
<1>3. ASSUME NEW n \in R PROVE 0 .. n \subseteq R
  <2>1. ASSUME NEW m \in 0 .. n, m # 0 PROVE m \in 1 .. Bytes /\ Covered(m)
    <3>1. n \in 1 .. Bytes /\ Covered(n)
      BY <2>1, <1>2
    <3>2. m \in 1 .. Bytes /\ 0 .. (m - 1) \subseteq 0 .. (n - 1)
      BY <3>1, <2>1
    <3> QED BY <3>1, <3>2
  <2> HIDE DEF Covered
  <2> QED BY <2>1
<1> HIDE DEF R, Covered
<1>4. IsFiniteSet(R) /\ c \in Nat
  <2>1. IsFiniteSet(0 .. Bytes)
    BY FS_Interval, 0 \in Int, Bytes \in Int
  <2>2. IsFiniteSet(R)
    BY <2>1, <1>2, FS_Subset
  <2> QED BY <2>2, FS_CardinalityType DEF c
<1>5. ASSUME NEW n \in R PROVE n < c
  <2>1. Cardinality(0 .. n) = n + 1
    BY <1>2, <1>5, FS_Interval
  <2>2. n + 1 <= c
    BY <2>1, <1>3, <1>4, FS_Subset DEF c
  <2> QED BY <2>2, <1>2, <1>4
<1>6. ASSUME NEW n \in 0 .. Bytes, n \notin R PROVE c <= n
  <2>1. R \subseteq 0 .. (n - 1)
    <3>1. ASSUME NEW m \in R PROVE m < n
      <4>1. m \in 0 .. Bytes /\ ~(n \in 0 .. m)
        BY <1>2, <1>3, <1>6
      <4> QED BY <4>1
    <3> QED BY <3>1, <1>2
  <2>2. IsFiniteSet(0 .. (n - 1)) /\ Cardinality(0 .. (n - 1)) = n
    BY FS_Interval, 0 \in Int, n - 1 \in Int
  <2> QED BY <2>1, <2>2, FS_Subset DEF c
<1>7. c - 1 \in R /\ \A y \in R : c - 1 >= y
  <2>1. c \in 1 .. (Bytes + 1)
    <3>1. 0 < c
      BY <1>2, <1>5
    <3>2. c <= Bytes + 1
      <4>1. c - 1 \notin R \/ c - 1 <= Bytes
        BY <1>2, <1>4
      <4>2. IsFiniteSet(0 .. Bytes) /\ Cardinality(0 .. Bytes) = Bytes + 1
        BY FS_Interval, 0 \in Int, Bytes \in Int
      <4> QED BY <4>2, <1>2, FS_Subset DEF c
    <3> QED BY <3>1, <3>2, <1>4
  <2>2. c - 1 \in R
    BY <2>1, <1>6
  <2>3. ASSUME NEW y \in R PROVE c - 1 >= y
    BY <2>3, <1>2, <1>4, <1>5
  <2> QED BY <2>2, <2>3
<1> HIDE DEF c
<1>8. Max(R) \in R /\ \A y \in R : Max(R) >= y
  BY <1>7 DEF Max
<1>9. Max(R) = Bytes <=> Bytes \in R
  <2>1. Max(R) \in 0 .. Bytes
    BY <1>8, <1>2
  <2>2. ASSUME Bytes \in R PROVE Max(R) >= Bytes
    BY <1>8, <2>2
  <2> QED BY <2>1, <2>2, <1>8
<1>10. Bytes \in R <=> Covered(Bytes)
  BY DEF R
<1> QED BY <1>1, <1>9, <1>10 DEF Covered

\* An open Boundary has one event.
LEMMA OneRecorded ==
    ASSUME EventsNumbered, AuthorityAnchored, NEW b \in Boundaries, Open(b)
    PROVE  \E e \in events : Recorded(b) = {e}
PROOF
<1>1. IsFiniteSet(Recorded(b))
  BY FS_Subset DEF Recorded, EventsNumbered
<1>2. Cardinality(Recorded(b)) = 1
  BY DEF AuthorityAnchored
<1>3. PICK e : Recorded(b) = {e}
  BY <1>1, <1>2, FS_Singleton
<1> QED BY <1>3 DEF Recorded

\* Of the chosen event of a Boundary that has one.
LEMMA ChosenRecorded ==
    ASSUME NEW b, NEW e, Recorded(b) = {e}
    PROVE  (CHOOSE x \in Recorded(b) : TRUE) = e
OBVIOUS

-----------------------------------------------------------------------------
(* Steps that write no event.                                                *)

\* A message is sent on a blank row.
LEMMA SentMessage ==
    ASSUME RowTypes, NEW m \in Unused, NEW of \in WorkIds \cup Boundaries,
           NEW role \in {"source", "notice", "continuation", "resumption", "notification", "plain"},
           SendMessage(m, role, of)
    PROVE  /\ msg' \in MessageRows
           /\ m \in Msgs /\ msg'[m].role = role /\ msg'[m].of = of
           /\ \A x \in Msgs : msg[x].role = "notice" => msg'[x] = msg[x]
PROOF
<1>1. m \in Msgs /\ msg[m].role = "none" /\ seq \in 0 .. MaxSeq
  BY DEF Unused, RowTypes
<1>2. [role |-> role, of |-> of, at |-> seq, state |-> "queued"] \in MessageRow
  BY <1>1
<1> QED BY <1>1, <1>2 DEF RowTypes, SendMessage

\* Evidence about events, reads and closes is untouched by a step that only moves messages and WorkIds.
LEMMA OnlyMessages ==
    ASSUME RetentionInv, UNCHANGED <<seq, events, bounds, super, circuit, pushes, session, closed, reading>>
    PROVE  /\ ReadingTypes' /\ EventsNumbered' /\ EventsHaveSubject' /\ AuthorityAnchored'
           /\ CloseOnce' /\ CircuitDecided' /\ CloseProvable'
           /\ RepliesAudited' /\ SeenAudited' /\ ReviewOfTurn'
PROOF
<1>1. ReadingTypes' /\ EventsNumbered' /\ EventsHaveSubject' /\ CloseOnce'
  BY DEF RetentionInv, reading, ReadingTypes, EventsNumbered, EventsHaveSubject, CloseOnce
<1>2. AuthorityAnchored' /\ CircuitDecided' /\ CloseProvable'
  BY DEF RetentionInv, AuthorityAnchored, CircuitDecided, CloseProvable, Open, Recorded, Counted
<1>3. RepliesAudited' /\ SeenAudited' /\ ReviewOfTurn'
  BY DEF RetentionInv, reading, RepliesAudited, SeenAudited, ReviewOfTurn, ReviewedAfterFullRead
<1> QED BY <1>1, <1>2, <1>3

\* A Work is assigned, with the message that starts it.
LEMMA AssignKeepsInv ==
    ASSUME RetentionInv, NEW w \in WorkIds, Assign(w)
    PROVE  RetentionInv'
PROOF
<1>1. RowTypes' /\ \A x \in Msgs : msg[x].role = "notice" => msg'[x] = msg[x]
  <2>1. /\ works' \in [WorkIds -> [state : {"none", "active", "canceled"}, gen : 0 .. MaxGen]]
        /\ UNCHANGED <<seq, circuit, pushes, bounds, session, closed>>
    BY DEF Assign, RetentionInv, RowTypes, Gens
  <2>2. PICK m \in Unused : SendMessage(m, "source", w)
    BY DEF Assign
  <2> QED BY <2>1, <2>2, SentMessage DEF RetentionInv, RowTypes
<1>2. NoticeOfOpenRecovery'
  BY <1>1 DEF Assign, RetentionInv, NoticeOfOpenRecovery, Open
<1> QED BY <1>1, <1>2, OnlyMessages DEF Assign, RetentionInv

\* The CAO is told of a settled turn, or of something no receipt names.
LEMMA NotifyKeepsInv ==
    ASSUME RetentionInv, NEW w \in WorkIds, NEW role \in {"notification", "plain"}, Notify(w, role)
    PROVE  RetentionInv'
PROOF
<1>1. RowTypes' /\ \A x \in Msgs : msg[x].role = "notice" => msg'[x] = msg[x]
  <2>1. PICK m \in Unused : SendMessage(m, role, w)
    BY DEF Notify
  <2> QED BY <2>1, SentMessage DEF Notify, rows, RetentionInv, RowTypes
<1>2. NoticeOfOpenRecovery'
  BY <1>1 DEF Notify, rows, RetentionInv, NoticeOfOpenRecovery, Open
<1> QED BY <1>1, <1>2, OnlyMessages DEF Notify, rows, RetentionInv

\* A recipient handles a message, or its delivery dies: it stays the message it was.
LEMMA SettleKeepsInv ==
    ASSUME RetentionInv, NEW m \in Msgs, NEW to \in {"handled", "dead"}, Settle(m, to)
    PROVE  RetentionInv'
PROOF
<1>1. RowTypes' /\ \A x \in Msgs : msg'[x].role = msg[x].role /\ msg'[x].of = msg[x].of
  BY DEF Settle, rows, RetentionInv, RowTypes
<1>2. NoticeOfOpenRecovery'
  BY <1>1 DEF Settle, rows, RetentionInv, NoticeOfOpenRecovery, Open
<1> QED BY <1>1, <1>2, OnlyMessages DEF Settle, rows, RetentionInv

\* A step of the circuit or of a push names events that are there.
LEMMA PointerKeepsInv ==
    ASSUME RetentionInv,
           UNCHANGED <<seq, events, works, bounds, super, session, closed, msg, reading>>,
           circuit' = circuit \/ circuit' = 0 \/ \E b \in Boundaries : Open(b) /\ \E e \in events :
               e.type = "recorded" /\ e.of = b /\ e.seq = circuit',
           \A n \in pushes' : n \in pushes \/ \E e \in events : e.seq = n
    PROVE  RetentionInv'
PROOF
<1>1. circuit' \in 0 .. seq /\ pushes' \subseteq 1 .. seq
  <2>1. seq \in Nat /\ circuit \in 0 .. seq /\ pushes \subseteq 1 .. seq
    BY DEF RetentionInv, RowTypes
  <2>2. \A e \in events : e.seq \in 1 .. seq
    BY DEF RetentionInv, EventsNumbered
  <2>3. circuit' \in 0 .. seq
    BY <2>1, <2>2
  <2>4. ASSUME NEW k \in pushes' PROVE k \in 1 .. seq
    BY <2>1, <2>2, <2>4
  <2> QED BY <2>3, <2>4
<1>2. RowTypes' /\ ReadingTypes' /\ EventsNumbered'
  BY <1>1 DEF RetentionInv, RowTypes, reading, ReadingTypes, EventsNumbered
<1>3. \A e \in events : e.seq = circuit' => e.type = "recorded"
  BY DEF RetentionInv, EventsNumbered, EventsHaveSubject
<1>4. EventsHaveSubject'
  BY <1>3 DEF RetentionInv, reading, EventsHaveSubject
<1>5. AuthorityAnchored'
  <2>1. \A b \in Boundaries : Open(b)' => Cardinality(Recorded(b)') = 1
    BY DEF RetentionInv, AuthorityAnchored, Open, Recorded
  <2>2. circuit' = 0 \/ \E e \in events : e.seq = circuit'
    BY DEF RetentionInv, AuthorityAnchored
  <2>3. \A n \in pushes' : n = 0 \/ \E e \in events : e.seq = n
    BY DEF RetentionInv, AuthorityAnchored
  <2>4. \A s \in super : \A n \in {s.opened, s.by} : n = 0 \/ \E e \in events : e.seq = n
    BY DEF RetentionInv, AuthorityAnchored
  <2> QED BY <2>1, <2>2, <2>3, <2>4 DEF AuthorityAnchored
<1>6. CloseOnce' /\ CircuitDecided' /\ CloseProvable'
  <2>1. \A e \in events : e.seq = circuit' /\ bounds[e.of].state = "canceled" => circuit' = circuit
    <3>1. ASSUME NEW e \in events, e.seq = circuit', NEW b \in Boundaries, Open(b), NEW d \in events,
                 d.of = b, d.seq = circuit'
          PROVE  bounds[e.of].state # "canceled"
      <4>1. e = d
        BY <3>1 DEF RetentionInv, EventsNumbered
      <4> QED BY <4>1, <3>1 DEF Open
    <3>2. \A e \in events : e.seq # 0
      BY DEF RetentionInv, EventsNumbered
    <3> QED BY <3>1, <3>2
  <2> QED BY <2>1 DEF RetentionInv, CloseOnce, CircuitDecided, CloseProvable, Counted
<1>7. RepliesAudited' /\ SeenAudited' /\ ReviewOfTurn' /\ NoticeOfOpenRecovery'
  BY DEF RetentionInv, reading, RepliesAudited, SeenAudited, ReviewOfTurn, ReviewedAfterFullRead,
         NoticeOfOpenRecovery, Open
<1> QED BY <1>2, <1>4, <1>5, <1>6, <1>7 DEF RetentionInv

\* The circuit opens on the one event of an open Boundary or closes, and a push is queued for an
\* event that is there or delivered.
LEMMA PointersKeepInv ==
    ASSUME RetentionInv,
           \/ \E b \in Boundaries : OpenCircuit(b)
           \/ CloseCircuit
           \/ \E e \in events : QueuePush(e)
           \/ \E n \in pushes : DeliverPush(n)
    PROVE  RetentionInv'
PROOF
<1>1. ASSUME NEW b \in Boundaries, OpenCircuit(b) PROVE RetentionInv'
  <2>1. PICK e \in events : Recorded(b) = {e}
    BY <1>1, OneRecorded DEF OpenCircuit, RetentionInv
  <2>2. circuit' = e.seq /\ e.type = "recorded" /\ e.of = b /\ Open(b)
    BY <1>1, <2>1, ChosenRecorded DEF OpenCircuit, Recorded
  <2> QED BY <1>1, <2>2, PointerKeepsInv DEF OpenCircuit
<1>2. CASE CloseCircuit
  BY <1>2, PointerKeepsInv DEF CloseCircuit
<1>3. ASSUME NEW e \in events, QueuePush(e) PROVE RetentionInv'
  BY <1>3, PointerKeepsInv DEF QueuePush, rows
<1>4. ASSUME NEW n \in pushes, DeliverPush(n) PROVE RetentionInv'
  BY <1>4, PointerKeepsInv DEF DeliverPush, rows
<1> QED BY <1>1, <1>2, <1>3, <1>4

\* The next generation has not been closed.
LEMMA ReopenKeepsInv ==
    ASSUME RetentionAssumption, RetentionInv, Reopen
    PROVE  RetentionInv'
PROOF
<1>1. session' = [gen |-> session.gen + 1, active |-> TRUE] /\ session.gen + 1 \in Gens /\ session.gen \in Nat
  BY DEF Reopen, RetentionAssumption, RetentionInv, RowTypes, Gens
<1>2. RowTypes' /\ CloseOnce'
  BY <1>1 DEF Reopen, RetentionInv, RowTypes, Gens, CloseOnce
<1>3. ReadingTypes' /\ EventsNumbered' /\ EventsHaveSubject'
  BY DEF Reopen, RetentionInv, reading, ReadingTypes, EventsNumbered, EventsHaveSubject
<1>4. AuthorityAnchored' /\ CircuitDecided' /\ CloseProvable' /\ NoticeOfOpenRecovery'
  BY DEF Reopen, RetentionInv, AuthorityAnchored, CircuitDecided, CloseProvable,
         NoticeOfOpenRecovery, Open, Recorded, Counted
<1>5. RepliesAudited' /\ SeenAudited' /\ ReviewOfTurn'
  BY DEF Reopen, RetentionInv, reading, RepliesAudited, SeenAudited, ReviewOfTurn,
         ReviewedAfterFullRead
<1> QED BY <1>2, <1>3, <1>4, <1>5 DEF RetentionInv

\* Evidence about Boundaries and closes is untouched by the steps of a captured turn.
LEMMA OnlyTurn ==
    ASSUME RetentionInv, UNCHANGED <<seq, events, pushes, msg, rows>>
    PROVE  /\ RowTypes' /\ EventsNumbered' /\ AuthorityAnchored'
           /\ CloseOnce' /\ CircuitDecided' /\ CloseProvable' /\ NoticeOfOpenRecovery'
PROOF
<1>1. RowTypes' /\ EventsNumbered' /\ CloseOnce'
  BY DEF RetentionInv, rows, RowTypes, EventsNumbered, CloseOnce
<1>2. AuthorityAnchored' /\ CircuitDecided' /\ CloseProvable' /\ NoticeOfOpenRecovery'
  BY DEF RetentionInv, rows, AuthorityAnchored, CircuitDecided, CloseProvable,
         NoticeOfOpenRecovery, Open, Recorded, Counted
<1> QED BY <1>1, <1>2

\* An output is captured once, before the turn ends.
LEMMA TurnKeepsInv ==
    ASSUME RetentionInv,
           \/ \E o \in Outputs, s \in {"available", "partial", "withheld"} : CaptureOutput(o, s)
           \/ \E s \in {"completed", "failed"} : EndTurn(s)
    PROVE  RetentionInv'
PROOF
<1>1. ASSUME NEW o \in Outputs, NEW s \in {"available", "partial", "withheld"}, CaptureOutput(o, s)
      PROVE  RetentionInv'
  <2>1. /\ output' \in [Outputs -> {"none", "available", "partial", "withheld"}]
        /\ \A x \in Outputs : output[x] \in {"available", "partial"} => output'[x] = output[x]
    BY <1>1 DEF CaptureOutput, RetentionInv, ReadingTypes
  <2>2. ReadingTypes' /\ EventsHaveSubject'
    BY <1>1, <2>1 DEF CaptureOutput, rows, RetentionInv, ReadingTypes, EventsHaveSubject
  <2>3. RepliesAudited' /\ SeenAudited' /\ ReviewOfTurn'
    BY <1>1 DEF CaptureOutput, RetentionInv, RepliesAudited, SeenAudited, ReviewOfTurn
  <2> QED BY <1>1, <2>2, <2>3, OnlyTurn DEF CaptureOutput, RetentionInv
<1>2. ASSUME NEW s \in {"completed", "failed"}, EndTurn(s)
      PROVE  RetentionInv'
  <2>1. ReadingTypes' /\ EventsHaveSubject'
    BY <1>2 DEF EndTurn, rows, RetentionInv, ReadingTypes, EventsHaveSubject
  <2>2. RepliesAudited' /\ SeenAudited' /\ ReviewOfTurn'
    BY <1>2 DEF EndTurn, RetentionInv, RepliesAudited, SeenAudited, ReviewOfTurn
  <2> QED BY <1>2, <2>1, <2>2, OnlyTurn DEF EndTurn, RetentionInv
<1> QED BY <1>1, <1>2

\* The review gate opens when every byte was shown, and only then.
LEMMA ReviewableWhenShown ==
    ASSUME RetentionAssumption, RetentionInv, NEW o \in Outputs
    PROVE  Reached(Spans(o)) = Bytes <=> seen[o][session.gen] = 0 .. (Bytes - 1)
PROOF
<1> DEFINE shown == seen[o][session.gen]
<1>1. Bytes \in Nat \ {0} /\ session.gen \in Gens /\ shown \subseteq 0 .. (Bytes - 1)
  BY DEF RetentionAssumption, RetentionInv, RowTypes, ReadingTypes, Texts
<1>2. Reached(Spans(o)) = Bytes
        <=> \A i \in 0 .. (Bytes - 1) : \E s \in Spans(o) : s[1] <= i /\ i < s[2]
  BY <1>1, ReachedMeansCovered
<1>3. ASSUME NEW i \in 0 .. (Bytes - 1), NEW s \in Spans(o), s[1] <= i, i < s[2]
      PROVE  i \in shown
  <2>1. PICK e \in events : e.type = "output_read" /\ e.of = o /\ e.gen = session.gen /\ s = <<e.lo, e.hi>>
    BY <1>3 DEF Spans
  <2>2. e.lo \in Nat /\ e.hi \in 0 .. Bytes /\ e.lo .. (e.hi - 1) \subseteq shown
    BY <2>1 DEF RetentionInv, EventsHaveSubject
  <2>3. i \in e.lo .. (e.hi - 1)
    BY <2>1, <2>2, <1>1, <1>3
  <2> QED BY <2>2, <2>3
<1>4. ASSUME NEW i \in shown
      PROVE  \E s \in Spans(o) : s[1] <= i /\ i < s[2]
  <2>1. PICK e \in events : e.type = "output_read" /\ e.of = o /\ e.gen = session.gen /\ e.lo <= i /\ i < e.hi
    BY <1>1, <1>4 DEF RetentionInv, SeenAudited
  <2>2. <<e.lo, e.hi>> \in Spans(o)
    BY <2>1 DEF Spans
  <2> QED BY <2>1, <2>2
<1> HIDE DEF shown
<1> QED BY <1>1, <1>2, <1>3, <1>4 DEF shown

\* An OK review is given by a generation that was shown every byte.
LEMMA ReviewKeepsInv ==
    ASSUME RetentionAssumption, RetentionInv, Review
    PROVE  RetentionInv'
PROOF
<1>1. reviewed' = session.gen /\ session.gen \in Gens /\ turn = "completed"
  BY DEF Review, Reviewable, RetentionInv, RowTypes
<1>2. ReadingTypes' /\ EventsHaveSubject' /\ RepliesAudited' /\ SeenAudited'
  BY <1>1 DEF Review, rows, RetentionInv, ReadingTypes, Gens, EventsHaveSubject, RepliesAudited,
              SeenAudited
<1>3. ReviewOfTurn'
  <2>1. ASSUME NEW o \in Outputs
        PROVE  /\ output[o] \in {"none", "available"}
               /\ output[o] = "available" => seen[o][session.gen] = 0 .. (Bytes - 1)
    BY ReviewableWhenShown DEF Review, Reviewable, RetentionInv, ReadingTypes
  <2> QED BY <1>1, <2>1 DEF Review, ReviewOfTurn, ReviewedAfterFullRead
<1> QED BY <1>2, <1>3, OnlyTurn DEF Review, RetentionInv

-----------------------------------------------------------------------------
(* Steps that write events.                                                  *)

\* A new event has the next sequence, which no event and no pointer has.
LEMMA NewEvent ==
    ASSUME RetentionInv, NEW n, n.seq = seq + 1, events' = events \cup {n}, seq' = seq + 1
    PROVE  /\ EventsNumbered'
           /\ seq \in Nat /\ circuit # n.seq /\ \A e \in events : e.seq \in Nat /\ e.seq < n.seq
PROOF
<1>1. seq \in Nat /\ circuit \in 0 .. seq
  BY DEF RetentionInv, RowTypes
<1>2. IsFiniteSet(events')
  BY FS_AddElement DEF RetentionInv, EventsNumbered
<1>3. \A e \in events : e.seq \in 1 .. seq
  BY DEF RetentionInv, EventsNumbered
<1>4. \A e \in events' : e.seq \in 1 .. seq'
  BY <1>1, <1>3
<1>5. \A e, d \in events' : e.seq = d.seq => e = d
  BY <1>1, <1>3 DEF RetentionInv, EventsNumbered
<1> QED BY <1>1, <1>2, <1>3, <1>4, <1>5 DEF EventsNumbered

\* What reads have left is untouched by events that are not audits.
LEMMA ReadsStay ==
    ASSUME RetentionInv, events \subseteq events', UNCHANGED reading,
           \A e \in events' \ events : e.type \notin ReadTypes
    PROVE  ReadingTypes' /\ RepliesAudited' /\ SeenAudited' /\ ReviewOfTurn'
PROOF
<1>1. ReadingTypes' /\ ReviewOfTurn'
  BY DEF RetentionInv, reading, ReadingTypes, ReviewOfTurn, ReviewedAfterFullRead
<1>2. RepliesAudited'
  <2>1. \A e, d \in events' : e.type \in ReadTypes /\ e.type = d.type /\ e.key = d.key => e = d
    BY DEF RetentionInv, RepliesAudited
  <2>2. replies' = replies
    BY DEF reading
  <2> QED BY <2>1, <2>2 DEF RetentionInv, RepliesAudited
<1>3. SeenAudited'
  BY DEF RetentionInv, reading, SeenAudited
<1> QED BY <1>1, <1>2, <1>3

\* Pointers and open Boundaries keep their events as long as events are only added.
LEMMA AnchorsStay ==
    ASSUME RetentionInv, events \subseteq events', UNCHANGED <<circuit, pushes>>,
           NEW b0,
           \A e \in events' \ events : e.type = "recorded" => e.of = b0,
           \A b \in Boundaries : b # b0 /\ Open(b)' => Open(b),
           b0 \in Boundaries /\ Open(b0)' => Cardinality(Recorded(b0)') = 1,
           \A s \in super' : s \in super \/ \A n \in {s.opened, s.by} : \E e \in events' : e.seq = n
    PROVE  AuthorityAnchored'
PROOF
<1>1. ASSUME NEW b \in Boundaries, Open(b)' PROVE Cardinality(Recorded(b)') = 1
  <2>1. CASE b # b0
    <3>1. Recorded(b)' = Recorded(b)
      BY <2>1 DEF Recorded
    <3> QED BY <1>1, <2>1, <3>1 DEF RetentionInv, AuthorityAnchored
  <2> QED BY <1>1, <2>1
<1>2. \A n \in {circuit} \cup pushes : n = 0 \/ \E e \in events' : e.seq = n
  BY DEF RetentionInv, AuthorityAnchored
<1>3. \A s \in super' : \A n \in {s.opened, s.by} : n = 0 \/ \E e \in events' : e.seq = n
  BY DEF RetentionInv, AuthorityAnchored
<1> QED BY <1>1, <1>2, <1>3 DEF AuthorityAnchored

\* The evidence of the closes is untouched by events of other kinds, and by new states of Boundaries
\* that no close disposes of.
LEMMA ClosesStay ==
    ASSUME RetentionInv, events \subseteq events', UNCHANGED <<circuit, closed, session>>,
           \A e \in events' \ events : e.type \notin EndTypes /\ e.seq # circuit,
           \A b \in Boundaries : bounds'[b].state = "canceled" => bounds[b].state = "canceled"
    PROVE  CloseOnce' /\ CircuitDecided' /\ CloseProvable'
PROOF
<1>1. CloseOnce'
  BY DEF RetentionInv, CloseOnce
<1>2. CircuitDecided'
  <2>1. ASSUME NEW e \in events', e.seq = circuit, bounds'[e.of].state = "canceled"
        PROVE  e \in events /\ bounds[e.of].state = "canceled"
    <3>1. e \in events
      BY <2>1
    <3>2. e.of \in Boundaries
      BY <2>1, <3>1 DEF RetentionInv, EventsHaveSubject
    <3> QED BY <2>1, <3>1, <3>2
  <2> QED BY <2>1 DEF RetentionInv, CircuitDecided
<1>3. \A g \in Gens, type \in EndTypes : Counted(type, g)' = Counted(type, g)
  <2>1. ASSUME NEW g \in Gens, NEW type \in EndTypes
        PROVE  {e \in events' : e.type = type /\ e.gen = g} = {e \in events : e.type = type /\ e.gen = g}
    OBVIOUS
  <2> QED BY <2>1 DEF Counted
<1>4. CloseProvable'
  BY <1>2, <1>3 DEF RetentionInv, CircuitDecided, CloseProvable, EndTypes
<1> QED BY <1>1, <1>2, <1>4

\* The new event of a Boundary, a decision or a new goal.
LEMMA LoggedEvent ==
    ASSUME RetentionAssumption, RetentionInv, NEW type, NEW of, NEW gen, Log(type, of, gen)
    PROVE  /\ events' = events \cup {Event(seq + 1, type, of, gen)}
           /\ Event(seq + 1, type, of, gen).seq = seq + 1 /\ Event(seq + 1, type, of, gen).type = type
           /\ Event(seq + 1, type, of, gen).of = of /\ Event(seq + 1, type, of, gen).gen = gen
           /\ seq' = seq + 1 /\ seq' \in 0 .. MaxSeq
           /\ circuit \in 0 .. seq' /\ pushes \subseteq 1 .. seq'
           /\ EventsNumbered'
           /\ circuit # seq + 1 /\ \A e \in events : e.seq # seq + 1
PROOF
<1> DEFINE n == Event(seq + 1, type, of, gen)
<1>1. /\ events' = events \cup {n} /\ seq' = seq + 1 /\ seq < MaxSeq
      /\ n.seq = seq + 1 /\ n.type = type /\ n.of = of /\ n.gen = gen
  BY DEF Log, Event
<1>2. seq \in 0 .. MaxSeq /\ circuit \in 0 .. seq /\ pushes \subseteq 1 .. seq
  BY DEF RetentionInv, RowTypes
<1> HIDE DEF n
<1>3. EventsNumbered' /\ circuit # seq + 1 /\ \A e \in events : e.seq # seq + 1
  BY <1>1, NewEvent
<1>4. seq' \in 0 .. MaxSeq /\ circuit \in 0 .. seq' /\ pushes \subseteq 1 .. seq'
  <2>1. seq' = seq + 1 /\ seq \in Nat /\ seq + 1 \in 0 .. MaxSeq
    BY <1>1, <1>2 DEF RetentionAssumption
  <2>2. 0 .. seq \subseteq 0 .. (seq + 1) /\ 1 .. seq \subseteq 1 .. (seq + 1)
    BY <2>1
  <2> QED BY <2>1, <2>2, <1>2
<1> QED BY <1>1, <1>3, <1>4 DEF n

\* A Boundary is opened with its one event, and the notice of a recovery with it.
LEMMA RecordKeepsInv ==
    ASSUME RetentionAssumption, RetentionInv, NEW b \in Boundaries, NEW w \in WorkIds,
           NEW recon \in BOOLEAN, Record(b, w, recon)
    PROVE  RetentionInv'
PROOF
<1> DEFINE n == Event(seq + 1, "recorded", b, 0)
<1>1. /\ events' = events \cup {n} /\ n.seq = seq + 1 /\ n.type = "recorded" /\ n.of = b /\ n.gen = 0
      /\ seq' \in 0 .. MaxSeq /\ circuit \in 0 .. seq' /\ pushes \subseteq 1 .. seq'
      /\ EventsNumbered' /\ circuit # n.seq /\ \A e \in events : e.seq # n.seq
  BY LoggedEvent DEF Record
<1> HIDE DEF n
<1>2. /\ bounds' = [bounds EXCEPT ![b] = [state |-> "open", work |-> w, recon |-> recon]]
      /\ bounds[b].state = "none" /\ bounds \in BoundaryRows
      /\ UNCHANGED <<works, super, circuit, pushes, session, closed, reading>>
  BY DEF Record, RetentionInv, RowTypes
<1>3. /\ bounds'[b].state = "open" /\ bounds'[b].recon = recon
      /\ \A x \in Boundaries : x # b => bounds'[x] = bounds[x]
      /\ bounds' \in BoundaryRows
  BY <1>2
<1>4. RowTypes' /\ NoticeOfOpenRecovery'
  <2>1. CASE recon
    <3>1. PICK m \in Unused : SendMessage(m, "notice", b)
      BY <2>1 DEF Record
    <3>2. RowTypes'
      BY <1>1, <1>2, <1>3, <3>1, SentMessage DEF RetentionInv, RowTypes
    <3>3. NoticeOfOpenRecovery'
      BY <1>3, <3>1, SentMessage DEF RetentionInv, NoticeOfOpenRecovery, Open
    <3> QED BY <3>2, <3>3
  <2>2. CASE ~recon
    <3>1. msg' = msg
      BY <2>2 DEF Record
    <3>2. RowTypes'
      BY <1>1, <1>2, <1>3, <3>1 DEF RetentionInv, RowTypes
    <3>3. NoticeOfOpenRecovery'
      BY <1>3, <2>2, <3>1 DEF RetentionInv, NoticeOfOpenRecovery, Open
    <3> QED BY <3>2, <3>3
  <2> QED BY <2>1, <2>2
<1>5. ReadingTypes' /\ RepliesAudited' /\ SeenAudited' /\ ReviewOfTurn'
  BY <1>1, <1>2, ReadsStay DEF ReadTypes
<1>6. EventsHaveSubject'
  <2>1. \A e \in events : e.type = "recorded" => e.of \in Boundaries /\ bounds'[e.of].state # "none"
    BY <1>3 DEF RetentionInv, EventsHaveSubject
  <2>2. output' = output /\ seen' = seen
    BY <1>2 DEF reading
  <2> QED BY <1>1, <1>2, <1>3, <2>1, <2>2 DEF RetentionInv, EventsHaveSubject, EndTypes
<1>7. AuthorityAnchored'
  <2>1. Recorded(b)' = {n}
    BY <1>1, <1>2 DEF RetentionInv, EventsHaveSubject, Recorded
  <2>2. Cardinality(Recorded(b)') = 1
    BY <2>1, FS_Singleton
  <2>3. \A x \in Boundaries : x # b /\ Open(x)' => Open(x)
    BY <1>3 DEF Open
  <2> QED BY <1>1, <1>2, <2>2, <2>3, AnchorsStay
<1>8. CloseOnce' /\ CircuitDecided' /\ CloseProvable'
  BY <1>1, <1>2, <1>3, ClosesStay DEF EndTypes
<1> QED BY <1>1, <1>4, <1>5, <1>6, <1>7, <1>8 DEF RetentionInv

\* An ordinary decision is not part of a close, and its Boundary is not open any more.
LEMMA DisposeKeepsInv ==
    ASSUME RetentionAssumption, RetentionInv, NEW b \in Boundaries, DisposeBoundary(b)
    PROVE  RetentionInv'
PROOF
<1> DEFINE n == Event(seq + 1, "disposed", b, 0)
<1>1. /\ events' = events \cup {n} /\ n.seq = seq + 1 /\ n.type = "disposed" /\ n.of = b /\ n.gen = 0
      /\ seq' \in 0 .. MaxSeq /\ circuit \in 0 .. seq' /\ pushes \subseteq 1 .. seq'
      /\ EventsNumbered' /\ circuit # n.seq /\ \A e \in events : e.seq # n.seq
  BY LoggedEvent DEF DisposeBoundary
<1> HIDE DEF n
<1>2. /\ bounds' = [bounds EXCEPT ![b].state = "disposed"]
      /\ UNCHANGED <<works, super, circuit, pushes, session, closed, reading>>
  BY DEF DisposeBoundary
<1>3. /\ bounds'[b].state = "disposed"
      /\ \A x \in Boundaries : x # b => bounds'[x] = bounds[x]
      /\ bounds' \in BoundaryRows
  BY <1>2 DEF RetentionInv, RowTypes
<1>4. RowTypes' /\ \A x \in Msgs : msg[x].role = "notice" => msg'[x] = msg[x]
  <2>1. CASE UNCHANGED msg
    BY <1>1, <1>2, <1>3, <2>1 DEF RetentionInv, RowTypes
  <2>2. ASSUME NEW m \in Unused, NEW r \in {"continuation", "resumption"}, SendMessage(m, r, b)
        PROVE  RowTypes' /\ \A x \in Msgs : msg[x].role = "notice" => msg'[x] = msg[x]
    BY <1>1, <1>2, <1>3, <2>2, SentMessage DEF RetentionInv, RowTypes
  <2> QED BY <2>1, <2>2 DEF DisposeBoundary
<1>5. NoticeOfOpenRecovery'
  BY <1>3, <1>4 DEF RetentionInv, NoticeOfOpenRecovery, Open
<1>6. ReadingTypes' /\ RepliesAudited' /\ SeenAudited' /\ ReviewOfTurn'
  BY <1>1, <1>2, ReadsStay DEF ReadTypes
<1>7. EventsHaveSubject'
  <2>1. \A e \in events : e.type = "recorded" => e.of \in Boundaries /\ bounds'[e.of].state # "none"
    BY <1>3 DEF RetentionInv, EventsHaveSubject
  <2>2. output' = output /\ seen' = seen
    BY <1>2 DEF reading
  <2> QED BY <1>1, <1>2, <2>1, <2>2 DEF RetentionInv, EventsHaveSubject, EndTypes
<1>8. AuthorityAnchored'
  <2>1. \A x \in Boundaries : x # b /\ Open(x)' => Open(x)
    BY <1>3 DEF Open
  <2>2. ~Open(b)'
    BY <1>3 DEF Open
  <2> QED BY <1>1, <1>2, <2>1, <2>2, AnchorsStay
<1>9. CloseOnce' /\ CircuitDecided' /\ CloseProvable'
  BY <1>1, <1>2, <1>3, ClosesStay DEF EndTypes
<1> QED BY <1>1, <1>4, <1>5, <1>6, <1>7, <1>8, <1>9 DEF RetentionInv

\* A goal replacement names the one event of the Boundary it supersedes, and its own.
LEMMA ReplaceKeepsInv ==
    ASSUME RetentionAssumption, RetentionInv, NEW w \in WorkIds, Replace(w)
    PROVE  RetentionInv'
PROOF
<1> DEFINE n == Event(seq + 1, "replaced", w, 0)
<1>1. /\ events' = events \cup {n} /\ n.seq = seq + 1 /\ n.type = "replaced" /\ n.of = w /\ n.gen = 0
      /\ seq' \in 0 .. MaxSeq /\ circuit \in 0 .. seq' /\ pushes \subseteq 1 .. seq'
      /\ EventsNumbered' /\ circuit # n.seq /\ \A e \in events : e.seq # n.seq
  BY LoggedEvent DEF Replace
<1> HIDE DEF n
<1>2. /\ bounds' = [b \in Boundaries |->
                   IF b \in StaleBoundaries(w) THEN [bounds[b] EXCEPT !.state = "superseded"] ELSE bounds[b]]
      /\ UNCHANGED <<works, circuit, pushes, session, closed, reading>>
  BY DEF Replace
<1>3. /\ \A b \in Boundaries : bounds'[b] = bounds[b] \/ (bounds'[b].state = "superseded" /\ Open(b))
      /\ bounds' \in BoundaryRows
  <2>1. \A b \in StaleBoundaries(w) : Open(b)
    BY DEF StaleBoundaries
  <2>2. bounds \in BoundaryRows
    BY DEF RetentionInv, RowTypes
  <2>3. ASSUME NEW b \in Boundaries
        PROVE  /\ bounds'[b] = bounds[b] \/ (bounds'[b].state = "superseded" /\ Open(b))
               /\ bounds'[b] \in BoundaryRow
    <3>1. CASE b \in StaleBoundaries(w)
      BY <1>2, <2>1, <2>2, <3>1
    <3>2. CASE b \notin StaleBoundaries(w)
      BY <1>2, <2>2, <3>2
    <3> QED BY <3>1, <3>2
  <2>4. bounds' \in BoundaryRows
    <3> HIDE DEF BoundaryRow
    <3> QED BY <1>2, <2>3
  <2> QED BY <2>3, <2>4
<1>4. RowTypes' /\ \A x \in Msgs : msg'[x].role = msg[x].role /\ msg'[x].of = msg[x].of
  <2>1. /\ \A x \in Msgs : msg'[x].role = msg[x].role /\ msg'[x].of = msg[x].of
        /\ msg' \in MessageRows
    BY DEF Replace, RetentionInv, RowTypes
  <2>2. RowTypes'
    BY <1>1, <1>2, <1>3, <2>1 DEF RetentionInv, RowTypes
  <2> QED BY <2>1, <2>2
<1>5. NoticeOfOpenRecovery'
  BY <1>3, <1>4 DEF RetentionInv, NoticeOfOpenRecovery, Open
<1>6. ReadingTypes' /\ RepliesAudited' /\ SeenAudited' /\ ReviewOfTurn'
  BY <1>1, <1>2, ReadsStay DEF ReadTypes
<1>7. EventsHaveSubject'
  <2>1. \A e \in events : e.type = "recorded" => e.of \in Boundaries /\ bounds'[e.of].state # "none"
    BY <1>3 DEF RetentionInv, EventsHaveSubject
  <2>2. output' = output /\ seen' = seen
    BY <1>2 DEF reading
  <2> QED BY <1>1, <1>2, <2>1, <2>2 DEF RetentionInv, EventsHaveSubject, EndTypes
<1>8. AuthorityAnchored'
  <2>1. ASSUME NEW s \in super', s \notin super
        PROVE  \A k \in {s.opened, s.by} : \E e \in events' : e.seq = k
    <3>1. PICK b \in StaleBoundaries(w) :
            s = [of |-> b, opened |-> (CHOOSE e \in Recorded(b) : TRUE).seq, by |-> seq + 1]
      BY <2>1 DEF Replace
    <3>2. PICK e \in events : Recorded(b) = {e}
      BY OneRecorded DEF StaleBoundaries, RetentionInv
    <3>3. s.opened = e.seq /\ s.by = n.seq
      BY <1>1, <3>1, <3>2, ChosenRecorded
    <3> QED BY <1>1, <3>3
  <2>2. \A b \in Boundaries : Open(b)' => Open(b)
    BY <1>3 DEF Open
  <2>3. w \in Boundaries /\ Open(w)' => Cardinality(Recorded(w)') = 1
    <3>1. Recorded(w)' = Recorded(w)
      BY <1>1 DEF Recorded
    <3> QED BY <2>2, <3>1 DEF RetentionInv, AuthorityAnchored
  <2> QED BY <1>1, <1>2, <2>1, <2>2, <2>3, AnchorsStay
<1>9. CloseOnce' /\ CircuitDecided' /\ CloseProvable'
  BY <1>1, <1>2, <1>3, ClosesStay DEF EndTypes
<1> QED BY <1>1, <1>4, <1>5, <1>6, <1>7, <1>8, <1>9 DEF RetentionInv

\* A chunk read is answered by the audit of its key, which is new when the key is.
LEMMA ReadKeepsInv ==
    ASSUME RetentionAssumption, RetentionInv, NEW t \in Texts, NEW k \in ReadKeys,
           NEW lo \in 0 .. Bytes, NEW len \in 1 .. Bytes, Read(t, k, lo, len)
    PROVE  RetentionInv'
PROOF
<1> DEFINE hi == ChunkEnd(lo, len)
           chunk == lo .. (hi - 1)
           g == session.gen
<1>1. Bytes \in Nat \ {0} /\ hi \in 0 .. Bytes /\ g \in Gens /\ chunk \subseteq 0 .. (Bytes - 1)
  <2>1. Bytes \in Nat \ {0} /\ lo \in Nat /\ len \in Nat /\ g \in Gens
    BY DEF RetentionAssumption, RetentionInv, RowTypes
  <2>2. hi \in 0 .. Bytes
    BY <2>1, ChunkWithin
  <2> HIDE DEF hi
  <2> QED BY <2>1, <2>2
<1>2. Readable(t) /\ UNCHANGED <<pushes, msg, rows, output, turn, reviewed>>
  BY DEF Read
<1>3. /\ seen' \in [Texts -> [Gens -> SUBSET (0 .. (Bytes - 1))]]
      /\ \A x \in Texts, h \in Gens :
           seen'[x][h] = IF x = t /\ h = g THEN seen[x][h] \cup chunk ELSE seen[x][h]
  <2>1. seen' = [seen EXCEPT ![t][g] = @ \cup chunk]
    BY DEF Read
  <2> HIDE DEF g, chunk
  <2> QED BY <2>1, <1>1 DEF RetentionInv, ReadingTypes
<1>4. ReadType(t) \in ReadTypes /\ (ReadType(t) = "output_read" <=> t \in Outputs)
  BY DEF ReadType, ReadTypes
<1>5. PICK e \in events' :
        /\ e.type = ReadType(t) /\ e.key = k /\ e.of = t /\ e.gen = g /\ e.lo = lo /\ e.hi = hi
        /\ replies' = replies \cup {[type |-> e.type, key |-> e.key, seq |-> e.seq,
                                     ask |-> [of |-> e.of, gen |-> e.gen, lo |-> e.lo, hi |-> e.hi]]}
        /\ \/ e \in events /\ UNCHANGED <<seq, events>>
           \/ /\ Prior(t, k) = {} /\ seq < MaxSeq /\ seq' = seq + 1 /\ e.seq = seq + 1
              /\ events' = events \cup {e}
  <2>1. CASE Prior(t, k) # {}
    <3>1. PICK e \in Prior(t, k) : TRUE
      BY <2>1
    <3>2. e \in events /\ e.type = ReadType(t) /\ e.key = k /\ SameRequest(e, t, lo, len)
      BY <3>1 DEF Prior, Read
    <3>3. Prior(t, k) = {e}
      BY <3>2, <1>4 DEF Prior, RetentionInv, RepliesAudited
    <3>4. Min({d.seq : d \in Prior(t, k)}) = e.seq
      <4>1. {d.seq : d \in Prior(t, k)} = {e.seq} /\ e.seq \in Nat
        BY <3>2, <3>3 DEF RetentionInv, EventsNumbered, RowTypes
      <4> QED BY <4>1, MinOfFew
    <3>5. Asked(t, lo, len) = [of |-> e.of, gen |-> e.gen, lo |-> e.lo, hi |-> e.hi]
      BY <3>2 DEF SameRequest
    <3>6. e.of = t /\ e.gen = g /\ e.lo = lo /\ e.hi = hi
      BY <3>5 DEF Asked
    <3>7. /\ replies' = replies \cup {[type |-> ReadType(t), key |-> k,
                                          ask |-> Asked(t, lo, len), seq |-> e.seq]}
          /\ UNCHANGED <<seq, events>>
      BY <2>1, <3>4 DEF Read
    <3> HIDE DEF hi, g
    <3> QED BY <3>2, <3>5, <3>6, <3>7
  <2>2. CASE Prior(t, k) = {}
    <3> DEFINE e == Audit(t, k, lo, len)
    <3>1. /\ e.seq = seq + 1 /\ e.type = ReadType(t) /\ e.key = k /\ e.of = t /\ e.gen = g
          /\ e.lo = lo /\ e.hi = hi /\ Asked(t, lo, len) = [of |-> t, gen |-> g, lo |-> lo, hi |-> hi]
      BY DEF Audit, Asked
    <3>2. /\ seq < MaxSeq /\ seq' = seq + 1 /\ events' = events \cup {e}
          /\ replies' = replies \cup {[type |-> ReadType(t), key |-> k, ask |-> Asked(t, lo, len),
                                       seq |-> seq + 1]}
      BY <2>2 DEF Read
    <3> HIDE DEF e, hi, g
    <3> QED BY <2>2, <3>1, <3>2
  <2> QED BY <2>1, <2>2
<1> HIDE DEF hi, chunk, g
<1>6. EventsNumbered' /\ seq' \in 0 .. MaxSeq /\ circuit \in 0 .. seq' /\ pushes \subseteq 1 .. seq'
        /\ (e \in events \/ circuit # e.seq)
  <2>1. seq \in 0 .. MaxSeq /\ circuit \in 0 .. seq /\ pushes \subseteq 1 .. seq /\ MaxSeq \in Nat
    BY DEF RetentionInv, RowTypes, RetentionAssumption
  <2>2. CASE e \in events /\ UNCHANGED <<seq, events>>
    BY <2>1, <2>2 DEF RetentionInv, EventsNumbered
  <2>3. CASE seq < MaxSeq /\ seq' = seq + 1 /\ e.seq = seq + 1 /\ events' = events \cup {e}
    <3>1. EventsNumbered' /\ circuit # e.seq
      BY <2>3, NewEvent
    <3>2. seq' \in 0 .. MaxSeq /\ 0 .. seq \subseteq 0 .. seq' /\ 1 .. seq \subseteq 1 .. seq'
      BY <2>1, <2>3
    <3> QED BY <2>1, <3>1, <3>2
  <2> QED BY <1>5, <2>2, <2>3
<1>7. events' = events \cup {e} /\ (e \notin events => Prior(t, k) = {})
  BY <1>5
<1>8. RowTypes' /\ ReadingTypes' /\ NoticeOfOpenRecovery'
  <2>1. RowTypes'
    BY <1>2, <1>6 DEF rows, RetentionInv, RowTypes
  <2>2. ReadingTypes'
    BY <1>2, <1>3 DEF RetentionInv, ReadingTypes
  <2>3. NoticeOfOpenRecovery'
    BY <1>2 DEF rows, RetentionInv, NoticeOfOpenRecovery, Open
  <2> QED BY <2>1, <2>2, <2>3
<1>9. EventsHaveSubject'
  <2>1. ASSUME NEW d \in events, d.type = "output_read"
        PROVE  d.lo .. (d.hi - 1) \subseteq seen'[d.of][d.gen]
    <3>1. d.of \in Texts /\ d.gen \in Gens /\ d.lo .. (d.hi - 1) \subseteq seen[d.of][d.gen]
      BY <2>1 DEF RetentionInv, EventsHaveSubject, Texts
    <3> QED BY <3>1, <1>3
  <2>2. e.type = "output_read" =>
           /\ e.of \in Outputs /\ output[e.of] \in {"available", "partial"}
           /\ e.gen \in Gens /\ e.lo \in Nat /\ e.hi \in 0 .. Bytes
           /\ e.lo .. (e.hi - 1) \subseteq seen'[e.of][e.gen]
    <3>1. t \in Outputs => output[t] \in {"available", "partial"}
      BY <1>2 DEF Readable
    <3>2. chunk \subseteq seen'[t][g]
      BY <1>1, <1>3
    <3> QED BY <1>1, <1>4, <1>5, <3>1, <3>2 DEF chunk
  <2>3. e.type = "artifact_read" => e.of \in Artifacts
    BY <1>2, <1>4, <1>5 DEF Readable, ReadType
  <2>4. e.type # "recorded" /\ e.type # "disposed" /\ e.type \notin EndTypes
    BY <1>4, <1>5 DEF ReadTypes, EndTypes
  <2>5. \A d \in events : d.seq = circuit => d.type = "recorded"
    BY DEF RetentionInv, EventsHaveSubject
  <2>6. output' = output /\ bounds' = bounds /\ closed' = closed /\ circuit' = circuit
    BY <1>2 DEF rows
  <2>7. ASSUME NEW d \in events'
        PROVE  /\ d.type = "recorded" => d.of \in Boundaries /\ bounds[d.of].state # "none"
               /\ d.type \in EndTypes \/ (d.type = "disposed" /\ d.gen # 0) =>
                    d.gen \in Gens /\ closed[d.gen].done
               /\ d.type = "artifact_read" => d.of \in Artifacts
               /\ d.type = "output_read" =>
                    /\ d.of \in Outputs /\ output[d.of] \in {"available", "partial"}
                    /\ d.gen \in Gens /\ d.lo \in Nat /\ d.hi \in 0 .. Bytes
                    /\ d.lo .. (d.hi - 1) \subseteq seen'[d.of][d.gen]
               /\ d.seq = circuit => d.type = "recorded"
    <3>1. CASE d \in events
      BY <2>1, <3>1 DEF RetentionInv, EventsHaveSubject
    <3>2. CASE d = e /\ e \notin events
      BY <2>2, <2>3, <2>4, <1>6, <3>2
    <3> QED BY <1>7, <3>1, <3>2
  <2> QED BY <2>6, <2>7 DEF EventsHaveSubject
<1>10. AuthorityAnchored' /\ CloseOnce' /\ CircuitDecided' /\ CloseProvable'
  <2>1. e.type # "recorded" /\ e.type \notin EndTypes
    BY <1>4, <1>5 DEF ReadTypes, EndTypes
  <2>2. UNCHANGED <<bounds, super, circuit, pushes, closed, session>>
    BY <1>2 DEF rows
  <2>3. \A b \in Boundaries : Open(b)' => Open(b)
    BY <2>2 DEF Open
  <2>4. t \in Boundaries /\ Open(t)' => Cardinality(Recorded(t)') = 1
    <3>1. Recorded(t)' = Recorded(t)
      BY <1>7, <2>1 DEF Recorded
    <3> QED BY <2>3, <3>1 DEF RetentionInv, AuthorityAnchored
  <2>5. AuthorityAnchored'
    BY <1>7, <2>1, <2>2, <2>3, <2>4, AnchorsStay
  <2>6. CloseOnce' /\ CircuitDecided' /\ CloseProvable'
    BY <1>6, <1>7, <2>1, <2>2, ClosesStay
  <2> QED BY <2>5, <2>6
<1>11. RepliesAudited'
  <2>1. \A r \in replies' : \E d \in events' :
         /\ d.type \in ReadTypes
         /\ r = [type |-> d.type, key |-> d.key, seq |-> d.seq,
                 ask |-> [of |-> d.of, gen |-> d.gen, lo |-> d.lo, hi |-> d.hi]]
    <3>1. ASSUME NEW r \in replies
          PROVE  \E d \in events : /\ d.type \in ReadTypes
                   /\ r = [type |-> d.type, key |-> d.key, seq |-> d.seq,
                           ask |-> [of |-> d.of, gen |-> d.gen, lo |-> d.lo, hi |-> d.hi]]
      BY DEF RetentionInv, RepliesAudited
    <3>2. events \subseteq events' /\ e \in events' /\ e.type \in ReadTypes
      BY <1>4, <1>5, <1>7
    <3>3. replies' = replies \cup {[type |-> e.type, key |-> e.key, seq |-> e.seq,
                                    ask |-> [of |-> e.of, gen |-> e.gen, lo |-> e.lo, hi |-> e.hi]]}
      BY <1>5
    <3> QED BY <3>1, <3>2, <3>3
  <2>2. ASSUME NEW d \in events', NEW c \in events', d.type \in ReadTypes, d.type = c.type, d.key = c.key
        PROVE  d = c
    <3>1. CASE e \in events
      BY <1>7, <2>2, <3>1 DEF RetentionInv, RepliesAudited
    <3>2. CASE e \notin events
      <4>1. \A x \in events : ~(x.type = e.type /\ x.key = e.key)
        BY <1>5, <1>7, <3>2 DEF Prior
      <4> QED BY <1>7, <2>2, <4>1 DEF RetentionInv, RepliesAudited
    <3> QED BY <3>1, <3>2
  <2> QED BY <2>1, <2>2 DEF RepliesAudited
<1>12. SeenAudited'
  <2>1. ASSUME NEW o \in Outputs, NEW h \in Gens, NEW i \in seen'[o][h]
        PROVE  \E d \in events' : d.type = "output_read" /\ d.of = o /\ d.gen = h /\ d.lo <= i /\ i < d.hi
    <3>1. o \in Texts
      BY DEF Texts
    <3>2. CASE i \in seen[o][h]
      BY <1>7, <3>2 DEF RetentionInv, SeenAudited
    <3>3. CASE i \in chunk /\ o = t /\ h = g
      <4>1. lo <= i /\ i < hi
        BY <3>3, <1>1 DEF chunk
      <4> QED BY <1>4, <1>5, <3>3, <4>1
    <3> QED BY <2>1, <1>3, <3>1, <3>2, <3>3
  <2> QED BY <2>1 DEF SeenAudited
<1>13. ReviewOfTurn'
  <2>1. ASSUME NEW o \in Outputs, NEW h \in Gens, seen[o][h] = 0 .. (Bytes - 1)
        PROVE  seen'[o][h] = 0 .. (Bytes - 1)
    BY <1>1, <1>3, <2>1 DEF Texts
  <2>2. reviewed # 0 => reviewed \in Gens
    BY DEF RetentionInv, ReadingTypes, Gens, RetentionAssumption
  <2> QED BY <1>2, <2>1, <2>2 DEF RetentionInv, ReviewOfTurn, ReviewedAfterFullRead
<1> QED BY <1>6, <1>8, <1>9, <1>10, <1>11, <1>12, <1>13 DEF RetentionInv

\* What prune keeps is what the rows still name.
LEMMA PruneKeepsInv ==
    ASSUME RetentionAssumption, RetentionInv, NEW ce, NEW cm, PruneRows(ce, cm)
    PROVE  RetentionInv'
PROOF
<1>1. /\ events' \subseteq events
      /\ \A e \in events : EventKept(e) => e \in events'
      /\ UNCHANGED <<seq, pushes, rows, reading>>
  BY DEF PruneRows
<1>2. UNCHANGED <<works, bounds, super, circuit, session, closed, output, turn, reviewed, replies, seen>>
  BY <1>1 DEF rows, reading
<1>3. \A e \in events : e.type \in EndTypes \/ (e.type = "disposed" /\ e.gen # 0) => e \in events'
  BY <1>1 DEF RetentionInv, EventsHaveSubject, EventKept, CloseKept, StoppedKept, CanceledKept,
              DisposedKept, EndTypes
<1>4. \A e \in events : e.type \in ReadTypes => e \in events'
  <2>1. ASSUME NEW e \in events, e.type = "artifact_read" PROVE EventKept(e)
    BY <2>1 DEF RetentionInv, EventsHaveSubject, EventKept, ArtifactReadKept
  <2>2. ASSUME NEW e \in events, e.type = "output_read" PROVE EventKept(e)
    <3>1. e.of \in Outputs /\ output[e.of] \in {"available", "partial"} /\ e.hi \in 0 .. Bytes
      BY <2>2 DEF RetentionInv, EventsHaveSubject
    <3>2. e.hi <= Bytes
      BY <3>1 DEF RetentionAssumption
    <3> QED BY <2>2, <3>1, <3>2 DEF EventKept, OutputReadKept, Readable
  <2> QED BY <1>1, <2>1, <2>2 DEF ReadTypes
<1>5. /\ \A x \in Msgs : msg'[x] = msg[x] \/ (msg'[x] = [msg[x] EXCEPT !.role = "pruned"] /\ ~MessageKept(x))
      /\ msg' \in MessageRows
  BY DEF PruneRows, RetentionInv, RowTypes
<1>6. RowTypes' /\ ReadingTypes' /\ CloseOnce'
  BY <1>1, <1>2, <1>5 DEF RetentionInv, RowTypes, ReadingTypes, CloseOnce
<1>7. EventsNumbered' /\ EventsHaveSubject'
  <2>1. IsFiniteSet(events')
    BY <1>1, FS_Subset DEF RetentionInv, EventsNumbered
  <2> QED BY <1>1, <1>2, <2>1 DEF RetentionInv, EventsNumbered, EventsHaveSubject
<1>8. AuthorityAnchored'
  <2>1. ASSUME NEW b \in Boundaries, Open(b) PROVE Cardinality(Recorded(b)') = 1
    <3>1. Recorded(b)' = Recorded(b)
      BY <1>1, <2>1 DEF Recorded, EventKept, OpenBoundary
    <3> QED BY <2>1, <3>1 DEF RetentionInv, AuthorityAnchored
  <2>2. ASSUME NEW n \in {circuit} \cup pushes \cup UNION {{s.opened, s.by} : s \in super}
        PROVE  n = 0 \/ \E e \in events' : e.seq = n
    <3>1. n = 0 \/ \E e \in events : e.seq = n
      BY DEF RetentionInv, AuthorityAnchored
    <3>2. ASSUME NEW e \in events, e.seq = n PROVE EventKept(e)
      <4>1. CASE n \in pushes
        BY <3>2, <4>1 DEF EventKept, PushPending
      <4>2. CASE n = circuit
        <5>1. n \in 1 .. seq /\ seq \in Nat
          BY <3>2 DEF RetentionInv, EventsNumbered, RowTypes
        <5> QED BY <3>2, <4>2, <5>1 DEF EventKept, CircuitSource
      <4>3. CASE \E s \in super : n \in {s.opened, s.by}
        BY <3>2, <4>3 DEF EventKept, Superseding
      <4> QED BY <4>1, <4>2, <4>3
    <3> QED BY <3>1, <3>2, <1>1
  <2> QED BY <1>2, <1>1, <2>1, <2>2 DEF AuthorityAnchored, Open
<1>9. CircuitDecided' /\ CloseProvable'
  <2>1. CircuitDecided'
    BY <1>1, <1>2, <1>3 DEF RetentionInv, CircuitDecided
  <2>2. \A g \in Gens, type \in EndTypes : Counted(type, g)' = Counted(type, g)
    <3>1. ASSUME NEW g \in Gens, NEW type \in EndTypes
          PROVE  {e \in events' : e.type = type /\ e.gen = g} = {e \in events : e.type = type /\ e.gen = g}
      BY <1>1, <1>3
    <3> QED BY <3>1 DEF Counted
  <2> QED BY <1>2, <2>1, <2>2 DEF RetentionInv, CircuitDecided, CloseProvable, EndTypes
<1>10. RepliesAudited' /\ SeenAudited' /\ ReviewOfTurn'
  <2>1. RepliesAudited'
    BY <1>1, <1>2, <1>4 DEF RetentionInv, RepliesAudited
  <2>2. SeenAudited'
    BY <1>2, <1>4 DEF RetentionInv, SeenAudited, ReadTypes
  <2>3. ReviewOfTurn'
    BY <1>2 DEF RetentionInv, ReviewOfTurn, ReviewedAfterFullRead
  <2> QED BY <2>1, <2>2, <2>3
<1>11. NoticeOfOpenRecovery'
  <2>1. ASSUME NEW b \in Boundaries, Open(b), bounds[b].recon
        PROVE  \E m \in Msgs : msg'[m].role = "notice" /\ msg'[m].of = b
    <3>1. PICK m \in Msgs : msg[m].role = "notice" /\ msg[m].of = b
      BY <2>1 DEF RetentionInv, NoticeOfOpenRecovery
    <3>2. MessageKept(m)
      BY <2>1, <3>1 DEF MessageKept, NoticeKept
    <3> QED BY <1>5, <3>1, <3>2
  <2> QED BY <1>2, <2>1 DEF NoticeOfOpenRecovery, Open
<1> QED BY <1>6, <1>7, <1>8, <1>9, <1>10, <1>11 DEF RetentionInv

\* A close cancels the WorkIds and disposes of the Boundaries in one transaction of numbered events.
LEMMA ChainNumbered ==
    ASSUME RetentionAssumption, RetentionInv
    PROVE  /\ Chain = ({"disposed"} \X OpenOwned) \cup ({"canceled"} \X Owned)
           /\ IsFiniteSet(Chain) /\ Cardinality(Chain) \in Nat
           /\ IsFiniteSet(Owned) /\ Cardinality(Owned) \in Nat
PROOF
<1>1. Chain = ({"disposed"} \X OpenOwned) \cup ({"canceled"} \X Owned)
  BY DEF Chain
<1>2. IsFiniteSet(OpenOwned) /\ IsFiniteSet(Owned)
  BY FS_Subset DEF OpenOwned, Owned, RetentionAssumption
<1>3. IsFiniteSet({"disposed"} \X OpenOwned) /\ IsFiniteSet({"canceled"} \X Owned)
  BY <1>2, FS_Singleton, FS_Product
<1> QED BY <1>1, <1>2, <1>3, FS_Union, FS_CardinalityType

\* One event for each member of a finite set, told apart by what it names.
LEMMA EventsOfSet ==
    ASSUME NEW S, IsFiniteSet(S), NEW T, NEW h \in [S -> T],
           \A x, y \in S : x # y => h[x] # h[y],
           T = {h[x] : x \in S}
    PROVE  IsFiniteSet(T) /\ Cardinality(T) = Cardinality(S)
PROOF
<1>1. h \in Bijection(S, T)
  BY DEF Bijection, Injection, Surjection, IsInjective
<1> QED BY <1>1, FS_Bijection DEF ExistsBijection

\* A close has, in one transaction, an event of its own for every Work and Boundary it ends, and a
\* result that counts them.
LEMMA CloseKeepsInv ==
    ASSUME RetentionAssumption, RetentionInv, CloseConversation
    PROVE  RetentionInv'
PROOF
<1> DEFINE n == Cardinality(Chain)
           g == session.gen
           last == Event(seq + n + 1, "closed", Nothing, g)
<1>1. /\ n \in Nat /\ seq \in Nat /\ MaxSeq \in Nat /\ g \in Gens /\ g # 0 /\ session.active
      /\ ~closed[g].done /\ circuit \in 0 .. seq /\ pushes \subseteq 1 .. seq
  <2>1. session.active
    BY DEF CloseConversation
  <2>2. n \in Nat
    BY ChainNumbered
  <2>3. /\ seq \in Nat /\ MaxSeq \in Nat /\ g \in Gens /\ g # 0
        /\ circuit \in 0 .. seq /\ pushes \subseteq 1 .. seq
    BY DEF RetentionAssumption, RetentionInv, RowTypes, Gens
  <2>4. ~closed[g].done
    BY <2>1, <2>3 DEF RetentionInv, CloseOnce, Gens
  <2> QED BY <2>1, <2>2, <2>3, <2>4
<1>2. seq' = seq + n + 1 /\ seq' <= MaxSeq
  BY DEF CloseConversation
<1>3. PICK f \in [Chain -> (seq + 1) .. (seq + n)] :
        /\ \A x, y \in Chain : x # y => f[x] # f[y]
        /\ events' = events \cup {Event(f[x], x[1], x[2], g) : x \in Chain} \cup {last}
  BY DEF CloseConversation
<1> DEFINE h == [x \in Chain |-> Event(f[x], x[1], x[2], g)]
           New == {h[x] : x \in Chain}
<1>4. /\ events' = events \cup New \cup {last}
      /\ \A x \in Chain : /\ h[x].seq = f[x] /\ h[x].type = x[1] /\ h[x].of = x[2] /\ h[x].gen = g
                          /\ f[x] \in (seq + 1) .. (seq + n)
      /\ last.seq = seq + n + 1 /\ last.type = "closed" /\ last.gen = g
  BY <1>3 DEF Event
<1>5. \A x \in Chain : \/ x[1] = "disposed" /\ x[2] \in OpenOwned
                       \/ x[1] = "canceled" /\ x[2] \in Owned
  BY DEF Chain
<1> HIDE DEF n, g, last, h
<1>6. /\ bounds' = [b \in Boundaries |-> IF b \in OpenOwned THEN [bounds[b] EXCEPT !.state = "canceled"]
                                                        ELSE bounds[b]]
      /\ works' = [w \in WorkIds |-> IF w \in Owned THEN [works[w] EXCEPT !.state = "canceled"]
                                               ELSE works[w]]
      /\ closed' = [closed EXCEPT ![g] = [done |-> TRUE, legacy |-> FALSE,
                                          works |-> Cardinality(Owned), specs |-> 0]]
      /\ session' = [session EXCEPT !.active = FALSE]
      /\ msg' = [m \in Msgs |-> IF msg[m].state = "queued" THEN [msg[m] EXCEPT !.state = "dead"]
                                                          ELSE msg[m]]
      /\ UNCHANGED <<super, circuit, pushes, reading>>
  BY DEF CloseConversation, g
<1>7. /\ \A b \in Boundaries : IF b \in OpenOwned THEN bounds'[b].state = "canceled" ELSE bounds'[b] = bounds[b]
      /\ \A b \in OpenOwned : b \in Boundaries /\ Open(b)
      /\ bounds' \in BoundaryRows
  <2>1. bounds \in BoundaryRows
    BY DEF RetentionInv, RowTypes
  <2>2. \A b \in OpenOwned : b \in Boundaries /\ Open(b)
    BY DEF OpenOwned
  <2> QED BY <1>6, <2>1, <2>2
<1>8. /\ session'.gen = g /\ ~session'.active /\ session' \in [gen : Gens, active : BOOLEAN]
      /\ closed' \in [Gens -> Results]
      /\ closed'[g] = [done |-> TRUE, legacy |-> FALSE, works |-> Cardinality(Owned), specs |-> 0]
      /\ \A k \in Gens : k # g => closed'[k] = closed[k]
  <2>1. Cardinality(Owned) \in Nat
    BY ChainNumbered
  <2> QED BY <1>1, <1>6, <2>1 DEF RetentionInv, RowTypes, Results, g
<1>9. RowTypes' /\ NoticeOfOpenRecovery'
  <2>1. seq' \in 0 .. MaxSeq /\ circuit' \in 0 .. seq' /\ pushes' \subseteq 1 .. seq'
    <3>1. seq' \in 0 .. MaxSeq /\ 0 .. seq \subseteq 0 .. seq' /\ 1 .. seq \subseteq 1 .. seq'
      BY <1>1, <1>2
    <3> QED BY <1>1, <1>6, <3>1
  <2>2. works' \in [WorkIds -> [state : {"none", "active", "canceled"}, gen : 0 .. MaxGen]]
    BY <1>6 DEF RetentionInv, RowTypes
  <2>3. /\ msg' \in MessageRows
        /\ \A m \in Msgs : msg'[m].role = msg[m].role /\ msg'[m].of = msg[m].of
    <3>1. \A m \in Msgs : msg[m] \in MessageRow
      BY DEF RetentionInv, RowTypes
    <3>2. ASSUME NEW m \in Msgs
          PROVE  msg'[m] \in MessageRow /\ msg'[m].role = msg[m].role /\ msg'[m].of = msg[m].of
      BY <1>6, <3>1
    <3> QED BY <1>6, <3>2
  <2>4. NoticeOfOpenRecovery'
    BY <1>7, <2>3 DEF RetentionInv, NoticeOfOpenRecovery, Open
  <2> QED BY <1>7, <1>8, <2>1, <2>2, <2>3, <2>4 DEF RowTypes
<1>10. EventsNumbered'
  <2>1. \A e \in events : e.seq \in 1 .. seq
    BY DEF RetentionInv, EventsNumbered
  <2>2. IsFiniteSet(events')
    <3>1. h \in [Chain -> New]
      BY DEF h
    <3>2. \A x, y \in Chain : x # y => h[x] # h[y]
      BY <1>3, <1>4
    <3>3. IsFiniteSet(New)
      <4> HIDE DEF New
      <4>1. New = {h[x] : x \in Chain}
        BY DEF New
      <4> QED BY <3>1, <3>2, <4>1, ChainNumbered, EventsOfSet
    <3>4. IsFiniteSet(events \cup New)
      BY <3>3, FS_Union DEF RetentionInv, EventsNumbered
    <3> HIDE DEF New
    <3> QED BY <1>4, <3>4, FS_AddElement
  <2>3. ASSUME NEW e \in events' PROVE e.seq \in 1 .. seq'
    BY <1>1, <1>2, <1>4, <2>1, <2>3
  <2>4. ASSUME NEW e \in events', NEW d \in events', e.seq = d.seq PROVE e = d
    <3>1. CASE e \in events /\ d \in events
      BY <2>4, <3>1 DEF RetentionInv, EventsNumbered
    <3>2. CASE e \in New /\ d \in New
      BY <1>3, <1>4, <2>4, <3>2
    <3>3. ASSUME NEW a \in events, NEW b \in New PROVE a.seq < b.seq /\ b.seq < last.seq
      BY <1>1, <1>4, <2>1
    <3>4. \A a \in events : a.seq < last.seq /\ a.seq \in Nat
      BY <1>1, <1>4, <2>1
    <3>5. \A b \in New : b.seq < last.seq /\ b.seq \in Nat
      BY <1>1, <1>4
    <3> HIDE DEF New
    <3>6. last.seq \in Nat
      BY <1>1, <1>4
    <3> QED BY <1>4, <2>4, <3>1, <3>2, <3>3, <3>4, <3>5, <3>6
  <2> QED BY <2>2, <2>3, <2>4 DEF EventsNumbered
<1>11. \A e \in events' \ events : /\ e.type \in {"disposed", "canceled", "closed"} /\ e.gen = g
                                   /\ e.seq # circuit
  <2>1. ASSUME NEW e \in New PROVE e.type \in {"disposed", "canceled"} /\ e.gen = g /\ e.seq # circuit
    BY <1>1, <1>4, <1>5
  <2>2. last.seq # circuit
    BY <1>1, <1>4
  <2> HIDE DEF New
  <2> QED BY <1>4, <2>1, <2>2
<1>12. events \subseteq events'
  BY <1>4
<1>13. ReadingTypes' /\ RepliesAudited' /\ SeenAudited' /\ ReviewOfTurn'
  BY <1>6, <1>11, <1>12, ReadsStay DEF ReadTypes
<1>14. EventsHaveSubject'
  <2>1. ASSUME NEW e \in events' \ events
        PROVE  /\ e.type \notin {"recorded", "artifact_read", "output_read"} /\ e.gen \in Gens
               /\ closed'[e.gen].done /\ e.seq # circuit
    BY <1>1, <1>8, <1>11
  <2>2. \A e \in events : e.type = "recorded" => e.of \in Boundaries /\ bounds'[e.of].state # "none"
    BY <1>7 DEF RetentionInv, EventsHaveSubject
  <2>3. \A k \in Gens : closed[k].done => closed'[k].done
    BY <1>8
  <2>4. output' = output /\ seen' = seen /\ circuit' = circuit
    BY <1>6 DEF reading
  <2> QED BY <1>12, <2>1, <2>2, <2>3, <2>4 DEF RetentionInv, EventsHaveSubject
<1>15. AuthorityAnchored'
  <2>1. \A b \in Boundaries : Open(b)' => Open(b)
    BY <1>7 DEF Open
  <2>2. Nothing \in Boundaries /\ Open(Nothing)' => Cardinality(Recorded(Nothing)') = 1
    <3>1. Recorded(Nothing)' = Recorded(Nothing)
      BY <1>11, <1>12 DEF Recorded
    <3> QED BY <2>1, <3>1 DEF RetentionInv, AuthorityAnchored
  <2> QED BY <1>6, <1>11, <1>12, <2>1, <2>2, AnchorsStay
<1>16. CloseOnce'
  <2>1. ASSUME NEW k \in Gens, closed'[k].done PROVE k <= g
    BY <1>1, <1>8, <2>1 DEF RetentionInv, CloseOnce, Gens, g
  <2> QED BY <1>8, <2>1 DEF CloseOnce
<1>17. CircuitDecided'
  <2>1. ASSUME NEW e \in events', e.seq = circuit', bounds'[e.of].state = "canceled"
        PROVE  \E d \in events' : d.type = "disposed" /\ d.of = e.of /\ d.gen # 0 /\ d.seq > e.seq
    <3>1. e \in events /\ e.type = "recorded" /\ e.of \in Boundaries /\ e.seq \in 0 .. seq
      BY <1>1, <1>6, <1>11, <2>1 DEF RetentionInv, EventsHaveSubject
    <3>2. CASE e.of \in OpenOwned
      <4>1. <<"disposed", e.of>> \in Chain
        BY <3>2 DEF Chain
      <4>2. h[<<"disposed", e.of>>] \in events'
        BY <1>4, <4>1
      <4> QED BY <1>1, <1>4, <3>1, <4>1, <4>2
    <3>3. CASE e.of \notin OpenOwned
      BY <1>6, <1>7, <1>12, <2>1, <3>1, <3>3 DEF RetentionInv, CircuitDecided
    <3> QED BY <3>2, <3>3
  <2> QED BY <2>1 DEF CircuitDecided
<1>18. CloseProvable'
  <2>1. ASSUME NEW k \in Gens, k # g, NEW type PROVE Counted(type, k)' = Counted(type, k)
    <3>1. {e \in events' : e.type = type /\ e.gen = k} = {e \in events : e.type = type /\ e.gen = k}
      BY <1>11, <1>12, <2>1
    <3> QED BY <3>1 DEF Counted
  <2>2. \A e \in events : e.type \in EndTypes => e.gen # g
    BY <1>1 DEF RetentionInv, EventsHaveSubject
  <2>3. Cardinality({e \in events' : e.type = "closed" /\ e.gen = g}) = 1
    <3>1. {e \in events' : e.type = "closed" /\ e.gen = g} = {last}
      <4>1. \A e \in New : e.type # "closed"
        BY <1>4, <1>5
      <4> HIDE DEF New
      <4> QED BY <1>4, <2>2, <4>1 DEF EndTypes
    <3> QED BY <3>1, FS_Singleton
  <2>4. Cardinality({e \in events' : e.type = "stopped" /\ e.gen = g}) = 0
    <3>1. {e \in events' : e.type = "stopped" /\ e.gen = g} = {}
      BY <1>11, <1>12, <2>2 DEF EndTypes
    <3> QED BY <3>1, FS_EmptySet
  <2>5. Cardinality({e \in events' : e.type = "canceled" /\ e.gen = g}) = Cardinality(Owned)
    <3> DEFINE T == {e \in events' : e.type = "canceled" /\ e.gen = g}
               c == [w \in Owned |-> h[<<"canceled", w>>]]
    <3>1. \A w \in Owned : <<"canceled", w>> \in Chain
      BY DEF Chain
    <3>2. \A w \in Owned : /\ c[w] \in events' /\ c[w].type = "canceled" /\ c[w].gen = g /\ c[w].of = w
      BY <1>4, <3>1
    <3>3. ASSUME NEW e \in T PROVE \E w \in Owned : e = c[w]
      <4>1. e \in New
        <5> HIDE DEF New
        <5> QED BY <1>4, <2>2, <3>3 DEF EndTypes
      <4>2. PICK x \in Chain : e = h[x]
        BY <4>1
      <4>3. x[1] = "canceled" /\ x \in {<<"canceled", w>> : w \in Owned}
        BY <1>4, <3>3, <4>2 DEF Chain
      <4> QED BY <4>2, <4>3
    <3>4. c \in [Owned -> T] /\ T = {c[w] : w \in Owned}
      <4>1. \A w \in Owned : c[w] \in T
        BY <3>2
      <4> HIDE DEF T
      <4>2. c \in [Owned -> T]
        BY <4>1
      <4> HIDE DEF c
      <4> QED BY <3>3, <4>1, <4>2
    <3> HIDE DEF T, c
    <3>5. Cardinality(T) = Cardinality(Owned)
      BY <3>2, <3>4, ChainNumbered, EventsOfSet
    <3> QED BY <3>5 DEF T
  <2>6. ASSUME NEW k \in Gens, closed'[k].done
        PROVE  /\ Counted("closed", k)' = 1
               /\ Counted("canceled", k)' = closed'[k].works
               /\ Counted("stopped", k)' = closed'[k].specs
    <3>1. CASE k = g
      BY <1>8, <2>3, <2>4, <2>5, <3>1 DEF Counted
    <3>2. CASE k # g
      BY <1>8, <2>1, <2>6, <3>2 DEF RetentionInv, CloseProvable
    <3> QED BY <3>1, <3>2
  <2> QED BY <1>17, <2>6 DEF CloseProvable, CircuitDecided
<1> QED BY <1>9, <1>10, <1>13, <1>14, <1>15, <1>16, <1>17, <1>18 DEF RetentionInv

-----------------------------------------------------------------------------
(* The theorem.                                                              *)

\* A fresh database, or one an earlier build closed a conversation in.
LEMMA InitKeepsEvidence ==
    ASSUME RetentionAssumption, RetentionInit
    PROVE  RetentionInv
PROOF
<1>1. /\ Bytes \in Nat \ {0} /\ MaxSeq \in Nat /\ MaxGen \in Nat /\ 1 \in Gens
      /\ \A b \in Boundaries : bounds[b].state = "none"
      /\ super = {} /\ circuit = 0 /\ pushes = {} /\ replies = {} /\ reviewed = 0
      /\ \A t \in Texts, g \in Gens : seen[t][g] = {}
  BY DEF RetentionAssumption, RetentionInit, Gens
<1>2. /\ MaxGen > 1 /\ MaxSeq > 2
      /\ Fresh \/ \E w \in WorkIds : LegacyClosed(w)
  BY DEF RetentionAssumption, RetentionInit
<1>3. RowTypes
  <2>1. /\ bounds \in BoundaryRows
        /\ msg \in MessageRows
    BY <1>1 DEF RetentionInit
  <2>2. CASE Fresh
    BY <1>1, <2>1, <2>2 DEF Fresh, RowTypes, Results, NoResult, Gens
  <2>3. ASSUME NEW w \in WorkIds, LegacyClosed(w) PROVE RowTypes
    <3>1. works \in [WorkIds -> [state : {"none", "active", "canceled"}, gen : 0 .. MaxGen]]
      BY <1>1, <1>2, <2>3 DEF LegacyClosed
    <3>2. closed \in [Gens -> Results] /\ session \in [gen : Gens, active : BOOLEAN] /\ seq \in 0 .. MaxSeq
      BY <1>1, <1>2, <2>3 DEF LegacyClosed, Results, NoResult, Gens
    <3> QED BY <1>1, <2>1, <2>3, <3>1, <3>2 DEF RowTypes
  <2> QED BY <1>2, <2>2, <2>3
<1>4. ReadingTypes /\ SeenAudited /\ ReviewOfTurn /\ NoticeOfOpenRecovery
  <2>1. SeenAudited /\ ReviewOfTurn /\ NoticeOfOpenRecovery
    BY <1>1 DEF SeenAudited, ReviewOfTurn, NoticeOfOpenRecovery, Open, Texts
  <2> QED BY <1>1, <2>1 DEF RetentionInit, ReadingTypes
<1>5. AuthorityAnchored
  BY <1>1 DEF AuthorityAnchored, Open
<1>6. EventsNumbered /\ EventsHaveSubject /\ CloseOnce /\ CircuitDecided /\ CloseProvable /\ RepliesAudited
  <2>1. CASE Fresh
    <3>1. events = {} /\ \A g \in Gens : ~closed[g].done
      BY <2>1 DEF Fresh, NoResult
    <3> QED BY <1>1, <3>1, FS_EmptySet DEF EventsNumbered, EventsHaveSubject, CloseOnce, CircuitDecided,
                                           CloseProvable, RepliesAudited
  <2>2. ASSUME NEW w \in WorkIds, LegacyClosed(w)
        PROVE  EventsNumbered /\ EventsHaveSubject /\ CloseOnce /\ CircuitDecided /\ CloseProvable
                 /\ RepliesAudited
    <3> DEFINE a == Event(1, "stopped", w, 1)
               b == Event(2, "canceled", w, 1)
               c == Event(3, "closed", Nothing, 1)
    <3>1. /\ events = {a, b, c} /\ seq = 3
          /\ a.seq = 1 /\ a.type = "stopped" /\ a.gen = 1
          /\ b.seq = 2 /\ b.type = "canceled" /\ b.gen = 1
          /\ c.seq = 3 /\ c.type = "closed" /\ c.gen = 1
      BY <2>2 DEF LegacyClosed, Event
    <3>2. /\ closed[1] = [done |-> TRUE, legacy |-> TRUE, works |-> 1, specs |-> 1]
          /\ \A g \in Gens : g # 1 => ~closed[g].done
          /\ session.gen = 2
      BY <1>1, <1>2, <2>2 DEF LegacyClosed, NoResult
    <3> HIDE DEF a, b, c
    <3>3. EventsNumbered
      <4>1. IsFiniteSet({a, b, c})
        <5>1. IsFiniteSet({a} \cup {b}) /\ {a} \cup {b} \cup {c} = {a, b, c}
          BY FS_Singleton, FS_Union
        <5>2. IsFiniteSet({a} \cup {b} \cup {c})
          BY <5>1, FS_AddElement
        <5> QED BY <5>1, <5>2
      <4> QED BY <3>1, <4>1 DEF EventsNumbered
    <3>4. EventsHaveSubject /\ CloseOnce /\ CircuitDecided
      BY <1>1, <3>1, <3>2 DEF EventsHaveSubject, CloseOnce, CircuitDecided, EndTypes
    <3>5. Counted("closed", 1) = 1 /\ Counted("canceled", 1) = 1 /\ Counted("stopped", 1) = 1
      <4>1. /\ {e \in events : e.type = "closed" /\ e.gen = 1} = {c}
            /\ {e \in events : e.type = "canceled" /\ e.gen = 1} = {b}
            /\ {e \in events : e.type = "stopped" /\ e.gen = 1} = {a}
        BY <3>1
      <4> QED BY <4>1, FS_Singleton DEF Counted
    <3>6. CloseProvable
      BY <3>2, <3>4, <3>5 DEF CloseProvable, CircuitDecided
    <3>7. RepliesAudited
      BY <1>1, <3>1 DEF RepliesAudited, ReadTypes
    <3> QED BY <3>3, <3>4, <3>6, <3>7
  <2> QED BY <1>2, <2>1, <2>2
<1> QED BY <1>3, <1>4, <1>5, <1>6 DEF RetentionInv

\* What the invariant says of events, replies and the review gate.
LEMMA InvIsEvidence ==
    ASSUME RetentionAssumption, RetentionInv
    PROVE  PruneKeepsEvidence
PROOF
<1>1. RetentionTypeOK
  <2> DEFINE S == {e.seq : e \in events}
             h == [e \in events |-> e.seq]
  <2>1. Cardinality(S) = Cardinality(events)
    <3>1. h \in [events -> S] /\ S = {h[e] : e \in events} /\ \A e, d \in events : e # d => h[e] # h[d]
      BY DEF RetentionInv, EventsNumbered
    <3> HIDE DEF S, h
    <3> QED BY <3>1, EventsOfSet DEF RetentionInv, EventsNumbered
  <2>2. /\ seq \in 0 .. MaxSeq /\ circuit \in 0 .. seq /\ pushes \subseteq 1 .. seq
        /\ \A b \in Boundaries : bounds[b].state \in {"none", "open", "disposed", "canceled", "superseded"}
        /\ \A w \in WorkIds : works[w].state \in {"none", "active", "canceled"}
        /\ \A m \in Msgs : msg[m].state \in {"none", "queued", "handled", "dead"}
        /\ session.gen \in Gens /\ reviewed \in 0 .. MaxGen
    BY DEF RetentionInv, RowTypes, ReadingTypes
  <2> QED BY <2>1, <2>2 DEF RetentionTypeOK, RetentionInv, EventsNumbered
<1>2. OneReplyPerKey
  <2>1. ASSUME NEW r \in replies, NEW s \in replies, r.type = s.type, r.key = s.key
        PROVE  r = s
    <3>1. PICK e \in events :
            /\ e.type \in ReadTypes
            /\ r = [type |-> e.type, key |-> e.key, seq |-> e.seq,
                    ask |-> [of |-> e.of, gen |-> e.gen, lo |-> e.lo, hi |-> e.hi]]
      BY DEF RetentionInv, RepliesAudited
    <3>2. PICK d \in events :
            /\ d.type \in ReadTypes
            /\ s = [type |-> d.type, key |-> d.key, seq |-> d.seq,
                    ask |-> [of |-> d.of, gen |-> d.gen, lo |-> d.lo, hi |-> d.hi]]
      BY DEF RetentionInv, RepliesAudited
    <3>3. e.type = d.type /\ e.key = d.key
      BY <2>1, <3>1, <3>2
    <3>4. e = d
      BY <3>1, <3>2, <3>3 DEF RetentionInv, RepliesAudited
    <3> QED BY <3>1, <3>2, <3>4
  <2> QED BY <2>1 DEF OneReplyPerKey
<1>3. ReviewedAfterFullRead
  BY DEF RetentionInv, ReviewOfTurn, ReviewedAfterFullRead
<1>4. ReadStaysRead
  <2>1. ASSUME turn = "completed", \E o \in Outputs : output[o] = "available",
               \A o \in Outputs : output[o] = "none" \/
                  (output[o] = "available" /\ seen[o][session.gen] = 0 .. (Bytes - 1))
        PROVE  Reviewable
    <3>1. \A o \in Outputs : output[o] = "available" => Reached(Spans(o)) = Bytes
      BY <2>1, ReviewableWhenShown
    <3>2. \A o \in Outputs : output[o] \notin {"partial", "withheld"}
      BY <2>1
    <3> QED BY <2>1, <3>1, <3>2 DEF Reviewable
  <2> QED BY <2>1 DEF ReadStaysRead
<1> QED BY <1>1, <1>2, <1>3, <1>4 DEF PruneKeepsEvidence, RetentionInv

\* Whatever an operator prunes between any two commands, for any ages: an open Boundary, a
\* supersession, an open circuit and an undelivered push keep the events they name, a close
\* result agrees with its events, a recovery keeps its notice, a chunk read has one answer, and
\* what was read and reviewed stays so.
THEOREM EvidenceIsKept == RetentionSpec => []PruneKeepsEvidence
PROOF
<1> USE RetentionConstants
<1>1. RetentionInit => RetentionInv
  BY InitKeepsEvidence
<1>2. RetentionInv /\ [RetentionNext]_retention => RetentionInv'
  <2> SUFFICES ASSUME RetentionInv, [RetentionNext]_retention PROVE RetentionInv'
    OBVIOUS
  <2>1. ASSUME NEW w \in WorkIds, Assign(w) \/ Replace(w) PROVE RetentionInv'
    BY <2>1, AssignKeepsInv, ReplaceKeepsInv
  <2>2. ASSUME NEW b \in Boundaries, NEW w \in WorkIds, NEW r \in BOOLEAN, Record(b, w, r)
        PROVE  RetentionInv'
    BY <2>2, RecordKeepsInv
  <2>3. ASSUME NEW b \in Boundaries, DisposeBoundary(b) PROVE RetentionInv'
    BY <2>3, DisposeKeepsInv
  <2>4. CASE \/ \E b \in Boundaries : OpenCircuit(b)
             \/ CloseCircuit
             \/ \E e \in events : QueuePush(e)
             \/ \E n \in pushes : DeliverPush(n)
    BY <2>4, PointersKeepInv
  <2>5. CASE CloseConversation \/ Reopen
    BY <2>5, CloseKeepsInv, ReopenKeepsInv
  <2>6. ASSUME NEW m \in Msgs, Settle(m, "handled") \/ Settle(m, "dead") PROVE RetentionInv'
    BY <2>6, SettleKeepsInv
  <2>7. ASSUME NEW w \in WorkIds, Notify(w, "notification") \/ Notify(w, "plain") PROVE RetentionInv'
    BY <2>7, NotifyKeepsInv
  <2>8. CASE \/ \E o \in Outputs, s \in {"available", "partial", "withheld"} : CaptureOutput(o, s)
             \/ \E s \in {"completed", "failed"} : EndTurn(s)
    BY <2>8, TurnKeepsInv
  <2>9. ASSUME NEW t \in Texts, NEW k \in ReadKeys, NEW lo \in 0 .. Bytes, NEW len \in 1 .. Bytes,
               Read(t, k, lo, len)
        PROVE  RetentionInv'
    BY <2>9, ReadKeepsInv
  <2>10. CASE Review
    BY <2>10, ReviewKeepsInv
  <2>11. ASSUME NEW ce \in EventAges, NEW cm \in MessageAges, PruneRows(ce, cm)
         PROVE  RetentionInv'
    BY <2>11, PruneKeepsInv
  <2>12. CASE UNCHANGED retention
    <3>1. UNCHANGED <<seq, events, bounds, super, circuit, pushes, session, closed, reading, works, msg>>
      BY <2>12 DEF retention, rows
    <3>2. RowTypes' /\ NoticeOfOpenRecovery'
      BY <3>1 DEF RetentionInv, RowTypes, NoticeOfOpenRecovery, Open
    <3> QED BY <3>1, <3>2, OnlyMessages DEF RetentionInv
  <2> QED BY <2>1, <2>2, <2>3, <2>4, <2>5, <2>6, <2>7, <2>8, <2>9, <2>10, <2>11, <2>12
          DEF RetentionNext
<1>3. RetentionInv => PruneKeepsEvidence
  BY InvIsEvidence
<1> QED BY <1>1, <1>2, <1>3, PTL DEF RetentionSpec
=============================================================================
