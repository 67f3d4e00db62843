----------------------------- MODULE WorkerLease -----------------------------
(***************************************************************************)
(* WorkerDelivery with the lease of the runtime made explicit: who renews  *)
(* runtime_sessions.lease_expires_at, and what follows when nobody does.   *)
(* A launch ticket starts the lease; from then on the bridge of the        *)
(* launched Worker renews it with a periodic heartbeat (mcp.py,            *)
(* _run_periodic_enrollment_heartbeats), whether or not the Dispatcher     *)
(* that launched it is alive, and a CAO or an operator may do so by hand   *)
(* (cli.py, api.py).  The same heartbeats keep a running turn from being   *)
(* found inactive (runtime.py, _ManagedWorkerActivityMonitor).             *)
(***************************************************************************)
EXTENDS WorkerDelivery

VARIABLE lease   \* "held", or "due": it runs out unless it is renewed

leaseVars == <<vars, lease>>

LeaseInit == Init /\ lease = "held"

\* A ticket takes the runtime from idle to busy under a new lease.
JobWithLease(j) ==
    /\ JobStep(j)
    /\ lease' = IF rt # "busy" /\ rt' = "busy" THEN "held" ELSE lease

\* The bridge's heartbeat.  It needs the active credential and no Dispatcher.
WorkerRenews == HeartbeatRuntime /\ lease' = "held"

\* heartbeat_runtime for a CAO or an operator, who report the default state:
\* any runtime that is not terminal, with or without a launch.
OperatorRenews ==
    /\ rt \notin RtTerminal
    /\ rt' = IF rt = "busy" THEN rt ELSE "ready"
    /\ rows' = [m \in Msgs |-> Reactivated(rows[m])]
    /\ lease' = "held"
    /\ UNCHANGED <<enr, tick, cred, attempt, last, up, jobs, history>>

OtherWorkerCall ==
    /\ \/ DiscoverTools
       \/ \E m \in Msgs : Acknowledge(m) \/ MarkMessageHandled(m)
       \/ \E kind \in {"progress", "artifact", "question"}, s \in SUBSET Msgs :
            Cardinality(s) <= 1 /\ Report(kind, s)
    /\ UNCHANGED lease

\* Time passes.
LeaseRunsLow ==
    /\ rt \notin RtTerminal
    /\ lease' = "due" /\ lease # "due"
    /\ UNCHANGED vars

\* It ran out, and the scan of a Dispatcher cycle found it.
LeaseLapses == lease = "due" /\ ExpireRuntimeLease /\ UNCHANGED lease

Background ==
    /\ \/ \E d \in Disp : ClaimDelivery(d) \/ CrashDispatcher(d)
       \/ SupervisorCall
       \/ ReconcileCompletedTurns
       \/ SettleTerminalLane
       \/ RecoverOverdueUnstarted
    /\ UNCHANGED lease

LeaseNext ==
    \/ \E j \in jobs : JobWithLease(j)
    \/ WorkerRenews
    \/ OperatorRenews
    \/ OtherWorkerCall
    \/ LeaseRunsLow
    \/ LeaseLapses
    \/ Background

\* asyncio runs what is ready: every step of a job of a live Dispatcher except
\* those inside the adapter, which wait for the provider.
JobRuns == \E j \in jobs : j.ph # "running" /\ JobWithLease(j)

\* The adapter returns on a turn whose Worker is not heard from: the startup
\* timeout, or the inactivity timeout, or the enrollment that is no longer
\* ready.  A turn whose Worker keeps its heartbeat is not bounded:
\* managed_worker_hard_timeout_seconds is None by default.
SilentTurnEnds ==
    /\ lease = "due" \/ enr.st \notin EnrLive
    /\ \E j \in jobs : j.d \in up /\ DispatchReturns(j)
    /\ UNCHANGED lease

\* Fairness: what the event loop, the clock and the scans that run_once repeats
\* do by themselves.  Nothing is asked of the Worker, the provider, the CAO or
\* an operator, and a renewal may always come before the lease runs out.
Fairness ==
    /\ WF_leaseVars(JobRuns)
    /\ WF_leaseVars(SilentTurnEnds)
    /\ WF_leaseVars(LeaseRunsLow)
    /\ WF_leaseVars(LeaseLapses)
    /\ WF_leaseVars(SettleTerminalLane /\ UNCHANGED lease)

LeaseSpec == LeaseInit /\ [][LeaseNext]_leaseVars /\ Fairness

-----------------------------------------------------------------------------
(* Properties.                                                             *)

\* A lease that was about to run out is renewed from outside the Dispatcher.
Kept == lease = "due" /\ (WorkerRenews \/ OperatorRenews)

\* A launch never holds the runtime busy for ever, whatever dies on the way,
\* unless somebody keeps renewing its lease for ever: a Worker that lives on
\* with its credential, though its Dispatcher may be gone, or an operator
\* (issue_runtime_launch_ticket, heartbeat_runtime, expire_runtime_leases).
BusyEventuallySettles == []<>(rt # "busy") \/ []<><<Kept>>_leaseVars

\* Every message of a canceled Work is eventually closed, except a dispatched
\* one, whose outcome only an operator may decide (cancel_work leaves the rows
\* of a live runtime alone and relies on later scans); with the same exception,
\* because the scan leaves a busy runtime alone.
TerminalLaneDrains ==
    \/ attempt = "canceled" ~>
         \A m \in Msgs : OfAttempt(m) => rows[m].st \notin Open \ {"dispatched"}
    \/ []<><<Kept>>_leaseVars
=============================================================================
