----------------------------- MODULE PushOutbox -----------------------------
(***************************************************************************)
(* The A2A push outbox: _event enqueues one row per push configuration     *)
(* (service.py), the Dispatchers lease rows, post them to the callback and *)
(* record the result (runtime.py).  The result is written by row id alone, *)
(* without the lease: a job that overran its lease writes like any other.  *)
(***************************************************************************)
EXTENDS Integers, FiniteSets

CONSTANTS
    Configs,       \* push configurations of the task
    Events,        \* events of the task's Work
    Jobs,          \* _process_push jobs, over all Dispatchers
    MaxAttempts,   \* settings.max_dispatch_attempts
    MaxCrashes,    \* bound: Dispatchers that die with a job
    Nobody         \* the row of an idle job

\* What the constants may be.
OutboxConstants == MaxAttempts \in Nat \ {0} /\ MaxCrashes \in Nat

VARIABLES
    configs,   \* a2a_push_configs: "new", "live" or "deleted"
    push,      \* a2a_push_deliveries, by (config, event)
    pushJob,   \* the jobs: which row they hold, how far they are
    crashes,
    tally      \* history, by push: the leases granted, the leases that ran out under
               \* their job, the jobs that died within their lease

outbox == <<configs, push, pushJob, crashes, tally>>

Pushes == Configs \X Events
Idle == [st |-> "idle", p |-> Nobody, live |-> FALSE]
Settled == {"delivered", "dead", "gone"}

PushTypeOK ==
    /\ configs \in [Configs -> {"new", "live", "deleted"}]
    /\ push \in [Pushes -> [st : {"none", "queued", "leased"} \cup Settled, due : BOOLEAN,
                           att : 0 .. MaxAttempts + Cardinality(Jobs)]]
    /\ pushJob \in [Jobs -> [st : {"idle", "leased", "ok", "error"}, p : Pushes \cup {Nobody}, live : BOOLEAN]]
    /\ crashes \in 0 .. MaxCrashes
    /\ tally \in [Pushes -> [granted : Nat, overran : Nat, died : Nat]]

PushInit ==
    /\ configs = [c \in Configs |-> "new"]
    /\ push = [p \in Pushes |-> [st |-> "none", due |-> FALSE, att |-> 0]]
    /\ pushJob = [j \in Jobs |-> Idle]
    /\ crashes = 0
    /\ tally = [p \in Pushes |-> [granted |-> 0, overran |-> 0, died |-> 0]]

CreateConfig(c) ==
    /\ configs[c] = "new"
    /\ configs' = [configs EXCEPT ![c] = "live"]
    /\ UNCHANGED <<push, pushJob, crashes, tally>>

\* The rows of the configuration go with it (ON DELETE CASCADE).
DeleteConfig(c) ==
    /\ configs[c] = "live"
    /\ configs' = [configs EXCEPT ![c] = "deleted"]
    /\ push' = [p \in Pushes |-> IF p[1] = c THEN [push[p] EXCEPT !.st = "gone"] ELSE push[p]]
    /\ UNCHANGED <<pushJob, crashes, tally>>

\* An event of the Work, with a row for every configuration there is now.
Event(e) ==
    /\ \A c \in Configs : push[<<c, e>>].st = "none"
    /\ \E c \in Configs : configs[c] = "live"
    /\ push' = [p \in Pushes |-> IF p[2] = e /\ configs[p[1]] = "live"
                                THEN [st |-> "queued", due |-> TRUE, att |-> 0] ELSE push[p]]
    /\ UNCHANGED <<configs, pushJob, crashes, tally>>

-----------------------------------------------------------------------------
HasLease(p) == \E j \in Jobs : pushJob[j].p = p /\ pushJob[j].live

\* next_attempt_at passes.
BackoffPasses(p) ==
    /\ push[p].st = "queued" /\ ~push[p].due
    /\ push' = [push EXCEPT ![p].due = TRUE]
    /\ UNCHANGED <<configs, pushJob, crashes, tally>>

\* lease_until passes while the job still runs: callback_timeout_seconds bounds each
\* phase of the request, and nothing ties it to dispatcher_lease_seconds.
LeaseOverrun(j) ==
    /\ pushJob[j].live
    /\ pushJob' = [pushJob EXCEPT ![j].live = FALSE]
    /\ tally' = [tally EXCEPT ![pushJob[j].p].overran = @ + 1]
    /\ UNCHANGED <<configs, push, crashes>>

\* Mutant of Requeued: a row on its last attempt is passed over.
RequeuedEarly == [p \in Pushes |-> IF push[p].st = "leased" /\ ~HasLease(p) /\ push[p].att + 1 < MaxAttempts
                                   THEN [push[p] EXCEPT !.st = "queued"] ELSE push[p]]

\* Expired leases go back to the queue, whoever held them.
Requeued == [p \in Pushes |-> IF push[p].st = "leased" /\ ~HasLease(p)
                              THEN [push[p] EXCEPT !.st = "queued"] ELSE push[p]]

Claim(j, p) ==
    /\ pushJob[j] = Idle
    /\ Requeued[p].st = "queued" /\ Requeued[p].due
    /\ push' = [Requeued EXCEPT ![p].st = "leased"]
    /\ pushJob' = [pushJob EXCEPT ![j] = [st |-> "leased", p |-> p, live |-> TRUE]]
    /\ tally' = [tally EXCEPT ![p].granted = @ + 1]
    /\ UNCHANGED <<configs, crashes>>

\* The callback is posted.  It answers with success or an error, or the answer
\* does not come, which is an error too, although the callback may have received it.
Post(j) ==
    /\ pushJob[j].st = "leased"
    /\ push[pushJob[j].p].st # "gone"
    /\ \E r \in {"ok", "error"} : pushJob' = [pushJob EXCEPT ![j].st = r]
    /\ UNCHANGED <<configs, push, crashes, tally>>

\* The configuration was deleted before the job read it.
Vanished(j) ==
    /\ pushJob[j].st = "leased" /\ push[pushJob[j].p].st = "gone"
    /\ pushJob' = [pushJob EXCEPT ![j] = Idle]
    /\ UNCHANGED <<configs, push, crashes, tally>>

Delivered(j) ==
    /\ pushJob[j].st = "ok"
    /\ push' = [push EXCEPT ![pushJob[j].p].st = IF @ = "gone" THEN @ ELSE "delivered"]
    /\ pushJob' = [pushJob EXCEPT ![j] = Idle]
    /\ UNCHANGED <<configs, crashes, tally>>

\* _finish_push
Failed(r) ==
    [r EXCEPT !.att = @ + 1, !.due = FALSE,
              !.st = IF r.att + 1 >= MaxAttempts THEN "dead" ELSE "queued"]

FinishPush(j) ==
    /\ pushJob[j].st = "error"
    /\ push' = [push EXCEPT ![pushJob[j].p] = IF @.st = "gone" THEN @ ELSE Failed(@)]
    /\ pushJob' = [pushJob EXCEPT ![j] = Idle]
    /\ UNCHANGED <<configs, crashes, tally>>

\* The Dispatcher dies with the job; the callback may have been posted.
Crash(j) ==
    /\ pushJob[j] # Idle /\ crashes < MaxCrashes
    /\ crashes' = crashes + 1
    /\ pushJob' = [pushJob EXCEPT ![j] = Idle]
    /\ tally' = IF pushJob[j].live THEN [tally EXCEPT ![pushJob[j].p].died = @ + 1] ELSE tally
    /\ UNCHANGED <<configs, push>>

JobStep(j) == Post(j) \/ Vanished(j) \/ Delivered(j) \/ FinishPush(j)

PushNext ==
    \/ \E c \in Configs : CreateConfig(c) \/ DeleteConfig(c)
    \/ \E e \in Events : Event(e)
    \/ \E p \in Pushes : BackoffPasses(p)
    \/ \E j \in Jobs : JobStep(j) \/ LeaseOverrun(j) \/ Crash(j)
    \/ \E j \in Jobs, p \in Pushes : Claim(j, p)

PushSpec == PushInit /\ [][PushNext]_outbox

-----------------------------------------------------------------------------
(* Properties *)

Lost(p) == tally[p].overran + tally[p].died

\* Whatever a job that outlived its lease writes over the row, a push is leased (and
\* so posted) again only for a failure that was counted or a lease that was lost: at
\* most max_dispatch_attempts times, and once more for every job that died with it or
\* outlived its lease (_claim_push, _process_push, _finish_push).
PostsAccounted ==
    \A p \in Pushes :
        /\ tally[p].granted <= 1 + push[p].att + Lost(p)
        /\ tally[p].granted <= MaxAttempts + Lost(p)

\* A push that was given up is never sent again.  One that was delivered is, but only
\* by the failure of a job beside one that outlived its lease, and that failure is
\* counted and is not the last one allowed (_finish_push writes by row id alone).
SettledIsFinal ==
    \A p \in Pushes : push[p].st \in Settled /\ push'[p].st \notin Settled =>
        /\ push[p].st = "delivered" /\ push'[p].st = "queued"
        /\ tally[p].overran > 0
        /\ push'[p].att = push[p].att + 1 /\ push'[p].att < MaxAttempts
=============================================================================
