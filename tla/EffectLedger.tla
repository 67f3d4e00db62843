---------------------------- MODULE EffectLedger ----------------------------
(***************************************************************************)
(* The effect ledger (effects.py, service.py "Effect authority"): grants,  *)
(* durable reservations of external effects, the executor process that     *)
(* runs the command between reservation and result, `effect recover`, and  *)
(* the CAO that verifies an unknown outcome.                               *)
(*                                                                         *)
(* resolve_effect reads the status of the operation before it opens its    *)
(* transaction, and the transaction writes unconditionally: the two are    *)
(* separate steps here, and `pending` holds the calls between them.        *)
(* A key is one (principal, target, action, digests) of a request.         *)
(***************************************************************************)
EXTENDS Integers, FiniteSets

CONSTANTS
    MaxOps,     \* bound: reservations ever made
    Keys,       \* what is done to what
    Grants,     \* grant ids; the bound on grants ever issued
    Standing,   \* the grants that are not used up
    Covers,     \* the keys a grant's patterns and digests match
    NoGrant

ASSUME LedgerConstants ==
    /\ Standing \subseteq Grants /\ NoGrant \notin Grants
    /\ Covers \in [Grants -> SUBSET Keys] /\ MaxOps \in Nat /\ Keys # {}

VARIABLES
    op,       \* effect_operations: status, kind, key, grant_id
    grant,    \* effect_grants
    proc,     \* the executor and the command of each operation
    applied,  \* the operations whose effect took place at the target
    scan,     \* operations `effect recover` has listed and not yet resolved
    pending   \* resolve_effect calls between their read and their write

vars == <<op, grant, proc, applied, scan, pending>>

Ops == 1 .. MaxOps
Unresolved == {"started", "unknown"}
Resolved == {"succeeded", "failed", "not_applied"}
\* running: the command runs under a live executor; orphan: the executor died
\* and the command still runs; zero / nonzero / killed: the command ended and
\* the executor holds the exit code, or the interruption; gone: nothing left.
ProcStates == {"idle", "running", "orphan", "zero", "nonzero", "killed", "gone"}

NoOp == [st |-> "none", kind |-> "local", key |-> CHOOSE k \in Keys : TRUE, grant |-> NoGrant]

TypeOK ==
    /\ op \in [Ops -> [st : Unresolved \cup Resolved \cup {"none"}, kind : {"local", "external"},
                       key : Keys, grant : Grants \cup {NoGrant}]]
    /\ grant \in [Grants -> {"absent", "open", "consumed", "expired", "revoked"}]
    /\ proc \in [Ops -> ProcStates]
    /\ applied \subseteq Ops /\ scan \subseteq Ops
    /\ pending \subseteq [op : Ops, to : Resolved \cup {"unknown"}, by : {"executor", "recover", "cao"}]

Running(o) == proc[o] \in {"running", "orphan"}

Init ==
    /\ op = [o \in Ops |-> NoOp]
    /\ grant = [g \in Grants |-> "absent"]
    /\ proc = [o \in Ops |-> "idle"]
    /\ applied = {} /\ scan = {} /\ pending = {}

-----------------------------------------------------------------------------
(* Grants *)

GrantEffect(g) ==
    /\ grant[g] = "absent"
    /\ grant' = [grant EXCEPT ![g] = "open"]
    /\ UNCHANGED <<op, proc, applied, scan, pending>>

RevokeGrant(g) ==
    /\ grant[g] \in {"open", "consumed", "expired"}
    /\ grant' = [grant EXCEPT ![g] = "revoked"]
    /\ UNCHANGED <<op, proc, applied, scan, pending>>

ExpireGrant(g) ==
    /\ grant[g] = "open"
    /\ grant' = [grant EXCEPT ![g] = "expired"]
    /\ UNCHANGED <<op, proc, applied, scan, pending>>

-----------------------------------------------------------------------------
(* Reservation.  The decision and the insert are one transaction. *)

\* Mutant of MustVerify: an unknown outcome no longer blocks the key.
MustVerifyRunning(k) == \E o \in Ops : op[o].key = k /\ op[o].st = "started"
\* An earlier operation on the key whose outcome is open: "verify_remote".
MustVerify(k) == \E o \in Ops : op[o].key = k /\ op[o].st \in Unresolved

Usable(g, k) == grant[g] = "open" /\ k \in Covers[g]

\* What the new row may name as its authority.
Authority(kind, k) ==
    IF kind = "local" THEN {NoGrant} ELSE {g \in Grants : Usable(g, k)}

Spent(g) == IF g \in Grants \ Standing THEN [grant EXCEPT ![g] = "consumed"] ELSE grant

StartEffect(o, kind, k, g) ==
    /\ op[o].st = "none" /\ \A q \in 1 .. (o - 1) : op[q].st # "none"
    /\ ~MustVerify(k)
    /\ g \in Authority(kind, k)
    /\ op' = [op EXCEPT ![o] = [st |-> "started", kind |-> kind, key |-> k, grant |-> g]]
    /\ grant' = Spent(g)
    /\ proc' = [proc EXCEPT ![o] = "running"]
    /\ UNCHANGED <<applied, scan, pending>>

-----------------------------------------------------------------------------
(* The command, and the executor that waits for it *)

TakesEffect(o) ==
    /\ Running(o) /\ o \notin applied
    /\ applied' = applied \cup {o}
    /\ UNCHANGED <<op, grant, proc, scan, pending>>

\* A command that exits with 0 has done what it was run for; any other exit,
\* and a kill, may come before or after the effect.
CommandEnds(o) ==
    /\ \/ /\ proc[o] = "running"
          /\ \E r \in {"zero", "nonzero", "killed"} :
                 /\ r = "zero" => o \in applied
                 /\ proc' = [proc EXCEPT ![o] = r]
       \/ proc[o] = "orphan" /\ proc' = [proc EXCEPT ![o] = "gone"]
    /\ UNCHANGED <<op, grant, applied, scan, pending>>

\* The executor dies: its call to resolve_effect, if it was in one, is lost.
ExecutorDies(o) ==
    /\ proc[o] \in {"running", "zero", "nonzero", "killed"}
    /\ proc' = [proc EXCEPT ![o] = IF @ = "running" THEN "orphan" ELSE "gone"]
    /\ pending' = {p \in pending : p.op # o \/ p.by # "executor"}
    /\ UNCHANGED <<op, grant, applied, scan>>

-----------------------------------------------------------------------------
(* resolve_effect: the read outside the transaction, then the write *)

\* An already resolved operation raises ConflictError.
CheckResolve(o, to, by) ==
    /\ op[o].st \in Unresolved
    /\ pending' = pending \cup {[op |-> o, to |-> to, by |-> by]}

\* Mutant of Outcome: an interrupted command is taken not to have applied.
OutcomeNotApplied(r) == IF r = "zero" THEN "succeeded" ELSE "not_applied"
Outcome(r) == CASE r = "zero" -> "succeeded" [] r = "nonzero" -> "failed" [] r = "killed" -> "unknown"

\* EffectExecutor.run after subprocess.run returned or raised.
ExecutorReports(o) ==
    /\ proc[o] \in {"zero", "nonzero", "killed"}
    /\ ~ \E p \in pending : p.op = o /\ p.by = "executor"
    /\ CheckResolve(o, Outcome(proc[o]), "executor")
    /\ UNCHANGED <<op, grant, proc, applied, scan>>

\* recover_incomplete lists every started operation, its process dead or not.
RecoverIncomplete ==
    /\ scan = {}
    /\ scan' = {o \in Ops : op[o].st = "started"}
    /\ scan' # {}
    /\ UNCHANGED <<op, grant, proc, applied, pending>>

\* It resolves them one after the other; the first that is resolved meanwhile
\* raises and ends the command.
RecoverNext(o) ==
    /\ o \in scan
    /\ ~ \E p \in pending : p.by = "recover"
    /\ \/ /\ CheckResolve(o, "unknown", "recover")
          /\ scan' = scan \ {o}
       \/ /\ op[o].st \in Resolved
          /\ scan' = {} /\ UNCHANGED pending
    /\ UNCHANGED <<op, grant, proc, applied>>

\* The CAO inspects the target of an unknown operation, once no command runs
\* any more, and records what it finds.
CaoVerifies(o) ==
    /\ op[o].st = "unknown"
    /\ ~Running(o)
    /\ CheckResolve(o, IF o \in applied THEN "succeeded" ELSE "not_applied", "cao")
    /\ UNCHANGED <<op, grant, proc, applied, scan>>

\* effect_operations_unresolved_unique, checked when the row is written.
IndexAdmits(o, to) ==
    \/ to \notin Unresolved \/ op[o].kind = "local"
    \/ ~ \E q \in Ops \ {o} : op[q].key = op[o].key /\ op[q].kind = "external" /\ op[q].st \in Unresolved

WriteResolve(p) ==
    /\ pending' = pending \ {p}
    /\ op' = IF IndexAdmits(p.op, p.to) THEN [op EXCEPT ![p.op].st = p.to] ELSE op
    /\ proc' = IF p.by = "executor" THEN [proc EXCEPT ![p.op] = "gone"] ELSE proc
    /\ UNCHANGED <<grant, applied, scan>>

-----------------------------------------------------------------------------
Next ==
    \/ \E g \in Grants : GrantEffect(g) \/ RevokeGrant(g) \/ ExpireGrant(g)
    \/ \E o \in Ops, kind \in {"local", "external"}, k \in Keys, g \in Grants \cup {NoGrant} :
           StartEffect(o, kind, k, g)
    \/ \E o \in Ops : TakesEffect(o) \/ CommandEnds(o) \/ ExecutorDies(o)
                      \/ ExecutorReports(o) \/ RecoverNext(o) \/ CaoVerifies(o)
    \/ RecoverIncomplete
    \/ \E p \in pending : WriteResolve(p)

Spec == Init /\ [][Next]_vars

-----------------------------------------------------------------------------
(* Properties *)

\* "never retried blindly" (effects.py): two commands for one key never run at
\* the same time, whichever executor died and whatever recovery wrote late.
NoBlindRepeat ==
    \A o, q \in Ops : o # q /\ op[o].key = op[q].key => ~(Running(o) /\ Running(q))

\* A one-time grant authorises one reservation, over all keys its patterns
\* match and even if the reservation's outcome was "not applied".
OneTimeGrant ==
    \A g \in Grants \ Standing : Cardinality({o \in Ops : op[o].grant = g}) <= 1

\* What the ledger calls succeeded took place, and what it calls not applied
\* did not: a later reservation relies on both.
LedgerTruthful ==
    \A o \in Ops : /\ op[o].st = "succeeded" => o \in applied
                   /\ op[o].st = "not_applied" => o \notin applied

\* No effect of unknown outcome is started again unverified, a one-time grant
\* starts one command, and a recorded outcome is what the command did, although
\* executors die and `effect recover` runs beside them.
EffectsAccounted == TypeOK /\ NoBlindRepeat /\ OneTimeGrant /\ LedgerTruthful

\* The state of a key in EffectGuard: a command runs for it, or its last
\* outcome is open.
CommandRuns(k) == \E o \in Ops : op[o].key = k /\ Running(o)
GuardOf(k) == IF CommandRuns(k) THEN "running" ELSE IF MustVerify(k) THEN "doubt" ELSE "free"
Guard == INSTANCE EffectGuard WITH guard <- [k \in Keys |-> GuardOf(k)]

\* The ledger implements EffectGuard: a command for a key only ever starts when
\* the key's last outcome is settled (effects.py).
ImplementsGuard == Guard!Spec
=============================================================================
