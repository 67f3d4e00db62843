--------------------------- MODULE OutputCapture ---------------------------
(* Capture of a Worker's provider output (worker_output.py): the stream that  *)
(* a dispatch reserves, its items and its one terminal receipt, the           *)
(* settlement that publishes it, and the reconciliation that closes what a    *)
(* crash, a failure or a refused launch left behind, with the recovery of a   *)
(* terminal runtime (service.py) that it relies on.                           *)
(*                                                                            *)
(* One managed runtime whose lane carries messages of one or two Works. A     *)
(* transaction is an operator on the database record `db`, so that one that   *)
(* makes several of them (reconcile_abandoned_captures) composes them.        *)
EXTENDS Naturals, FiniteSets, SequencesExt

CONSTANTS
    Works,       \* Works that have an Attempt on the runtime
    MaxMsg,      \* bound: messages of the lane
    MaxBnd,      \* bound: Boundaries
    MaxGen,      \* bound: generation of a Work
    Ambiguous    \* TRUE: history may hold two Works that both claim the runtime

VARIABLE db
vars == <<db>>

\* What the constants may be.
CaptureAssumption ==
    /\ {MaxMsg, MaxBnd, MaxGen} \subseteq Nat \ {0} /\ Ambiguous \in BOOLEAN

Msg == 1 .. MaxMsg
Running == {"assigned", "working"}
Quiet == {"waiting", "failed", "missing", "stopped"}
Over == {"failed", "missing", "stopped"}
Ended == {"canceled"}
Pending == {"queued", "dispatched", "delivered"}
NoStream == [on |-> FALSE, wgen |-> 0, egen |-> 0, items |-> 0, term |-> "none", order |-> 0,
             settled |-> FALSE, bnd |-> 0]

Init ==
    \E busy \in IF Ambiguous THEN {Works} ELSE {{w} : w \in Works} :
    db = [rt |-> "waiting", enr |-> [state |-> "ready", gen |-> 1], ticket |-> FALSE, job |-> 0,
          \* latest Attempt on this runtime (here), the state of Work and Attempt
          work |-> [w \in Works |-> IF w \in busy
                     THEN [state |-> "active", owner |-> "worker", gen |-> 1, here |-> TRUE, att |-> "assigned"]
                     ELSE [state |-> "none", owner |-> "none", gen |-> 0, here |-> FALSE, att |-> "none"]],
          sent |-> 0,
          dl |-> [m \in Msg |-> [of |-> 0, state |-> "none", ok |-> FALSE]],
          st |-> [m \in Msg |-> NoStream],
          order |-> 0,                  \* receipt sequence
          bnd |-> <<>>]                 \* Boundaries in the order they were recorded

\* The Boundaries of a Work's latest Attempt that nobody has decided.
OpenOf(d, w) == {b \in 1 .. Len(d.bnd) : d.bnd[b].of = w /\ d.bnd[b].open}
\* _record_boundary_tx and the message that announces it.
Recorded(d, w, kind, src) ==
    [d EXCEPT !.bnd = Append(@, [of |-> w, gen |-> d.work[w].gen, kind |-> kind, src |-> src,
                                 open |-> TRUE, notice |-> TRUE])]
Room == Len(db.bnd) < MaxBnd
HasPending(d, w, m) == \E n \in Msg : n > m /\ d.dl[n].of = w /\ d.dl[n].state \in Pending

----------------------------------------------------------------------------
(* recover_terminal_worker_attempt.                                          *)

ClaimedBy(d, w) ==
    /\ d.work[w].state \notin Ended /\ d.work[w].owner = "worker" /\ d.work[w].att \in Running
Latest(d) == {w \in Works : d.work[w].here}
\* Works whose Worker owns them now are the rows to recover; only without any are the others looked at.
Claims(d) == IF \E w \in Latest(d) : ClaimedBy(d, w) THEN {w \in Latest(d) : ClaimedBy(d, w)} ELSE Latest(d)
\* The fence and the Boundary of one Work: the next generation, attention to the CAO.
Recovered(d, w, kind) ==
    LET fenced == [d EXCEPT !.work[w] = [@ EXCEPT !.state = "waiting", !.owner = "cao",
                                                  !.gen = @ + 1, !.att = "waiting"]]
    IN Recorded(fenced, w, kind, 0)
\* Two Works claim the runtime: each is parked for reconciliation, undispatched rows die.
Parked(d, w) ==
    LET r == Recovered(d, w, "ambiguous")
    IN [r EXCEPT !.dl = [m \in Msg |-> IF r.dl[m].of = w /\ r.dl[m].state = "queued"
                                      THEN [r.dl[m] EXCEPT !.state = "dead"] ELSE r.dl[m]]]
\* A recovery Boundary that exists, decided or open, is the answer.
Known(d, w) == \E b \in 1 .. Len(d.bnd) : d.bnd[b].of = w /\ d.bnd[b].kind \in {"failure", "ambiguous"}
RecoverTx(d) ==
    IF d.rt \notin Over THEN d
    ELSE IF Cardinality(Claims(d)) > 1
    THEN FoldLeft(LAMBDA acc, w : IF ClaimedBy(acc, w) /\ ~Known(acc, w) THEN Parked(acc, w) ELSE acc,
                  d, SetToSeq(Claims(d)))
    ELSE FoldLeft(LAMBDA acc, w : IF ClaimedBy(acc, w) /\ ~Known(acc, w) THEN Recovered(acc, w, "failure") ELSE acc,
                  d, SetToSeq(Claims(d)))

----------------------------------------------------------------------------
(* finalize_capture_tx.                                                      *)

\* Of a Boundary of the same Attempt and generation, the latest.
CurrentBoundary(d, w) ==
    LET same == {b \in OpenOf(d, w) : d.bnd[b].gen = d.work[w].gen}
    IN IF same = {} THEN 0 ELSE CHOOSE b \in same : \A c \in same : c <= b
Retired(d, m) ==
    LET w == d.dl[m].of IN d.work[w].state \in Ended \cup {"suspended"} \/ ~d.work[w].here
ExactGeneration(d, m) ==
    d.work[d.dl[m].of].gen = d.st[m].wgen /\ d.enr.gen = d.st[m].egen
Successful(d, m) ==
    /\ ExactGeneration(d, m) /\ d.rt = "waiting" /\ d.enr.state = "ready"
    /\ d.dl[m].ok /\ d.st[m].term = "completed"
Settled(d, m, b) == [d EXCEPT !.st[m].settled = TRUE, !.st[m].bnd = b]
\* An open Boundary is reused; otherwise a successful turn with nothing queued behind it opens one.
Published(d, m) ==
    LET w == d.dl[m].of
        b == CurrentBoundary(d, w)
        moved == [d EXCEPT !.work[w] = [@ EXCEPT !.state = "waiting", !.owner = "cao", !.att = "waiting"]]
    IN IF b # 0 THEN Settled(d, m, b)
       ELSE IF d.work[w].state = "active" /\ ~HasPending(d, w, m)
       THEN Settled(Recorded(moved, w, "worker_output", m), m, Len(d.bnd) + 1)
       ELSE Settled(d, m, 0)
FinalizeTx(d, m) ==
    LET w == d.dl[m].of
        b == CurrentBoundary(d, w)
    IN IF d.st[m].term = "none" \/ d.st[m].settled \/ d.rt \notin Quiet THEN d
       ELSE IF Retired(d, m) THEN Settled(d, m, d.st[m].bnd)
       ELSE IF ~ExactGeneration(d, m) /\ (b = 0 \/ d.bnd[b].kind \notin {"failure", "ambiguous"})
       THEN Settled(d, m, d.st[m].bnd)
       ELSE IF b = 0 /\ ~Successful(d, m) THEN d
       ELSE Published(d, m)

----------------------------------------------------------------------------
(* reconcile_abandoned_captures.                                             *)

\* An unsettled stream of a failed runtime whose Work nobody has recovered.
Stranded(d) ==
    /\ d.rt \in {"failed", "missing"} /\ d.enr.state = "failed"
    /\ \E m \in Msg : LET w == d.dl[m].of IN
          /\ d.st[m].on /\ ~d.st[m].settled
          /\ d.enr.gen \in {d.st[m].egen, d.st[m].egen + 1}
          /\ d.work[w].state = "active" /\ d.work[w].owner = "worker" /\ d.work[w].here
          /\ d.work[w].gen = d.st[m].wgen /\ d.work[w].att \in Running
\* The terminal receipt of a stream that has none, linked to the open Boundary of its Attempt.
LatestOpen(d, w) ==
    IF ~d.work[w].here \/ OpenOf(d, w) = {} THEN 0 ELSE CHOOSE b \in OpenOf(d, w) : \A c \in OpenOf(d, w) : c <= b
Interrupted(d, m) ==
    LET w == d.dl[m].of
        e == [d EXCEPT !.order = @ + 1, !.st[m].term = "interrupted", !.st[m].order = d.order + 1]
        b == LatestOpen(e, w)
        held == [e EXCEPT !.work[w] = [@ EXCEPT !.state = "waiting", !.owner = "cao",
                                                !.att = "system_reconciliation"]]
    IN IF b # 0 THEN [e EXCEPT !.st[m].bnd = b]
       ELSE IF /\ ~HasPending(e, w, m) /\ e.work[w].state = "active" /\ e.work[w].here
               /\ e.work[w].gen = e.st[m].wgen
       THEN [Recorded(held, w, "failure", m) EXCEPT !.st[m].bnd = Len(held.bnd) + 1]
       ELSE e
InterruptTx(d, m) ==
    IF d.st[m].on /\ d.st[m].term = "none" /\ d.rt \in Quiet THEN Interrupted(d, m) ELSE d
Order == [i \in 1 .. MaxMsg |-> i]
\* Mutant of ReconcileTx: the recovery a crash cut off is not made up for.
ReconcileNoRecovery(d) == FoldLeft(FinalizeTx, FoldLeft(InterruptTx, d, Order), Order)
ReconcileTx(d) ==
    LET recovered == IF Stranded(d) THEN RecoverTx(d) ELSE d
    IN FoldLeft(FinalizeTx, FoldLeft(InterruptTx, recovered, Order), Order)

----------------------------------------------------------------------------
(* The Dispatcher's job, the provider, the Worker and the CAO.                *)

\* A message of the Work: its assignment, or an instruction to the Worker that owns it.
Send(w) ==
    /\ db.sent < MaxMsg /\ db.work[w].state = "active" /\ db.work[w].here /\ db.rt \notin Over
    /\ db' = [db EXCEPT !.sent = @ + 1, !.dl[db.sent + 1] = [of |-> w, state |-> "queued", ok |-> FALSE]]

\* The head of the lane is launched: ticket of the next enrollment generation, runtime busy.
Dispatch(m) ==
    /\ db.rt = "waiting" /\ db.enr.state = "ready" /\ db.job = 0
    /\ db.dl[m].state = "queued" /\ \A n \in Msg : n < m => db.dl[n].state # "queued"
    /\ db.work[db.dl[m].of].state = "active" /\ db.work[db.dl[m].of].here
    /\ db' = [db EXCEPT !.rt = "busy", !.ticket = TRUE, !.job = m, !.dl[m].state = "dispatched"]

\* begin_capture, before the provider is started.
BeginCapture ==
    /\ db.job # 0 /\ ~db.st[db.job].on /\ db.dl[db.job].state = "dispatched" /\ db.ticket
    /\ db.enr.state \notin {"revoked", "failed"}
    /\ db' = [db EXCEPT !.st[db.job] = [NoStream EXCEPT !.on = TRUE, !.egen = db.enr.gen + 1,
                                                        !.wgen = db.work[db.dl[db.job].of].gen]]

\* The launched Worker exchanges its ticket.
Enroll ==
    /\ db.job # 0 /\ db.st[db.job].on /\ db.ticket /\ db.enr.state = "ready"
    /\ db' = [db EXCEPT !.ticket = FALSE, !.enr.gen = @ + 1]

\* observe_output: the dispatch and the generation must still be the reserved ones.
Observable(m) ==
    LET w == db.dl[m].of IN
    /\ db.st[m].on /\ db.st[m].term = "none"
    /\ db.work[w].gen = db.st[m].wgen
    /\ db.enr.gen \in {db.st[m].egen - 1, db.st[m].egen} /\ db.enr.state = "ready"
    /\ db.dl[m].state \in {"dispatched", "delivered", "handled"}
    /\ db.work[w].state \notin Ended /\ db.work[w].here
Item(m) ==
    /\ db.job = m /\ ~db.ticket /\ Observable(m) /\ db.st[m].items = 0
    /\ db' = [db EXCEPT !.st[m].items = 1]
\* A completed turn has consumed its input.
TurnEnd(m, status) ==
    /\ db.job = m /\ ~db.ticket /\ Observable(m)
    /\ db' = [db EXCEPT !.order = @ + 1, !.st[m].term = status, !.st[m].order = db.order + 1,
                        !.dl[m].state = IF status = "completed" THEN "handled" ELSE @]

\* The Worker still owns the Work although its turn is over and nobody has been told.
StillOwned(d, w) ==
    /\ d.work[w].here /\ d.work[w].state = "active" /\ d.work[w].owner = "worker" /\ d.work[w].att \in Running
    /\ d.rt = "waiting" /\ d.enr.state = "ready" /\ OpenOf(d, w) = {}
\* An input nobody acknowledged makes way for the message queued behind it.
LaneAdvanced(d, m) ==
    IF StillOwned(d, d.dl[m].of) /\ HasPending(d, d.dl[m].of, m) /\ d.dl[m].state = "delivered"
    THEN [d EXCEPT !.dl[m].state = "dead"] ELSE d
\* With none behind it the turn that ended without a report is fenced for reconciliation.
TurnReconciled(d, m) ==
    IF StillOwned(d, d.dl[m].of) /\ ~HasPending(d, d.dl[m].of, m) THEN Recovered(d, d.dl[m].of, "failure") ELSE d
\* The successful job: an adapter that captures has seen the end of the turn, another has not.
Succeed(m) ==
    /\ db.job = m /\ db.rt = "busy" /\ ~db.ticket /\ db.enr.state = "ready" /\ db.st[m].on
    /\ db.st[m].term \in {"none", "completed"} /\ Room /\ db.work[db.dl[m].of].gen < MaxGen
    /\ LET d == [db EXCEPT !.rt = "waiting", !.job = 0, !.dl[m].ok = TRUE,
                           !.dl[m].state = IF @ = "dispatched" THEN "delivered" ELSE @]
       IN db' = TurnReconciled(LaneAdvanced(FinalizeTx(d, m), m), m)

\* The launch is refused by the owner-private placement policy after the reservation.
Blocked(m) ==
    /\ db.job = m /\ db.ticket /\ db.st[m].on /\ db.dl[m].state = "dispatched"
    /\ db' = [db EXCEPT !.job = 0, !.ticket = FALSE, !.dl[m].state = "dead",
                        !.rt = IF db.enr.state = "ready" /\ @ = "busy" THEN "waiting" ELSE @]

\* The job failed or the lease ran out: the enrollment is fenced, and the Attempt recovered with it
\* or, after a crash of an earlier build between the two, later.
Fenced(to) == [db EXCEPT !.rt = to, !.job = 0, !.ticket = FALSE, !.enr = [state |-> "failed", gen |-> @.gen + 1]]
Fail(to) ==
    /\ db.rt \in {"busy", "waiting"} /\ Room /\ \A w \in Works : db.work[w].gen < MaxGen
    /\ db' = RecoverTx(Fenced(to)) \/ db' = Fenced(to)

\* The Worker asks or reports; the CAO decides; the Work is canceled.
Report(w) ==
    /\ Room /\ db.work[w].state = "active" /\ db.work[w].owner = "worker" /\ db.work[w].here
    /\ db.job # 0 /\ ~db.ticket /\ db.enr.state = "ready"
    /\ LET d == [db EXCEPT !.work[w] = [@ EXCEPT !.state = "waiting", !.owner = "cao", !.att = "waiting"]]
       IN db' = Recorded(d, w, "question", 0)
\* A correction goes back to the same Attempt; after a failure it goes to a new Attempt elsewhere.
Decide(b) ==
    LET w == db.bnd[b].of IN
    /\ db.bnd[b].open /\ db.work[w].state = "waiting" /\ db.bnd[b].gen = db.work[w].gen /\ db.work[w].gen < MaxGen
    /\ db' = [db EXCEPT !.bnd[b].open = FALSE,
                        !.work[w] = [@ EXCEPT !.state = "active", !.owner = "worker", !.gen = @ + 1,
                                              !.att = "working",
                                              !.here = @ /\ db.bnd[b].kind \in {"question", "worker_output"}]]
Cancel(w) ==
    /\ db.work[w].state \in {"active", "waiting"}
    /\ db' = [db EXCEPT !.work[w] = [@ EXCEPT !.state = "canceled", !.owner = "none", !.att = "canceled"],
                        !.bnd = [b \in 1 .. Len(db.bnd) |->
                                   IF db.bnd[b].of = w THEN [db.bnd[b] EXCEPT !.open = FALSE] ELSE db.bnd[b]],
                        !.dl = [m \in Msg |-> IF db.dl[m].of = w /\ db.dl[m].state = "queued"
                                              THEN [db.dl[m] EXCEPT !.state = "dead"] ELSE db.dl[m]]]
Reconcile ==
    /\ Room /\ \A w \in Works : db.work[w].gen < MaxGen
    /\ ReconcileTx(db) # db /\ db' = ReconcileTx(db)

Next ==
    \/ \E w \in Works : Send(w) \/ Report(w) \/ Cancel(w)
    \/ BeginCapture \/ Enroll \/ Reconcile
    \/ \E m \in Msg : Dispatch(m) \/ Item(m) \/ Succeed(m) \/ Blocked(m)
    \/ \E m \in Msg, s \in {"completed", "failed"} : TurnEnd(m, s)
    \/ \E to \in {"failed", "missing"} : Fail(to)
    \/ \E b \in 1 .. Len(db.bnd) : Decide(b)

Spec == Init /\ [][Next]_vars

----------------------------------------------------------------------------
(* Properties.                                                               *)

\* Every row has the values its columns allow; a stream has a receipt order exactly when it is terminal.
TypeOK ==
    /\ db.rt \in {"busy"} \cup Quiet
    /\ db.job # 0 => db.dl[db.job].state \in {"dispatched", "handled"}
    /\ \A m \in Msg : (db.st[m].term = "none") <=> (db.st[m].order = 0)
    /\ \A b \in 1 .. Len(db.bnd) : db.bnd[b].gen <= db.work[db.bnd[b].of].gen

\* A worker_output Boundary, which lets the CAO review, is opened only by a turn that the provider
\* completed and the Dispatcher settled as successful, for the generation that reserved the capture.
OutputBoundaryEarned ==
    \A b \in 1 .. Len(db.bnd) : db.bnd[b].kind = "worker_output" =>
        LET m == db.bnd[b].src IN
        /\ db.st[m].term = "completed" /\ db.dl[m].ok /\ db.bnd[b].gen = db.st[m].wgen

\* The end of a turn is recorded once: the reconciliation of an abandoned capture and a late end of
\* turn never replace each other, and a settled stream stays settled with the same Boundary.
TerminalOnce ==
    \A m \in Msg : /\ db.st[m].term # "none" => db'.st[m].term = db.st[m].term
                   /\ db.st[m].settled => db'.st[m].settled /\ db'.st[m].bnd = db.st[m].bnd

\* What was captured belongs to the Work as it was when the capture was reserved: no item or end of
\* turn is added once a decision has moved the Work to another generation.
CaptureFenced ==
    \A m \in Msg : db'.st[m].items # db.st[m].items \/ (db'.st[m].term # db.st[m].term /\ db'.job = m)
       => db.work[db.dl[m].of].gen = db.st[m].wgen

\* A turn is over, its Work still waits for a Worker, and nothing is on its way to one.
Forgotten(w) ==
    /\ db.rt \in Quiet /\ db.work[w].state = "active" /\ db.work[w].here
    /\ \A m \in Msg : db.dl[m].of = w => db.dl[m].state \notin {"queued", "dispatched"}
    /\ \E m \in Msg : db.st[m].on /\ db.dl[m].of = w /\ db.st[m].wgen = db.work[w].gen /\ ~HasPending(db, w, m)
    /\ Room /\ \A v \in Works : db.work[v].gen < MaxGen
\* Every provider turn reaches its supervisor: however it ended and wherever a crash cut the fence
\* from the recovery, one reconciliation pass of the Dispatcher takes the Work from a Worker that has
\* nothing left to do, and leaves the CAO an open Boundary of it.
TurnReachesSupervisor ==
    \A w \in Works : Forgotten(w) =>
        LET d == ReconcileTx(db) IN d.work[w].owner = "cao" /\ OpenOf(d, w) # {}
=============================================================================
