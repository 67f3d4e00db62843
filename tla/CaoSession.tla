------------------------------ MODULE CaoSession ------------------------------
(***************************************************************************)
(* The authority of one CAO conversation: the durable attachment and its   *)
(* generation, one-time bootstrap capabilities (cab), bridge connections   *)
(* and their conversation credentials (csc), wake tickets and the runtime  *)
(* credentials (crc) they are exchanged for, the tool-catalog rollover and *)
(* the close of the conversation (service.py).  A request is authenticated *)
(* in one transaction and used in a later one.                             *)
(***************************************************************************)
EXTENDS Integers, FiniteSets

CONSTANTS
    Peers,         \* bridge processes (pid and start signature)
    Callers,       \* HTTP requests under way
    MaxCabs,       \* bound: bootstrap capabilities issued
    MaxConns,      \* bound: connections opened
    MaxCscs,       \* bound: conversation credentials issued
    MaxWakes,      \* bound: wake tickets issued
    MaxCatalog,    \* bound: tool catalogs released
    None

\* What the constants may be.
ASSUME SessionAssumption ==
    {MaxCabs, MaxConns, MaxCscs, MaxWakes} \subseteq Nat /\ MaxCatalog \in Nat \ {0}

VARIABLES
    catalog,    \* digest of the current tool catalog, as its release number
    peers,      \* live bridge processes
    att,        \* the attachment row, its runtime's state and that runtime's lease
    cabs,       \* bootstrap capabilities, by number
    conns,      \* connections, by connection_generation
    cscs,       \* conversation credentials, by number
    tickets,    \* wake tickets and the runtime credential of each
    caller,     \* what each request was authenticated as
    ownWork,    \* a Work of the conversation, its delivery and its boundary
    closes      \* conversation closes so far: the era of later capabilities

session == <<catalog, peers, att, cabs, conns, cscs, tickets, caller, ownWork, closes>>

NoAtt == [st |-> "none", gen |-> 0, rt |-> "none", lease |-> FALSE, bound |-> FALSE]
\* An attachment made before attachments had a project scope.
Legacy == [st |-> "active", gen |-> 0, rt |-> "waiting", lease |-> TRUE, bound |-> FALSE]
NoCab == [st |-> "none", peer |-> None, cat |-> 0, seen |-> -1, era |-> 0]
NoConn == [st |-> "none", peer |-> None, gen |-> 0, cat |-> 0, lease |-> FALSE]
NoCsc == [st |-> "none", conn |-> 0, gen |-> 0]
NoTicket == [ticket |-> "none", crc |-> "none", gen |-> 0, lease |-> FALSE]
NoOwnWork == [st |-> "none", dl |-> "none", bd |-> "none", gen |-> 0]
Idle == [kind |-> "none", id |-> 0]

Peer == Peers \cup {None}
Catalogs == 0 .. MaxCatalog
Attachments ==
    [st : {"none", "active", "revoked"}, gen : 0 .. closes, lease : BOOLEAN, bound : BOOLEAN,
     rt : {"none", "ready", "busy", "waiting", "stopped", "missing"}]
Cabs == [st : {"none", "active", "revoked"}, peer : Peer, cat : Catalogs, seen : -1 .. att.gen, era : 0 .. closes]
Conns ==
    [st : {"none", "active", "stale", "revoked", "expired"}, peer : Peer, gen : 0 .. att.gen,
     cat : Catalogs, lease : BOOLEAN]
Cscs == [st : {"none", "active", "revoked", "expired"}, conn : 0 .. MaxConns, gen : 0 .. att.gen]
Tickets ==
    [ticket : {"none", "pending", "consumed", "revoked", "expired"}, gen : 0 .. att.gen, lease : BOOLEAN,
     crc : {"none", "active", "revoked", "expired"}]
Bearers == [kind : {"none"}, id : {0}] \cup [kind : {"csc"}, id : 1 .. MaxCscs] \cup [kind : {"crc"}, id : 1 .. MaxWakes]
OwnWorks ==
    [st : {"none", "open", "completed", "closed", "canceled"}, bd : {"none", "open", "disposed"},
     dl : {"none", "queued", "dispatched", "prestart", "handled", "dead"}, gen : 0 .. att.gen]

SessionTypeOK ==
    /\ catalog \in 1 .. MaxCatalog /\ peers \subseteq Peers /\ closes \in 0 .. MaxCabs
    /\ att \in Attachments
    /\ cabs \in [1 .. MaxCabs -> Cabs]
    /\ conns \in [1 .. MaxConns -> Conns]
    /\ cscs \in [1 .. MaxCscs -> Cscs]
    /\ tickets \in [1 .. MaxWakes -> Tickets]
    /\ caller \in [Callers -> Bearers]
    /\ ownWork \in OwnWorks

SessionInit ==
    /\ catalog = 1 /\ peers = Peers /\ closes = 0
    /\ att \in {NoAtt, Legacy}
    /\ cabs = [b \in 1 .. MaxCabs |-> NoCab]
    /\ conns = [n \in 1 .. MaxConns |-> NoConn]
    /\ cscs = [c \in 1 .. MaxCscs |-> NoCsc]
    /\ tickets = [t \in 1 .. MaxWakes |-> NoTicket]
    /\ caller = [k \in Callers |-> Idle] /\ ownWork = NoOwnWork

-----------------------------------------------------------------------------
\* The rows of a numbered table are inserted in order.
Fresh(table, blank) == {i \in DOMAIN table : table[i] = blank}
NextRow(table, blank) == CHOOSE i \in Fresh(table, blank) : \A j \in Fresh(table, blank) : i <= j
LiveConn(n) == conns[n].st = "active" /\ conns[n].lease
LiveCsc(c) == cscs[c].st = "active"

\* The rows a csc bearer must match, when it is authenticated and again when it is used.
CscUsable(c) ==
    LET n == cscs[c].conn
    IN /\ LiveCsc(c) /\ LiveConn(n)
       /\ conns[n].gen = cscs[c].gen /\ cscs[c].gen = att.gen /\ att.st = "active"

\* The same for a crc bearer: the runtime must be busy with a wake.
CrcUsable(t) ==
    /\ tickets[t].crc = "active" /\ tickets[t].gen = att.gen
    /\ att.st = "active" /\ att.lease /\ att.rt = "busy"

\* authenticate: looks the bearer up and remembers whom the request acts for.
AuthenticateCsc(k, c) ==
    /\ caller[k] = Idle /\ CscUsable(c)
    /\ caller' = [caller EXCEPT ![k] = [kind |-> "csc", id |-> c]]
    /\ UNCHANGED <<catalog, peers, att, cabs, conns, cscs, tickets, ownWork, closes>>

AuthenticateCrc(k, t) ==
    /\ caller[k] = Idle /\ CrcUsable(t)
    /\ caller' = [caller EXCEPT ![k] = [kind |-> "crc", id |-> t]]
    /\ UNCHANGED <<catalog, peers, att, cabs, conns, cscs, tickets, ownWork, closes>>

\* Mutant of CurrentActor: the bearer is not looked up again inside the transaction.
CurrentActorAuthenticated(k) == caller[k].kind # "none"
\* _require_current_cao_attachment_actor_tx: the recheck inside the use's own transaction.
CurrentActor(k) ==
    \/ caller[k].kind = "csc" /\ CscUsable(caller[k].id)
    \/ caller[k].kind = "crc" /\ CrcUsable(caller[k].id)

\* A request that fails the recheck, or that the client gives up, ends without effect.
RequestEnds(k) ==
    /\ caller[k] # Idle /\ caller' = [caller EXCEPT ![k] = Idle]
    /\ UNCHANGED <<catalog, peers, att, cabs, conns, cscs, tickets, ownWork, closes>>

\* A use of the authority (assign_work, the first write of the conversation's Work).
AssignOwnWork(k) ==
    /\ CurrentActor(k) /\ ownWork.st \in {"none", "canceled", "closed"}
    /\ ownWork' = [st |-> "open", dl |-> "queued", bd |-> "none", gen |-> att.gen]
    /\ caller' = [caller EXCEPT ![k] = Idle]
    /\ UNCHANGED <<catalog, peers, att, cabs, conns, cscs, tickets, closes>>

-----------------------------------------------------------------------------
\* reconcile_conversation_tool_catalog at daemon start: connections that loaded
\* another catalog become stale and their credentials are revoked.
Rollover ==
    \E new \in (1 .. MaxCatalog) \ {catalog} :
       LET stale == {n \in 1 .. MaxConns : conns[n].st = "active" /\ conns[n].cat # new}
       IN
       /\ catalog' = new
       /\ conns' = [n \in 1 .. MaxConns |-> IF n \in stale THEN [conns[n] EXCEPT !.st = "stale"] ELSE conns[n]]
       /\ cscs' = [c \in 1 .. MaxCscs |-> IF LiveCsc(c) /\ cscs[c].conn \in stale
                                          THEN [cscs[c] EXCEPT !.st = "revoked"] ELSE cscs[c]]
       /\ UNCHANGED <<peers, att, cabs, tickets, caller, ownWork, closes>>

\* issue_owner_local_attachment_bootstrap: the capability names its peer, the
\* catalog it loaded and the attachment row it observed, or that there is none.
IssueBootstrap(p) ==
    /\ p \in peers /\ Fresh(cabs, NoCab) # {}
    /\ cabs' = [cabs EXCEPT ![NextRow(cabs, NoCab)] =
                 [st |-> "active", peer |-> p, cat |-> catalog, era |-> closes,
                  seen |-> IF att.st = "none" THEN -1 ELSE att.gen]]
    /\ UNCHANGED <<catalog, peers, att, conns, cscs, tickets, caller, ownWork, closes>>

\* bind_verified_project_identity: a legacy attachment gets its project scope once.
BindProject ==
    /\ att.st # "none" /\ ~att.bound
    /\ att' = [att EXCEPT !.bound = TRUE]
    /\ UNCHANGED <<catalog, peers, cabs, conns, cscs, tickets, caller, ownWork, closes>>

\* The observation the capability was issued on is still what the table holds.
ObservationCurrent(b) ==
    IF cabs[b].seen = -1 THEN att.st = "none"
    ELSE att.st # "none" /\ att.gen = cabs[b].seen /\ att.bound

\* The capability is unspent, its peer lives and loaded the current catalog.
BootstrapAdmitted(b) ==
    /\ cabs[b].st = "active" /\ cabs[b].peer \in peers /\ cabs[b].cat = catalog

\* _reconcile_cao_wake_route_tx on renewal: a runtime that is gone is replaced,
\* and the wake credential and ticket of the old one are revoked with it.
RouteLost == att.st = "active" /\ (att.rt = "missing" \/ ~att.lease)
WakesStopped ==
    [t \in 1 .. MaxWakes |-> [tickets[t] EXCEPT !.crc = IF @ = "active" THEN "revoked" ELSE @,
                                              !.ticket = IF @ = "pending" THEN "revoked" ELSE @]]

\* The attachment after the attach: created, reopened one generation up, or renewed.
Attached ==
    CASE att.st = "none"    -> [st |-> "active", gen |-> 0, rt |-> "ready", lease |-> TRUE, bound |-> TRUE]
      [] att.st = "revoked" -> [att EXCEPT !.st = "active", !.gen = @ + 1, !.rt = "ready", !.lease = TRUE]
      [] OTHER              -> IF RouteLost THEN [att EXCEPT !.rt = "ready", !.lease = TRUE] ELSE att

\* Capabilities that made the same observation are revoked with it when the
\* row is created or reopened.
SupersededCabs(b) ==
    IF att.st = "active" THEN {}
    ELSE {d \in 1 .. MaxCabs : cabs[d].st = "active" /\ cabs[d].seen = cabs[b].seen}

SpentCabs(b) ==
    [d \in 1 .. MaxCabs |-> IF d \in SupersededCabs(b) \cup {b} THEN [cabs[d] EXCEPT !.st = "revoked"] ELSE cabs[d]]

\* The active connection of this peer and generation, which an attach renews.
Renewable(b) ==
    {n \in 1 .. MaxConns : /\ conns[n].st = "active" /\ conns[n].peer = cabs[b].peer
                           /\ conns[n].gen = Attached.gen}

\* _issue_cao_conversation_credential_tx: one active credential per connection.
IssueCsc(n) ==
    cscs' = [c \in 1 .. MaxCscs |->
              IF c = NextRow(cscs, NoCsc) THEN [st |-> "active", conn |-> n, gen |-> Attached.gen]
              ELSE IF LiveCsc(c) /\ cscs[c].conn = n THEN [cscs[c] EXCEPT !.st = "revoked"]
              ELSE cscs[c]]

\* _attach_cao_session_from_bootstrap: the capability is spent, the connection
\* renewed or opened and a credential issued.
Attach(b) ==
    /\ BootstrapAdmitted(b) /\ ObservationCurrent(b)
    /\ Fresh(cscs, NoCsc) # {}
    /\ att' = Attached /\ cabs' = SpentCabs(b)
    /\ \/ \E n \in Renewable(b) :
            /\ conns[n].cat = cabs[b].cat
            /\ conns' = [conns EXCEPT ![n].lease = TRUE] /\ IssueCsc(n)
       \/ /\ Renewable(b) = {} /\ Fresh(conns, NoConn) # {}
          /\ conns' = [conns EXCEPT ![NextRow(conns, NoConn)] =
                        [st |-> "active", peer |-> cabs[b].peer, gen |-> Attached.gen,
                         cat |-> cabs[b].cat, lease |-> TRUE]]
          /\ IssueCsc(NextRow(conns, NoConn))
    /\ tickets' = IF RouteLost THEN WakesStopped ELSE tickets
    /\ UNCHANGED <<catalog, peers, caller, ownWork, closes>>

PeerExits(p) ==
    /\ p \in peers /\ peers' = peers \ {p}
    /\ UNCHANGED <<catalog, att, cabs, conns, cscs, tickets, caller, ownWork, closes>>

-----------------------------------------------------------------------------
\* Wakes: issue_cao_runtime_launch_ticket takes the runtime from ready or waiting to busy.
Pending == {t \in 1 .. MaxWakes : tickets[t].ticket = "pending"}
IssueTicket ==
    /\ Fresh(tickets, NoTicket) # {}
    /\ att.st = "active" /\ att.lease /\ att.rt \in {"ready", "waiting"} /\ Pending = {}
    /\ att' = [att EXCEPT !.rt = "busy"]
    /\ tickets' = [tickets EXCEPT ![NextRow(tickets, NoTicket)] =
                  [ticket |-> "pending", crc |-> "none", gen |-> att.gen, lease |-> TRUE]]
    /\ UNCHANGED <<catalog, peers, cabs, conns, cscs, caller, ownWork, closes>>

\* revoke_cao_runtime_launch_ticket: only a pending ticket gives the runtime back.
RevokeTicket(t) ==
    /\ t \in Pending
    /\ tickets' = [tickets EXCEPT ![t].ticket = "revoked"]
    /\ att' = [att EXCEPT !.rt = IF @ = "busy" THEN "waiting" ELSE @]
    /\ UNCHANGED <<catalog, peers, cabs, conns, cscs, caller, ownWork, closes>>

\* exchange_cao_runtime_launch_ticket: one crc of the attachment stays active.
ExchangeTicket(t) ==
    /\ t \in Pending /\ tickets[t].lease /\ tickets[t].gen = att.gen
    /\ att.st = "active" /\ att.lease /\ att.rt = "busy"
    /\ tickets' = [u \in 1 .. MaxWakes |->
                  IF u = t THEN [tickets[t] EXCEPT !.ticket = "consumed", !.crc = "active"]
                  ELSE IF tickets[u].crc = "active" THEN [tickets[u] EXCEPT !.crc = "revoked"]
                  ELSE tickets[u]]
    /\ UNCHANGED <<catalog, peers, att, cabs, conns, cscs, caller, ownWork, closes>>

\* Mutant of WakeSucceeds: the runtime is given back and the wake's credential left active.
WakeSucceedsOpen ==
    /\ \E t \in 1 .. MaxWakes : CrcUsable(t)
    /\ att' = [att EXCEPT !.rt = "waiting"]
    /\ UNCHANGED <<catalog, peers, cabs, conns, cscs, tickets, caller, ownWork, closes>>
\* The Dispatcher records the turn: the wake's credential is revoked in the
\* transaction that gives the runtime back.
WakeSucceeds ==
    /\ \E t \in 1 .. MaxWakes : CrcUsable(t)
    /\ att' = [att EXCEPT !.rt = "waiting"]
    /\ tickets' = [t \in 1 .. MaxWakes |-> IF tickets[t].crc = "active" /\ tickets[t].gen = att.gen
                                         THEN [tickets[t] EXCEPT !.crc = "revoked"] ELSE tickets[t]]
    /\ UNCHANGED <<catalog, peers, cabs, conns, cscs, caller, ownWork, closes>>

\* fail_cao_session_attachment: the failed wake loses its ticket and credential,
\* the conversation keeps its own.
WakeFails ==
    /\ att.st = "active" /\ att.rt = "busy"
    /\ att' = [att EXCEPT !.rt = "waiting"] /\ tickets' = WakesStopped
    /\ UNCHANGED <<catalog, peers, cabs, conns, cscs, caller, ownWork, closes>>

\* Time passes: a connection's lease, the wake's or the runtime's runs out.
LeaseLapses ==
    /\ \/ \E n \in 1 .. MaxConns : LiveConn(n) /\ conns' = [conns EXCEPT ![n].lease = FALSE] /\ UNCHANGED <<att, tickets>>
       \/ att.st = "active" /\ att.lease /\ att' = [att EXCEPT !.lease = FALSE] /\ UNCHANGED <<conns, tickets>>
       \/ \E t \in Pending : tickets[t].lease /\ tickets' = [tickets EXCEPT ![t].lease = FALSE] /\ UNCHANGED <<conns, att>>
    /\ UNCHANGED <<catalog, peers, cabs, cscs, caller, ownWork, closes>>

LapsedConns == {n \in 1 .. MaxConns : conns[n].st = "active" /\ ~conns[n].lease}
RuntimeLapsed == ~att.lease /\ att.rt \in {"ready", "busy", "waiting"}
\* expire_runtime_leases: lapsed connections with their credentials, then a
\* lapsed runtime with the wake credential and ticket it had.
ExpireLeases ==
    /\ LapsedConns # {} \/ RuntimeLapsed
    /\ conns' = [n \in 1 .. MaxConns |-> IF n \in LapsedConns THEN [conns[n] EXCEPT !.st = "expired"] ELSE conns[n]]
    /\ cscs' = [c \in 1 .. MaxCscs |-> IF LiveCsc(c) /\ cscs[c].conn \in LapsedConns
                                       THEN [cscs[c] EXCEPT !.st = "expired"] ELSE cscs[c]]
    /\ att' = IF RuntimeLapsed THEN [att EXCEPT !.rt = "missing"] ELSE att
    /\ tickets' = IF ~RuntimeLapsed THEN tickets
                ELSE [t \in 1 .. MaxWakes |->
                       [tickets[t] EXCEPT !.crc = IF @ = "active" THEN "expired" ELSE @,
                                        !.ticket = IF @ = "pending" THEN "expired" ELSE @]]
    /\ UNCHANGED <<catalog, peers, cabs, caller, ownWork, closes>>

-----------------------------------------------------------------------------
OwnWorkBecomes(work) ==
    ownWork.st = "open" /\ ownWork' = work /\ UNCHANGED <<catalog, peers, att, cabs, conns, cscs, tickets, caller, closes>>
\* A Dispatcher submits the Assignment, and may turn out to have failed before the Worker's start.
OwnAssignmentSubmitted ==
    ownWork.dl = "queued" /\ \E d \in {"dispatched", "prestart"} : OwnWorkBecomes([ownWork EXCEPT !.dl = d])
OwnAssignmentHandled == ownWork.dl = "dispatched" /\ OwnWorkBecomes([ownWork EXCEPT !.dl = "handled"])
OwnWorkReported ==
    ownWork.bd # "open" /\ ownWork.dl = "handled" /\ OwnWorkBecomes([ownWork EXCEPT !.bd = "open"])
OwnBoundaryDisposed == ownWork.bd = "open" /\ OwnWorkBecomes([ownWork EXCEPT !.bd = "disposed"])
\* record_requester_decision: the requester accepts.
OwnWorkCompleted ==
    ownWork.dl = "handled" /\ ownWork.bd = "disposed" /\ OwnWorkBecomes([ownWork EXCEPT !.st = "completed"])
OwnWorkMoves ==
    \/ OwnAssignmentSubmitted \/ OwnAssignmentHandled \/ OwnWorkReported \/ OwnBoundaryDisposed
    \/ OwnWorkCompleted

\* close_work: the cleanup receipt of a completed Work.
ReceiptWritten ==
    /\ ownWork.st = "completed" /\ ownWork' = [ownWork EXCEPT !.st = "closed"]
    /\ UNCHANGED <<catalog, peers, att, cabs, conns, cscs, tickets, caller, closes>>

\* A wake turn may be deciding: a usable runtime credential, a pending ticket, a busy runtime.
TurnInFlight ==
    \/ att.rt = "busy" \/ \E t \in Pending : tickets[t].lease
    \/ \E t \in 1 .. MaxWakes : tickets[t].crc = "active"
\* An uncertain outcome: a completed Work without its receipt, a delivery that may have arrived.
UncertainOutcome == ownWork.st = "completed" \/ (ownWork.dl = "dispatched" /\ ownWork.st # "none")

\* All blockers are collected before the first write.
CloseBlocked == TurnInFlight \/ UncertainOutcome
\* A wake's own credential cannot close its conversation.
CloseActor(k) == caller[k].kind = "csc" /\ CurrentActor(k)

\* _dispose_conversation_close_boundaries_tx, _cancel_work_tx and the dead-lettering.
OwnWorkCanceled ==
    [ownWork EXCEPT !.st = IF @ = "open" THEN "canceled" ELSE @,
                 !.bd = IF @ = "open" THEN "disposed" ELSE @,
                 !.dl = IF @ \in {"queued", "prestart"} THEN "dead" ELSE @]

\* Every capability issued for the closed generation is revoked with it.
CabsClosed ==
    [b \in 1 .. MaxCabs |-> IF cabs[b].st = "active" /\ cabs[b].seen = att.gen
                            THEN [cabs[b] EXCEPT !.st = "revoked"] ELSE cabs[b]]

\* close_cao_conversation: refused before any write while an outcome is uncertain.
CloseConversation(k) ==
    /\ CloseActor(k) /\ ~CloseBlocked /\ closes < MaxCabs
    /\ ownWork' = OwnWorkCanceled /\ cabs' = CabsClosed /\ tickets' = WakesStopped  \* _stop_runtime_tx
    /\ conns' = [n \in 1 .. MaxConns |-> IF conns[n].st = "active" THEN [conns[n] EXCEPT !.st = "revoked"] ELSE conns[n]]
    /\ cscs' = [c \in 1 .. MaxCscs |-> IF LiveCsc(c) THEN [cscs[c] EXCEPT !.st = "revoked"] ELSE cscs[c]]
    /\ att' = [att EXCEPT !.st = "revoked", !.rt = "stopped"]
    /\ closes' = closes + 1 /\ caller' = [caller EXCEPT ![k] = Idle]
    /\ UNCHANGED <<catalog, peers>>

SessionNext ==
    \/ \E p \in Peers : IssueBootstrap(p) \/ PeerExits(p)
    \/ \E b \in 1 .. MaxCabs : Attach(b)
    \/ \E k \in Callers : \/ \E c \in 1 .. MaxCscs : AuthenticateCsc(k, c)
                          \/ \E t \in 1 .. MaxWakes : AuthenticateCrc(k, t)
                          \/ AssignOwnWork(k) \/ CloseConversation(k) \/ RequestEnds(k)
    \/ Rollover \/ BindProject \/ IssueTicket
    \/ \E t \in 1 .. MaxWakes : RevokeTicket(t) \/ ExchangeTicket(t)
    \/ WakeSucceeds \/ WakeFails \/ LeaseLapses \/ ExpireLeases \/ OwnWorkMoves \/ ReceiptWritten

SessionSpec == SessionInit /\ [][SessionNext]_session

-----------------------------------------------------------------------------
(***************************************************************************)
(* Properties.                                                             *)
(***************************************************************************)

\* A request authenticated before a close, a reopen, a rollover or a renewal does not
\* write after it: every Work is assigned through a connection with the current
\* catalog and the unrevoked credential, or by the wake under way.
WritesUnderCurrentAuthority ==
    \A k \in Callers : (AssignOwnWork(k) \/ CloseConversation(k)) =>
      \/ caller[k].kind = "crc" /\ att.rt = "busy" /\ tickets[caller[k].id].gen = att.gen
      \/ /\ caller[k].kind = "csc" /\ cscs[caller[k].id].st = "active"
         /\ conns[cscs[caller[k].id].conn].cat = catalog

\* A closed conversation is reopened only by a capability issued after the close: no
\* bridge that was bootstrapped before it can undo the requester's close.
NoReopenByOldCapability ==
    att.st = "revoked" /\ att'.st = "active" =>
      \E b \in 1 .. MaxCabs : cabs[b].st = "active" /\ cabs'[b].st = "revoked" /\ cabs[b].era = closes

\* While a wake holds the runtime, no credential of an earlier wake can act.
OnlyThisWakeActs ==
    \A t, u \in 1 .. MaxWakes : CrcUsable(t) /\ tickets[u].ticket # "none" => u <= t

\* A bridge that loaded an older catalog cannot be authenticated after the rollover.
StaleCatalogFenced ==
    \A c \in 1 .. MaxCscs : CscUsable(c) => conns[cscs[c].conn].cat = catalog

\* After the close nothing of the conversation runs on: no open Work, boundary,
\* delivery, connection, credential or wake.
ClosedIsQuiet ==
    att.st = "revoked" =>
        /\ ownWork.st # "open" /\ ownWork.bd # "open" /\ ownWork.dl \notin {"queued", "dispatched", "prestart"}
        /\ \A n \in 1 .. MaxConns : conns[n].st # "active"
        /\ Pending = {} /\ \A t \in 1 .. MaxWakes : tickets[t].crc # "active"

\* The authority of a conversation in any state: only the wake under way acts, no bridge with an
\* older catalog does, and after cao_close_conversation nothing of it runs on.
SessionFenced == SessionTypeOK /\ OnlyThisWakeActs /\ StaleCatalogFenced /\ ClosedIsQuiet

\* And in any step: a request writes only under authority that is current in its own transaction,
\* and a closed conversation is reopened only by a capability issued after the close.
AuthorityCurrent == [][WritesUnderCurrentAuthority /\ NoReopenByOldCapability]_session
=============================================================================
