------------------------------ MODULE MCDispatch ------------------------------
(***************************************************************************)
(* Small instances of the modules about what the Dispatcher sends, and     *)
(* what comes back; Init chooses one, and the variables of the others stay *)
(* as they begin or are 0.  StateReads and CaoWake have the constants of   *)
(* the .cfg: "reads", and, each with its own bound on the steps,           *)
(* "dispatch" (two jobs), "repair" (a wake, its repair and the notices to  *)
(* the requester), "retract" and "route".  PushOutbox: "push" (two rows)   *)
(* and "late" (three attempts and a crash); ProviderCircuit with two       *)
(* Workers of one conversation ("one") or of two ("two"); OutputCapture    *)
(* with three messages of one Work ("turn") or with two Works that both    *)
(* claim the runtime ("pair").                                             *)
(***************************************************************************)
EXTENDS StateReads, CaoWake, TLC

VARIABLES
    instance,
    configs, push, pushJob, crashes, tally,
    circuit, msgs, used, rts, atts, seq, bounds, handed,
    db

pushes == <<configs, push, pushJob, crashes, tally>>
limits == <<circuit, msgs, used, rts, atts, seq, bounds, handed>>
vars == <<instance, wakes, reading, pushes, limits, db>>

\* How far each instance of CaoWake goes: Grown(n, g) bounds the messages and the generations,
\* OneJob allows one busy job at a time, and Quiet names topics that do not occur.
Grown(n, g) == Len(msg') <= n /\ \A m \in 1 .. Len(msg') : msg'[m].gen <= g
OneJob == \E j \in Jobs : job'[j] = IdleJob
Quiet(topics) ==
    /\ "info" \in topics => \A m \in 1 .. Len(msg') : msg'[m].kind # "info"
    /\ "ack" \in topics => \A m \in 1 .. Len(msg') : msg'[m].st # "acknowledged"
    /\ "turn" \in topics => turn' = "none"
    /\ "end" \in topics => ~done'
    /\ "activate" \in topics => scan' = NoScan
    /\ "retract" \in topics => retract' = NoRetract
Extent ==
    \/ instance = "dispatch" /\ Grown(2, 2) /\ Quiet({"turn", "end", "activate", "retract"})
    \/ instance = "repair" /\ Grown(4, 1) /\ OneJob /\ faults' = 0 /\ Quiet({"info", "ack", "end", "retract"})
    \/ instance = "retract" /\ Grown(2, 1) /\ OneJob /\ Quiet({"activate"})
    \/ instance = "route" /\ Grown(2, 3) /\ OneJob /\ Quiet({"info", "ack", "end", "activate", "retract"})

Push == INSTANCE PushOutbox WITH
    Configs <- {"c1", "c2"}, Events <- {"e1"}, MaxAttempts <- 2, MaxCrashes <- 0, Nobody <- None
Late == INSTANCE PushOutbox WITH
    Configs <- {"c1"}, Events <- {"e1"}, MaxAttempts <- 3, MaxCrashes <- 1, Nobody <- None

One == INSTANCE ProviderCircuit WITH
    Workers <- {"w1", "w2"}, Attachments <- {"a1"}, AttachmentOf <- "w1" :> "a1" @@ "w2" :> "a1",
    MaxMsgs <- 3, MaxSeq <- 4, MaxEpoch <- 2, MaxCloses <- 0
\* Two probes at once need an Assignment that is refused and one more for each Worker: the
\* first is of the Worker that restarts, and the other does not.
OneRestarts == rts'["w2"].ep = 1 /\ (used' > 0 => msgs'[1].w = "w1")
Two == INSTANCE ProviderCircuit WITH
    Workers <- {"w1", "w2"}, Attachments <- {"a1", "a2"}, AttachmentOf <- "w1" :> "a1" @@ "w2" :> "a2",
    MaxMsgs <- 2, MaxSeq <- 4, MaxEpoch <- 1, MaxCloses <- 1

Turn == INSTANCE OutputCapture WITH
    Works <- {1}, MaxMsg <- 3, MaxBnd <- 3, MaxGen <- 4, Ambiguous <- FALSE
Pair == INSTANCE OutputCapture WITH
    Works <- {1, 2}, MaxMsg <- 2, MaxBnd <- 2, MaxGen <- 3, Ambiguous <- TRUE

ASSUME /\ Push!OutboxConstants /\ Late!OutboxConstants
       /\ One!CircuitAssumption /\ Two!CircuitAssumption
       /\ Turn!CaptureAssumption /\ Pair!CaptureAssumption

\* The state of a module that is not chosen.
NoPush == configs = 0 /\ push = 0 /\ pushJob = 0 /\ crashes = 0 /\ tally = 0
NoLimit ==
    /\ circuit = 0 /\ msgs = 0 /\ used = 0 /\ rts = 0 /\ atts = 0 /\ seq = 0 /\ bounds = 0
    /\ handed = 0
NoCapture == db = 0

Init ==
    /\ ReadInit /\ WakeInit
    /\ \/ /\ NoPush /\ NoLimit /\ NoCapture
          /\ instance \in {"reads", "dispatch", "repair", "retract", "route"}
       \/ NoLimit /\ NoCapture /\ instance = "push" /\ Push!PushInit
       \/ NoLimit /\ NoCapture /\ instance = "late" /\ Late!PushInit
       \/ /\ NoPush /\ NoCapture
          /\ \/ instance = "one" /\ One!Init
             \/ instance = "two" /\ Two!Init
       \/ /\ NoPush /\ NoLimit
          /\ \/ instance = "turn" /\ Turn!Init
             \/ instance = "pair" /\ Pair!Init
    /\ instance \notin {"dispatch", "repair", "retract", "route"} => msg = <<>>

WakeStep ==
    /\ instance \in {"dispatch", "repair", "retract", "route"} /\ WakeNext /\ Extent
    /\ UNCHANGED <<instance, reading, pushes, limits, db>>
ReadStep == instance = "reads" /\ ReadNext /\ UNCHANGED <<instance, wakes, pushes, limits, db>>
PushStep ==
    /\ \/ instance = "push" /\ Push!PushNext
       \/ instance = "late" /\ Late!PushNext
    /\ UNCHANGED <<instance, wakes, reading, limits, db>>
LimitStep ==
    /\ \/ instance = "one" /\ One!Next /\ OneRestarts
       \/ instance = "two" /\ Two!Next
    /\ UNCHANGED <<instance, wakes, reading, pushes, db>>
CaptureStep ==
    /\ \/ instance = "turn" /\ Turn!Next
       \/ instance = "pair" /\ Pair!Next
    /\ UNCHANGED <<instance, wakes, reading, pushes, limits>>
\* A job, of wakes and of pushes, or a reader takes the place of the other.
Interchangeable == Permutations(Jobs)

Next == WakeStep \/ ReadStep \/ PushStep \/ LimitStep \/ CaptureStep
Spec == Init /\ [][Next]_vars

\* The rows of every other instance are well formed (database.py).
TypeOK == /\ instance = "push" => Push!PushTypeOK
          /\ instance = "late" => Late!PushTypeOK
          /\ instance = "one" => One!TypeOK
          /\ instance = "two" => Two!TypeOK
          /\ instance = "turn" => Turn!TypeOK
          /\ instance = "pair" => Pair!TypeOK

\* Nothing is sent again without a reason: every further post of a push is a counted failure or a
\* lost lease, although jobs outlive their lease (PushOutbox); between a 429 and the proof that
\* the provider answers one Assignment is handed over (ProviderCircuit).
SentOnce ==
    /\ TypeOK
    /\ instance = "push" => Push!PostsAccounted
    /\ instance = "late" => Late!PostsAccounted
    /\ instance = "one" => One!OneProbePerEpoch

\* One reconciliation pass gives every forgotten turn to its supervisor, and a worker_output
\* Boundary is opened only by a completed and settled turn (OutputCapture).
TurnReachesSupervisor ==
    /\ instance = "turn" => Turn!TurnReachesSupervisor /\ Turn!OutputBoundaryEarned
    /\ instance = "pair" => Pair!TurnReachesSupervisor

\* What comes late changes nothing that was settled, and starts nothing: a repair wake is sent only
\* when the wake it replaces is not running (CaoWake), a push that was given up is not sent again,
\* and a delivered one only for a counted failure beside a job that outlived its lease
\* (PushOutbox), no Assignment older than the 429 starts a turn and no older epoch of the circuit
\* comes back (ProviderCircuit), the end of a turn is recorded once and nothing is added to a
\* capture whose Work moved on (OutputCapture).
LateIsFenced ==
    [][/\ RepairAfterEnd
       /\ instance = "push" => Push!SettledIsFinal
       /\ instance = "late" => Late!SettledIsFinal
       /\ instance = "one" => One!OldInstructionsWait /\ One!EpochsMoveForward
       /\ instance = "two" => Two!OldInstructionsWait /\ Two!EpochsMoveForward
       /\ instance = "turn" => Turn!TerminalOnce /\ Turn!CaptureFenced]_vars
===============================================================================
