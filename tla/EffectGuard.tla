---------------------------- MODULE EffectGuard ----------------------------
(***************************************************************************)
(* What the effect ledger promises for each key: a command starts only on  *)
(* a free key, one at a time; when it ends the key is in doubt until its   *)
(* outcome is recorded, and recording it frees the key.  A free key may    *)
(* come into doubt again (a recovery that writes late), which only blocks  *)
(* more.                                                                   *)
(***************************************************************************)
CONSTANT Keys
VARIABLE guard

Init == guard = [k \in Keys |-> "free"]

Start(k) == guard[k] = "free" /\ guard' = [guard EXCEPT ![k] = "running"]

\* A command ends: its reservation is still open.
End(k) == guard[k] = "running" /\ guard' = [guard EXCEPT ![k] = "doubt"]

Settle(k) == guard[k] = "doubt" /\ guard' = [guard EXCEPT ![k] = "free"]

Doubt(k) == guard[k] = "free" /\ guard' = [guard EXCEPT ![k] = "doubt"]

Next == \E k \in Keys : Start(k) \/ End(k) \/ Settle(k) \/ Doubt(k)

Spec == Init /\ [][Next]_guard
=============================================================================
