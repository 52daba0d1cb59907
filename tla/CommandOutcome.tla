--------------------------- MODULE CommandOutcome ---------------------------
(***************************************************************************)
(* What the ledger promises of a command that is not bound to a            *)
(* connection: its effect is started at most once, its outcome is written  *)
(* once and never forgotten, and the outcome is truthful.                  *)
(***************************************************************************)
CONSTANT IDs      \* idempotency identities

VARIABLES
    outcome,      \* what a retry or a result query is told
    effect        \* what the provider did

Init ==
    /\ outcome = [i \in IDs |-> "fresh"]
    /\ effect = [i \in IDs |-> "none"]

\* The identity is recorded before the effect starts.
Begin(i) ==
    /\ outcome[i] = "fresh"
    /\ outcome' = [outcome EXCEPT ![i] = "pending"]
    /\ UNCHANGED effect

Start(i) ==
    /\ outcome[i] = "pending" /\ effect[i] = "none"
    /\ effect' = [effect EXCEPT ![i] = "running"]
    /\ UNCHANGED outcome

\* The effect completes; its outcome may be settled later.
Finish(i) ==
    /\ outcome[i] = "pending" /\ effect[i] = "running"
    /\ effect' = [effect EXCEPT ![i] = "ok"]
    /\ UNCHANGED outcome

\* The outcome is settled, possibly as the effect completes.  Failed is said
\* only of an effect that did not succeed, the others only of one that did.
Settle(i) ==
    /\ outcome[i] = "pending"
    /\ \E done \in IF effect[i] = "running" THEN {"ok", "error"} ELSE {effect[i]} :
        /\ effect' = [effect EXCEPT ![i] = done]
        /\ \E verdict \in IF done = "ok" THEN {"succeeded", "unknown"} ELSE {"failed"} :
            outcome' = [outcome EXCEPT ![i] = verdict]

Next == \E i \in IDs : Begin(i) \/ Start(i) \/ Finish(i) \/ Settle(i)

Spec == Init /\ [][Next]_<<outcome, effect>>
=============================================================================
