---------------------------- MODULE MCClientRPC ----------------------------
(* ClientRPC with two concurrent calls. *)
EXTENDS ClientRPC, TLC

CONSTANTS ia, ib, qa, sa, sb

MCKind == (ia :> "initialize") @@ (ib :> "initialize") @@ (qa :> "query")
          @@ (sa :> "subscribe") @@ (sb :> "subscribe")
\* The response to "sb" may be duplicated.
MCAnswers == [c \in Calls |-> IF c = sb THEN 2 ELSE 1]
\* A query and a subscription compete for the one place; two initializations
\* race; a query runs into an initialization; a response comes twice.
Pairs == {{qa, sa}, {ia, ib}, {ia, qa}, {sb}}
=============================================================================
