------------------------- MODULE MCServerConnection -------------------------
(* ServerConnection with up to three requests on a connection.  "ua" reuses *)
(* the request ID of "sa"; "sa" and "sb" subscribe to one terminal stream.  *)
EXTENDS ServerConnection, TLC

CONSTANTS ia, ib, qa, sa, sb, ua, stop, id1, id2, id3, stream

MCKind == (ia :> "initialize") @@ (ib :> "initialize") @@ (qa :> "query") @@ (sa :> "subscribe")
          @@ (sb :> "subscribe") @@ (ua :> "unsubscribe") @@ (stop :> "shutdown")
MCRequestID == (ia :> id1) @@ (ib :> id2) @@ (qa :> id3) @@ (sa :> id1) @@ (sb :> id2)
               @@ (ua :> id1) @@ (stop :> id3)
MCStream == [r \in Requests |-> IF r \in {sa, sb} THEN stream ELSE None]

\* A subscription with a second one to its stream, with an unsubscribe, with a
\* shutdown; two initializations, and a query that finds no slot behind them.
Pairs == {{sa, sb}, {sa, ua}, {sa, stop}, {ia, ib}, {ia, qa}}
Races == Pairs \cup {{ia, ib, qa}}
InitAndQuery == {{ia, qa}}
=============================================================================
