------------------------- MODULE MCTerminalRegistry -------------------------
(* Three calls on two streams.  a1 and a2 send one attach command for  *)
(* stream k1, b another one; s and t subscribe to k1 and k2.                *)
EXTENDS TerminalRegistry, TLC

CONSTANTS a1, a2, b, s, t, d, w, k1, k2, x, y

MCOp == (a1 :> "attach") @@ (a2 :> "attach") @@ (b :> "attach") @@ (s :> "subscribe") @@ (t :> "subscribe")
        @@ (d :> "detach") @@ (w :> "credit")
MCKey == (a1 :> k1) @@ (a2 :> k1) @@ (b :> k1) @@ (s :> k1) @@ (t :> k2) @@ (d :> k1) @@ (w :> k1)
MCDigest == (a1 :> x) @@ (a2 :> x) @@ (b :> y) @@ (s :> None) @@ (t :> None) @@ (d :> None) @@ (w :> None)

\* A retried attach with a detach and with credit; a second command or a
\* subscription for the stream; two streams with room for one.
MCWorkloads == {{a1, a2, d}, {a1, d, w}, {a1, a2, w}, {a1, b, d}, {s, a1, w}, {s, d, w}, {a1, a2, b}, {a1, s, t}}
=============================================================================
