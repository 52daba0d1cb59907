-------------------------- MODULE MCMutationLedger --------------------------
(* Small instances of MutationLedger: "stop" and "stop2" share an           *)
(* idempotency key with different payloads, "other" reuses the command ID   *)
(* of "stop" under another key, "attach" is a terminal.attach.              *)
EXTENDS MutationLedger, TLC

CONSTANTS r1, r2, c1, c2, stop, stop2, other, attach, key1, key2, key3, id1, id2, id3

MCKeyOf == stop :> key1 @@ stop2 :> key1 @@ other :> key2 @@ attach :> key3
MCCommandIDOf == stop :> id1 @@ stop2 :> id2 @@ other :> id1 @@ attach :> id3
MCMaximum == c1 :> 3 @@ c2 :> 2

\* Two requests, the commands they carry and the connections they come on.
Load(k1, k2, d1, d2) == <<(r1 :> k1) @@ (r2 :> k2), (r1 :> d1) @@ (r2 :> d2)>>

\* A retry on the same and on another connection, a reused key, a reused command
\* ID, an attach repeated on its connection, and two commands that compete for the
\* limits; closed under swapping the requests.
RaceLoads == {Load(stop, stop, c1, c1), Load(stop, stop, c1, c2), Load(stop, stop, c2, c1),
              Load(attach, attach, c1, c1)}
             \cup UNION {{Load(stop, k, c1, c1), Load(k, stop, c1, c1)} : k \in {stop2, other, attach}}
LiveLoads == {Load(stop, stop, c1, c1), Load(stop, stop2, c1, c1), Load(stop, attach, c1, c1)}
Symmetry == Permutations(Requests)
=============================================================================
