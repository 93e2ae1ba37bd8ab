----------------------------- MODULE MCRegistry -----------------------------
(***************************************************************************)
(* Registry for TLC: two tokens with port ranges of two ports each, and a  *)
(* handful of names, so that sessions compete for them and the hint wraps. *)
(***************************************************************************)
EXTENDS Registry, TLC

CONSTANTS a1, a2, k1, k2, s1, s2, s3

\* The second session has a token of its own.
TwoTokens == (a1 :> k1) @@ (a2 :> k2)

\* s2 is allowed to one token only, s3 is reserved.
Labels == (k1 :> Subdomains) @@ (k2 :> Subdomains \ {s2})

\* The server's range is 1..5.  The first token's grant is safe; the second's
\* begins further up than it is long, and ends beyond the range.  With the hint
\* at 1 the search for the second begins at 3, a port of the first.
LowPorts == (k1 :> 2) @@ (k2 :> 4)
HighPorts == (k1 :> 3) @@ (k2 :> 9)

\* One token reaches its limit, the other does not.
Caps == (k1 :> 2) @@ (k2 :> 9)

Symmetric == Permutations(Tunnels)
=============================================================================
