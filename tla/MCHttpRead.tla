----------------------------- MODULE MCHttpRead -----------------------------
(* A resource of four bytes that its server declares as three.                *)
EXTENDS HttpRead, TLC

\* The first bytes, the rest, and past the declared end.
MCRequests == {[offset |-> 0, want |-> 2], [offset |-> 1, want |-> 3], [offset |-> 4, want |-> 1]}
=============================================================================
