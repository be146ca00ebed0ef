--------------------------- MODULE MCAuthorization ---------------------------
(* An instance of Authorization for TLC. *)
EXTENDS Authorization, TLC

CONSTANTS h1, h2, k1, k2

MCHandlers == {h1, h2}
Symmetry == Permutations(MCHandlers)
MCKids == {k1, k2}
MCInitial == {k1}

Signed(kid, iat, exp) == [kid |-> kid, signer |-> kid, iat |-> iat, exp |-> exp, flaw |-> "none"]

\* A token of each key, and one that names another key than it is signed with and
\* whose claims policy refuses.
MCTokens == {
    Signed(k1, 1, 3), Signed(k2, 1, 2),
    [Signed(k1, 0, 3) EXCEPT !.signer = k2, !.flaw = "policy"]}
=============================================================================
