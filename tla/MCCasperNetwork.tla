--------------------------- MODULE MCCasperNetwork ---------------------------
(* Two transactions, of any kinds, and two concurrent callers.             *)
EXTENDS CasperNetwork, TLC

CONSTANTS t1, t2, c1, c2

MCTransactions == {t1, t2}
MCCallers      == {c1, c2}

Symmetric == Permutations(MCTransactions) \union Permutations(MCCallers)
=============================================================================
