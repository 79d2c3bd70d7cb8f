------------------------ MODULE MCTransactionBuilder ------------------------
(* Seven calls configure a builder, build, change a setting and, but for a *)
(* contract call, build again. A class stands for those that build alike.  *)
EXTENDS TransactionBuilder, TLC

CONSTANTS alice, bob, one, other, contract, package

MCAccounts == {alice, bob}
MCValues   == {one, other}
MCHashes   == {contract, package}
MCPayments == {[amount |-> 0, tolerance |-> 2], [amount |-> 1, tolerance |-> 0]}

(* A contract, and a package with one of its two versions 0. *)
MCContracts ==
  {[id |-> contract, version |-> Unset, protocolVersionMajor |-> Unset],
   [id |-> package, version |-> 2, protocolVersionMajor |-> 0],
   [id |-> package, version |-> 0, protocolVersionMajor |-> 2]}

Symmetric == Permutations(MCAccounts) \union Permutations(MCValues)
=============================================================================
