-------------------------- MODULE MCDeployLifecycle --------------------------
(* Three deploys suffice for one that is changed, its successor, and a     *)
(* copy or a further successor; one argument with two values can be set,   *)
(* overwritten and set again.                                              *)
EXTENDS DeployLifecycle, TLC

CONSTANTS amount, low, high, alice

MCArgNames == {amount}
MCValues   == {low, high}
MCSigners  == {alice}

Symmetric == Permutations(MCValues)
=============================================================================
