----------------------------- MODULE MCSseClient -----------------------------
(* Two event names and two handlers; the node sends events of either name  *)
(* and events of neither.                                                  *)
EXTENDS SseClient, TLC

CONSTANTS BlockAdded, Fault, h1, h2

MCNames    == {BlockAdded, Fault}
MCHandlers == {h1, h2}
MCPayloads == {{}, {BlockAdded}, {Fault}}

Symmetric == Permutations(MCNames) \union Permutations(MCHandlers)
=============================================================================
