------------------------------ MODULE LatestRead ------------------------------
(***************************************************************************)
(* What the reads of RpcClient that name no block and no state root        *)
(* promise: a read that succeeds returns what was current at one moment    *)
(* between the call and its return, however many requests it takes.        *)
(***************************************************************************)
CONSTANTS
  Values,    (* what the state can hold            *)
  Callers,   (* concurrent callers                 *)
  Nothing    (* not a value: no result             *)

VARIABLES
  current,   (* the latest state                                  *)
  phase,     (* where the read of each caller is                  *)
  got        (* what each read has seen at its one moment         *)

vars == <<current, phase, got>>

Init == /\ current \in Values
        /\ phase = [c \in Callers |-> "idle"]
        /\ got = [c \in Callers |-> Nothing]

Change == /\ current' \in Values
          /\ UNCHANGED <<phase, got>>

Ask(c) == /\ phase[c] \in {"idle", "done", "failed"}
          /\ phase' = [phase EXCEPT ![c] = "asked"]
          /\ got' = [got EXCEPT ![c] = Nothing]
          /\ UNCHANGED current

Look(c) == /\ phase[c] = "asked"
           /\ phase' = [phase EXCEPT ![c] = "looked"]
           /\ got' = [got EXCEPT ![c] = current]
           /\ UNCHANGED current

Return(c) == /\ phase[c] = "looked"
             /\ phase' = [phase EXCEPT ![c] = "done"]
             /\ UNCHANGED <<current, got>>

Fail(c) == /\ phase[c] \in {"asked", "looked"}
           /\ phase' = [phase EXCEPT ![c] = "failed"]
           /\ got' = [got EXCEPT ![c] = Nothing]
           /\ UNCHANGED current

(* The caller turns to something else. *)
Leave(c) == /\ phase[c] \in {"done", "failed"}
            /\ phase' = [phase EXCEPT ![c] = "idle"]
            /\ got' = [got EXCEPT ![c] = Nothing]
            /\ UNCHANGED current

Next == \/ Change
        \/ \E c \in Callers : Ask(c) \/ Look(c) \/ Return(c) \/ Fail(c) \/ Leave(c)

Spec == Init /\ [][Next]_vars
===============================================================================
