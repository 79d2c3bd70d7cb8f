----------------------- MODULE MCWaitForConfirmation -----------------------
(* One clock unit is 100 ms: the delays are those of the code (4 and 5     *)
(* units, 3 retries); the timeout leaves room for more polls than retries. *)
EXTENDS WaitForConfirmation
=============================================================================
