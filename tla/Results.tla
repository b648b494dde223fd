------------------------------ MODULE Results ------------------------------
(***************************************************************************)
(* What a call returns.                                                    *)
(***************************************************************************)

(* The entry of a map that has no value for a key. *)
None == "None"

Ok(v) == [tag |-> "Ok", value |-> v]
Err(m) == [tag |-> "Err", value |-> m]
IsOk(res) == res.tag = "Ok"

(* A panic in a canister: the call is rejected and its effects undone. *)
Trap == [tag |-> "Trap", value |-> None]

IsTrap(res) == res.tag = "Trap"
=============================================================================
