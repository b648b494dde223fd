----------------------------- MODULE KeySharing -----------------------------
(***************************************************************************)
(* What a key manager promises, whatever it is written in: one matrix of   *)
(* rights.  The owner of a key always has the owner's rights to it.        *)
(* Everyone else has the rights last given by a caller who could manage    *)
(* the key at that moment, and none if those were taken away since.  A     *)
(* call that is refused changes nothing.                                   *)
(***************************************************************************)
EXTENDS VetKeysTypes

VARIABLES
    matrix,   \* [KeyId -> [Principal -> MaybeRights]]
    call      \* the last call, with its reply

NoCall == [op |-> "none"]

OwnersOnly ==
    [k \in KeyId |-> [u \in Principal |-> IF u = Owner(k) THEN OwnerRights ELSE None]]

Init ==
    /\ matrix = OwnersOnly
    /\ call = NoCall

MayManage(caller, k) ==
    \/ caller = Owner(k)
    \/ CanSetUserRights(matrix[k][caller])

(* The owner may not name itself; anyone else who manages the key may name *)
(* the owner, to no effect.                                                *)
Accepted(caller, k, user) ==
    /\ MayManage(caller, k)
    /\ ~ (caller = Owner(k) /\ user = Owner(k))

(* For a user who is not the owner the reply holds the rights the user had *)
(* until now; nothing is promised of the reply about the owner.            *)
Change(op, caller, k, user, new) ==
    /\ Accepted(caller, k, user)
    /\ matrix' = IF user = Owner(k) THEN matrix
                 ELSE [matrix EXCEPT ![k][user] = new]
    /\ \E previous \in MaybeRights :
          /\ user # Owner(k) => previous = matrix[k][user]
          /\ call' = [op |-> op, caller |-> caller, key |-> k, user |-> user,
                      reply |-> Ok(previous)]

Refuse(op, caller, k, user) ==
    /\ ~ Accepted(caller, k, user)
    /\ \E m \in {"unauthorized", "owner"} :
          call' = [op |-> op, caller |-> caller, key |-> k, user |-> user,
                   reply |-> Err(m)]
    /\ UNCHANGED matrix

Next ==
    \E caller, user \in Principal, k \in KeyId :
        \/ \E r \in Rights : Change("set", caller, k, user, r)
        \/ Change("remove", caller, k, user, None)
        \/ \E op \in {"set", "remove"} : Refuse(op, caller, k, user)

Spec == Init /\ [][Next]_<<matrix, call>>
=============================================================================
