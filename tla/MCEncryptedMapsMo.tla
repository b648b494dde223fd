-------------------------- MODULE MCEncryptedMapsMo --------------------------
(* Values of the constants of EncryptedMapsMo for TLC.                     *)
EXTENDS EncryptedMapsMo, AccessRights

CONSTANTS alice, bob, diary, ledger, mk1, mk2

TwoMaps == {<<alice, diary>>, <<alice, ledger>>}

AliceFirst == {<<alice, bob>>}
AsListed ==
    LET blobs == <<"", diary, ledger, mk1, mk2>>
    IN  {<<blobs[p[1]], blobs[p[2]]>> : p \in {q \in (1 .. 5) \X (1 .. 5) : q[1] < q[2]}}

(* The bound: states in which somebody besides the owner manages a map, or *)
(* the second map has two keys, are checked, and not left.                 *)
Bounded ==
    /\ \A u \in Principal, m \in KeyId : ~ CanSetUserRights(KM!Find(u, m))
    /\ Len(KeysIn(<<alice, ledger>>)) < 2
=============================================================================
