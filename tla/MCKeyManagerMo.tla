--------------------------- MODULE MCKeyManagerMo ---------------------------
(* Values of the constants of KeyManagerMo for TLC.                        *)
EXTENDS KeyManagerMo, AccessRights, Naturals

CONSTANTS alice, bob, carol, diary, ledger

TwoKeys == {<<alice, diary>>, <<alice, ledger>>}
ThreeUsers == {alice, bob, carol}

(* The key manager does not ask for the right to write: two of the three   *)
(* rights tell apart what it tells apart.                                  *)
ReadOrManage == can_read \ {"ReadWrite"}

(* The diary is shared with two users, whom the owner may be one of, and   *)
(* the ledger with bob alone.                                              *)
FewShares ==
    /\ Len(sharedKeys[<<alice, diary>>]) <= 2
    /\ Range(sharedKeys[<<alice, ledger>>]) \subseteq {bob}
=============================================================================
