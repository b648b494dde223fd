---------------------------- MODULE MCKeyManager ----------------------------
(* Values of the constants of KeyManager for TLC.                          *)
EXTENDS KeyManager, AccessRights, Naturals, FiniteSets

CONSTANTS alice, bob, carol, diary

OneKey == {<<alice, diary>>}
TwoOwnersKeys == {<<alice, diary>>, <<bob, diary>>}

(* The key manager does not ask for the right to write: two of the three   *)
(* rights tell apart what it tells apart.                                  *)
ReadOrManage == can_read \ {"ReadWrite"}

(* A manager and whom he manages on one key, and a share of the other key. *)
FewShares == Cardinality(shared_keys) <= 3
=============================================================================
