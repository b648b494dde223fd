------------------------ MODULE MCKeyManagerCanister ------------------------
(* Values of the constants of KeyManagerCanister for TLC.                  *)
EXTENDS KeyManagerCanister, AccessRights

CONSTANTS alice, bob

(* Bytes that run together: alice's and then her key's name are bob's.     *)
ShortPrincipals == [p \in {alice, bob} |-> IF p = alice THEN <<7>> ELSE <<7, 7>>]

LongName == [i \in 1 .. 33 |-> 0]

ThreeNames == {<<>>, <<7>>, LongName}

AlicesKey == <<alice, <<7>>>>
BobsKey == <<bob, <<>>>>

TwoKeys == {AlicesKey, BobsKey}
TwoKeysAndALong == {AlicesKey, BobsKey, <<bob, LongName>>}
=============================================================================
