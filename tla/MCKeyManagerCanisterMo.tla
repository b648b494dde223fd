----------------------- MODULE MCKeyManagerCanisterMo -----------------------
(* Values of the constants of KeyManagerCanisterMo for TLC.                *)
EXTENDS KeyManagerCanisterMo, AccessRights

CONSTANTS alice, bob

ShortPrincipals == [p \in {alice, bob} |-> IF p = alice THEN <<7>> ELSE <<7, 7>>]

OneName == {<<7>>}

AlicesKey == {<<alice, <<7>>>>}
=============================================================================
