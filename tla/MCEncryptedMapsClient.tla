----------------------- MODULE MCEncryptedMapsClient -----------------------
(* Values of the constants of EncryptedMapsClient for TLC.                 *)
EXTENDS EncryptedMapsClient, Naturals, FiniteSets, TLC

CONSTANTS alice, bob, diary

(* One map, or two maps of the same name and different owners.             *)
BobsMap == {<<bob, diary>>}
SameName == {<<alice, diary>>, <<bob, diary>>}

(* A reader is told from a writer; who manages does not matter here.       *)
ReadOrManage == {"Read", "ReadWriteManage"}
OnlyManage == {"ReadWriteManage"}

AllMethods == {"getValue", "setValue", "removeEncryptedValue", "getValuesForMap",
               "removeMapValues", "getAllAccessibleValues"}

(* No step tells the keys of a map apart.                                  *)
KeysAlike == Permutations(MapKey)

(* The bound on the run of two maps: a value, and another one beside it.   *)
TwoValues == Cardinality({p \in Place : store[p] # Nothing}) <= 2
=============================================================================
