--------------------------- MODULE EncryptedMapsMo ---------------------------
(***************************************************************************)
(* The Motoko EncryptedMaps: the values in one map ordered by map and key, *)
(* and beside it, because that map is not scanned by range, an index of    *)
(* the keys each encrypted map has.  Every method that lists reads the     *)
(* index, every method that looks one value up reads the values.           *)
(***************************************************************************)
EXTENDS VetKeysTypes, Arrays

CONSTANTS
    MapKey,   \* the keys inside an encrypted map
    Value,    \* encrypted values
    PrincipalBefore, BlobBefore, EmptyBlob   \* by which the Rust maps are scanned

ASSUME ValueAssumption == None \notin Value

ASSUME OrderAssumption ==
    /\ IsOrder(PrincipalBefore, Principal)
    /\ IsOrder(BlobBefore, KeyName \cup MapKey \cup {EmptyBlob})
    /\ \A b \in KeyName \cup MapKey : <<b, EmptyBlob>> \notin BlobBefore

VARIABLES
    accessControl, sharedKeys,   \* the key manager's
    mapKeyVals,                  \* [KeyId \X MapKey -> Value \cup {None}]
    mapKeys,                     \* a sequence of keys for each map that has one
    call                         \* the last update of either part

KM == INSTANCE KeyManagerMo

vars == <<accessControl, sharedKeys, mapKeyVals, mapKeys, call>>

TypeOK ==
    /\ KM!TypeOK
    /\ mapKeyVals \in [KeyId \X MapKey -> Value \cup {None}]
    /\ DOMAIN mapKeys \subseteq KeyId
    /\ \A m \in DOMAIN mapKeys : mapKeys[m] \in Seq(MapKey)

Init ==
    /\ KM!Init
    /\ mapKeyVals = [e \in KeyId \X MapKey |-> None]
    /\ mapKeys = << >>

-----------------------------------------------------------------------------
(* The index.                                                              *)

KeysIn(m) == IF m \in DOMAIN mapKeys THEN mapKeys[m] ELSE << >>

With(index, m, keys) ==
    [n \in DOMAIN index \cup {m} |-> IF n = m THEN keys ELSE index[n]]

Without(index, m) == Restrict(index, DOMAIN index \ {m})

(* Slips (not the code): the map is indexed in place of the key; a key is  *)
(* indexed again each time it is written.                                  *)
IndexedMap(m, key) == With(mapKeys, m, Append(KeysIn(m), m))
IndexedAgain(m, key) == With(mapKeys, m, Append(KeysIn(m), key))

Indexed(m, key) ==
    IF key \in Range(KeysIn(m)) THEN mapKeys
    ELSE With(mapKeys, m, Append(KeysIn(m), key))

(* Slip (not the code): a map that loses its last key keeps an empty array.*)
UnindexedKeepsEmpty(m, key) ==
    With(mapKeys, m, Kept(KeysIn(m), Range(KeysIn(m)) \ {key}))

Unindexed(m, key) ==
    LET rest == Kept(KeysIn(m), Range(KeysIn(m)) \ {key})
    IN  IF rest = << >> THEN Without(mapKeys, m) ELSE With(mapKeys, m, rest)

-----------------------------------------------------------------------------
(* The queries.                                                            *)

GetEncryptedValue(caller, m, key) ==
    IF ~ IsOk(KM!EnsureUserCanRead(caller, m)) THEN KM!EnsureUserCanRead(caller, m)
    ELSE Ok(mapKeyVals[<<m, key>>])

(* A key of the index without a value is passed over.                      *)
GetEncryptedValuesForMap(caller, m) ==
    LET present == Kept(KeysIn(m), {key \in MapKey : mapKeyVals[<<m, key>>] # None})
    IN  IF ~ IsOk(KM!EnsureUserCanRead(caller, m)) THEN KM!EnsureUserCanRead(caller, m)
        ELSE Ok([i \in DOMAIN present |-> <<present[i], mapKeyVals[<<m, present[i]>>]>>])

GetOwnedNonEmptyMaps(caller) == {m \in DOMAIN mapKeys : Owner(m) = caller}

GetAccessibleMapIds(caller) ==
    Range(KM!GetAccessibleSharedKeyIds(caller)) \cup GetOwnedNonEmptyMaps(caller)

GetAllAccessibleEncryptedValues(caller) ==
    LET maps == GetAccessibleMapIds(caller)
    IN  IF \E m \in maps : ~ IsOk(GetEncryptedValuesForMap(caller, m)) THEN Trap
        ELSE Ok({<<m, Range(GetEncryptedValuesForMap(caller, m).value)>> : m \in maps})

(* The list of a map's users, empty when the caller may not see it.        *)
AccessList(caller, m) ==
    LET list == KM!GetSharedUserAccessForKey(caller, m)
    IN  IF IsOk(list) \/ IsTrap(list) THEN list ELSE Ok(<< >>)

GetAllAccessibleEncryptedMaps(caller) ==
    LET maps == GetAccessibleMapIds(caller)
    IN  IF \E m \in maps : \/ ~ IsOk(GetEncryptedValuesForMap(caller, m))
                          \/ IsTrap(AccessList(caller, m))
        THEN Trap
        ELSE Ok({[map |-> m,
                  keyvals |-> Range(GetEncryptedValuesForMap(caller, m).value),
                  access_control |-> Range(AccessList(caller, m).value)] : m \in maps})

-----------------------------------------------------------------------------
(* The updates of values.                                                  *)

Reply(op, caller, m, keys, reply) ==
    call' = [op |-> op, caller |-> caller, map |-> m, keys |-> keys, reply |-> reply]

(* Slip (not the code): a clearing takes the keys of every map.            *)
ClearedInAnyMap(m) ==
    [e \in KeyId \X MapKey |-> IF e[2] \in Range(KeysIn(m)) THEN None ELSE mapKeyVals[e]]

MayWrite(caller, m) == IsOk(KM!EnsureUserCanWrite(caller, m))
Stored(m, key, v) == [mapKeyVals EXCEPT ![<<m, key>>] = v]
Cleared(m) ==
    [e \in KeyId \X MapKey |->
        IF e[1] = m /\ e[2] \in Range(KeysIn(m)) THEN None ELSE mapKeyVals[e]]

InsertEncryptedValue(caller, m, key, v) ==
    /\ MayWrite(caller, m)
    /\ mapKeyVals' = Stored(m, key, v)
    /\ mapKeys' = Indexed(m, key)
    /\ Reply("insert", caller, m, {key}, Ok(mapKeyVals[<<m, key>>]))
    /\ UNCHANGED <<accessControl, sharedKeys>>

RemoveEncryptedValue(caller, m, key) ==
    /\ MayWrite(caller, m)
    /\ mapKeyVals' = Stored(m, key, None)
    /\ mapKeys' = Unindexed(m, key)
    /\ Reply("remove value", caller, m, {key}, Ok(mapKeyVals[<<m, key>>]))
    /\ UNCHANGED <<accessControl, sharedKeys>>

(* The values removed are those the index names.                           *)
RemoveMapValues(caller, m) ==
    /\ MayWrite(caller, m)
    /\ mapKeyVals' = Cleared(m)
    /\ mapKeys' = Without(mapKeys, m)
    /\ Reply("clear", caller, m, Range(KeysIn(m)), Ok(None))
    /\ UNCHANGED <<accessControl, sharedKeys>>

WriteRefused(op, caller, m) ==
    /\ ~ MayWrite(caller, m)
    /\ Reply(op, caller, m, {}, KM!EnsureUserCanWrite(caller, m))
    /\ UNCHANGED <<accessControl, sharedKeys, mapKeyVals, mapKeys>>

(* setUserRights and removeUser are the key manager's.                     *)
UpdateRights == KM!Next /\ UNCHANGED <<mapKeyVals, mapKeys>>

UpdateValues ==
    \E caller \in Principal, m \in KeyId :
        \/ \E key \in MapKey, v \in Value : InsertEncryptedValue(caller, m, key, v)
        \/ \E key \in MapKey : RemoveEncryptedValue(caller, m, key)
        \/ RemoveMapValues(caller, m)
        \/ \E op \in {"insert", "remove value", "clear"} : WriteRefused(op, caller, m)

Next == UpdateRights \/ UpdateValues

Spec == Init /\ [][Next]_vars

-----------------------------------------------------------------------------
(* Properties.                                                             *)

(* The index names each key that has a value once, and no other; a map is  *)
(* in the index exactly when it has a value.                               *)
IndexMatchesValues ==
    /\ \A m \in KeyId :
          /\ Range(KeysIn(m)) = {key \in MapKey : mapKeyVals[<<m, key>>] # None}
          /\ IsInjective(KeysIn(m))
    /\ \A m \in DOMAIN mapKeys : mapKeys[m] # << >>

Rust == INSTANCE EncryptedMaps
            WITH access_control <- KM!Entries, shared_keys <- KM!Pairs,
                 mapkey_vals <- mapKeyVals

(* The Motoko maps take the same steps as the Rust ones, with the same     *)
(* replies; the keys a clearing reports are those of the values it cleared.*)
ImplementsRust == Rust!Spec

(* Each query on values is answered as the Rust maps answer it in the same *)
(* state, although the one goes by the index and the other by a scan.      *)
SameAnswers ==
    \A c \in Principal :
        /\ \A m \in KeyId :
              /\ KM!SameList(GetEncryptedValuesForMap(c, m), Rust!GetEncryptedValuesForMap(c, m))
              /\ \A key \in MapKey :
                    GetEncryptedValue(c, m, key) = Rust!GetEncryptedValue(c, m, key)
        /\ GetOwnedNonEmptyMaps(c) = Rust!GetOwnedNonEmptyMaps(c)
        /\ GetAllAccessibleEncryptedValues(c) = Rust!GetAllAccessibleEncryptedValues(c)
        /\ GetAllAccessibleEncryptedMaps(c) = Rust!GetAllAccessibleEncryptedMaps(c)
=============================================================================
