---------------------------- MODULE EncryptedMaps ----------------------------
(***************************************************************************)
(* The Rust EncryptedMaps: a key manager, whose keys are now the maps, and *)
(* one stable map with the values of all the maps.  A value is stored as   *)
(* it comes, encrypted by the client.  As in KeyManager an update is one   *)
(* atomic call and the queries are operators on the state.                 *)
(***************************************************************************)
EXTENDS VetKeysTypes

CONSTANTS
    MapKey,            \* the keys inside a map
    Value,             \* encrypted values
    PrincipalBefore,   \* which principal comes before which
    BlobBefore,        \* the same of blobs: names of maps, and keys
    EmptyBlob          \* Blob::default()

ASSUME ValueAssumption == None \notin Value

(* What a stable map orders its entries by.  The empty blob is the first.  *)
ASSUME OrderAssumption ==
    /\ IsOrder(PrincipalBefore, Principal)
    /\ IsOrder(BlobBefore, KeyName \cup MapKey \cup {EmptyBlob})
    /\ \A b \in KeyName \cup MapKey : <<b, EmptyBlob>> \notin BlobBefore

VARIABLES
    access_control, shared_keys,   \* the key manager's
    mapkey_vals,                   \* [KeyId \X MapKey -> Value \cup {None}]
    call                           \* the last update of either part

KM == INSTANCE KeyManager

vars == <<access_control, shared_keys, mapkey_vals, call>>

TypeOK ==
    /\ access_control \in [Principal \X KeyId -> MaybeRights]
    /\ shared_keys \subseteq KeyId \X Principal
    /\ mapkey_vals \in [KeyId \X MapKey -> Value \cup {None}]

Init ==
    /\ KM!Init
    /\ mapkey_vals = [e \in KeyId \X MapKey |-> None]

-----------------------------------------------------------------------------
(* Scans.  The entries are in the order of the owner of the map, the name  *)
(* of the map and the key.                                                 *)

IdPrecedes(m, n) ==
    \/ <<m[1], n[1]>> \in PrincipalBefore
    \/ m[1] = n[1] /\ <<m[2], n[2]>> \in BlobBefore

Precedes(d, e) == IdPrecedes(d[1], e[1]) \/ (d[1] = e[1] /\ <<d[2], e[2]>> \in BlobBefore)

(* Slip (not the code): what a scan should start with is left out.         *)
FromPast(start) == {e \in KeyId \X MapKey : mapkey_vals[e] # None /\ Precedes(start, e)}

From(start) == {e \in KeyId \X MapKey : mapkey_vals[e] # None /\ ~ Precedes(e, start)}

(* Slip (not the code): the entry to stop at is taken, too.                *)
ScanTooFar(start, wanted) ==
    LET from == From(start)
    IN  {e \in from : \A d \in from \ wanted : ~ Precedes(d, e)}

(* range(start..) and take_while: the entries from `start' on that come    *)
(* before the first that is not wanted.                                    *)
Scan(start, wanted) ==
    LET from == From(start)
    IN  {e \in from \cap wanted : \A d \in from \ wanted : ~ Precedes(d, e)}

-----------------------------------------------------------------------------
(* The queries.                                                            *)

GetEncryptedValue(caller, m, key) ==
    IF ~ IsOk(KM!EnsureUserCanRead(caller, m)) THEN KM!EnsureUserCanRead(caller, m)
    ELSE Ok(mapkey_vals[<<m, key>>])

EntriesOf(m) == Scan(<<m, EmptyBlob>>, {m} \X MapKey)

GetEncryptedValuesForMap(caller, m) ==
    IF ~ IsOk(KM!EnsureUserCanRead(caller, m)) THEN KM!EnsureUserCanRead(caller, m)
    ELSE Ok({<<e[2], mapkey_vals[e]>> : e \in EntriesOf(m)})

GetOwnedNonEmptyMaps(caller) ==
    LET owned == {m \in KeyId : Owner(m) = caller}
    IN  {e[1] : e \in Scan(<<<<caller, EmptyBlob>>, EmptyBlob>>, owned \X MapKey)}

(* The maps shared with the caller, followed by those he owns.             *)
GetAccessibleMapIds(caller) ==
    KM!GetAccessibleSharedKeyIds(caller) \cup GetOwnedNonEmptyMaps(caller)

(* Each map is read with unwrap(): a map listed but not readable panics.   *)
GetAllAccessibleEncryptedValues(caller) ==
    LET maps == GetAccessibleMapIds(caller)
    IN  IF \E m \in maps : ~ IsOk(GetEncryptedValuesForMap(caller, m)) THEN Trap
        ELSE Ok({<<m, GetEncryptedValuesForMap(caller, m).value>> : m \in maps})

(* Slip (not the code): unwrap() in place of unwrap_or_default().          *)
AccessListUnwrap(caller, m) ==
    LET list == KM!GetSharedUserAccessForKey(caller, m)
    IN  IF IsOk(list) THEN list ELSE Trap

(* The list of a map's users, empty when the caller may not see it.        *)
AccessList(caller, m) ==
    LET list == KM!GetSharedUserAccessForKey(caller, m)
    IN  IF IsOk(list) \/ IsTrap(list) THEN list ELSE Ok({})

(* As above, with the list of each map's users.                            *)
GetAllAccessibleEncryptedMaps(caller) ==
    LET maps == GetAccessibleMapIds(caller)
    IN  IF \E m \in maps : \/ ~ IsOk(GetEncryptedValuesForMap(caller, m))
                          \/ IsTrap(AccessList(caller, m))
        THEN Trap
        ELSE Ok({[map |-> m,
                  keyvals |-> GetEncryptedValuesForMap(caller, m).value,
                  access_control |-> AccessList(caller, m).value] : m \in maps})

-----------------------------------------------------------------------------
(* The updates of values.                                                  *)

Reply(op, caller, m, keys, reply) ==
    call' = [op |-> op, caller |-> caller, map |-> m, keys |-> keys, reply |-> reply]

(* Slip (not the code): the owner is stored for the value.                 *)
OwnerStored(m, key, v) == [mapkey_vals EXCEPT ![<<m, key>>] = Owner(m)]

MayWrite(caller, m) == IsOk(KM!EnsureUserCanWrite(caller, m))
Stored(m, key, v) == [mapkey_vals EXCEPT ![<<m, key>>] = v]
KeysIn(m) == {e[2] : e \in EntriesOf(m)}
Cleared(m) ==
    LET keys == KeysIn(m)
    IN  [e \in KeyId \X MapKey |-> IF e[1] = m /\ e[2] \in keys THEN None ELSE mapkey_vals[e]]

InsertEncryptedValue(caller, m, key, v) ==
    /\ MayWrite(caller, m)
    /\ mapkey_vals' = Stored(m, key, v)
    /\ Reply("insert", caller, m, {key}, Ok(mapkey_vals[<<m, key>>]))
    /\ UNCHANGED <<access_control, shared_keys>>

RemoveEncryptedValue(caller, m, key) ==
    /\ MayWrite(caller, m)
    /\ mapkey_vals' = Stored(m, key, None)
    /\ Reply("remove value", caller, m, {key}, Ok(mapkey_vals[<<m, key>>]))
    /\ UNCHANGED <<access_control, shared_keys>>

(* The keys are collected first and removed then; the reply lists them.    *)
RemoveMapValues(caller, m) ==
    /\ MayWrite(caller, m)
    /\ mapkey_vals' = Cleared(m)
    /\ Reply("clear", caller, m, KeysIn(m), Ok(None))
    /\ UNCHANGED <<access_control, shared_keys>>

WriteRefused(op, caller, m) ==
    /\ ~ MayWrite(caller, m)
    /\ Reply(op, caller, m, {}, KM!EnsureUserCanWrite(caller, m))
    /\ UNCHANGED <<access_control, shared_keys, mapkey_vals>>

(* set_user_rights and remove_user are the key manager's.                  *)
UpdateRights == KM!Next /\ UNCHANGED mapkey_vals

UpdateValues ==
    \E caller \in Principal, m \in KeyId :
        \/ \E key \in MapKey, v \in Value : InsertEncryptedValue(caller, m, key, v)
        \/ \E key \in MapKey : RemoveEncryptedValue(caller, m, key)
        \/ RemoveMapValues(caller, m)
        \/ \E op \in {"insert", "remove value", "clear"} : WriteRefused(op, caller, m)

Next == UpdateRights \/ UpdateValues

Spec == Init /\ [][Next]_vars

-----------------------------------------------------------------------------
(* Properties.                                                             *)

(* The overview of all a caller's maps and the queries for one value tell  *)
(* the same: the overview does not panic, each value it shows is the one   *)
(* the query for it returns, and no value the caller can read is missing,  *)
(* whether the map is his own, shared with him, or both.                   *)
OverviewIsComplete ==
    \A c \in Principal :
        LET all == GetAllAccessibleEncryptedValues(c)
        IN  /\ IsOk(all)
            /\ \A m \in KeyId, key \in MapKey, v \in Value :
                  (\E e \in all.value : e[1] = m /\ <<key, v>> \in e[2])
                      <=> GetEncryptedValue(c, m, key) = Ok(v)

(* The overview with access lists opens the lists of exactly the maps the  *)
(* caller may see the rights of, and does not panic either.                *)
OverviewShowsLists ==
    \A c \in Principal :
        LET all == GetAllAccessibleEncryptedMaps(c)
        IN  /\ IsOk(all)
            /\ \A e \in all.value :
                  {a[1] : a \in e.access_control}
                    = IF IsOk(KM!EnsureUserCanGetUserRights(c, e.map))
                      THEN {u \in Principal : e.map \in KM!GetAccessibleSharedKeyIds(u)}
                      ELSE {}

(* What a map holds changes only in a call by a user who could write that  *)
(* map when he called, and such a call changes no other map and nobody's   *)
(* rights; in particular a user whose right to write is gone, or was       *)
(* lowered to reading, changes nothing from then on.  A clearing leaves    *)
(* nothing in its map and replies with the keys that were there, whatever  *)
(* maps come before it and after it.                                       *)
OnlyWritersWrite ==
    [][\A m \in KeyId :
          /\ (\E key \in MapKey : mapkey_vals'[<<m, key>>] # mapkey_vals[<<m, key>>]) =>
                /\ \/ call'.caller = Owner(m)
                   \/ CanWrite(access_control[<<call'.caller, m>>])
                /\ UNCHANGED <<access_control, shared_keys>>
                /\ \A n \in KeyId \ {m}, key \in MapKey :
                      mapkey_vals'[<<n, key>>] = mapkey_vals[<<n, key>>]
          /\ (call'.op = "clear" /\ call'.map = m /\ IsOk(call'.reply)) =>
                /\ call'.keys = {key \in MapKey : mapkey_vals[<<m, key>>] # None}
                /\ \A key \in MapKey : mapkey_vals'[<<m, key>>] = None]_vars
=============================================================================
