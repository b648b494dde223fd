------------------------ MODULE EncryptedMapsCanister ------------------------
(***************************************************************************)
(* The canister that export_encrypted_maps_canister! generates around the  *)
(* Rust EncryptedMaps, in both forms: "full", and "custom", which has the  *)
(* control plane and, in the place of the endpoints for values, the two of *)
(* the reference canister for that form.                                   *)
(*                                                                         *)
(* A request names maps and keys by bytes; the library knows them as       *)
(* Blob<32>.  An endpoint has the name it has in the code.  What waits for *)
(* the vetKD system is in KeyManagerCanister; here such an endpoint is     *)
(* answered with the request it sends.                                     *)
(***************************************************************************)
EXTENDS EncryptedMaps, Sequences, Naturals

CONSTANTS
    BlobSize,      \* 32 in the code
    Separator,     \* the domain separators that versions of the code pass
    InstallName,   \* the vetKD key names a canister is installed with
    Asked,         \* the maps requests name: <<owner, bytes>>
    AskedKey       \* the keys requests name: bytes

(* A blob is an array of the full size and the number of bytes in use.     *)
BytebufToBlob(bytes) ==
    IF Len(bytes) > BlobSize THEN Err("too large input")
    ELSE Ok([data |-> bytes \o [i \in 1 .. BlobSize - Len(bytes) |-> 0], size |-> Len(bytes)])

AsBytes(blob) == SubSeq(blob.data, 1, blob.size)

(* Slip (not the code): a name that is too long is cut.                    *)
MapIdCut(m) ==
    LET cut == SubSeq(m[2], 1, IF Len(m[2]) < BlobSize THEN Len(m[2]) ELSE BlobSize)
    IN  Ok(<<m[1], BytebufToBlob(cut).value>>)

MapId(m) ==
    LET name == BytebufToBlob(m[2])
    IN  IF IsOk(name) THEN Ok(<<m[1], name.value>>) ELSE name

AsAsked(id) == <<id[1], AsBytes(id[2])>>

ASSUME BlobAssumption ==
    /\ BlobSize \in Nat
    /\ Asked \subseteq Principal \X Seq(0 .. 255)
    /\ AskedKey \subseteq Seq(0 .. 255)

ASSUME NamesAssumption ==
    /\ KeyId = {<<m[1], BytebufToBlob(m[2]).value>> : m \in {a \in Asked : Len(a[2]) <= BlobSize}}
    /\ MapKey = {BytebufToBlob(key).value : key \in {a \in AskedKey : Len(a) <= BlobSize}}

VARIABLES
    form,             \* which endpoints the canister has
    config_cell,      \* stable memory: the configuration, or NoConfig
    encrypted_maps,   \* the thread-local object: its configuration, or NoConfig
    installed,        \* the configuration given when the data began (history)
    asked,            \* the map, and the key if there is one, the last update named
    linked            \* the entries the canister's own inserts reported (history)

config == <<config_cell, encrypted_maps, installed>>
canister == <<form, config, linked>>
canisterVars == <<vars, canister, asked>>

(* KeyManagerConfig.  Each version of the code passes its own separator.   *)
Config(names) == [domain_separator : Separator, key_id : names]
NoConfig == [domain_separator |-> None, key_id |-> None]

CanisterTypeOK ==
    /\ TypeOK
    /\ form \in {"full", "custom"}
    /\ {config_cell, encrypted_maps, installed} \subseteq Config(InstallName) \cup {NoConfig}
    /\ asked = <<>> \/ asked \in Asked \X SUBSET AskedKey
    /\ linked \subseteq KeyId \X MapKey

CanisterInit ==
    /\ Init
    /\ form \in {"full", "custom"}
    /\ config_cell = NoConfig /\ encrypted_maps = NoConfig /\ installed = NoConfig
    /\ asked = <<>>
    /\ linked = {}

-----------------------------------------------------------------------------
(* The life of the canister: the macro's setup opens the stable memory and *)
(* puts a new object in the place of the old one.                          *)

(* StableCell::init keeps the value it finds.                              *)
Opened(cell, default) == IF cell = NoConfig THEN default ELSE cell

Setup(separator, name) ==
    LET cell == Opened(config_cell, [domain_separator |-> separator, key_id |-> name])
    IN  config_cell' = cell /\ encrypted_maps' = cell

Install(separator, name) ==
    /\ installed = NoConfig
    /\ Setup(separator, name)
    /\ installed' = [domain_separator |-> separator, key_id |-> name]
    /\ UNCHANGED <<vars, form, asked, linked>>

PostUpgrade(separator) == Setup(separator, "")

Upgrade(separator) ==
    /\ installed # NoConfig
    /\ PostUpgrade(separator)
    /\ UNCHANGED <<vars, form, installed, asked, linked>>

-----------------------------------------------------------------------------
(* The queries.  The name of the map is decoded, the object unwrapped, the *)
(* key decoded, and then the library asked.                                *)

OnMap(m, answer) ==
    IF ~ IsOk(MapId(m)) THEN MapId(m)
    ELSE IF encrypted_maps = NoConfig THEN Trap
    ELSE answer

get_accessible_shared_map_names(caller) ==
    {AsAsked(id) : id \in KM!GetAccessibleSharedKeyIds(caller)}

get_owned_non_empty_map_names(caller) ==
    {AsBytes(id[2]) : id \in GetOwnedNonEmptyMaps(caller)}

get_shared_user_access_for_map(caller, m) ==
    OnMap(m, KM!GetSharedUserAccessForKey(caller, MapId(m).value))

get_user_rights(caller, m, user) ==
    OnMap(m, KM!GetUserRights(caller, MapId(m).value, user))

(* What the endpoint asks the vetKD system for: both parts of the          *)
(* configuration are copied.                                               *)
KeyOf(id, held) ==
    [key_id |-> held.key_id, context |-> held.domain_separator, input |-> id]

(* Slip (not the code): the key is for those who may write.                *)
vetkey_for_writers(caller, m) ==
    LET id == MapId(m).value
    IN  OnMap(m, IF IsOk(KM!EnsureUserCanWrite(caller, id))
                 THEN Ok(KeyOf(id, encrypted_maps))
                 ELSE KM!EnsureUserCanWrite(caller, id))

get_encrypted_vetkey(caller, m) ==
    LET id == MapId(m).value
    IN  OnMap(m, IF IsOk(KM!EnsureUserCanRead(caller, id))
                 THEN Ok(KeyOf(id, encrypted_maps))
                 ELSE KM!EnsureUserCanRead(caller, id))

Shown(keyvals) == {<<AsBytes(kv[1]), kv[2]>> : kv \in keyvals}

get_encrypted_values_for_map(caller, m) ==
    LET values == OnMap(m, GetEncryptedValuesForMap(caller, MapId(m).value))
    IN  IF IsOk(values) THEN Ok(Shown(values.value)) ELSE values

(* The same of the endpoint of the full form and of the custom one.        *)
get_encrypted_value(caller, m, key) ==
    OnMap(m, IF ~ IsOk(BytebufToBlob(key)) THEN BytebufToBlob(key)
             ELSE GetEncryptedValue(caller, MapId(m).value, BytebufToBlob(key).value))

get_all_accessible_encrypted_values(caller) ==
    LET all == GetAllAccessibleEncryptedValues(caller)
    IN  IF IsOk(all) THEN Ok({<<AsAsked(e[1]), Shown(e[2])>> : e \in all.value}) ELSE all

get_all_accessible_encrypted_maps(caller) ==
    LET all == GetAllAccessibleEncryptedMaps(caller)
    IN  IF IsOk(all)
        THEN Ok({[map |-> AsAsked(e.map), keyvals |-> Shown(e.keyvals),
                  access_control |-> e.access_control] : e \in all.value})
        ELSE all

-----------------------------------------------------------------------------
(* The updates.                                                            *)

Attached(m) == IsOk(MapId(m)) /\ encrypted_maps # NoConfig

(* The library's step, or its refusal, on the map that is named.           *)
Serve(m, keys, step) == Attached(m) /\ step /\ asked' = <<m, keys>>

set_user_rights(caller, m, user, r) ==
    LET id == MapId(m).value
    IN  /\ Serve(m, {}, \/ KM!SetUserRights(caller, id, user, r)
                          \/ KM!Unauthorized("set", caller, id, user)
                          \/ KM!OwnersRightsFixed("set", caller, id, user))
        /\ UNCHANGED <<mapkey_vals, canister>>

(* Slip (not the code): who removes a user clears the map, so that it is   *)
(* encrypted anew.                                                         *)
remove_user_and_values(caller, m, user) ==
    LET id == MapId(m).value
    IN  /\ Serve(m, {}, KM!RemoveUser(caller, id, user))
        /\ mapkey_vals' = Cleared(id)
        /\ UNCHANGED canister

remove_user(caller, m, user) ==
    LET id == MapId(m).value
    IN  /\ Serve(m, {}, \/ KM!RemoveUser(caller, id, user)
                          \/ KM!Unauthorized("remove", caller, id, user)
                          \/ KM!OwnersRightsFixed("remove", caller, id, user))
        /\ UNCHANGED <<mapkey_vals, canister>>

insert_encrypted_value(caller, m, key, v) ==
    LET id == MapId(m).value
    IN  /\ form = "full" /\ IsOk(BytebufToBlob(key))
        /\ Serve(m, {key}, \/ InsertEncryptedValue(caller, id, BytebufToBlob(key).value, v)
                         \/ WriteRefused("insert", caller, id))
        /\ UNCHANGED canister

remove_encrypted_value(caller, m, key) ==
    LET id == MapId(m).value
    IN  /\ form = "full" /\ IsOk(BytebufToBlob(key))
        /\ Serve(m, {key}, \/ RemoveEncryptedValue(caller, id, BytebufToBlob(key).value)
                         \/ WriteRefused("remove value", caller, id))
        /\ UNCHANGED canister

remove_map_values(caller, m) ==
    LET id == MapId(m).value
    IN  /\ form = "full"
        /\ Serve(m, {}, RemoveMapValues(caller, id) \/ WriteRefused("clear", caller, id))
        /\ UNCHANGED canister

(* Here a canister keeps what it links to the value, in the same call.     *)
insert_encrypted_value_custom(caller, m, key, v) ==
    LET id == MapId(m).value
        blob == BytebufToBlob(key)
    IN  /\ form = "custom" /\ IsOk(blob)
        /\ Serve(m, {key}, \/ InsertEncryptedValue(caller, id, blob.value, v)
                         \/ WriteRefused("insert", caller, id))
        /\ linked' = IF IsOk(call'.reply) THEN linked \cup {<<id, blob.value>>} ELSE linked
        /\ UNCHANGED <<form, config>>

(* A map or a key that is too long ends any of the updates that name it.   *)
TooLarge(m, keys) ==
    /\ encrypted_maps # NoConfig
    /\ ~ IsOk(MapId(m)) \/ \E key \in keys : ~ IsOk(BytebufToBlob(key))
    /\ call' = [op |-> "decode", reply |-> Err("too large input")]
    /\ asked' = <<m, keys>>
    /\ UNCHANGED <<access_control, shared_keys, mapkey_vals, canister>>

CanisterNext ==
    \/ \E separator \in Separator :
        \/ \E name \in InstallName : Install(separator, name)
        \/ Upgrade(separator)
    \/ \E caller \in Principal, m \in Asked :
        \/ \E user \in Principal, r \in Rights : set_user_rights(caller, m, user, r)
        \/ \E user \in Principal : remove_user(caller, m, user)
        \/ \E key \in AskedKey, v \in Value : insert_encrypted_value(caller, m, key, v)
        \/ \E key \in AskedKey : remove_encrypted_value(caller, m, key)
        \/ remove_map_values(caller, m)
        \/ \E key \in AskedKey, v \in Value : insert_encrypted_value_custom(caller, m, key, v)
    \/ \E m \in Asked, keys \in {{}} \cup {{key} : key \in AskedKey} : TooLarge(m, keys)

CanisterSpec == CanisterInit /\ [][CanisterNext]_canisterVars

-----------------------------------------------------------------------------
(* Properties.                                                             *)

(* A request reaches the map and the entry whose bytes it names and no     *)
(* other: not one whose name is the beginning of a longer one, nor one     *)
(* whose name has zeros where the other ends.                              *)
RequestsReachTheirOwn ==
    [][/\ \A e \in KeyId \X MapKey :
            mapkey_vals'[e] # mapkey_vals[e] =>
                asked'[1] = AsAsked(e[1]) /\ asked'[2] \subseteq {AsBytes(e[2])}
       /\ \A u \in Principal, id \in KeyId :
            access_control'[<<u, id>>] # access_control[<<u, id>>] =>
                asked' = <<AsAsked(id), {}>>]_canisterVars

(* Each map that a listing names can be asked for by the bytes it is       *)
(* listed with: the caller gets the values the overview shows, one by one  *)
(* and together, and the key that decrypts them, which is the same for all *)
(* users of the map and is derived under the key name and domain separator *)
(* of the installation; and after an upgrade as before.                    *)
ListedMapsOpen ==
    installed # NoConfig => \A c \in Principal :
        LET shown == get_all_accessible_encrypted_values(c).value
            maps == {e[1] : e \in shown}
        IN  /\ \A e \in shown :
                  /\ get_encrypted_values_for_map(c, e[1]) = Ok(e[2])
                  /\ \A kv \in e[2] : get_encrypted_value(c, e[1], kv[1]) = Ok(kv[2])
            /\ maps = {e.map : e \in get_all_accessible_encrypted_maps(c).value}
            /\ maps = get_accessible_shared_map_names(c)
                         \cup {<<c, name>> : name \in get_owned_non_empty_map_names(c)}
            /\ \A m \in maps :
                  /\ IsOk(get_encrypted_vetkey(c, m))
                  /\ get_encrypted_vetkey(c, m).value = KeyOf(MapId(m).value, installed)
                  /\ m[1] = c => /\ IsOk(get_shared_user_access_for_map(c, m))
                                 /\ get_user_rights(c, m, c) = Ok(OwnerRights)

(* In the custom form the state that the canister links to its values, in  *)
(* the calls that write them, stays in step with them: no endpoint of the  *)
(* control plane adds or drops a value behind the canister's back.         *)
LinkedStateInStep ==
    form = "custom" => linked = {e \in KeyId \X MapKey : mapkey_vals[e] # None}
=============================================================================
