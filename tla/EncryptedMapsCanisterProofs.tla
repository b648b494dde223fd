-------------------- MODULE EncryptedMapsCanisterProofs --------------------
(***************************************************************************)
(* Proofs about the Rust EncryptedMaps and the canister around them, for   *)
(* any users, names, keys, values, size of a blob and type T of access     *)
(* rights.                                                                 *)
(***************************************************************************)
EXTENDS EncryptedMapsCanister, SequenceTheorems, TLAPS

-----------------------------------------------------------------------------
(* The scans.                                                              *)

(* No key comes before itself, and none before the empty blob.             *)
LEMMA Orders ==
  /\ \A u \in Principal : <<u, u>> \notin PrincipalBefore
  /\ \A b \in KeyName \cup MapKey : <<b, b>> \notin BlobBefore /\ <<b, EmptyBlob>> \notin BlobBefore
BY OrderAssumption DEF IsOrder

(* The scan that begins at a map's id with an empty key finds the entries  *)
(* of that map, from the first to the last.                                *)
LEMMA ScanOfMap ==
  ASSUME NEW m \in KeyId
  PROVE  EntriesOf(m) = {e \in KeyId \X MapKey : e[1] = m /\ mapkey_vals[e] # None}
<1> DEFINE start == <<m, EmptyBlob>>
           wanted == {m} \X MapKey
<1>1. m[1] \in Principal /\ m[2] \in KeyName
  BY KeyIdAssumption
<1>2. ~ IdPrecedes(m, m)
  BY <1>1, Orders DEF IdPrecedes
<1>3. ASSUME NEW e \in KeyId \X MapKey, e[1] = m
      PROVE  ~ Precedes(e, start)
  BY <1>2, <1>3, Orders DEF Precedes
<1>4. ASSUME NEW d \in From(start) \ wanted, NEW e \in KeyId \X MapKey, e[1] = m
      PROVE  ~ Precedes(d, e)
  <2>1. d \in KeyId \X MapKey /\ ~ Precedes(d, start) /\ d[1] # m
    BY <1>4 DEF From
  <2> QED
    BY <1>4, <2>1 DEF Precedes
<1>5. ASSUME NEW e \in KeyId \X MapKey
      PROVE  e \in EntriesOf(m) <=> e[1] = m /\ mapkey_vals[e] # None
  <2>1. e \in wanted <=> e[1] = m
    OBVIOUS
  <2> QED
    BY <1>3, <1>4, <1>5, <2>1 DEF EntriesOf, Scan, From
<1> QED
  BY <1>5 DEF EntriesOf, Scan, From

LEMMA KeysOfMap ==
  ASSUME NEW m \in KeyId
  PROVE  /\ KeysIn(m) = {key \in MapKey : mapkey_vals[<<m, key>>] # None}
         /\ {<<e[2], mapkey_vals[e]>> : e \in EntriesOf(m)}
               = {<<key, mapkey_vals[<<m, key>>]>> : key \in KeysIn(m)}
         /\ Cleared(m)
               = [e \in KeyId \X MapKey |-> IF e[1] = m THEN None ELSE mapkey_vals[e]]
<1>1. EntriesOf(m) = {e \in KeyId \X MapKey : e[1] = m /\ mapkey_vals[e] # None}
  BY ScanOfMap
<1>2. ASSUME NEW key
      PROVE  key \in KeysIn(m) <=> key \in MapKey /\ mapkey_vals[<<m, key>>] # None
  <2>1. ASSUME key \in MapKey, mapkey_vals[<<m, key>>] # None
        PROVE  key \in KeysIn(m)
    <3>1. <<m, key>> \in EntriesOf(m) /\ <<m, key>>[2] = key
      BY <1>1, <2>1
    <3> QED
      BY <3>1 DEF KeysIn
  <2>2. ASSUME key \in KeysIn(m)
        PROVE  key \in MapKey /\ mapkey_vals[<<m, key>>] # None
    <3>1. PICK e \in EntriesOf(m) : key = e[2]
      BY <2>2 DEF KeysIn
    <3>2. e = <<m, key>> /\ key \in MapKey
      BY <1>1, <3>1
    <3> QED
      BY <1>1, <3>2
  <2> QED
    BY <2>1, <2>2
<1>3. KeysIn(m) = {key \in MapKey : mapkey_vals[<<m, key>>] # None}
  BY <1>2
<1>4. {<<e[2], mapkey_vals[e]>> : e \in EntriesOf(m)}
        = {<<key, mapkey_vals[<<m, key>>]>> : key \in KeysIn(m)}
  <2> DEFINE pair(e) == <<e[2], mapkey_vals[e]>>
             kept(key) == <<key, mapkey_vals[<<m, key>>]>>
  <2>1. ASSUME NEW e \in EntriesOf(m)
        PROVE  e[2] \in KeysIn(m) /\ pair(e) = kept(e[2])
    <3>1. e = <<m, e[2]>>
      BY <1>1
    <3> QED
      BY <3>1 DEF KeysIn
  <2>2. ASSUME NEW key \in KeysIn(m)
        PROVE  <<m, key>> \in EntriesOf(m) /\ kept(key) = pair(<<m, key>>)
    BY <1>1, <1>3
  <2> HIDE DEF pair, kept
  <2>3. {pair(e) : e \in EntriesOf(m)} = {kept(key) : key \in KeysIn(m)}
    BY <2>1, <2>2
  <2> QED
    BY <2>3 DEF pair, kept
<1>5. \A e \in KeyId \X MapKey :
         (IF e[1] = m /\ e[2] \in KeysIn(m) THEN None ELSE mapkey_vals[e])
            = IF e[1] = m THEN None ELSE mapkey_vals[e]
  <2> TAKE e \in KeyId \X MapKey
  <2>1. CASE e[1] = m
    BY <1>3, <2>1
  <2> QED
    BY <2>1
<1>6. Cleared(m) = [e \in KeyId \X MapKey |-> IF e[1] = m THEN None ELSE mapkey_vals[e]]
  BY <1>5 DEF Cleared
<1> QED
  BY <1>3, <1>4, <1>6

(* The scan for the maps a user owns.                                      *)
LEMMA OwnedMaps ==
  ASSUME NEW c \in Principal
  PROVE  GetOwnedNonEmptyMaps(c) = {m \in KeyId : Owner(m) = c /\ KeysIn(m) # {}}
<1> DEFINE owned == {m \in KeyId : Owner(m) = c}
           start == <<<<c, EmptyBlob>>, EmptyBlob>>
           wanted == owned \X MapKey
           found == {e \in KeyId \X MapKey : Owner(e[1]) = c /\ mapkey_vals[e] # None}
<1>1. \A m \in KeyId : m[1] \in Principal /\ m[2] \in KeyName
  BY KeyIdAssumption
<1>2. ASSUME NEW e \in KeyId \X MapKey, Owner(e[1]) = c
      PROVE  ~ Precedes(e, start)
  <2>1. ~ IdPrecedes(e[1], <<c, EmptyBlob>>)
    BY <1>1, <1>2, Orders DEF IdPrecedes, Owner
  <2> QED
    BY <2>1, Orders DEF Precedes
<1>3. ASSUME NEW d \in From(start) \ wanted, NEW e \in KeyId \X MapKey, Owner(e[1]) = c
      PROVE  ~ Precedes(d, e)
  <2>1. d \in KeyId \X MapKey /\ ~ Precedes(d, start) /\ Owner(d[1]) # c
    BY <1>3 DEF From
  <2>2. ~ IdPrecedes(d[1], <<c, EmptyBlob>>)
    BY <2>1 DEF Precedes
  <2>3. <<d[1][1], c>> \notin PrincipalBefore
    BY <2>2 DEF IdPrecedes
  <2> QED
    BY <1>3, <2>1, <2>3 DEF Precedes, IdPrecedes, Owner
<1>4. Scan(start, wanted) = found
  <2>1. ASSUME NEW e \in KeyId \X MapKey
        PROVE  e \in Scan(start, wanted) <=> Owner(e[1]) = c /\ mapkey_vals[e] # None
    <3>1. e \in wanted <=> Owner(e[1]) = c
      OBVIOUS
    <3> HIDE DEF wanted, start
    <3> QED
      BY <1>2, <1>3, <2>1, <3>1 DEF Scan, From
  <2> QED
    BY <2>1 DEF Scan, From
<1>5. \A m \in KeyId : KeysIn(m) # {} <=> \E key \in MapKey : mapkey_vals[<<m, key>>] # None
  <2> TAKE m \in KeyId
  <2>1. KeysIn(m) = {key \in MapKey : mapkey_vals[<<m, key>>] # None}
    BY KeysOfMap
  <2> QED
    BY <2>1
<1>6. {e[1] : e \in found} = {m \in KeyId : Owner(m) = c /\ KeysIn(m) # {}}
  <2>1. ASSUME NEW e \in found
        PROVE  e[1] \in KeyId /\ Owner(e[1]) = c /\ KeysIn(e[1]) # {}
    <3>1. e[1] \in KeyId /\ e[2] \in MapKey /\ e = <<e[1], e[2]>>
      OBVIOUS
    <3> QED
      BY <1>5, <3>1
  <2>2. ASSUME NEW m \in KeyId, Owner(m) = c, KeysIn(m) # {}
        PROVE  \E e \in found : m = e[1]
    <3>1. PICK key \in MapKey : mapkey_vals[<<m, key>>] # None
      BY <1>5, <2>2
    <3>2. <<m, key>> \in found /\ <<m, key>>[1] = m
      BY <2>2, <3>1
    <3> QED
      BY <3>2
  <2> HIDE DEF found
  <2> QED
    BY <2>1, <2>2
<1> HIDE DEF found
<1> QED
  BY <1>4, <1>6 DEF GetOwnedNonEmptyMaps

-----------------------------------------------------------------------------
(* The maps.                                                               *)

(* What the guards of the key manager ask for. *)
LEMMA MayRead ==
  ASSUME NEW u \in Principal, NEW m \in KeyId
  PROVE  /\ IsOk(KM!EnsureUserCanRead(u, m))
              <=> u = Owner(m) \/ access_control[<<u, m>>] \in Readers
         /\ ~ IsOk(KM!EnsureUserCanRead(u, m))
              => KM!EnsureUserCanRead(u, m) = Err("unauthorized")
BY DEF KM!IsOk, IsOk, KM!EnsureUserCanRead, KM!EnsureUser, KM!Ok, KM!Err, Ok, Err, KM!Owner, Owner

LEMMA WritersMayWrite ==
  ASSUME NEW u \in Principal, NEW m \in KeyId, MayWrite(u, m)
  PROVE  u = Owner(m) \/ CanWrite(access_control[<<u, m>>])
BY DEF MayWrite, IsOk, KM!EnsureUserCanWrite, KM!EnsureUser, KM!Ok, KM!Err, KM!Owner,
       Owner, CanWrite

(* An update of rights: what it does to the key manager's two maps.        *)
LEMMA RightsStep ==
  ASSUME KM!Next
  PROVE  \/ UNCHANGED <<access_control, shared_keys>>
         \/ \E user \in Principal, m \in KeyId, r \in Rights :
               /\ access_control' = [access_control EXCEPT ![<<user, m>>] = r]
               /\ shared_keys' = shared_keys \cup {<<m, user>>}
         \/ \E user \in Principal, m \in KeyId :
               /\ access_control' = [access_control EXCEPT ![<<user, m>>] = None]
               /\ shared_keys' = shared_keys \ {<<m, user>>}
<1>1. ASSUME NEW user \in Principal, NEW m \in KeyId, NEW caller \in Principal,
             NEW r \in Rights, KM!SetUserRights(caller, m, user, r)
      PROVE  /\ access_control' = [access_control EXCEPT ![<<user, m>>] = r]
             /\ shared_keys' = shared_keys \cup {<<m, user>>}
  BY <1>1 DEF KM!SetUserRights, KM!Entry, KM!Shared
<1>2. ASSUME NEW user \in Principal, NEW m \in KeyId, NEW caller \in Principal,
             KM!RemoveUser(caller, m, user)
      PROVE  /\ access_control' = [access_control EXCEPT ![<<user, m>>] = None]
             /\ shared_keys' = shared_keys \ {<<m, user>>}
  BY <1>2 DEF KM!RemoveUser, KM!Entry, KM!Unshared, KM!None, None
<1>3. PICK caller \in Principal, user \in Principal, m \in KeyId :
         \/ \E r \in Rights : KM!SetUserRights(caller, m, user, r)
         \/ KM!RemoveUser(caller, m, user)
         \/ \E op \in {"set", "remove"} : KM!Unauthorized(op, caller, m, user)
         \/ \E op \in {"set", "remove"} : KM!OwnersRightsFixed(op, caller, m, user)
  BY DEF KM!Next
<1>4. ASSUME NEW op, KM!Unauthorized(op, caller, m, user) \/ KM!OwnersRightsFixed(op, caller, m, user)
      PROVE  UNCHANGED <<access_control, shared_keys>>
  BY <1>4 DEF KM!Unauthorized, KM!OwnersRightsFixed
<1> QED
  BY <1>1, <1>2, <1>3, <1>4

-----------------------------------------------------------------------------
LEMMA TypeStep ==
  ASSUME TypeOK, [Next]_vars
  PROVE  TypeOK'
<1>1. CASE UNCHANGED vars
  BY <1>1 DEF vars, TypeOK
<1>2. CASE UpdateRights
  <2>1. KM!Next /\ UNCHANGED mapkey_vals
    BY <1>2 DEF UpdateRights
  <2>2. ASSUME NEW user \in Principal, NEW m \in KeyId, NEW r \in MaybeRights
        PROVE  /\ [access_control EXCEPT ![<<user, m>>] = r] \in [Principal \X KeyId -> MaybeRights]
               /\ shared_keys \cup {<<m, user>>} \subseteq KeyId \X Principal
               /\ shared_keys \ {<<m, user>>} \subseteq KeyId \X Principal
    BY DEF TypeOK
  <2>3. Rights \subseteq MaybeRights /\ None \in MaybeRights
    BY DEF MaybeRights
  <2>4. /\ access_control' \in [Principal \X KeyId -> MaybeRights]
        /\ shared_keys' \subseteq KeyId \X Principal
    BY <2>1, <2>2, <2>3, RightsStep DEF TypeOK
  <2> QED
    BY <2>1, <2>4 DEF TypeOK
<1>3. ASSUME NEW caller \in Principal, NEW m \in KeyId, NEW key \in MapKey,
             NEW v \in Value, InsertEncryptedValue(caller, m, key, v)
      PROVE  TypeOK'
  BY <1>3 DEF InsertEncryptedValue, Stored, TypeOK
<1>4. ASSUME NEW caller \in Principal, NEW m \in KeyId, NEW key \in MapKey,
             RemoveEncryptedValue(caller, m, key)
      PROVE  TypeOK'
  BY <1>4 DEF RemoveEncryptedValue, Stored, TypeOK
<1>5. ASSUME NEW caller \in Principal, NEW m \in KeyId, RemoveMapValues(caller, m)
      PROVE  TypeOK'
  BY <1>5, KeysOfMap DEF RemoveMapValues, TypeOK
<1>6. ASSUME NEW caller \in Principal, NEW m \in KeyId, NEW op, WriteRefused(op, caller, m)
      PROVE  TypeOK'
  BY <1>6 DEF WriteRefused, TypeOK
<1> QED
  BY <1>1, <1>2, <1>3, <1>4, <1>5, <1>6 DEF Next, UpdateValues

(* The rights and the values keep the form the queries rely on: each entry *)
(* of mapkey_vals is a value or nothing, whatever updates of rights come   *)
(* between those of values.                                                *)
THEOREM TypeCorrect == Spec => []TypeOK
<1>1. Init => TypeOK
  BY DEF Init, KM!Init, KM!None, None, TypeOK, MaybeRights
<1>2. TypeOK /\ [Next]_vars => TypeOK'
  BY TypeStep
<1> QED
  BY <1>1, <1>2, PTL DEF Spec

LEMMA IndexesStep ==
  ASSUME TypeOK, KM!IndexesAgree, [Next]_vars
  PROVE  KM!IndexesAgree'
<1>1. CASE UNCHANGED <<access_control, shared_keys>>
  BY <1>1 DEF KM!IndexesAgree
<1>2. CASE KM!Next
  <2>1. CASE \E user \in Principal, m \in KeyId, r \in Rights :
               /\ access_control' = [access_control EXCEPT ![<<user, m>>] = r]
               /\ shared_keys' = shared_keys \cup {<<m, user>>}
    BY <2>1, RightsAssumption DEF KM!IndexesAgree, KM!None, None, TypeOK
  <2>2. CASE \E user \in Principal, m \in KeyId :
               /\ access_control' = [access_control EXCEPT ![<<user, m>>] = None]
               /\ shared_keys' = shared_keys \ {<<m, user>>}
    BY <2>2 DEF KM!IndexesAgree, KM!None, None, TypeOK
  <2> QED
    BY <1>1, <1>2, <2>1, <2>2, RightsStep
<1> QED
  BY <1>1, <1>2 DEF Next, UpdateRights, UpdateValues, vars, InsertEncryptedValue,
                    RemoveEncryptedValue, RemoveMapValues, WriteRefused

(* The maps of rights agree inside EncryptedMaps too, where the updates of *)
(* values come between those of rights.                                    *)
THEOREM MapsAgree == Spec => []KM!IndexesAgree
<1>1. Init => KM!IndexesAgree
  BY DEF Init, KM!Init, KM!IndexesAgree
<1>2. TypeOK /\ KM!IndexesAgree /\ [Next]_vars => KM!IndexesAgree'
  BY IndexesStep
<1> QED
  BY <1>1, <1>2, TypeCorrect, PTL DEF Spec

-----------------------------------------------------------------------------
(* What a call of the key manager leaves is no clearing.                   *)
LEMMA RightsCall ==
  ASSUME KM!Next
  PROVE  call'.op # "clear"
<1>1. ASSUME NEW op \in {"set", "remove"}, NEW caller, NEW k, NEW user, NEW reply,
             KM!Reply(op, caller, k, user, reply)
      PROVE  call'.op # "clear"
  BY <1>1 DEF KM!Reply
<1> QED
  BY <1>1 DEF KM!Next, KM!SetUserRights, KM!RemoveUser, KM!Unauthorized, KM!OwnersRightsFixed

(* What a map holds changes only in a call by a user who could write that  *)
(* map when he called; the call touches no other map and nobody's rights;  *)
(* and a clearing leaves none of the map's keys and replies with them all. *)
THEOREM WritersWrite == Spec => OnlyWritersWrite
<1>1. ASSUME TypeOK, Next, NEW m \in KeyId, NEW k \in MapKey,
             mapkey_vals'[<<m, k>>] # mapkey_vals[<<m, k>>]
      PROVE  /\ \/ call'.caller = Owner(m)
                \/ CanWrite(access_control[<<call'.caller, m>>])
             /\ UNCHANGED <<access_control, shared_keys>>
             /\ \A n \in KeyId \ {m}, key \in MapKey :
                   mapkey_vals'[<<n, key>>] = mapkey_vals[<<n, key>>]
  <2>1. ASSUME NEW caller \in Principal, NEW j \in KeyId, NEW key \in MapKey, NEW v,
               mapkey_vals' = Stored(j, key, v)
        PROVE  /\ j = m
               /\ \A n \in KeyId \ {m}, other \in MapKey :
                     mapkey_vals'[<<n, other>>] = mapkey_vals[<<n, other>>]
    BY <1>1, <2>1 DEF Stored, TypeOK
  <2>2. ASSUME NEW caller \in Principal, NEW j \in KeyId, NEW key \in MapKey, NEW v \in Value,
               InsertEncryptedValue(caller, j, key, v)
        PROVE  /\ j = m /\ MayWrite(caller, m) /\ call'.caller = caller
               /\ UNCHANGED <<access_control, shared_keys>>
               /\ \A n \in KeyId \ {m}, other \in MapKey :
                     mapkey_vals'[<<n, other>>] = mapkey_vals[<<n, other>>]
    BY <2>1, <2>2 DEF InsertEncryptedValue, Reply
  <2>3. ASSUME NEW caller \in Principal, NEW j \in KeyId, NEW key \in MapKey,
               RemoveEncryptedValue(caller, j, key)
        PROVE  /\ j = m /\ MayWrite(caller, m) /\ call'.caller = caller
               /\ UNCHANGED <<access_control, shared_keys>>
               /\ \A n \in KeyId \ {m}, other \in MapKey :
                     mapkey_vals'[<<n, other>>] = mapkey_vals[<<n, other>>]
    BY <2>1, <2>3 DEF RemoveEncryptedValue, Reply
  <2>4. ASSUME NEW caller \in Principal, NEW j \in KeyId, RemoveMapValues(caller, j)
        PROVE  /\ j = m /\ MayWrite(caller, m) /\ call'.caller = caller
               /\ UNCHANGED <<access_control, shared_keys>>
               /\ \A n \in KeyId \ {m}, other \in MapKey :
                     mapkey_vals'[<<n, other>>] = mapkey_vals[<<n, other>>]
    <3>1. mapkey_vals' = [e \in KeyId \X MapKey |-> IF e[1] = j THEN None ELSE mapkey_vals[e]]
      BY <2>4, KeysOfMap DEF RemoveMapValues
    <3>2. j = m
      BY <1>1, <3>1
    <3> QED
      BY <2>4, <3>1, <3>2 DEF RemoveMapValues, Reply
  <2> QED
    BY <1>1, <2>2, <2>3, <2>4, WritersMayWrite
    DEF Next, UpdateRights, UpdateValues, WriteRefused
<1>2. ASSUME TypeOK, Next, NEW m \in KeyId, call'.op = "clear", call'.map = m, IsOk(call'.reply)
      PROVE  /\ call'.keys = {key \in MapKey : mapkey_vals[<<m, key>>] # None}
             /\ \A key \in MapKey : mapkey_vals'[<<m, key>>] = None
  <2>1. ASSUME NEW caller \in Principal, NEW j \in KeyId, RemoveMapValues(caller, j)
        PROVE  /\ call'.keys = {key \in MapKey : mapkey_vals[<<m, key>>] # None}
               /\ \A key \in MapKey : mapkey_vals'[<<m, key>>] = None
    <3>1. j = m /\ call'.keys = KeysIn(m)
      BY <1>2, <2>1 DEF RemoveMapValues, Reply
    <3>2. mapkey_vals' = [e \in KeyId \X MapKey |-> IF e[1] = m THEN None ELSE mapkey_vals[e]]
      BY <2>1, <3>1, KeysOfMap DEF RemoveMapValues
    <3> QED
      BY <3>1, <3>2, KeysOfMap
  <2>2. ASSUME NEW caller \in Principal, NEW j \in KeyId, NEW op, WriteRefused(op, caller, j)
        PROVE  FALSE
    BY <1>2, <2>2 DEF WriteRefused, Reply, MayWrite, IsOk
  <2>3. ASSUME NEW caller, NEW j, NEW key, NEW v,
               InsertEncryptedValue(caller, j, key, v) \/ RemoveEncryptedValue(caller, j, key)
        PROVE  FALSE
    <3>1. CASE InsertEncryptedValue(caller, j, key, v)
      <4>1. call'.op = "insert"
        BY <3>1 DEF InsertEncryptedValue, Reply
      <4> QED
        BY <1>2, <4>1
    <3>2. CASE RemoveEncryptedValue(caller, j, key)
      <4>1. call'.op = "remove value"
        BY <3>2 DEF RemoveEncryptedValue, Reply
      <4> QED
        BY <1>2, <4>1
    <3> QED
      BY <2>3, <3>1, <3>2
  <2>4. ~ KM!Next
    BY <1>2, RightsCall
  <2> QED
    BY <1>2, <2>1, <2>2, <2>3, <2>4 DEF Next, UpdateRights, UpdateValues
<1>3. TypeOK /\ [Next]_vars =>
        [\A m \in KeyId :
          /\ (\E key \in MapKey : mapkey_vals'[<<m, key>>] # mapkey_vals[<<m, key>>]) =>
                /\ \/ call'.caller = Owner(m)
                   \/ CanWrite(access_control[<<call'.caller, m>>])
                /\ UNCHANGED <<access_control, shared_keys>>
                /\ \A n \in KeyId \ {m}, key \in MapKey :
                      mapkey_vals'[<<n, key>>] = mapkey_vals[<<n, key>>]
          /\ (call'.op = "clear" /\ call'.map = m /\ IsOk(call'.reply)) =>
                /\ call'.keys = {key \in MapKey : mapkey_vals[<<m, key>>] # None}
                /\ \A key \in MapKey : mapkey_vals'[<<m, key>>] = None]_vars
  BY <1>1, <1>2
<1> QED
  BY <1>3, TypeCorrect, PTL DEF Spec, OnlyWritersWrite

-----------------------------------------------------------------------------
(* The overviews.  A map that is listed can be read, provided every right  *)
(* of T allows reading; conversely a value that can be read is in a map    *)
(* that is listed.                                                         *)
LEMMA ListedIsReadable ==
  ASSUME Rights \subseteq Readers, TypeOK, NEW c \in Principal, NEW m \in GetAccessibleMapIds(c)
  PROVE  /\ m \in KeyId
         /\ IsOk(KM!EnsureUserCanRead(c, m))
         /\ GetEncryptedValuesForMap(c, m) = Ok({<<key, mapkey_vals[<<m, key>>]>> : key \in KeysIn(m)})
<1>1. /\ m \in KeyId
      /\ c = Owner(m) \/ access_control[<<c, m>>] \in Readers
  BY OwnedMaps DEF GetAccessibleMapIds, KM!GetAccessibleSharedKeyIds, TypeOK,
                   MaybeRights, KM!None, None
<1> QED
  BY <1>1, MayRead, KeysOfMap DEF GetEncryptedValuesForMap

LEMMA ReadableIsListed ==
  ASSUME NEW c \in Principal, NEW m \in KeyId, KeysIn(m) # {},
         IsOk(KM!EnsureUserCanRead(c, m))
  PROVE  m \in GetAccessibleMapIds(c)
BY MayRead, RightsAssumption, OwnedMaps
DEF GetAccessibleMapIds, KM!GetAccessibleSharedKeyIds, KM!None, None

(* What the overview shows: each listed map with all it holds.             *)
Held(m) == {<<key, mapkey_vals[<<m, key>>]>> : key \in KeysIn(m)}

LEMMA OverviewContents ==
  ASSUME Rights \subseteq Readers, TypeOK, NEW c \in Principal
  PROVE  /\ \A m \in GetAccessibleMapIds(c) : GetEncryptedValuesForMap(c, m) = Ok(Held(m))
         /\ GetAllAccessibleEncryptedValues(c) = Ok({<<m, Held(m)>> : m \in GetAccessibleMapIds(c)})
<1> DEFINE maps == GetAccessibleMapIds(c)
<1>1. \A m \in maps : GetEncryptedValuesForMap(c, m) = Ok(Held(m))
  BY ListedIsReadable DEF Held
<1> HIDE DEF maps
<1>2. \A m \in maps : /\ IsOk(GetEncryptedValuesForMap(c, m))
                       /\ GetEncryptedValuesForMap(c, m).value = Held(m)
  BY <1>1 DEF IsOk, Ok
<1>3. GetAllAccessibleEncryptedValues(c) = Ok({<<m, GetEncryptedValuesForMap(c, m).value>> : m \in maps})
  BY <1>2 DEF GetAllAccessibleEncryptedValues, maps
<1>4. GetAllAccessibleEncryptedValues(c) = Ok({<<m, Held(m)>> : m \in maps})
  BY <1>2, <1>3
<1> QED
  BY <1>1, <1>4 DEF maps

LEMMA OverviewFromTypes ==
  ASSUME Rights \subseteq Readers, TypeOK
  PROVE  OverviewIsComplete
<1> SUFFICES ASSUME NEW c \in Principal
             PROVE  LET all == GetAllAccessibleEncryptedValues(c)
                    IN  /\ IsOk(all)
                        /\ \A m \in KeyId, key \in MapKey, v \in Value :
                              (\E e \in all.value : e[1] = m /\ <<key, v>> \in e[2])
                                  <=> GetEncryptedValue(c, m, key) = Ok(v)
  BY DEF OverviewIsComplete
<1> DEFINE maps == GetAccessibleMapIds(c)
           all == GetAllAccessibleEncryptedValues(c)
<1>1. IsOk(all) /\ all.value = {<<m, Held(m)>> : m \in maps}
  BY OverviewContents DEF IsOk, Ok
<1>2. ASSUME NEW m \in KeyId, NEW key \in MapKey, NEW v \in Value
      PROVE  (\E e \in all.value : e[1] = m /\ <<key, v>> \in e[2])
               <=> GetEncryptedValue(c, m, key) = Ok(v)
  <2>1. (\E e \in all.value : e[1] = m /\ <<key, v>> \in e[2])
          <=> m \in maps /\ <<key, v>> \in Held(m)
    <3> HIDE DEF maps, all
    <3>1. ASSUME NEW e \in all.value, e[1] = m, <<key, v>> \in e[2]
          PROVE  m \in maps /\ <<key, v>> \in Held(m)
      BY <1>1, <3>1
    <3>2. ASSUME m \in maps, <<key, v>> \in Held(m)
          PROVE  \E e \in all.value : e[1] = m /\ <<key, v>> \in e[2]
      <4>1. <<m, Held(m)>> \in all.value
        BY <1>1, <3>2
      <4>2. <<m, Held(m)>>[1] = m /\ <<key, v>> \in <<m, Held(m)>>[2]
        BY <3>2
      <4> QED
        BY <4>1, <4>2
    <3> QED
      BY <3>1, <3>2
  <2>2. <<key, v>> \in Held(m) <=> mapkey_vals[<<m, key>>] = v
    BY ValueAssumption, KeysOfMap DEF Held
  <2>3. GetEncryptedValue(c, m, key) = Ok(v)
          <=> IsOk(KM!EnsureUserCanRead(c, m)) /\ mapkey_vals[<<m, key>>] = v
    <3>1. CASE IsOk(KM!EnsureUserCanRead(c, m))
      <4>1. GetEncryptedValue(c, m, key) = Ok(mapkey_vals[<<m, key>>])
        BY <3>1 DEF GetEncryptedValue
      <4> QED
        BY <3>1, <4>1 DEF Ok
    <3>2. CASE ~ IsOk(KM!EnsureUserCanRead(c, m))
      <4>1. GetEncryptedValue(c, m, key) = Err("unauthorized")
        BY <3>2, MayRead DEF GetEncryptedValue
      <4> QED
        BY <3>2, <4>1 DEF Ok, Err
    <3> QED
      BY <3>1, <3>2
  <2>4. m \in maps => IsOk(KM!EnsureUserCanRead(c, m))
    BY ListedIsReadable
  <2>5. IsOk(KM!EnsureUserCanRead(c, m)) /\ mapkey_vals[<<m, key>>] = v => m \in maps
    BY ReadableIsListed, ValueAssumption, KeysOfMap
  <2> QED
    BY <2>1, <2>2, <2>3, <2>4, <2>5
<1> QED
  BY <1>1, <1>2

(* The overview of all a caller's maps does not panic and shows exactly    *)
(* the values that the query for one value returns to him.                 *)
THEOREM CompleteOverview ==
  ASSUME Rights \subseteq Readers
  PROVE  Spec => []OverviewIsComplete
<1>1. TypeOK => OverviewIsComplete
  BY OverviewFromTypes
<1> QED
  BY <1>1, TypeCorrect, PTL

(* A caller who may see the users of a map is told of each of them.        *)
LEMMA UsersListed ==
  ASSUME Rights \subseteq Readers, TypeOK, KM!IndexesAgree,
         NEW c \in Principal, NEW m \in KeyId, IsOk(KM!EnsureUserCanGetUserRights(c, m))
  PROVE  KM!GetSharedUserAccessForKey(c, m)
           = Ok({<<u, KM!GetUserRights(c, m, u).value>> : u \in KM!SharedWith(m)})
<1>1. ASSUME NEW u \in KM!SharedWith(m)
      PROVE  KM!GetUserRights(c, m, u) # KM!Ok(KM!None)
  <2>1. u \in Principal /\ access_control[<<u, m>>] \in Readers
    BY DEF KM!SharedWith, KM!IndexesAgree, TypeOK, MaybeRights, KM!None, None
  <2>2. IsOk(KM!EnsureUserCanRead(u, m))
    BY <2>1, MayRead
  <2>3. KM!GetUserRights(c, m, u) = KM!EnsureUserCanRead(u, m)
    BY <2>2 DEF KM!GetUserRights, KM!IsOk, IsOk
  <2> QED
    BY <2>1, <2>3, RightsAssumption
    DEF KM!EnsureUserCanRead, KM!EnsureUser, KM!Ok, KM!None, None
<1> QED
  BY <1>1 DEF KM!GetSharedUserAccessForKey, KM!IsOk, IsOk, KM!Ok, Ok

(* What a caller is told of a map's users is empty when he may not see     *)
(* them, and never a panic.                                                *)
LEMMA ListOfUsers ==
  ASSUME Rights \subseteq Readers, TypeOK, KM!IndexesAgree,
         NEW c \in Principal, NEW m \in KeyId
  PROVE  /\ IsOk(AccessList(c, m))
         /\ {a[1] : a \in AccessList(c, m).value}
               = IF IsOk(KM!EnsureUserCanGetUserRights(c, m))
                 THEN {u \in Principal : m \in KM!GetAccessibleSharedKeyIds(u)}
                 ELSE {}
<1> DEFINE rights(u) == KM!GetUserRights(c, m, u)
           users == KM!SharedWith(m)
<1>1. CASE ~ IsOk(KM!EnsureUserCanGetUserRights(c, m))
  <2>1. KM!GetSharedUserAccessForKey(c, m) = Err("unauthorized")
    BY <1>1 DEF KM!GetSharedUserAccessForKey, KM!EnsureUserCanGetUserRights, KM!EnsureUser,
                KM!IsOk, IsOk, KM!Ok, KM!Err, Err
  <2>2. AccessList(c, m) = Ok({})
    BY <2>1 DEF AccessList, IsOk, IsTrap, Err
  <2> QED
    BY <1>1, <2>2 DEF IsOk, Ok
<1>2. CASE IsOk(KM!EnsureUserCanGetUserRights(c, m))
  <2>1. KM!GetSharedUserAccessForKey(c, m) = Ok({<<u, rights(u).value>> : u \in users})
    BY <1>2, UsersListed
  <2>2. AccessList(c, m) = Ok({<<u, rights(u).value>> : u \in users})
    BY <2>1 DEF AccessList, IsOk, Ok
  <2>3. {a[1] : a \in {<<u, rights(u).value>> : u \in users}} = users
    <3> DEFINE L == {<<u, rights(u).value>> : u \in users}
    <3> HIDE DEF rights, users
    <3>1. ASSUME NEW v \in users
          PROVE  \E a \in L : a[1] = v
      <4>1. <<v, rights(v).value>> \in L /\ <<v, rights(v).value>>[1] = v
        OBVIOUS
      <4> QED
        BY <4>1
    <3>2. ASSUME NEW a \in L
          PROVE  a[1] \in users
      OBVIOUS
    <3> HIDE DEF L
    <3>3. {a[1] : a \in L} = users
      BY <3>1, <3>2
    <3> QED
      BY <3>3 DEF L
  <2>4. users = {u \in Principal : m \in KM!GetAccessibleSharedKeyIds(u)}
    BY DEF KM!SharedWith, KM!GetAccessibleSharedKeyIds, KM!IndexesAgree, KM!None, None
  <2> QED
    BY <1>2, <2>2, <2>3, <2>4 DEF IsOk, Ok
<1> QED
  BY <1>1, <1>2

(* What the overview with access lists shows.                              *)
Entry(c, m) == [map |-> m,
                keyvals |-> GetEncryptedValuesForMap(c, m).value,
                access_control |-> AccessList(c, m).value]

LEMMA ListsContents ==
  ASSUME Rights \subseteq Readers, TypeOK, KM!IndexesAgree, NEW c \in Principal
  PROVE  GetAllAccessibleEncryptedMaps(c) = Ok({Entry(c, m) : m \in GetAccessibleMapIds(c)})
<1>1. ASSUME NEW m \in GetAccessibleMapIds(c)
      PROVE  /\ IsOk(GetEncryptedValuesForMap(c, m))
             /\ ~ IsTrap(AccessList(c, m))
  BY ListedIsReadable, ListOfUsers DEF IsOk, Ok, IsTrap
<1> QED
  BY <1>1 DEF GetAllAccessibleEncryptedMaps, Entry

LEMMA ListsFromTypes ==
  ASSUME Rights \subseteq Readers, TypeOK, KM!IndexesAgree
  PROVE  OverviewShowsLists
<1> SUFFICES ASSUME NEW c \in Principal
             PROVE  LET all == GetAllAccessibleEncryptedMaps(c)
                    IN  /\ IsOk(all)
                        /\ \A e \in all.value :
                              {a[1] : a \in e.access_control}
                                = IF IsOk(KM!EnsureUserCanGetUserRights(c, e.map))
                                  THEN {u \in Principal : e.map \in KM!GetAccessibleSharedKeyIds(u)}
                                  ELSE {}
  BY DEF OverviewShowsLists
<1> DEFINE maps == GetAccessibleMapIds(c)
           all == GetAllAccessibleEncryptedMaps(c)
<1>1. ASSUME NEW m \in maps
      PROVE  {a[1] : a \in Entry(c, m).access_control}
               = IF IsOk(KM!EnsureUserCanGetUserRights(c, Entry(c, m).map))
                 THEN {u \in Principal : Entry(c, m).map \in KM!GetAccessibleSharedKeyIds(u)}
                 ELSE {}
  BY ListedIsReadable, ListOfUsers DEF Entry
<1>2. IsOk(all) /\ all.value = {Entry(c, m) : m \in maps}
  BY ListsContents DEF IsOk, Ok
<1> HIDE DEF maps, all
<1>3. \A e \in all.value : \E m \in maps : e = Entry(c, m)
  BY <1>2
<1> QED
  BY <1>1, <1>2, <1>3 DEF all

(* The overview with access lists opens the lists of exactly the maps the  *)
(* caller may see the rights of, names in each the users who have the map  *)
(* in their own listing, and does not panic.                               *)
THEOREM OverviewLists ==
  ASSUME Rights \subseteq Readers
  PROVE  Spec => []OverviewShowsLists
<1>1. TypeOK /\ KM!IndexesAgree => OverviewShowsLists
  BY ListsFromTypes
<1> QED
  BY <1>1, TypeCorrect, MapsAgree, PTL

-----------------------------------------------------------------------------
(* The canister.                                                           *)

Byte == 0 .. 255

(* Bytes that fit come back from a blob as they were, whatever zeros they  *)
(* end in and whatever zeros fill the blob.                                *)
LEMMA BlobRoundTrip ==
  ASSUME NEW bytes \in Seq(Byte), Len(bytes) <= BlobSize
  PROVE  /\ IsOk(BytebufToBlob(bytes))
         /\ AsBytes(BytebufToBlob(bytes).value) = bytes
<1> DEFINE zeros == [i \in 1 .. BlobSize - Len(bytes) |-> 0]
           blob == [data |-> bytes \o zeros, size |-> Len(bytes)]
<1>1. Len(bytes) \in Nat /\ BlobSize \in Nat
  BY LenProperties, BlobAssumption
<1>2. BytebufToBlob(bytes) = Ok(blob)
  <2>1. ~ (Len(bytes) > BlobSize)
    BY <1>1
  <2> QED
    BY <2>1, Zenon DEF BytebufToBlob
<1>3. zeros \in Seq(Byte) /\ Len(zeros) = BlobSize - Len(bytes)
  <2>1. BlobSize - Len(bytes) \in Nat
    BY <1>1
  <2>2. zeros \in [1 .. BlobSize - Len(bytes) -> Byte]
    BY DEF Byte
  <2> QED
    BY <2>1, <2>2, SeqDef, LenProperties
<1> HIDE DEF zeros
<1>4. SubSeq(bytes \o zeros, 1, Len(bytes)) = bytes
  <2>1. /\ bytes \o zeros \in Seq(Byte)
        /\ \A i \in 1 .. Len(bytes) : (bytes \o zeros)[i] = bytes[i] /\ bytes[i] \in Byte
    BY <1>1, <1>3, ConcatProperties, ElementOfSeq
  <2> DEFINE s == SubSeq(bytes \o zeros, 1, Len(bytes))
  <2>2. s \in Seq(Byte) /\ Len(s) = Len(bytes) /\ \A i \in 1 .. Len(bytes) : s[i] = bytes[i]
    BY <1>1, <2>1, SubSeqProperties
  <2> HIDE DEF s
  <2>3. s = bytes
    BY <2>2, SeqEqual
  <2> QED
    BY <2>3 DEF s
<1> QED
  BY <1>2, <1>4 DEF IsOk, Ok, AsBytes

(* The name of a map: what is asked for is what the library looks up, and  *)
(* an id of the library is asked for by its own bytes.                     *)
LEMMA MapNamed ==
  ASSUME NEW m \in Asked, IsOk(MapId(m))
  PROVE  MapId(m).value \in KeyId /\ AsAsked(MapId(m).value) = m
<1>1. m[2] \in Seq(Byte) /\ m = <<m[1], m[2]>>
  BY BlobAssumption DEF Byte
<1>2. Len(m[2]) <= BlobSize
  <2>1. Len(m[2]) \in Nat /\ BlobSize \in Nat
    BY <1>1, LenProperties, BlobAssumption
  <2>2. IsOk(BytebufToBlob(m[2]))
    BY DEF MapId
  <2> QED
    BY <2>1, <2>2 DEF BytebufToBlob, IsOk, Err
<1>3. MapId(m).value = <<m[1], BytebufToBlob(m[2]).value>>
  BY <1>1, <1>2, BlobRoundTrip DEF MapId, Ok
<1>4. AsBytes(BytebufToBlob(m[2]).value) = m[2]
  BY <1>1, <1>2, BlobRoundTrip
<1> QED
  BY <1>1, <1>2, <1>3, <1>4, NamesAssumption DEF AsAsked

LEMMA MapRenamed ==
  ASSUME NEW id \in KeyId
  PROVE  MapId(AsAsked(id)) = Ok(id)
<1>1. PICK m \in Asked : Len(m[2]) <= BlobSize /\ id = <<m[1], BytebufToBlob(m[2]).value>>
  BY NamesAssumption
<1>2. m[2] \in Seq(Byte)
  BY BlobAssumption DEF Byte
<1>3. IsOk(BytebufToBlob(m[2])) /\ AsBytes(BytebufToBlob(m[2]).value) = m[2]
  BY <1>1, <1>2, BlobRoundTrip
<1>4. AsAsked(id) = <<m[1], m[2]>>
  BY <1>1, <1>3 DEF AsAsked
<1> QED
  BY <1>1, <1>3, <1>4 DEF MapId

(* The same of the keys inside a map. *)
LEMMA KeyNamed ==
  ASSUME NEW key \in AskedKey, IsOk(BytebufToBlob(key))
  PROVE  BytebufToBlob(key).value \in MapKey /\ AsBytes(BytebufToBlob(key).value) = key
<1>1. key \in Seq(Byte)
  BY BlobAssumption DEF Byte
<1>2. Len(key) <= BlobSize
  <2>1. Len(key) \in Nat /\ BlobSize \in Nat
    BY <1>1, LenProperties, BlobAssumption
  <2> QED
    BY <2>1 DEF BytebufToBlob, IsOk, Err
<1> QED
  BY <1>1, <1>2, BlobRoundTrip, NamesAssumption

LEMMA KeyRenamed ==
  ASSUME NEW key \in MapKey
  PROVE  BytebufToBlob(AsBytes(key)) = Ok(key)
<1>1. PICK bytes \in AskedKey : Len(bytes) <= BlobSize /\ key = BytebufToBlob(bytes).value
  BY NamesAssumption
<1>2. bytes \in Seq(Byte)
  BY BlobAssumption DEF Byte
<1>3. /\ IsOk(BytebufToBlob(bytes)) /\ AsBytes(key) = bytes
  BY <1>1, <1>2, BlobRoundTrip
<1>4. BytebufToBlob(bytes) = Ok(BytebufToBlob(bytes).value)
  BY <1>3 DEF BytebufToBlob, IsOk, Ok, Err
<1> QED
  BY <1>1, <1>3, <1>4

-----------------------------------------------------------------------------
(* The steps.  Each is one of the library, on the map and the key that the *)
(* request names, or leaves the library's data alone.                      *)
LEMMA LibraryStep ==
  ASSUME [CanisterNext]_canisterVars
  PROVE  \/ [Next]_vars
         \/ UNCHANGED <<access_control, shared_keys, mapkey_vals>>
<1>1. ASSUME NEW caller \in Principal, NEW m \in Asked, NEW user \in Principal, NEW r \in Rights,
             set_user_rights(caller, m, user, r)
      PROVE  Next
  <2>1. MapId(m).value \in KeyId
    BY <1>1, MapNamed DEF set_user_rights, Serve, Attached
  <2>2. KM!Next /\ UNCHANGED mapkey_vals
    BY <1>1, <2>1 DEF set_user_rights, Serve, KM!Next
  <2> QED
    BY <2>2 DEF Next, UpdateRights
<1>2. ASSUME NEW caller \in Principal, NEW m \in Asked, NEW user \in Principal,
             remove_user(caller, m, user)
      PROVE  Next
  <2>1. MapId(m).value \in KeyId
    BY <1>2, MapNamed DEF remove_user, Serve, Attached
  <2>2. KM!Next /\ UNCHANGED mapkey_vals
    BY <1>2, <2>1 DEF remove_user, Serve, KM!Next
  <2> QED
    BY <2>2 DEF Next, UpdateRights
<1>3. ASSUME NEW caller \in Principal, NEW m \in Asked, NEW key \in AskedKey, NEW v \in Value,
             insert_encrypted_value(caller, m, key, v) \/ insert_encrypted_value_custom(caller, m, key, v)
      PROVE  Next
  <2>1. MapId(m).value \in KeyId /\ BytebufToBlob(key).value \in MapKey
    BY <1>3, MapNamed, KeyNamed
    DEF insert_encrypted_value, insert_encrypted_value_custom, Serve, Attached
  <2>2. UpdateValues
    BY <1>3, <2>1 DEF insert_encrypted_value, insert_encrypted_value_custom, Serve, UpdateValues
  <2> QED
    BY <2>2 DEF Next
<1>4. ASSUME NEW caller \in Principal, NEW m \in Asked, NEW key \in AskedKey,
             remove_encrypted_value(caller, m, key)
      PROVE  Next
  <2>1. MapId(m).value \in KeyId /\ BytebufToBlob(key).value \in MapKey
    BY <1>4, MapNamed, KeyNamed DEF remove_encrypted_value, Serve, Attached
  <2>2. UpdateValues
    BY <1>4, <2>1 DEF remove_encrypted_value, Serve, UpdateValues
  <2> QED
    BY <2>2 DEF Next
<1>5. ASSUME NEW caller \in Principal, NEW m \in Asked, remove_map_values(caller, m)
      PROVE  Next
  <2>1. MapId(m).value \in KeyId
    BY <1>5, MapNamed DEF remove_map_values, Serve, Attached
  <2>2. UpdateValues
    BY <1>5, <2>1 DEF remove_map_values, Serve, UpdateValues
  <2> QED
    BY <2>2 DEF Next
<1>6. ASSUME NEW m, NEW keys, TooLarge(m, keys)
      PROVE  UNCHANGED <<access_control, shared_keys, mapkey_vals>>
  BY <1>6 DEF TooLarge
<1>7. ASSUME NEW separator, NEW name, Install(separator, name) \/ Upgrade(separator)
      PROVE  UNCHANGED vars
  BY <1>7 DEF Install, Upgrade
<1>8. CASE UNCHANGED canisterVars
  BY <1>8 DEF canisterVars
<1> QED
  BY <1>1, <1>2, <1>3, <1>4, <1>5, <1>6, <1>7, <1>8 DEF CanisterNext

-----------------------------------------------------------------------------
(* The inductive invariant: the library's own, the object attached after   *)
(* every installation and upgrade, and the linked state in step.           *)
CInv ==
    /\ CanisterTypeOK
    /\ KM!IndexesAgree
    /\ encrypted_maps = installed /\ config_cell = installed
    /\ LinkedStateInStep

(* What a call has named is of the types the endpoints declare.            *)
LEMMA AskedTyped ==
  ASSUME CanisterTypeOK, [CanisterNext]_canisterVars
  PROVE  asked' = <<>> \/ asked' \in Asked \X SUBSET AskedKey
<1>1. CASE \E m \in Asked, keys \in SUBSET AskedKey : asked' = <<m, keys>>
  BY <1>1
<1>2. CASE UNCHANGED asked
  BY <1>2 DEF CanisterTypeOK
<1>3. {} \in SUBSET AskedKey /\ \A key \in AskedKey : {key} \in SUBSET AskedKey
  OBVIOUS
<1>4. ASSUME NEW caller, NEW m \in Asked, NEW user, NEW r,
             \/ set_user_rights(caller, m, user, r)
             \/ remove_user(caller, m, user)
             \/ remove_map_values(caller, m)
      PROVE  asked' = <<m, {}>>
  BY <1>4 DEF set_user_rights, remove_user, remove_map_values, Serve
<1>5. ASSUME NEW caller, NEW m \in Asked, NEW key \in AskedKey, NEW v,
             \/ insert_encrypted_value(caller, m, key, v)
             \/ remove_encrypted_value(caller, m, key)
             \/ insert_encrypted_value_custom(caller, m, key, v)
      PROVE  asked' = <<m, {key}>>
  BY <1>5 DEF insert_encrypted_value, remove_encrypted_value, insert_encrypted_value_custom, Serve
<1>6. ASSUME NEW m, NEW keys, TooLarge(m, keys)
      PROVE  asked' = <<m, keys>>
  BY <1>6 DEF TooLarge
<1>7. ASSUME NEW separator, NEW name, Install(separator, name) \/ Upgrade(separator)
      PROVE  UNCHANGED asked
  BY <1>7 DEF Install, Upgrade
<1>8. ASSUME NEW caller \in Principal, NEW m \in Asked,
             \/ \E user \in Principal, r \in Rights : set_user_rights(caller, m, user, r)
             \/ \E user \in Principal : remove_user(caller, m, user)
             \/ \E key \in AskedKey, v \in Value : insert_encrypted_value(caller, m, key, v)
             \/ \E key \in AskedKey : remove_encrypted_value(caller, m, key)
             \/ remove_map_values(caller, m)
             \/ \E key \in AskedKey, v \in Value : insert_encrypted_value_custom(caller, m, key, v)
      PROVE  \E keys \in SUBSET AskedKey : asked' = <<m, keys>>
  <2>1. asked' = <<m, {}>> \/ \E key \in AskedKey : asked' = <<m, {key}>>
    BY <1>4, <1>5, <1>8
  <2> QED
    BY <1>3, <2>1
<1>9. ASSUME NEW m \in Asked, NEW keys \in {{}} \cup {{key} : key \in AskedKey}, TooLarge(m, keys)
      PROVE  keys \in SUBSET AskedKey /\ asked' = <<m, keys>>
  BY <1>3, <1>6, <1>9
<1>10. CASE CanisterNext
  BY <1>1, <1>2, <1>7, <1>8, <1>9, <1>10 DEF CanisterNext
<1> QED
  BY <1>2, <1>10 DEF canisterVars

(* An insert through the endpoint of the custom form.                      *)
LEMMA CustomInsert ==
  ASSUME CInv, NEW caller \in Principal, NEW m \in Asked, NEW key \in AskedKey, NEW v \in Value,
         insert_encrypted_value_custom(caller, m, key, v)
  PROVE  /\ LinkedStateInStep'
         /\ linked' \subseteq KeyId \X MapKey
<1> DEFINE id == MapId(m).value
           k == BytebufToBlob(key).value
<1>1. id \in KeyId /\ k \in MapKey
  BY MapNamed, KeyNamed DEF insert_encrypted_value_custom, Serve, Attached
<1>2. /\ form = "custom" /\ form' = form
      /\ InsertEncryptedValue(caller, id, k, v) \/ WriteRefused("insert", caller, id)
      /\ linked' = IF IsOk(call'.reply) THEN linked \cup {<<id, k>>} ELSE linked
  BY DEF insert_encrypted_value_custom, Serve
<1>3. /\ linked = {e \in KeyId \X MapKey : mapkey_vals[e] # None}
      /\ mapkey_vals \in [KeyId \X MapKey -> Value \cup {None}]
  BY <1>2 DEF CInv, LinkedStateInStep, CanisterTypeOK, TypeOK
<1> HIDE DEF id, k
<1>4. CASE InsertEncryptedValue(caller, id, k, v)
  <2>1. IsOk(call'.reply) /\ mapkey_vals' = Stored(id, k, v)
    BY <1>4 DEF InsertEncryptedValue, Reply, Ok, IsOk
  <2>2. \A e \in KeyId \X MapKey : mapkey_vals'[e] # None <=> e = <<id, k>> \/ mapkey_vals[e] # None
    BY <1>1, <1>3, <2>1, ValueAssumption DEF Stored
  <2> QED
    BY <1>1, <1>2, <1>3, <2>1, <2>2 DEF LinkedStateInStep
<1>5. CASE WriteRefused("insert", caller, id)
  <2>1. ~ IsOk(call'.reply) /\ UNCHANGED mapkey_vals
    BY <1>5 DEF WriteRefused, Reply, MayWrite
  <2> QED
    BY <1>2, <1>3, <2>1 DEF LinkedStateInStep
<1> QED
  BY <1>2, <1>4, <1>5

LEMMA InvariantStep ==
  ASSUME CInv, [CanisterNext]_canisterVars
  PROVE  CInv'
<1>1. TypeOK' /\ KM!IndexesAgree'
  <2>1. CASE [Next]_vars
    BY <2>1, TypeStep, IndexesStep DEF CInv, CanisterTypeOK
  <2>2. CASE UNCHANGED <<access_control, shared_keys, mapkey_vals>>
    BY <2>2 DEF CInv, CanisterTypeOK, TypeOK, KM!IndexesAgree
  <2> QED
    BY <2>1, <2>2, LibraryStep
<1>2. asked' = <<>> \/ asked' \in Asked \X SUBSET AskedKey
  BY AskedTyped DEF CInv
<1>3. ASSUME NEW separator \in Separator, NEW name \in InstallName, Install(separator, name)
      PROVE  CInv'
  <2>1. [domain_separator |-> separator, key_id |-> name] \in Config(InstallName)
    BY DEF Config
  <2>2. /\ installed' = [domain_separator |-> separator, key_id |-> name]
        /\ config_cell' = installed' /\ encrypted_maps' = installed'
        /\ UNCHANGED <<mapkey_vals, form, linked>>
    BY <1>3 DEF Install, Setup, Opened, vars, CInv
  <2> QED
    BY <1>1, <1>2, <2>1, <2>2 DEF CInv, CanisterTypeOK, LinkedStateInStep
<1>4. ASSUME NEW separator \in Separator, Upgrade(separator)
      PROVE  CInv'
  <2>1. UNCHANGED <<config_cell, encrypted_maps, installed, mapkey_vals, form, linked>>
    BY <1>4 DEF Upgrade, PostUpgrade, Setup, Opened, vars, CInv
  <2> QED
    BY <1>1, <1>2, <2>1 DEF CInv, CanisterTypeOK, LinkedStateInStep
<1>5. ASSUME NEW caller \in Principal, NEW m \in Asked, NEW key \in AskedKey, NEW v \in Value,
             insert_encrypted_value_custom(caller, m, key, v)
      PROVE  CInv'
  <2>1. LinkedStateInStep' /\ linked' \subseteq KeyId \X MapKey
    BY <1>5, CustomInsert
  <2> QED
    BY <1>1, <1>2, <1>5, <2>1 DEF insert_encrypted_value_custom, config, CInv, CanisterTypeOK
<1>6. ASSUME UNCHANGED canister,
             form = "full" \/ UNCHANGED mapkey_vals
      PROVE  CInv'
  BY <1>1, <1>2, <1>6 DEF canister, config, CInv, CanisterTypeOK, LinkedStateInStep
<1>7. CASE UNCHANGED canisterVars
  BY <1>6, <1>7 DEF canisterVars, vars
<1> QED
  BY <1>3, <1>4, <1>5, <1>6, <1>7
  DEF CanisterNext, set_user_rights, remove_user, insert_encrypted_value,
      remove_encrypted_value, remove_map_values, TooLarge

THEOREM CanisterInvariant == CanisterSpec => []CInv
<1>1. CanisterInit => CInv
  BY DEF CanisterInit, Init, KM!Init, KM!None, None, MaybeRights, CInv, CanisterTypeOK, TypeOK,
         KM!IndexesAgree, LinkedStateInStep
<1>2. CInv /\ [CanisterNext]_canisterVars => CInv'
  BY InvariantStep
<1> QED
  BY <1>1, <1>2, PTL DEF CanisterSpec

(* The data of the canister keep their form, requests of any size and      *)
(* upgrades included.                                                      *)
THEOREM CanisterTypeCorrect == CanisterSpec => []CanisterTypeOK
<1>1. CInv => CanisterTypeOK
  BY DEF CInv
<1> QED
  BY <1>1, CanisterInvariant, PTL

(* In the custom form no call changes a value without the state linked to  *)
(* it.                                                                     *)
THEOREM LinkedInStep == CanisterSpec => []LinkedStateInStep
<1>1. CInv => LinkedStateInStep
  BY DEF CInv
<1> QED
  BY <1>1, CanisterInvariant, PTL

(* The overviews hold in the canister as they do in the library, also      *)
(* after a request that could not be decoded.                              *)
THEOREM CanisterOverviews ==
  ASSUME Rights \subseteq Readers
  PROVE  CanisterSpec => [](OverviewIsComplete /\ OverviewShowsLists)
<1>1. CInv => OverviewIsComplete /\ OverviewShowsLists
  BY OverviewFromTypes, ListsFromTypes DEF CInv, CanisterTypeOK
<1> QED
  BY <1>1, CanisterInvariant, PTL

-----------------------------------------------------------------------------
(* A change of the library's data names what it changes.                   *)

LEMMA ValueChange ==
  ASSUME CInv, NEW m \in Asked, Attached(m), NEW keys, asked' = <<m, keys>>,
         NEW e \in KeyId \X MapKey, mapkey_vals'[e] # mapkey_vals[e],
         \/ \E key \in AskedKey, v \in Value \cup {None} :
               /\ IsOk(BytebufToBlob(key)) /\ keys = {key}
               /\ mapkey_vals' = Stored(MapId(m).value, BytebufToBlob(key).value, v)
         \/ keys = {} /\ mapkey_vals' = Cleared(MapId(m).value)
  PROVE  asked'[1] = AsAsked(e[1]) /\ asked'[2] \subseteq {AsBytes(e[2])}
<1> DEFINE id == MapId(m).value
<1>1. id \in KeyId /\ AsAsked(id) = m
  BY MapNamed DEF Attached
<1>2. mapkey_vals \in [KeyId \X MapKey -> Value \cup {None}]
  BY DEF CInv, CanisterTypeOK, TypeOK
<1> HIDE DEF id
<1>3. ASSUME NEW key \in AskedKey, NEW v, IsOk(BytebufToBlob(key)), keys = {key},
             mapkey_vals' = Stored(id, BytebufToBlob(key).value, v)
      PROVE  asked'[1] = AsAsked(e[1]) /\ asked'[2] \subseteq {AsBytes(e[2])}
  <2> DEFINE k == BytebufToBlob(key).value
  <2>1. k \in MapKey /\ AsBytes(k) = key
    BY <1>3, KeyNamed
  <2>2. mapkey_vals' = Stored(id, k, v)
    BY <1>3
  <2> HIDE DEF k
  <2>3. e = <<id, k>>
    BY <1>1, <1>2, <2>1, <2>2 DEF Stored
  <2> QED
    BY <1>1, <1>3, <2>1, <2>3
<1>4. ASSUME keys = {}, mapkey_vals' = Cleared(id)
      PROVE  asked'[1] = AsAsked(e[1]) /\ asked'[2] \subseteq {AsBytes(e[2])}
  <2>1. e[1] = id
    BY <1>1, <1>2, <1>4, KeysOfMap
  <2> QED
    BY <1>1, <1>4, <2>1
<1> QED
  BY <1>3, <1>4 DEF id

LEMMA RightsChange ==
  ASSUME CInv, NEW m \in Asked, Attached(m), asked' = <<m, {}>>, NEW user \in Principal, NEW r,
         access_control' = [access_control EXCEPT ![<<user, MapId(m).value>>] = r],
         NEW u \in Principal, NEW id \in KeyId,
         access_control'[<<u, id>>] # access_control[<<u, id>>]
  PROVE  asked' = <<AsAsked(id), {}>>
<1>1. MapId(m).value \in KeyId /\ AsAsked(MapId(m).value) = m
  BY MapNamed DEF Attached
<1>2. id = MapId(m).value
  BY <1>1 DEF CInv, CanisterTypeOK, TypeOK
<1> QED
  BY <1>1, <1>2

(* A request reaches the map and the entry whose bytes it names and no     *)
(* other, for blobs of any size.                                           *)
THEOREM RequestsReach == CanisterSpec => RequestsReachTheirOwn
<1> DEFINE Reaches ==
      /\ \A e \in KeyId \X MapKey :
            mapkey_vals'[e] # mapkey_vals[e] =>
                asked'[1] = AsAsked(e[1]) /\ asked'[2] \subseteq {AsBytes(e[2])}
      /\ \A u \in Principal, id \in KeyId :
            access_control'[<<u, id>>] # access_control[<<u, id>>] =>
                asked' = <<AsAsked(id), {}>>
<1>1. CInv /\ [CanisterNext]_canisterVars => [Reaches]_canisterVars
  <2> SUFFICES ASSUME CInv, CanisterNext
               PROVE  Reaches
    OBVIOUS
  <2>1. ASSUME UNCHANGED <<access_control, mapkey_vals>>
        PROVE  Reaches
    BY <2>1
  <2>2. ASSUME NEW caller \in Principal, NEW m \in Asked, NEW user \in Principal, NEW r \in Rights,
               set_user_rights(caller, m, user, r)
        PROVE  Reaches
    <3>1. /\ UNCHANGED mapkey_vals
          /\ Attached(m) /\ asked' = <<m, {}>>
          /\ \/ UNCHANGED access_control
             \/ access_control' = [access_control EXCEPT ![<<user, MapId(m).value>>] = r]
      BY <2>2 DEF set_user_rights, Serve, KM!SetUserRights, KM!Entry, KM!Unauthorized,
                  KM!OwnersRightsFixed
    <3> QED
      BY <2>1, <3>1, RightsChange
  <2>3. ASSUME NEW caller \in Principal, NEW m \in Asked, NEW user \in Principal,
               remove_user(caller, m, user)
        PROVE  Reaches
    <3>1. /\ UNCHANGED mapkey_vals
          /\ Attached(m) /\ asked' = <<m, {}>>
          /\ \/ UNCHANGED access_control
             \/ access_control' = [access_control EXCEPT ![<<user, MapId(m).value>>] = KM!None]
      BY <2>3 DEF remove_user, Serve, KM!RemoveUser, KM!Entry, KM!Unauthorized,
                  KM!OwnersRightsFixed
    <3> QED
      BY <2>1, <3>1, RightsChange
  <2>4. ASSUME NEW caller \in Principal, NEW m \in Asked, NEW key \in AskedKey, NEW v \in Value,
               insert_encrypted_value(caller, m, key, v) \/ insert_encrypted_value_custom(caller, m, key, v)
        PROVE  Reaches
    <3>1. /\ UNCHANGED access_control
          /\ Attached(m) /\ asked' = <<m, {key}>> /\ IsOk(BytebufToBlob(key))
          /\ \/ UNCHANGED mapkey_vals
             \/ mapkey_vals' = Stored(MapId(m).value, BytebufToBlob(key).value, v)
      BY <2>4 DEF insert_encrypted_value, insert_encrypted_value_custom, Serve,
                  InsertEncryptedValue, WriteRefused
    <3>2. ASSUME mapkey_vals' = Stored(MapId(m).value, BytebufToBlob(key).value, v),
                 NEW e \in KeyId \X MapKey, mapkey_vals'[e] # mapkey_vals[e]
          PROVE  asked'[1] = AsAsked(e[1]) /\ asked'[2] \subseteq {AsBytes(e[2])}
      <4>1. \E k \in AskedKey, w \in Value \cup {None} :
               /\ IsOk(BytebufToBlob(k)) /\ {key} = {k}
               /\ mapkey_vals' = Stored(MapId(m).value, BytebufToBlob(k).value, w)
        BY <3>1, <3>2
      <4> QED
        BY <3>1, <3>2, <4>1, ValueChange
    <3> QED
      BY <2>1, <3>1, <3>2
  <2>5. ASSUME NEW caller \in Principal, NEW m \in Asked, NEW key \in AskedKey,
               remove_encrypted_value(caller, m, key)
        PROVE  Reaches
    <3>1. /\ UNCHANGED access_control
          /\ Attached(m) /\ asked' = <<m, {key}>> /\ IsOk(BytebufToBlob(key))
          /\ \/ UNCHANGED mapkey_vals
             \/ mapkey_vals' = Stored(MapId(m).value, BytebufToBlob(key).value, None)
      BY <2>5 DEF remove_encrypted_value, Serve, RemoveEncryptedValue, WriteRefused
    <3> QED
      BY <2>1, <3>1, ValueChange
  <2>6. ASSUME NEW caller \in Principal, NEW m \in Asked, remove_map_values(caller, m)
        PROVE  Reaches
    <3>1. /\ UNCHANGED access_control
          /\ Attached(m) /\ asked' = <<m, {}>>
          /\ UNCHANGED mapkey_vals \/ mapkey_vals' = Cleared(MapId(m).value)
      BY <2>6 DEF remove_map_values, Serve, RemoveMapValues, WriteRefused
    <3> QED
      BY <2>1, <3>1, ValueChange
  <2>7. ASSUME NEW m, NEW keys, TooLarge(m, keys)
        PROVE  Reaches
    BY <2>1, <2>7 DEF TooLarge
  <2>8. ASSUME NEW separator, NEW name, Install(separator, name) \/ Upgrade(separator)
        PROVE  Reaches
    BY <2>1, <2>8 DEF Install, Upgrade, vars
  <2> HIDE DEF Reaches
  <2> QED
    BY <2>2, <2>3, <2>4, <2>5, <2>6, <2>7, <2>8 DEF CanisterNext
<1> QED
  BY <1>1, CanisterInvariant, PTL DEF CanisterSpec, RequestsReachTheirOwn

-----------------------------------------------------------------------------
(* The listings can be followed.  An endpoint asked for a map by the bytes *)
(* of its id answers for that map.                                         *)
LEMMA Answered ==
  ASSUME NEW id \in KeyId, encrypted_maps # NoConfig, NEW answer
  PROVE  OnMap(AsAsked(id), answer) = answer /\ MapId(AsAsked(id)).value = id
<1>1. MapId(AsAsked(id)) = Ok(id)
  BY MapRenamed
<1>2. IsOk(Ok(id)) /\ Ok(id).value = id
  BY DEF IsOk, Ok
<1> QED
  BY <1>1, <1>2 DEF OnMap

(* What a listed map shows is what it gives when it is asked for.          *)
LEMMA ListedValues ==
  ASSUME Rights \subseteq Readers, CInv, encrypted_maps # NoConfig,
         NEW c \in Principal, NEW id \in GetAccessibleMapIds(c)
  PROVE  /\ get_encrypted_values_for_map(c, AsAsked(id)) = Ok(Shown(Held(id)))
         /\ \A kv \in Shown(Held(id)) : get_encrypted_value(c, AsAsked(id), kv[1]) = Ok(kv[2])
<1>1. /\ id \in KeyId /\ IsOk(KM!EnsureUserCanRead(c, id))
      /\ GetEncryptedValuesForMap(c, id) = Ok(Held(id))
  BY ListedIsReadable DEF Held, CInv, CanisterTypeOK
<1>2. get_encrypted_values_for_map(c, AsAsked(id)) = Ok(Shown(Held(id)))
  <2>1. OnMap(AsAsked(id), GetEncryptedValuesForMap(c, MapId(AsAsked(id)).value)) = Ok(Held(id))
    BY <1>1, Answered
  <2> QED
    BY <2>1 DEF get_encrypted_values_for_map, IsOk, Ok
<1>3. ASSUME NEW kv \in Shown(Held(id))
      PROVE  get_encrypted_value(c, AsAsked(id), kv[1]) = Ok(kv[2])
  <2>1. PICK key \in MapKey : kv[1] = AsBytes(key) /\ kv[2] = mapkey_vals[<<id, key>>]
    <3>1. KeysIn(id) \subseteq MapKey
      BY <1>1, KeysOfMap
    <3> QED
      BY <3>1 DEF Shown, Held
  <2>2. BytebufToBlob(kv[1]) = Ok(key)
    BY <2>1, KeyRenamed
  <2>3. GetEncryptedValue(c, id, key) = Ok(kv[2])
    BY <1>1, <2>1 DEF GetEncryptedValue
  <2>4. IsOk(BytebufToBlob(kv[1])) /\ BytebufToBlob(kv[1]).value = key
    BY <2>2 DEF IsOk, Ok
  <2>5. MapId(AsAsked(id)).value = id
    BY <1>1, Answered
  <2>6. (IF ~ IsOk(BytebufToBlob(kv[1])) THEN BytebufToBlob(kv[1])
         ELSE GetEncryptedValue(c, MapId(AsAsked(id)).value, BytebufToBlob(kv[1]).value)) = Ok(kv[2])
    BY <2>3, <2>4, <2>5
  <2> QED
    BY <1>1, <2>6, Answered DEF get_encrypted_value
<1> QED
  BY <1>2, <1>3

(* So does the key, and what its owner asks about his map.                 *)
LEMMA ListedKey ==
  ASSUME Rights \subseteq Readers, CInv, encrypted_maps # NoConfig,
         NEW c \in Principal, NEW id \in GetAccessibleMapIds(c)
  PROVE  /\ get_encrypted_vetkey(c, AsAsked(id)) = Ok(KeyOf(id, encrypted_maps))
         /\ Owner(id) = c => /\ IsOk(get_shared_user_access_for_map(c, AsAsked(id)))
                             /\ get_user_rights(c, AsAsked(id), c) = Ok(OwnerRights)
<1>1. /\ id \in KeyId /\ IsOk(KM!EnsureUserCanRead(c, id))
      /\ MapId(AsAsked(id)).value = id
  BY ListedIsReadable, Answered DEF CInv, CanisterTypeOK
<1>2. get_encrypted_vetkey(c, AsAsked(id)) = Ok(KeyOf(id, encrypted_maps))
  BY <1>1, Answered DEF get_encrypted_vetkey
<1>3. ASSUME Owner(id) = c
      PROVE  /\ IsOk(get_shared_user_access_for_map(c, AsAsked(id)))
             /\ get_user_rights(c, AsAsked(id), c) = Ok(OwnerRights)
  <2>1. IsOk(KM!EnsureUserCanGetUserRights(c, id))
    BY <1>3 DEF KM!EnsureUserCanGetUserRights, KM!EnsureUser, KM!Owner, Owner, KM!Ok, IsOk
  <2>2. IsOk(KM!GetSharedUserAccessForKey(c, id))
    BY <1>1, <2>1, UsersListed DEF CInv, CanisterTypeOK, IsOk, Ok
  <2>3. KM!GetUserRights(c, id, c) = Ok(OwnerRights)
    BY <1>3 DEF KM!GetUserRights, KM!EnsureUserCanGetUserRights, KM!EnsureUserCanRead,
                KM!EnsureUser, KM!Owner, Owner, KM!Ok, Ok, KM!IsOk
  <2> QED
    BY <1>1, <2>2, <2>3, Answered DEF get_shared_user_access_for_map, get_user_rights
<1> QED
  BY <1>2, <1>3

(* The listings of names, and the two overviews, name the same maps.       *)
LEMMA ListingsNameTheSame ==
  ASSUME Rights \subseteq Readers, CInv, NEW c \in Principal
  PROVE  /\ get_all_accessible_encrypted_values(c)
              = Ok({<<AsAsked(id), Shown(Held(id))>> : id \in GetAccessibleMapIds(c)})
         /\ {e.map : e \in get_all_accessible_encrypted_maps(c).value}
              = {AsAsked(id) : id \in GetAccessibleMapIds(c)}
         /\ get_accessible_shared_map_names(c)
                \cup {<<c, name>> : name \in get_owned_non_empty_map_names(c)}
              = {AsAsked(id) : id \in GetAccessibleMapIds(c)}
<1> DEFINE maps == GetAccessibleMapIds(c)
           all == GetAllAccessibleEncryptedValues(c)
           lists == GetAllAccessibleEncryptedMaps(c)
<1>1. get_all_accessible_encrypted_values(c) = Ok({<<AsAsked(id), Shown(Held(id))>> : id \in maps})
  <2>1. IsOk(all) /\ all.value = {<<id, Held(id)>> : id \in maps}
    BY OverviewContents DEF CInv, CanisterTypeOK, IsOk, Ok
  <2>2. get_all_accessible_encrypted_values(c) = Ok({<<AsAsked(e[1]), Shown(e[2])>> : e \in all.value})
    BY <2>1 DEF get_all_accessible_encrypted_values
  <2>3. {<<AsAsked(e[1]), Shown(e[2])>> : e \in all.value} = {<<AsAsked(id), Shown(Held(id))>> : id \in maps}
    <3> DEFINE pair(id) == <<id, Held(id)>>
               asked_for(e) == <<AsAsked(e[1]), Shown(e[2])>>
               named(id) == <<AsAsked(id), Shown(Held(id))>>
    <3>1. \A id \in maps : asked_for(pair(id)) = named(id)
      OBVIOUS
    <3>2. all.value = {pair(id) : id \in maps}
      BY <2>1
    <3> HIDE DEF maps, all, pair, asked_for, named
    <3>3. {asked_for(e) : e \in {pair(id) : id \in maps}} = {named(id) : id \in maps}
      BY <3>1
    <3> QED
      BY <3>2, <3>3 DEF asked_for, named
  <2> QED
    BY <2>2, <2>3
<1>2. {e.map : e \in get_all_accessible_encrypted_maps(c).value} = {AsAsked(id) : id \in maps}
  <2> DEFINE asked_for(e) == [map |-> AsAsked(e.map), keyvals |-> Shown(e.keyvals),
                              access_control |-> e.access_control]
  <2>1. IsOk(lists) /\ lists.value = {Entry(c, id) : id \in maps}
    BY ListsContents DEF CInv, CanisterTypeOK, IsOk, Ok
  <2>2. get_all_accessible_encrypted_maps(c).value = {asked_for(e) : e \in lists.value}
    BY <2>1 DEF get_all_accessible_encrypted_maps, Ok
  <2>3. \A id \in maps : asked_for(Entry(c, id)).map = AsAsked(id)
    BY DEF Entry
  <2> HIDE DEF maps, lists, asked_for
  <2>4. {asked_for(e).map : e \in {Entry(c, id) : id \in maps}} = {AsAsked(id) : id \in maps}
    BY <2>3
  <2> QED
    BY <2>1, <2>2, <2>4
<1>3. get_accessible_shared_map_names(c)
        \cup {<<c, name>> : name \in get_owned_non_empty_map_names(c)} = {AsAsked(id) : id \in maps}
  <2>1. {<<c, name>> : name \in get_owned_non_empty_map_names(c)}
          = {AsAsked(id) : id \in GetOwnedNonEmptyMaps(c)}
    <3>1. \A id \in GetOwnedNonEmptyMaps(c) : AsAsked(id) = <<c, AsBytes(id[2])>>
      BY OwnedMaps DEF AsAsked, Owner
    <3> QED
      BY <3>1 DEF get_owned_non_empty_map_names
  <2> QED
    BY <2>1 DEF get_accessible_shared_map_names, GetAccessibleMapIds
<1> QED
  BY <1>1, <1>2, <1>3

(* Each map that a listing names can be asked for by the bytes it is       *)
(* listed with, and gives its values, its key, and to its owner its users. *)
THEOREM ListedOpen ==
  ASSUME Rights \subseteq Readers
  PROVE  CanisterSpec => []ListedMapsOpen
<1>1. CInv => ListedMapsOpen
  <2> SUFFICES ASSUME CInv, installed # NoConfig, NEW c \in Principal
               PROVE  LET shown == get_all_accessible_encrypted_values(c).value
                          maps == {e[1] : e \in shown}
                      IN  /\ \A e \in shown :
                                /\ get_encrypted_values_for_map(c, e[1]) = Ok(e[2])
                                /\ \A kv \in e[2] : get_encrypted_value(c, e[1], kv[1]) = Ok(kv[2])
                          /\ maps = {e.map : e \in get_all_accessible_encrypted_maps(c).value}
                          /\ maps = get_accessible_shared_map_names(c)
                                       \cup {<<c, name>> : name \in get_owned_non_empty_map_names(c)}
                          /\ \A m \in maps :
                                /\ IsOk(get_encrypted_vetkey(c, m))
                                /\ get_encrypted_vetkey(c, m).value
                                      = KeyOf(MapId(m).value, installed)
                                /\ m[1] = c => /\ IsOk(get_shared_user_access_for_map(c, m))
                                               /\ get_user_rights(c, m, c) = Ok(OwnerRights)
    BY DEF ListedMapsOpen
  <2> DEFINE ids == GetAccessibleMapIds(c)
             shown == get_all_accessible_encrypted_values(c).value
             maps == {e[1] : e \in shown}
  <2>1. encrypted_maps = installed /\ encrypted_maps # NoConfig
    BY DEF CInv
  <2>2. shown = {<<AsAsked(id), Shown(Held(id))>> : id \in ids}
    BY ListingsNameTheSame DEF Ok
  <2>3. maps = {AsAsked(id) : id \in ids}
    <3> DEFINE entry(id) == <<AsAsked(id), Shown(Held(id))>>
               first(e) == e[1]
    <3>1. \A id \in ids : first(entry(id)) = AsAsked(id)
      OBVIOUS
    <3>2. shown = {entry(id) : id \in ids}
      BY <2>2
    <3> HIDE DEF shown, ids, entry, first
    <3>3. {first(e) : e \in {entry(id) : id \in ids}} = {AsAsked(id) : id \in ids}
      BY <3>1
    <3> QED
      BY <3>2, <3>3 DEF first
  <2>4. ASSUME NEW e \in shown
        PROVE  /\ get_encrypted_values_for_map(c, e[1]) = Ok(e[2])
               /\ \A kv \in e[2] : get_encrypted_value(c, e[1], kv[1]) = Ok(kv[2])
    <3>1. PICK id \in ids : e = <<AsAsked(id), Shown(Held(id))>>
      BY <2>2
    <3> QED
      BY <2>1, <3>1, ListedValues DEF IsOk, Ok
  <2>5. ASSUME NEW m \in maps
        PROVE  /\ IsOk(get_encrypted_vetkey(c, m))
               /\ get_encrypted_vetkey(c, m).value = KeyOf(MapId(m).value, installed)
               /\ m[1] = c => /\ IsOk(get_shared_user_access_for_map(c, m))
                              /\ get_user_rights(c, m, c) = Ok(OwnerRights)
    <3>1. PICK id \in ids : m = AsAsked(id)
      BY <2>3
    <3>2. id \in KeyId
      BY ListedIsReadable DEF CInv, CanisterTypeOK
    <3>3. MapId(m).value = id /\ m[1] = Owner(id)
      BY <2>1, <3>1, <3>2, Answered DEF AsAsked, Owner
    <3> QED
      BY <2>1, <3>1, <3>3, ListedKey DEF IsOk, Ok
  <2> HIDE DEF maps
  <2> QED
    BY <2>3, <2>4, <2>5, ListingsNameTheSame DEF maps
<1> QED
  BY <1>1, CanisterInvariant, PTL
=============================================================================
