------------------------ MODULE EncryptedMapsMoProofs ------------------------
(***************************************************************************)
(* Proofs about the Motoko EncryptedMaps, for any users, maps, keys,       *)
(* values and type T of access rights: the index of keys stays in step     *)
(* with the values, and the maps take the steps of the Rust EncryptedMaps. *)
(***************************************************************************)
EXTENDS EncryptedMapsMo, TLAPS

(* What is proved of the key manager is cited through this instance.  Its  *)
(* definitions are those of KM in the model, as the first lemmas say.      *)
KMP == INSTANCE KeyManagerMoProofs

LEMMA SameKept ==
  ASSUME NEW s, NEW keep
  PROVE  /\ KM!Kept(s, keep) = KMP!Kept(s, keep)
         /\ Kept(s, keep) = KMP!Kept(s, keep)
BY DEF KM!Kept, KMP!Kept, Kept

LEMMA SameArrays ==
  ASSUME NEW s, NEW x, NEW r
  PROVE  /\ KM!WithUser(s, x) = KMP!WithUser(s, x)
         /\ KM!WithoutUser(s, x) = KMP!WithoutUser(s, x)
         /\ KM!WithEntry(s, x, r) = KMP!WithEntry(s, x, r)
         /\ KM!WithoutEntry(s, x) = KMP!WithoutEntry(s, x)
BY SameKept DEF KM!WithUser, KMP!WithUser, KM!WithoutUser, KMP!WithoutUser,
       KM!WithEntry, KMP!WithEntry, KM!WithoutEntry, KMP!WithoutEntry,
       KM!Range, KMP!Range, KM!Reverse, KMP!Reverse,
       KM!Positions, KMP!Positions, KM!FirstPosition, KMP!FirstPosition

LEMMA SameFind ==
  ASSUME NEW u, NEW k
  PROVE  KM!Find(u, k) = KMP!Find(u, k)
BY DEF KM!Find, KMP!Find, KM!Positions, KMP!Positions,
       KM!FirstPosition, KMP!FirstPosition, KM!None, KMP!None

LEMMA SameGuard ==
  ASSUME NEW u, NEW k, NEW allowing
  PROVE  KM!EnsureUser(u, k, allowing) = KMP!EnsureUser(u, k, allowing)
BY SameFind DEF KM!EnsureUser, KMP!EnsureUser, KM!Owner, KMP!Owner,
       KM!Ok, KMP!Ok, KM!Err, KMP!Err

LEMMA SameSteps ==
  ASSUME KM!Next
  PROVE  KMP!Next
<1>1. \A u, k : KM!EnsureUserCanSetUserRights(u, k) = KMP!EnsureUserCanSetUserRights(u, k)
  BY SameGuard DEF KM!EnsureUserCanSetUserRights, KMP!EnsureUserCanSetUserRights
<1>2. /\ \A c, k, u : KM!OwnerNamesItself(c, k, u) <=> KMP!OwnerNamesItself(c, k, u)
      /\ \A res : KM!IsOk(res) <=> KMP!IsOk(res)
      /\ \A op, c, k, u, res : KM!Reply(op, c, k, u, res) <=> KMP!Reply(op, c, k, u, res)
      /\ \A v : KM!Ok(v) = KMP!Ok(v) /\ KM!Err(v) = KMP!Err(v)
  BY DEF KM!OwnerNamesItself, KMP!OwnerNamesItself, KM!Owner, KMP!Owner, KM!IsOk, KMP!IsOk,
         KM!Reply, KMP!Reply, KM!Ok, KMP!Ok, KM!Err, KMP!Err
<1>3. ASSUME NEW c, NEW k, NEW u, NEW r, KM!SetUserRights(c, k, u, r)
      PROVE  KMP!SetUserRights(c, k, u, r)
  BY <1>1, <1>2, <1>3, SameFind, SameArrays DEF KM!SetUserRights, KMP!SetUserRights
<1>4. ASSUME NEW c, NEW k, NEW u, KM!RemoveUserRights(c, k, u)
      PROVE  KMP!RemoveUserRights(c, k, u)
  BY <1>1, <1>2, <1>4, SameFind, SameArrays DEF KM!RemoveUserRights, KMP!RemoveUserRights
<1>5. ASSUME NEW op, NEW c, NEW k, NEW u, KM!Unauthorized(op, c, k, u)
      PROVE  KMP!Unauthorized(op, c, k, u)
  BY <1>1, <1>2, <1>5 DEF KM!Unauthorized, KMP!Unauthorized
<1>6. ASSUME NEW op, NEW c, NEW k, NEW u, KM!OwnersRightsFixed(op, c, k, u)
      PROVE  KMP!OwnersRightsFixed(op, c, k, u)
  BY <1>1, <1>2, <1>6 DEF KM!OwnersRightsFixed, KMP!OwnersRightsFixed
<1> QED
  BY <1>3, <1>4, <1>5, <1>6 DEF KM!Next, KMP!Next

LEMMA SameMaps == KM!Entries = KMP!Entries /\ KM!Pairs = KMP!Pairs
BY SameFind DEF KM!Entries, KMP!Entries, KM!Pairs, KMP!Pairs, KM!Range, KMP!Range

LEMMA SameMapsNext == KM!Entries' = KMP!Entries' /\ KM!Pairs' = KMP!Pairs'
BY DEF KM!Entries, KMP!Entries, KM!Pairs, KMP!Pairs, KM!Range, KMP!Range,
       KM!Find, KMP!Find, KM!Positions, KMP!Positions,
       KM!FirstPosition, KMP!FirstPosition, KM!None, KMP!None

LEMMA SameRustGuard ==
  ASSUME NEW u, NEW k, NEW allowing
  PROVE  Rust!KM!EnsureUser(u, k, allowing) = KMP!Rust!EnsureUser(u, k, allowing)
BY SameMaps DEF Rust!KM!EnsureUser, KMP!Rust!EnsureUser, Rust!KM!Owner, KMP!Rust!Owner,
       Rust!KM!Ok, KMP!Rust!Ok, Rust!KM!Err, KMP!Rust!Err

LEMMA SameRustSteps ==
  ASSUME KMP!Rust!Next
  PROVE  Rust!KM!Next
<1>1. \A u, k : Rust!KM!EnsureUserCanSetUserRights(u, k)
                   = KMP!Rust!EnsureUserCanSetUserRights(u, k)
  BY SameRustGuard DEF Rust!KM!EnsureUserCanSetUserRights,
                       KMP!Rust!EnsureUserCanSetUserRights
<1>2. /\ \A c, k, u : Rust!KM!OwnerNamesItself(c, k, u) <=> KMP!Rust!OwnerNamesItself(c, k, u)
      /\ \A res : Rust!KM!IsOk(res) <=> KMP!Rust!IsOk(res)
      /\ \A op, c, k, u, res :
            Rust!KM!Reply(op, c, k, u, res) <=> KMP!Rust!Reply(op, c, k, u, res)
      /\ \A v : Rust!KM!Ok(v) = KMP!Rust!Ok(v) /\ Rust!KM!Err(v) = KMP!Rust!Err(v)
      /\ Rust!KM!None = KMP!Rust!None
  BY DEF Rust!KM!OwnerNamesItself, KMP!Rust!OwnerNamesItself, Rust!KM!Owner, KMP!Rust!Owner,
         Rust!KM!IsOk, KMP!Rust!IsOk, Rust!KM!Reply, KMP!Rust!Reply, Rust!KM!Ok, KMP!Rust!Ok,
         Rust!KM!Err, KMP!Rust!Err, Rust!KM!None, KMP!Rust!None
<1>3. /\ \A k, u : /\ Rust!KM!Shared(k, u) = KMP!Rust!Shared(k, u)
                   /\ Rust!KM!Unshared(k, u) = KMP!Rust!Unshared(k, u)
      /\ \A u, k, r : Rust!KM!Entry(u, k, r) = KMP!Rust!Entry(u, k, r)
  BY SameMaps DEF Rust!KM!Shared, KMP!Rust!Shared, Rust!KM!Unshared, KMP!Rust!Unshared,
         Rust!KM!Entry, KMP!Rust!Entry
<1>4. ASSUME NEW c, NEW k, NEW u, NEW r, KMP!Rust!SetUserRights(c, k, u, r)
      PROVE  Rust!KM!SetUserRights(c, k, u, r)
  BY <1>1, <1>2, <1>3, <1>4, SameMaps, SameMapsNext
     DEF Rust!KM!SetUserRights, KMP!Rust!SetUserRights
<1>5. ASSUME NEW c, NEW k, NEW u, KMP!Rust!RemoveUser(c, k, u)
      PROVE  Rust!KM!RemoveUser(c, k, u)
  BY <1>1, <1>2, <1>3, <1>5, SameMaps, SameMapsNext
     DEF Rust!KM!RemoveUser, KMP!Rust!RemoveUser
<1>6. ASSUME NEW op, NEW c, NEW k, NEW u, KMP!Rust!Unauthorized(op, c, k, u)
      PROVE  Rust!KM!Unauthorized(op, c, k, u)
  BY <1>1, <1>2, <1>6, SameMaps, SameMapsNext
     DEF Rust!KM!Unauthorized, KMP!Rust!Unauthorized
<1>7. ASSUME NEW op, NEW c, NEW k, NEW u, KMP!Rust!OwnersRightsFixed(op, c, k, u)
      PROVE  Rust!KM!OwnersRightsFixed(op, c, k, u)
  BY <1>1, <1>2, <1>7, SameMaps, SameMapsNext
     DEF Rust!KM!OwnersRightsFixed, KMP!Rust!OwnersRightsFixed
<1> QED
  BY <1>4, <1>5, <1>6, <1>7 DEF Rust!KM!Next, KMP!Rust!Next

(* An update of rights keeps the key manager's invariant and is an update  *)
(* of rights of the Rust maps.                                             *)
LEMMA RightsStep ==
  ASSUME KMP!IInv, KM!Next
  PROVE  KMP!IInv' /\ Rust!KM!Next
<1>1. KMP!Next
  BY SameSteps
<1>2. KMP!IInv' /\ KMP!Rust!Next
  BY <1>1, KMP!RustStep, KeyIdAssumption, RightsAssumption DEF None, KMP!None
<1> QED
  BY <1>2, SameRustSteps

LEMMA RightsKept ==
  ASSUME UNCHANGED <<accessControl, sharedKeys>>
  PROVE  /\ KMP!IInv => KMP!IInv'
         /\ UNCHANGED <<KM!Entries, KM!Pairs>>
BY DEF KMP!IInv, KMP!Find, KM!Entries, KM!Pairs, KM!Find

-----------------------------------------------------------------------------
(* The index.                                                              *)

At(index, m) == IF m \in DOMAIN index THEN index[m] ELSE << >>

LEMMA KeysInIsAt ==
  ASSUME NEW m
  PROVE  KeysIn(m) = At(mapKeys, m) /\ KeysIn(m)' = At(mapKeys', m)
BY DEF KeysIn, At

(* The lemmas on arrays, in the words of this module. *)
LEMMA KeptFacts ==
  ASSUME NEW S, NEW s \in Seq(S), NEW keep
  PROVE  /\ Kept(s, keep) \in Seq(S)
         /\ Range(Kept(s, keep)) = Range(s) \cap keep
         /\ IsInjective(s) => IsInjective(Kept(s, keep))
<1>1. /\ KMP!Kept(s, keep) \in Seq(S)
      /\ KMP!Range(KMP!Kept(s, keep)) = KMP!Range(s) \cap keep
      /\ KMP!IsInjective(s) => KMP!IsInjective(KMP!Kept(s, keep))
  BY KMP!KeptFacts, KeyIdAssumption, RightsAssumption DEF None, KMP!None
<1> QED
  BY <1>1, SameKept DEF Range, KMP!Range, IsInjective, KMP!IsInjective

LEMMA Appended ==
  ASSUME NEW S, NEW s \in Seq(S), NEW e \in S
  PROVE  /\ Append(s, e) \in Seq(S)
         /\ Range(Append(s, e)) = Range(s) \cup {e}
         /\ IsInjective(s) /\ e \notin Range(s) => IsInjective(Append(s, e))
         /\ Append(s, e) # << >>
<1>1. /\ Append(s, e) \in Seq(S)
      /\ KMP!Range(Append(s, e)) = KMP!Range(s) \cup {e}
      /\ KMP!IsInjective(s) /\ e \notin KMP!Range(s) => KMP!IsInjective(Append(s, e))
  BY KMP!Appended, KeyIdAssumption, RightsAssumption DEF None, KMP!None
<1>2. /\ \A f : KMP!Range(f) = Range(f)
      /\ \A f : KMP!IsInjective(f) <=> IsInjective(f)
  BY DEF Range, KMP!Range, IsInjective, KMP!IsInjective
<1> QED
  BY <1>1, <1>2

LEMMA EmptyRange ==
  ASSUME NEW S, NEW s \in Seq(S)
  PROVE  Range(s) = {} <=> s = << >>
<1>1. s = << >> => Range(s) = {}
  BY DEF Range
<1>2. s # << >> => s[1] \in Range(s)
  BY DEF Range
<1> QED
  BY <1>1, <1>2

(* The keys of a map that have a value. *)
Present(vals, m) == {key \in MapKey : vals[<<m, key>>] # None}

(* The inductive invariant: the key manager's, types, and an index that    *)
(* has the keys with a value, each once, and no map without keys.          *)
IndexInv(index, vals) ==
    /\ vals \in [KeyId \X MapKey -> Value \cup {None}]
    /\ DOMAIN index \subseteq KeyId
    /\ \A m \in DOMAIN index : index[m] \in Seq(MapKey) /\ index[m] # << >>
    /\ \A m \in KeyId :
          /\ IsInjective(At(index, m))
          /\ Range(At(index, m)) = Present(vals, m)

IInv == KMP!IInv /\ IndexInv(mapKeys, mapKeyVals)

LEMMA AtTyped ==
  ASSUME NEW index, NEW vals, IndexInv(index, vals), NEW m \in KeyId
  PROVE  At(index, m) \in Seq(MapKey)
BY DEF IndexInv, At

(* What keeps the index in step when one map's keys and values change.     *)
LEMMA IndexStep ==
  ASSUME NEW index, NEW vals, IndexInv(index, vals), NEW m \in KeyId,
         NEW keys \in Seq(MapKey), IsInjective(keys),
         NEW newVals \in [KeyId \X MapKey -> Value \cup {None}],
         \A n \in KeyId \ {m}, key \in MapKey : newVals[<<n, key>>] = vals[<<n, key>>],
         Range(keys) = Present(newVals, m),
         NEW newIndex,
         newIndex = IF keys = << >> THEN Without(index, m) ELSE With(index, m, keys)
  PROVE  IndexInv(newIndex, newVals)
<1>0. /\ keys = << >> => DOMAIN newIndex = DOMAIN index \ {m}
      /\ keys # << >> => DOMAIN newIndex = DOMAIN index \cup {m} /\ newIndex[m] = keys
      /\ \A n \in DOMAIN index : n # m => newIndex[n] = index[n]
  <2>1. CASE keys = << >>
    <3>1. newIndex = Without(index, m)
      BY <2>1
    <3>2. /\ DOMAIN newIndex = DOMAIN index \ {m}
          /\ \A n \in DOMAIN index : n # m => newIndex[n] = index[n]
      BY <3>1 DEF Without, Restrict
    <3> QED
      BY <2>1, <3>2
  <2>2. CASE keys # << >>
    <3>1. newIndex = With(index, m, keys)
      BY <2>2
    <3>2. /\ DOMAIN newIndex = DOMAIN index \cup {m}
          /\ newIndex[m] = keys
          /\ \A n \in DOMAIN index : n # m => newIndex[n] = index[n]
      BY <3>1 DEF With
    <3> QED
      BY <2>2, <3>2
  <2> QED
    BY <2>1, <2>2
<1>1. At(newIndex, m) = keys
  BY <1>0 DEF At
<1>2. ASSUME NEW n \in KeyId \ {m}
      PROVE  At(newIndex, n) = At(index, n)
  BY <1>0 DEF At
<1>3. \A n \in KeyId \ {m} : Present(newVals, n) = Present(vals, n)
  BY DEF Present
<1>4. DOMAIN newIndex \subseteq KeyId
  BY <1>0 DEF IndexInv
<1>5. ASSUME NEW n \in DOMAIN newIndex
      PROVE  newIndex[n] \in Seq(MapKey) /\ newIndex[n] # << >>
  BY <1>0 DEF IndexInv
<1>6. ASSUME NEW n \in KeyId
      PROVE  /\ IsInjective(At(newIndex, n))
             /\ Range(At(newIndex, n)) = Present(newVals, n)
  <2>1. CASE n = m
    BY <1>1, <2>1
  <2>2. CASE n # m
    BY <1>2, <1>3, <2>2 DEF IndexInv
  <2> QED
    BY <2>1, <2>2
<1> QED
  BY <1>4, <1>5, <1>6 DEF IndexInv

LEMMA InsertStep ==
  ASSUME IndexInv(mapKeys, mapKeyVals), NEW m \in KeyId, NEW key \in MapKey, NEW v \in Value
  PROVE  IndexInv(Indexed(m, key), Stored(m, key, v))
<1> DEFINE vals == Stored(m, key, v)
           keys == IF key \in Range(KeysIn(m)) THEN KeysIn(m) ELSE Append(KeysIn(m), key)
<1>1. /\ KeysIn(m) \in Seq(MapKey) /\ IsInjective(KeysIn(m))
      /\ Range(KeysIn(m)) = Present(mapKeyVals, m)
      /\ mapKeyVals \in [KeyId \X MapKey -> Value \cup {None}]
  BY KeysInIsAt, AtTyped DEF IndexInv
<1>2. v # None
  BY ValueAssumption
<1>3. /\ vals \in [KeyId \X MapKey -> Value \cup {None}]
      /\ \A n \in KeyId \ {m}, k \in MapKey : vals[<<n, k>>] = mapKeyVals[<<n, k>>]
      /\ Present(vals, m) = Present(mapKeyVals, m) \cup {key}
  BY <1>1, <1>2 DEF Stored, Present
<1>4. /\ keys \in Seq(MapKey) /\ IsInjective(keys)
      /\ Range(keys) = Present(vals, m)
  BY <1>1, <1>3, Appended
<1> HIDE DEF vals
<1>5. CASE key \notin Range(KeysIn(m))
  <2>1. keys # << >> /\ Indexed(m, key) = With(mapKeys, m, keys)
    BY <1>1, <1>5, Appended DEF Indexed
  <2> HIDE DEF keys
  <2>2. IndexInv(Indexed(m, key), vals)
    BY <1>3, <1>4, <2>1, IndexStep
  <2> QED
    BY <2>2 DEF vals
<1>6. CASE key \in Range(KeysIn(m))
  <2>1. Indexed(m, key) = mapKeys
    BY <1>6 DEF Indexed
  <2>2. \A n \in KeyId : Present(vals, n) = Present(mapKeyVals, n)
    <3>1. Present(vals, m) = Present(mapKeyVals, m)
      BY <1>1, <1>3, <1>6
    <3>2. \A n \in KeyId \ {m} : Present(vals, n) = Present(mapKeyVals, n)
      BY <1>3 DEF Present
    <3> QED
      BY <3>1, <3>2
  <2>3. IndexInv(mapKeys, vals)
    BY <1>3, <2>2 DEF IndexInv
  <2> QED
    BY <2>1, <2>3 DEF vals
<1> QED
  BY <1>5, <1>6

LEMMA RemoveStep ==
  ASSUME IndexInv(mapKeys, mapKeyVals), NEW m \in KeyId, NEW key \in MapKey
  PROVE  IndexInv(Unindexed(m, key), Stored(m, key, None))
<1> DEFINE vals == Stored(m, key, None)
           rest == Kept(KeysIn(m), Range(KeysIn(m)) \ {key})
<1>1. /\ KeysIn(m) \in Seq(MapKey) /\ IsInjective(KeysIn(m))
      /\ Range(KeysIn(m)) = Present(mapKeyVals, m)
      /\ mapKeyVals \in [KeyId \X MapKey -> Value \cup {None}]
  BY KeysInIsAt, AtTyped DEF IndexInv
<1>2. /\ vals \in [KeyId \X MapKey -> Value \cup {None}]
      /\ \A n \in KeyId \ {m}, k \in MapKey : vals[<<n, k>>] = mapKeyVals[<<n, k>>]
      /\ Present(vals, m) = Present(mapKeyVals, m) \ {key}
  BY <1>1 DEF Stored, Present
<1>3. /\ rest \in Seq(MapKey) /\ IsInjective(rest)
      /\ Range(rest) = Range(KeysIn(m)) \ {key}
  BY <1>1, KeptFacts
<1>4. Unindexed(m, key) = IF rest = << >> THEN Without(mapKeys, m) ELSE With(mapKeys, m, rest)
  BY DEF Unindexed
<1> HIDE DEF vals, rest
<1>5. IndexInv(Unindexed(m, key), vals)
  BY <1>1, <1>2, <1>3, <1>4, IndexStep
<1> QED
  BY <1>5 DEF vals

LEMMA ClearStep ==
  ASSUME IndexInv(mapKeys, mapKeyVals), NEW m \in KeyId
  PROVE  /\ IndexInv(Without(mapKeys, m), Cleared(m))
         /\ Cleared(m) = [e \in KeyId \X MapKey |-> IF e[1] = m THEN None ELSE mapKeyVals[e]]
<1>1. /\ Range(KeysIn(m)) = Present(mapKeyVals, m)
      /\ mapKeyVals \in [KeyId \X MapKey -> Value \cup {None}]
  BY KeysInIsAt DEF IndexInv
<1>2. Cleared(m) = [e \in KeyId \X MapKey |-> IF e[1] = m THEN None ELSE mapKeyVals[e]]
  <2>1. ASSUME NEW e \in KeyId \X MapKey, e[1] = m, e[2] \notin Range(KeysIn(m))
        PROVE  mapKeyVals[e] = None
    <3>1. e = <<m, e[2]>> /\ e[2] \in MapKey
      BY <2>1
    <3> QED
      BY <1>1, <2>1, <3>1 DEF Present
  <2> QED
    BY <2>1 DEF Cleared
<1>3. /\ Cleared(m) \in [KeyId \X MapKey -> Value \cup {None}]
      /\ \A n \in KeyId \ {m}, k \in MapKey : Cleared(m)[<<n, k>>] = mapKeyVals[<<n, k>>]
      /\ \A k \in MapKey : Cleared(m)[<<m, k>>] = None
  BY <1>1, <1>2
<1>4. Present(Cleared(m), m) = {}
  BY <1>3 DEF Present
<1>5. /\ << >> \in Seq(MapKey) /\ IsInjective(<< >>) /\ Range(<< >>) = {}
  BY DEF IsInjective, Range
<1>6. IndexInv(Without(mapKeys, m), Cleared(m))
  BY <1>3, <1>4, <1>5, IndexStep
<1> QED
  BY <1>2, <1>6

-----------------------------------------------------------------------------
(* The steps.                                                              *)

LEMMA SameWriteGuard ==
  ASSUME NEW c \in Principal, NEW m \in KeyId
  PROVE  /\ KM!EnsureUserCanWrite(c, m) = Rust!KM!EnsureUserCanWrite(c, m)
         /\ KM!EnsureUserCanRead(c, m) = Rust!KM!EnsureUserCanRead(c, m)
         /\ MayWrite(c, m) <=> Rust!MayWrite(c, m)
<1>1. KM!Entries[<<c, m>>] = KM!Find(c, m)
  BY DEF KM!Entries
<1> QED
  BY <1>1 DEF MayWrite, Rust!MayWrite, KM!EnsureUserCanWrite, Rust!KM!EnsureUserCanWrite,
       KM!EnsureUserCanRead, Rust!KM!EnsureUserCanRead,
       KM!EnsureUser, Rust!KM!EnsureUser, KM!Owner, Rust!KM!Owner, KM!Ok, Rust!KM!Ok,
       KM!Err, Rust!KM!Err, IsOk, Rust!IsOk

(* What the scans of the Rust maps find.  No key comes before itself, and  *)
(* none before the empty blob.                                             *)
LEMMA Orders ==
  /\ \A u \in Principal : <<u, u>> \notin PrincipalBefore
  /\ \A b \in KeyName \cup MapKey : <<b, b>> \notin BlobBefore /\ <<b, EmptyBlob>> \notin BlobBefore
BY OrderAssumption DEF IsOrder

(* The scan that begins at a map's id with an empty key finds the entries  *)
(* of that map, from the first to the last.                                *)
LEMMA RustScanOfMap ==
  ASSUME NEW m \in KeyId
  PROVE  Rust!EntriesOf(m) = {e \in KeyId \X MapKey : e[1] = m /\ mapKeyVals[e] # Rust!None}
<1> DEFINE start == <<m, EmptyBlob>>
           wanted == {m} \X MapKey
<1>1. m[1] \in Principal /\ m[2] \in KeyName
  BY KeyIdAssumption
<1>2. ~ Rust!IdPrecedes(m, m)
  BY <1>1, Orders DEF Rust!IdPrecedes
<1>3. ASSUME NEW e \in KeyId \X MapKey, e[1] = m
      PROVE  ~ Rust!Precedes(e, start)
  BY <1>2, <1>3, Orders DEF Rust!Precedes
<1>4. ASSUME NEW d \in Rust!From(start) \ wanted, NEW e \in KeyId \X MapKey, e[1] = m
      PROVE  ~ Rust!Precedes(d, e)
  <2>1. d \in KeyId \X MapKey /\ ~ Rust!Precedes(d, start) /\ d[1] # m
    BY <1>4 DEF Rust!From
  <2> QED
    BY <1>4, <2>1 DEF Rust!Precedes
<1>5. ASSUME NEW e \in KeyId \X MapKey
      PROVE  e \in Rust!EntriesOf(m) <=> e[1] = m /\ mapKeyVals[e] # Rust!None
  <2>1. e \in wanted <=> e[1] = m
    OBVIOUS
  <2> QED
    BY <1>3, <1>4, <1>5, <2>1 DEF Rust!EntriesOf, Rust!Scan, Rust!From
<1> QED
  BY <1>5 DEF Rust!EntriesOf, Rust!Scan, Rust!From

LEMMA RustKeysOfMap ==
  ASSUME NEW m \in KeyId
  PROVE  /\ Rust!KeysIn(m) = {key \in MapKey : mapKeyVals[<<m, key>>] # Rust!None}
         /\ {<<e[2], mapKeyVals[e]>> : e \in Rust!EntriesOf(m)}
               = {<<key, mapKeyVals[<<m, key>>]>> : key \in Rust!KeysIn(m)}
         /\ Rust!Cleared(m)
               = [e \in KeyId \X MapKey |-> IF e[1] = m THEN Rust!None ELSE mapKeyVals[e]]
<1>1. Rust!EntriesOf(m) = {e \in KeyId \X MapKey : e[1] = m /\ mapKeyVals[e] # Rust!None}
  BY RustScanOfMap
<1>2. ASSUME NEW key
      PROVE  key \in Rust!KeysIn(m) <=> key \in MapKey /\ mapKeyVals[<<m, key>>] # Rust!None
  <2>1. ASSUME key \in MapKey, mapKeyVals[<<m, key>>] # Rust!None
        PROVE  key \in Rust!KeysIn(m)
    <3>1. <<m, key>> \in Rust!EntriesOf(m) /\ <<m, key>>[2] = key
      BY <1>1, <2>1
    <3> QED
      BY <3>1 DEF Rust!KeysIn
  <2>2. ASSUME key \in Rust!KeysIn(m)
        PROVE  key \in MapKey /\ mapKeyVals[<<m, key>>] # Rust!None
    <3>1. PICK e \in Rust!EntriesOf(m) : key = e[2]
      BY <2>2 DEF Rust!KeysIn
    <3>2. e = <<m, key>> /\ key \in MapKey
      BY <1>1, <3>1
    <3> QED
      BY <1>1, <3>2
  <2> QED
    BY <2>1, <2>2
<1>3. Rust!KeysIn(m) = {key \in MapKey : mapKeyVals[<<m, key>>] # Rust!None}
  BY <1>2
<1>4. {<<e[2], mapKeyVals[e]>> : e \in Rust!EntriesOf(m)}
        = {<<key, mapKeyVals[<<m, key>>]>> : key \in Rust!KeysIn(m)}
  <2> DEFINE pair(e) == <<e[2], mapKeyVals[e]>>
             kept(key) == <<key, mapKeyVals[<<m, key>>]>>
  <2>1. ASSUME NEW e \in Rust!EntriesOf(m)
        PROVE  e[2] \in Rust!KeysIn(m) /\ pair(e) = kept(e[2])
    <3>1. e = <<m, e[2]>>
      BY <1>1
    <3> QED
      BY <3>1 DEF Rust!KeysIn
  <2>2. ASSUME NEW key \in Rust!KeysIn(m)
        PROVE  <<m, key>> \in Rust!EntriesOf(m) /\ kept(key) = pair(<<m, key>>)
    BY <1>1, <1>3
  <2> HIDE DEF pair, kept
  <2>3. {pair(e) : e \in Rust!EntriesOf(m)} = {kept(key) : key \in Rust!KeysIn(m)}
    BY <2>1, <2>2
  <2> QED
    BY <2>3 DEF pair, kept
<1>5. \A e \in KeyId \X MapKey :
         (IF e[1] = m /\ e[2] \in Rust!KeysIn(m) THEN Rust!None ELSE mapKeyVals[e])
            = IF e[1] = m THEN Rust!None ELSE mapKeyVals[e]
  <2> TAKE e \in KeyId \X MapKey
  <2>1. CASE e[1] = m
    BY <1>3, <2>1
  <2> QED
    BY <2>1
<1>6. Rust!Cleared(m) = [e \in KeyId \X MapKey |-> IF e[1] = m THEN Rust!None ELSE mapKeyVals[e]]
  BY <1>5 DEF Rust!Cleared
<1> QED
  BY <1>3, <1>4, <1>6

(* The scan for the maps a user owns.                                      *)
LEMMA RustOwnedMaps ==
  ASSUME NEW c \in Principal
  PROVE  Rust!GetOwnedNonEmptyMaps(c) = {m \in KeyId : Rust!Owner(m) = c /\ Rust!KeysIn(m) # {}}
<1> DEFINE owned == {m \in KeyId : Rust!Owner(m) = c}
           start == <<<<c, EmptyBlob>>, EmptyBlob>>
           wanted == owned \X MapKey
           found == {e \in KeyId \X MapKey : Rust!Owner(e[1]) = c /\ mapKeyVals[e] # Rust!None}
<1>1. \A m \in KeyId : m[1] \in Principal /\ m[2] \in KeyName
  BY KeyIdAssumption
<1>2. ASSUME NEW e \in KeyId \X MapKey, Rust!Owner(e[1]) = c
      PROVE  ~ Rust!Precedes(e, start)
  <2>1. ~ Rust!IdPrecedes(e[1], <<c, EmptyBlob>>)
    BY <1>1, <1>2, Orders DEF Rust!IdPrecedes, Rust!Owner
  <2> QED
    BY <2>1, Orders DEF Rust!Precedes
<1>3. ASSUME NEW d \in Rust!From(start) \ wanted, NEW e \in KeyId \X MapKey, Rust!Owner(e[1]) = c
      PROVE  ~ Rust!Precedes(d, e)
  <2>1. d \in KeyId \X MapKey /\ ~ Rust!Precedes(d, start) /\ Rust!Owner(d[1]) # c
    BY <1>3 DEF Rust!From
  <2>2. ~ Rust!IdPrecedes(d[1], <<c, EmptyBlob>>)
    BY <2>1 DEF Rust!Precedes
  <2>3. <<d[1][1], c>> \notin PrincipalBefore
    BY <2>2 DEF Rust!IdPrecedes
  <2> QED
    BY <1>3, <2>1, <2>3 DEF Rust!Precedes, Rust!IdPrecedes, Rust!Owner
<1>4. Rust!Scan(start, wanted) = found
  <2>1. ASSUME NEW e \in KeyId \X MapKey
        PROVE  e \in Rust!Scan(start, wanted) <=> Rust!Owner(e[1]) = c /\ mapKeyVals[e] # Rust!None
    <3>1. e \in wanted <=> Rust!Owner(e[1]) = c
      OBVIOUS
    <3> HIDE DEF wanted, start
    <3> QED
      BY <1>2, <1>3, <2>1, <3>1 DEF Rust!Scan, Rust!From
  <2> QED
    BY <2>1 DEF Rust!Scan, Rust!From
<1>5. \A m \in KeyId : Rust!KeysIn(m) # {} <=> \E key \in MapKey : mapKeyVals[<<m, key>>] # Rust!None
  <2> TAKE m \in KeyId
  <2>1. Rust!KeysIn(m) = {key \in MapKey : mapKeyVals[<<m, key>>] # Rust!None}
    BY RustKeysOfMap
  <2> QED
    BY <2>1
<1>6. {e[1] : e \in found} = {m \in KeyId : Rust!Owner(m) = c /\ Rust!KeysIn(m) # {}}
  <2>1. ASSUME NEW e \in found
        PROVE  e[1] \in KeyId /\ Rust!Owner(e[1]) = c /\ Rust!KeysIn(e[1]) # {}
    <3>1. e[1] \in KeyId /\ e[2] \in MapKey /\ e = <<e[1], e[2]>>
      OBVIOUS
    <3> QED
      BY <1>5, <3>1
  <2>2. ASSUME NEW m \in KeyId, Rust!Owner(m) = c, Rust!KeysIn(m) # {}
        PROVE  \E e \in found : m = e[1]
    <3>1. PICK key \in MapKey : mapKeyVals[<<m, key>>] # Rust!None
      BY <1>5, <2>2
    <3>2. <<m, key>> \in found /\ <<m, key>>[1] = m
      BY <2>2, <3>1
    <3> QED
      BY <3>2
  <2> HIDE DEF found
  <2> QED
    BY <2>1, <2>2
<1> HIDE DEF found
<1> QED
  BY <1>4, <1>6 DEF Rust!GetOwnedNonEmptyMaps

LEMMA RustKeys ==
  ASSUME IInv, NEW m \in KeyId
  PROVE  Rust!KeysIn(m) = Range(KeysIn(m)) /\ Rust!KeysIn(m) = Present(mapKeyVals, m)
BY KeysInIsAt, RustKeysOfMap DEF IInv, IndexInv, Present, None, Rust!None

LEMMA ValuesStep ==
  ASSUME IInv, UpdateValues
  PROVE  IInv' /\ Rust!UpdateValues
<1>1. PICK c \in Principal, m \in KeyId :
         \/ \E key \in MapKey, v \in Value : InsertEncryptedValue(c, m, key, v)
         \/ \E key \in MapKey : RemoveEncryptedValue(c, m, key)
         \/ RemoveMapValues(c, m)
         \/ \E op \in {"insert", "remove value", "clear"} : WriteRefused(op, c, m)
  BY DEF UpdateValues
<1>2. UNCHANGED <<accessControl, sharedKeys>>
  BY <1>1 DEF InsertEncryptedValue, RemoveEncryptedValue, RemoveMapValues, WriteRefused
<1>3. /\ KMP!IInv'
      /\ UNCHANGED <<KM!Entries, KM!Pairs>>
      /\ IndexInv(mapKeys, mapKeyVals)
  BY <1>2, RightsKept DEF IInv
<1>4. ASSUME NEW key \in MapKey, NEW v \in Value, InsertEncryptedValue(c, m, key, v)
      PROVE  IInv' /\ Rust!InsertEncryptedValue(c, m, key, v)
  <2>1. IndexInv(mapKeys, mapKeyVals)'
    <3>1. mapKeys' = Indexed(m, key) /\ mapKeyVals' = Stored(m, key, v)
      BY <1>4 DEF InsertEncryptedValue
    <3> QED
      BY <1>3, <3>1, InsertStep DEF IndexInv, Present, At
  <2> QED
    BY <1>3, <1>4, <2>1, SameWriteGuard
    DEF IInv, InsertEncryptedValue, Rust!InsertEncryptedValue, Stored, Rust!Stored,
        Reply, Rust!Reply, Ok, Rust!Ok
<1>5. ASSUME NEW key \in MapKey, RemoveEncryptedValue(c, m, key)
      PROVE  IInv' /\ Rust!RemoveEncryptedValue(c, m, key)
  <2>1. IndexInv(mapKeys, mapKeyVals)'
    <3>1. mapKeys' = Unindexed(m, key) /\ mapKeyVals' = Stored(m, key, None)
      BY <1>5 DEF RemoveEncryptedValue
    <3> QED
      BY <1>3, <3>1, RemoveStep DEF IndexInv, Present, At
  <2> QED
    BY <1>3, <1>5, <2>1, SameWriteGuard
    DEF IInv, RemoveEncryptedValue, Rust!RemoveEncryptedValue, Stored, Rust!Stored,
        Reply, Rust!Reply, Ok, Rust!Ok, None, Rust!None
<1>6. ASSUME RemoveMapValues(c, m)
      PROVE  IInv' /\ Rust!RemoveMapValues(c, m)
  <2>1. mapKeys' = Without(mapKeys, m) /\ mapKeyVals' = Cleared(m)
    BY <1>6 DEF RemoveMapValues
  <2>2. IndexInv(mapKeys, mapKeyVals)'
    BY <1>3, <2>1, ClearStep DEF IndexInv, Present, At
  <2>3. mapKeyVals' = Rust!Cleared(m)
    BY <1>3, <2>1, ClearStep, RustKeysOfMap DEF None, Rust!None
  <2> QED
    BY <1>3, <1>6, <2>2, <2>3, SameWriteGuard, RustKeys
    DEF IInv, RemoveMapValues, Rust!RemoveMapValues, Reply, Rust!Reply, Ok, Rust!Ok,
        None, Rust!None
<1>7. ASSUME NEW op, WriteRefused(op, c, m)
      PROVE  IInv' /\ Rust!WriteRefused(op, c, m)
  <2>1. IndexInv(mapKeys, mapKeyVals)'
    BY <1>3, <1>7 DEF WriteRefused, IndexInv, Present, At
  <2> QED
    BY <1>3, <1>7, <2>1, SameWriteGuard
    DEF IInv, WriteRefused, Rust!WriteRefused, Reply, Rust!Reply
<1> QED
  BY <1>1, <1>4, <1>5, <1>6, <1>7 DEF Rust!UpdateValues

LEMMA RustStep ==
  ASSUME IInv, [Next]_vars
  PROVE  IInv' /\ [Rust!Next]_(Rust!vars)
<1>1. CASE UNCHANGED vars
  BY <1>1, RightsKept DEF vars, IInv, IndexInv, Present, At, Rust!vars
<1>2. CASE UpdateRights
  <2>1. KMP!IInv' /\ Rust!KM!Next /\ UNCHANGED <<mapKeyVals, mapKeys>>
    BY <1>2, RightsStep DEF UpdateRights, IInv
  <2> QED
    BY <2>1 DEF IInv, IndexInv, Present, At, Rust!Next, Rust!UpdateRights
<1>3. CASE UpdateValues
  BY <1>3, ValuesStep DEF Rust!Next
<1> QED
  BY <1>1, <1>2, <1>3 DEF Next

LEMMA Initially ==
  ASSUME Init
  PROVE  IInv /\ Rust!Init
<1>1. KMP!IInv /\ KMP!Rust!Init
  <2>1. KMP!Init
    BY DEF Init, KM!Init, KMP!Init, KM!NoCall, KMP!NoCall
  <2> QED
    BY <2>1, KMP!Initially, KeyIdAssumption, RightsAssumption DEF None, KMP!None
<1>2. Rust!KM!Init
  BY <1>1, SameMaps DEF Rust!KM!Init, KMP!Rust!Init, Rust!KM!None, KMP!Rust!None,
                        Rust!KM!NoCall, KMP!Rust!NoCall
<1>3. /\ mapKeyVals = [e \in KeyId \X MapKey |-> None]
      /\ mapKeys = << >>
  BY DEF Init
<1>4. \A m \in KeyId : At(mapKeys, m) = << >> /\ Present(mapKeyVals, m) = {}
  BY <1>3 DEF At, Present
<1>5. IndexInv(mapKeys, mapKeyVals)
  BY <1>3, <1>4 DEF IndexInv, IsInjective, Range
<1> QED
  BY <1>1, <1>2, <1>3, <1>5 DEF IInv, Rust!Init, None, Rust!None

LEMMA Invariant == Spec => []IInv
<1>1. IInv /\ [Next]_vars => IInv'
  BY RustStep
<1> QED
  BY Initially, <1>1, PTL DEF Spec

(* The arrays of rights, the values and the index always have the form the *)
(* methods rely on.                                                        *)
THEOREM TypeCorrect == Spec => []TypeOK
<1>1. IInv => TypeOK
  BY DEF IInv, IndexInv, TypeOK, KMP!IInv, KM!TypeOK
<1> QED
  BY Invariant, <1>1, PTL

(* The index and the values stay in step, whatever is inserted, removed    *)
(* and cleared, and whoever may: each key with a value is in the index     *)
(* once, no other key is, and no map is in it without a key.               *)
THEOREM IndexInStep == Spec => []IndexMatchesValues
<1>1. IInv => IndexMatchesValues
  BY KeysInIsAt DEF IInv, IndexInv, IndexMatchesValues, Present
<1> QED
  BY Invariant, <1>1, PTL

(* The Motoko maps implement the Rust ones: they take the same steps and   *)
(* give the same replies to every update, of rights and of values, for any *)
(* users, maps, keys, values and access rights.                            *)
THEOREM RefinesRust == Spec => ImplementsRust
<1>1. Init => Rust!Init
  BY Initially
<1>2. IInv /\ [Next]_vars => [Rust!Next]_(Rust!vars)
  BY RustStep
<1> QED
  BY Invariant, <1>1, <1>2, PTL DEF Spec, ImplementsRust, Rust!Spec

-----------------------------------------------------------------------------
(* The queries.                                                            *)

(* What the key manager lists, as a set, is what the Rust one lists. *)
LEMMA SameKeyIds ==
  ASSUME KMP!IInv, NEW c \in Principal
  PROVE  Range(KM!GetAccessibleSharedKeyIds(c)) = Rust!KM!GetAccessibleSharedKeyIds(c)
<1>1. KMP!Range(KMP!GetAccessibleSharedKeyIds(c)) = KMP!Rust!GetAccessibleSharedKeyIds(c)
  BY KMP!SameIds, KeyIdAssumption, RightsAssumption DEF None, KMP!None
<1>2. KM!GetAccessibleSharedKeyIds(c) = KMP!GetAccessibleSharedKeyIds(c)
  BY DEF KM!GetAccessibleSharedKeyIds, KMP!GetAccessibleSharedKeyIds
<1>3. Rust!KM!GetAccessibleSharedKeyIds(c) = KMP!Rust!GetAccessibleSharedKeyIds(c)
  BY SameMaps DEF Rust!KM!GetAccessibleSharedKeyIds, KMP!Rust!GetAccessibleSharedKeyIds,
                  Rust!KM!None, KMP!Rust!None
<1> QED
  BY <1>1, <1>2, <1>3 DEF Range, KMP!Range

LEMMA SameUsers ==
  ASSUME Rights \subseteq Readers, KMP!IInv, NEW c \in Principal, NEW m \in KeyId
  PROVE  KM!SameList(KM!GetSharedUserAccessForKey(c, m),
                     Rust!KM!GetSharedUserAccessForKey(c, m))
<1>1. KMP!SameList(KMP!GetSharedUserAccessForKey(c, m),
                   KMP!Rust!GetSharedUserAccessForKey(c, m))
  BY KMP!SameUsers, KeyIdAssumption, RightsAssumption DEF None, KMP!None
<1>3. \A a, b : KM!SameList(a, b) <=> KMP!SameList(a, b)
  BY DEF KM!SameList, KMP!SameList, KM!IsOk, KMP!IsOk, KM!Range, KMP!Range
<1>6. KM!GetSharedUserAccessForKey(c, m) = KMP!GetSharedUserAccessForKey(c, m)
  BY DEF KM!GetSharedUserAccessForKey, KMP!GetSharedUserAccessForKey,
         KM!GetUserRights, KMP!GetUserRights, KM!EnsureUserCanRead,
         KMP!EnsureUserCanRead, KM!EnsureUserCanGetUserRights,
         KMP!EnsureUserCanGetUserRights, KM!EnsureUser, KMP!EnsureUser,
         KM!Find, KMP!Find, KM!Positions, KMP!Positions, KM!FirstPosition,
         KMP!FirstPosition, KM!Ok, KMP!Ok, KM!Err, KMP!Err, KM!IsOk,
         KMP!IsOk, KM!None, KMP!None, KM!Trap, KMP!Trap, KM!Owner,
         KMP!Owner
<1>7. /\ \A res : Rust!KM!IsOk(res) <=> KMP!Rust!IsOk(res)
      /\ \A v : Rust!KM!Ok(v) = KMP!Rust!Ok(v)
      /\ Rust!KM!None = KMP!Rust!None /\ Rust!KM!Trap = KMP!Rust!Trap
  BY DEF Rust!KM!IsOk, KMP!Rust!IsOk, Rust!KM!Ok, KMP!Rust!Ok, Rust!KM!None,
         KMP!Rust!None, Rust!KM!Trap, KMP!Rust!Trap
<1>8. \A u, k : /\ Rust!KM!EnsureUserCanRead(u, k) = KMP!Rust!EnsureUserCanRead(u, k)
                /\ Rust!KM!EnsureUserCanGetUserRights(u, k)
                      = KMP!Rust!EnsureUserCanGetUserRights(u, k)
  BY SameRustGuard DEF Rust!KM!EnsureUserCanRead, KMP!Rust!EnsureUserCanRead,
         Rust!KM!EnsureUserCanGetUserRights, KMP!Rust!EnsureUserCanGetUserRights
<1>9. \A u, k, v : Rust!KM!GetUserRights(u, k, v) = KMP!Rust!GetUserRights(u, k, v)
  BY <1>7, <1>8 DEF Rust!KM!GetUserRights, KMP!Rust!GetUserRights
<1>10. Rust!KM!SharedWith(m) = KMP!Rust!SharedWith(m)
  BY SameMaps DEF Rust!KM!SharedWith, KMP!Rust!SharedWith
<1>11. Rust!KM!GetSharedUserAccessForKey(c, m) = KMP!Rust!GetSharedUserAccessForKey(c, m)
  BY <1>7, <1>8, <1>9, <1>10
     DEF Rust!KM!GetSharedUserAccessForKey, KMP!Rust!GetSharedUserAccessForKey
<1> QED
  BY <1>1, <1>3, <1>6, <1>11

(* The values of one map, listed by the index, are those the scan finds. *)
LEMMA SameValues ==
  ASSUME IInv, NEW c \in Principal, NEW m \in KeyId
  PROVE  LET mo == GetEncryptedValuesForMap(c, m)
             rust == Rust!GetEncryptedValuesForMap(c, m)
         IN  /\ mo.tag = rust.tag
             /\ IF mo.tag = "Ok" THEN Range(mo.value) = rust.value ELSE mo.value = rust.value
<1> DEFINE present == Kept(KeysIn(m), {key \in MapKey : mapKeyVals[<<m, key>>] # None})
           list == [i \in DOMAIN present |-> <<present[i], mapKeyVals[<<m, present[i]>>]>>]
<1>1. /\ KeysIn(m) \in Seq(MapKey)
      /\ Range(KeysIn(m)) = Present(mapKeyVals, m)
  BY KeysInIsAt, AtTyped DEF IInv, IndexInv
<1>2. Range(present) = Present(mapKeyVals, m)
  <2>1. present = Kept(KeysIn(m), Present(mapKeyVals, m))
    BY DEF Present
  <2> HIDE DEF present
  <2>2. Range(Kept(KeysIn(m), Present(mapKeyVals, m)))
          = Range(KeysIn(m)) \cap Present(mapKeyVals, m)
    BY <1>1, KeptFacts
  <2> QED
    BY <1>1, <2>1, <2>2
<1>3. Range(list) = {<<key, mapKeyVals[<<m, key>>]>> : key \in Range(present)}
  <2> HIDE DEF present
  <2> QED
    BY DEF Range
<1>4. Range(list) = {<<key, mapKeyVals[<<m, key>>]>> : key \in Rust!KeysIn(m)}
  BY <1>2, <1>3, RustKeys
<1> HIDE DEF list
<1>5. GetEncryptedValuesForMap(c, m)
        = IF ~ IsOk(KM!EnsureUserCanRead(c, m)) THEN KM!EnsureUserCanRead(c, m) ELSE Ok(list)
  BY DEF GetEncryptedValuesForMap, list
<1>6. Rust!GetEncryptedValuesForMap(c, m)
        = IF ~ IsOk(KM!EnsureUserCanRead(c, m)) THEN KM!EnsureUserCanRead(c, m)
          ELSE Ok(Range(list))
  BY <1>4, RustKeysOfMap, SameWriteGuard
     DEF Rust!GetEncryptedValuesForMap, IsOk, Rust!IsOk, Ok, Rust!Ok
<1> QED
  BY <1>5, <1>6 DEF IsOk, Ok

LEMMA SameAccessList ==
  ASSUME Rights \subseteq Readers, IInv, NEW c \in Principal, NEW m \in KeyId
  PROVE  /\ AccessList(c, m).tag = Rust!AccessList(c, m).tag
         /\ AccessList(c, m).tag # "Trap" =>
               Range(AccessList(c, m).value) = Rust!AccessList(c, m).value
<1> DEFINE mo == KM!GetSharedUserAccessForKey(c, m)
           rust == Rust!KM!GetSharedUserAccessForKey(c, m)
<1>1. KM!SameList(mo, rust)
  BY SameUsers DEF IInv
<1> HIDE DEF mo, rust
<1>2. /\ mo.tag = rust.tag
      /\ mo.tag = "Ok" => Range(mo.value) = rust.value
  BY <1>1 DEF KM!SameList, KM!IsOk, KM!Range, Range
<1>3. /\ AccessList(c, m) = IF mo.tag \in {"Ok", "Trap"} THEN mo ELSE Ok(<< >>)
      /\ Rust!AccessList(c, m) = IF rust.tag \in {"Ok", "Trap"} THEN rust ELSE Ok({})
  BY DEF AccessList, Rust!AccessList, mo, rust, IsOk, Rust!IsOk, IsTrap, Rust!IsTrap,
         Ok, Rust!Ok
<1>4. Range(<< >>) = {}
  BY DEF Range
<1> QED
  BY <1>2, <1>3, <1>4 DEF Ok

LEMMA SameMapIds ==
  ASSUME Rights \subseteq Readers, IInv, NEW c \in Principal
  PROVE  /\ GetOwnedNonEmptyMaps(c) = Rust!GetOwnedNonEmptyMaps(c)
         /\ GetAccessibleMapIds(c) = Rust!GetAccessibleMapIds(c)
         /\ GetAccessibleMapIds(c) \subseteq KeyId
<1>1. ASSUME NEW m \in KeyId
      PROVE  m \in DOMAIN mapKeys <=> Rust!KeysIn(m) # {}
  <2>1. /\ At(mapKeys, m) \in Seq(MapKey)
        /\ m \in DOMAIN mapKeys <=> At(mapKeys, m) # << >>
    BY AtTyped DEF IInv, IndexInv, At
  <2>2. Range(At(mapKeys, m)) = Rust!KeysIn(m)
    BY RustKeys, KeysInIsAt
  <2> QED
    BY <2>1, <2>2, EmptyRange
<1>2. GetOwnedNonEmptyMaps(c) = Rust!GetOwnedNonEmptyMaps(c)
  BY <1>1, RustOwnedMaps DEF IInv, IndexInv, GetOwnedNonEmptyMaps, Owner, Rust!Owner
<1>3. GetOwnedNonEmptyMaps(c) \subseteq KeyId
  BY DEF IInv, IndexInv, GetOwnedNonEmptyMaps
<1>4. Rust!KM!GetAccessibleSharedKeyIds(c) \subseteq KeyId
  BY DEF Rust!KM!GetAccessibleSharedKeyIds
<1> QED
  BY <1>2, <1>3, <1>4, SameKeyIds DEF IInv, GetAccessibleMapIds, Rust!GetAccessibleMapIds

(* The overviews read every map that is listed: they trap together, and    *)
(* show the same sets.                                                     *)
LEMMA SameOverviews ==
  ASSUME Rights \subseteq Readers, IInv, NEW c \in Principal
  PROVE  /\ GetAllAccessibleEncryptedValues(c) = Rust!GetAllAccessibleEncryptedValues(c)
         /\ GetAllAccessibleEncryptedMaps(c) = Rust!GetAllAccessibleEncryptedMaps(c)
<1> DEFINE maps == GetAccessibleMapIds(c)
           mo(m) == GetEncryptedValuesForMap(c, m)
           rust(m) == Rust!GetEncryptedValuesForMap(c, m)
           moList(m) == AccessList(c, m)
           rustList(m) == Rust!AccessList(c, m)
<1>1. maps = Rust!GetAccessibleMapIds(c) /\ maps \subseteq KeyId
  BY SameMapIds
<1>2. ASSUME NEW m \in maps
      PROVE  /\ mo(m).tag = rust(m).tag
             /\ mo(m).tag = "Ok" => Range(mo(m).value) = rust(m).value
             /\ moList(m).tag = rustList(m).tag
             /\ moList(m).tag # "Trap" => Range(moList(m).value) = rustList(m).value
  BY <1>1, SameValues, SameAccessList
<1>3. /\ GetAllAccessibleEncryptedValues(c) =
            IF \E m \in maps : mo(m).tag # "Ok" THEN Trap
            ELSE Ok({<<m, Range(mo(m).value)>> : m \in maps})
      /\ Rust!GetAllAccessibleEncryptedValues(c) =
            IF \E m \in maps : rust(m).tag # "Ok" THEN Trap
            ELSE Ok({<<m, rust(m).value>> : m \in maps})
  BY <1>1 DEF GetAllAccessibleEncryptedValues, Rust!GetAllAccessibleEncryptedValues,
       IsOk, Rust!IsOk, Ok, Rust!Ok, Trap, Rust!Trap, None, Rust!None
<1>4. /\ GetAllAccessibleEncryptedMaps(c) =
            IF \E m \in maps : mo(m).tag # "Ok" \/ moList(m).tag = "Trap" THEN Trap
            ELSE Ok({[map |-> m, keyvals |-> Range(mo(m).value),
                      access_control |-> Range(moList(m).value)] : m \in maps})
      /\ Rust!GetAllAccessibleEncryptedMaps(c) =
            IF \E m \in maps : rust(m).tag # "Ok" \/ rustList(m).tag = "Trap" THEN Trap
            ELSE Ok({[map |-> m, keyvals |-> rust(m).value,
                      access_control |-> rustList(m).value] : m \in maps})
  BY <1>1 DEF GetAllAccessibleEncryptedMaps, Rust!GetAllAccessibleEncryptedMaps,
       IsOk, Rust!IsOk, IsTrap, Rust!IsTrap, Ok, Rust!Ok, Trap, Rust!Trap, None, Rust!None
<1> HIDE DEF maps, mo, rust, moList, rustList
<1>5. GetAllAccessibleEncryptedValues(c) = Rust!GetAllAccessibleEncryptedValues(c)
  <2>1. CASE \E m \in maps : mo(m).tag # "Ok"
    BY <1>2, <1>3, <2>1
  <2>2. CASE \A m \in maps : mo(m).tag = "Ok"
    <3>1. {<<m, Range(mo(m).value)>> : m \in maps} = {<<m, rust(m).value>> : m \in maps}
      BY <1>2, <2>2
    <3> QED
      BY <1>2, <1>3, <2>2, <3>1
  <2> QED
    BY <2>1, <2>2
<1>6. GetAllAccessibleEncryptedMaps(c) = Rust!GetAllAccessibleEncryptedMaps(c)
  <2>1. CASE \E m \in maps : mo(m).tag # "Ok" \/ moList(m).tag = "Trap"
    BY <1>2, <1>4, <2>1
  <2>2. CASE \A m \in maps : mo(m).tag = "Ok" /\ moList(m).tag # "Trap"
    <3>1. {[map |-> m, keyvals |-> Range(mo(m).value),
            access_control |-> Range(moList(m).value)] : m \in maps}
            = {[map |-> m, keyvals |-> rust(m).value,
                access_control |-> rustList(m).value] : m \in maps}
      BY <1>2, <2>2
    <3> QED
      BY <1>2, <1>4, <2>2, <3>1
  <2> QED
    BY <2>1, <2>2
<1> QED
  BY <1>5, <1>6

(* Each query on values is answered as the Rust maps answer it in the same *)
(* state, by the index here and by a scan there; where the answers name    *)
(* who a map is shared with, provided every right of T allows reading, as  *)
(* in the AccessRights enum.                                               *)
THEOREM AnswersAgree ==
  ASSUME Rights \subseteq Readers
  PROVE  Spec => []SameAnswers
<1>1. IInv => SameAnswers
  <2> SUFFICES ASSUME IInv, NEW c \in Principal
               PROVE  /\ \A m \in KeyId :
                            /\ KM!SameList(GetEncryptedValuesForMap(c, m),
                                           Rust!GetEncryptedValuesForMap(c, m))
                            /\ \A key \in MapKey :
                                  GetEncryptedValue(c, m, key) = Rust!GetEncryptedValue(c, m, key)
                      /\ GetOwnedNonEmptyMaps(c) = Rust!GetOwnedNonEmptyMaps(c)
                      /\ GetAllAccessibleEncryptedValues(c)
                            = Rust!GetAllAccessibleEncryptedValues(c)
                      /\ GetAllAccessibleEncryptedMaps(c)
                            = Rust!GetAllAccessibleEncryptedMaps(c)
    BY DEF SameAnswers
  <2>1. ASSUME NEW m \in KeyId
        PROVE  KM!SameList(GetEncryptedValuesForMap(c, m), Rust!GetEncryptedValuesForMap(c, m))
    BY SameValues DEF KM!SameList, KM!IsOk, KM!Range, Range
  <2>2. ASSUME NEW m \in KeyId, NEW key \in MapKey
        PROVE  GetEncryptedValue(c, m, key) = Rust!GetEncryptedValue(c, m, key)
    BY SameWriteGuard DEF GetEncryptedValue, Rust!GetEncryptedValue, IsOk, Rust!IsOk,
                          Ok, Rust!Ok
  <2> QED
    BY <2>1, <2>2, SameMapIds, SameOverviews
<1> QED
  BY Invariant, <1>1, PTL
=============================================================================
