-------------------------- MODULE KeyManagerProofs --------------------------
(***************************************************************************)
(* Proofs about the Rust KeyManager, for any set of users and keys and any *)
(* type T of access rights.                                                *)
(***************************************************************************)
EXTENDS KeyManager, TLAPS

(* A key id names its owner. *)
LEMMA OwnerIsPrincipal ==
  ASSUME NEW k \in KeyId
  PROVE  Owner(k) \in Principal
BY KeyIdAssumption DEF Owner

(* A guard either lets the user through with rights of his, or says so.    *)
LEMMA GuardAnswers ==
  ASSUME NEW u \in Principal, NEW k \in KeyId, NEW allowing, TypeOK,
         allowing \subseteq Rights
  PROVE  \/ EnsureUser(u, k, allowing) = Err("unauthorized")
         \/ /\ EnsureUser(u, k, allowing).tag = "Ok"
            /\ EnsureUser(u, k, allowing).value \in Rights
BY RightsAssumption DEF EnsureUser, TypeOK, Ok, Err

(* A refused update: the guard answered with its error. *)
LEMMA RefusalIsUnauthorized ==
  ASSUME NEW u \in Principal, NEW k \in KeyId, TypeOK,
         ~ IsOk(EnsureUserCanSetUserRights(u, k))
  PROVE  EnsureUserCanSetUserRights(u, k) = Err("unauthorized")
BY GuardAnswers, RightsAssumption DEF EnsureUserCanSetUserRights, IsOk

(* The reply of an accepted update is of the type its signature declares.  *)
LEMMA OkReplyTyped ==
  ASSUME NEW op \in {"set", "remove"}, NEW caller \in Principal, NEW k \in KeyId,
         NEW user \in Principal, NEW v \in MaybeRights,
         Reply(op, caller, k, user, Ok(v))
  PROVE  call' \in Calls
BY DEF Reply, Ok, Calls

(* So is the reply of a refused one. *)
LEMMA ErrReplyTyped ==
  ASSUME NEW op \in {"set", "remove"}, NEW caller \in Principal, NEW k \in KeyId,
         NEW user \in Principal, NEW m \in {"unauthorized", "owner"},
         Reply(op, caller, k, user, Err(m))
  PROVE  call' \in Calls
BY DEF Reply, Err, Calls

-----------------------------------------------------------------------------
(* The state always has the form the queries rely on: every entry of       *)
(* access_control holds a value of T or nothing, and the replies are those *)
(* the signatures declare.                                                 *)
THEOREM TypeCorrect == Spec => []TypeOK
<1>1. Init => TypeOK
  BY DEF Init, TypeOK, MaybeRights
<1>2. TypeOK /\ [Next]_vars => TypeOK'
  <2> SUFFICES ASSUME TypeOK, [Next]_vars
               PROVE  TypeOK'
    OBVIOUS
  <2>1. CASE UNCHANGED vars
    BY <2>1 DEF vars, TypeOK, Calls, NoCall
  <2>2. ASSUME NEW caller \in Principal, NEW user \in Principal, NEW k \in KeyId,
               NEW r \in Rights, SetUserRights(caller, k, user, r)
        PROVE  TypeOK'
    <3>1. access_control[<<user, k>>] \in MaybeRights
      BY DEF TypeOK
    <3>2. call' \in Calls
      BY <2>2, <3>1, OkReplyTyped DEF SetUserRights
    <3>3. r \in MaybeRights
      BY DEF MaybeRights
    <3> QED
      BY <2>2, <3>2, <3>3 DEF SetUserRights, Shared, Entry, TypeOK
  <2>3. ASSUME NEW caller \in Principal, NEW user \in Principal, NEW k \in KeyId,
               RemoveUser(caller, k, user)
        PROVE  TypeOK'
    <3>1. access_control[<<user, k>>] \in MaybeRights
      BY DEF TypeOK
    <3>2. call' \in Calls
      BY <2>3, <3>1, OkReplyTyped DEF RemoveUser
    <3>3. None \in MaybeRights
      BY DEF MaybeRights
    <3> QED
      BY <2>3, <3>2, <3>3 DEF RemoveUser, Unshared, Entry, TypeOK
  <2>4. ASSUME NEW caller \in Principal, NEW user \in Principal, NEW k \in KeyId,
               NEW op \in {"set", "remove"}, Unauthorized(op, caller, k, user)
        PROVE  TypeOK'
    <3>1. EnsureUserCanSetUserRights(caller, k) = Err("unauthorized")
      BY <2>4, RefusalIsUnauthorized DEF Unauthorized
    <3>2. call' \in Calls
      BY <2>4, <3>1, ErrReplyTyped DEF Unauthorized
    <3> QED
      BY <2>4, <3>2 DEF Unauthorized, TypeOK
  <2>5. ASSUME NEW caller \in Principal, NEW user \in Principal, NEW k \in KeyId,
               NEW op \in {"set", "remove"}, OwnersRightsFixed(op, caller, k, user)
        PROVE  TypeOK'
    <3>1. call' \in Calls
      BY <2>5, ErrReplyTyped DEF OwnersRightsFixed
    <3> QED
      BY <2>5, <3>1 DEF OwnersRightsFixed, TypeOK
  <2> QED
    BY <2>1, <2>2, <2>3, <2>4, <2>5 DEF Next
<1> QED
  BY <1>1, <1>2, PTL DEF Spec

-----------------------------------------------------------------------------
(* The two maps of the key manager always agree on who shares what.        *)
THEOREM MapsAgree == Spec => []IndexesAgree
<1>1. Init => IndexesAgree
  BY DEF Init, IndexesAgree
<1>2. TypeOK /\ IndexesAgree /\ [Next]_vars => IndexesAgree'
  <2> SUFFICES ASSUME TypeOK, IndexesAgree, [Next]_vars,
                      NEW u \in Principal, NEW j \in KeyId
               PROVE  access_control'[<<u, j>>] # None <=> <<j, u>> \in shared_keys'
    BY DEF IndexesAgree
  <2>1. CASE UNCHANGED <<access_control, shared_keys>>
    BY <2>1 DEF IndexesAgree
  <2>2. ASSUME NEW caller \in Principal, NEW user \in Principal, NEW k \in KeyId,
               NEW r \in Rights, SetUserRights(caller, k, user, r)
        PROVE  access_control'[<<u, j>>] # None <=> <<j, u>> \in shared_keys'
    BY <2>2, RightsAssumption DEF SetUserRights, Shared, Entry, IndexesAgree, TypeOK
  <2>3. ASSUME NEW caller \in Principal, NEW user \in Principal, NEW k \in KeyId,
               RemoveUser(caller, k, user)
        PROVE  access_control'[<<u, j>>] # None <=> <<j, u>> \in shared_keys'
    BY <2>3 DEF RemoveUser, Unshared, Entry, IndexesAgree, TypeOK
  <2> QED
    BY <2>1, <2>2, <2>3 DEF Next, vars, Unauthorized, OwnersRightsFixed
<1> QED
  BY <1>1, <1>2, TypeCorrect, PTL DEF Spec

-----------------------------------------------------------------------------
(* Two facts about the guards that the remaining proofs share.             *)

LEMMA MayManage ==
  ASSUME NEW u \in Principal, NEW k \in KeyId, TypeOK
  PROVE  IsOk(EnsureUserCanSetUserRights(u, k))
           <=> u = Owner(k) \/ access_control[<<u, k>>] \in Managers
BY DEF IsOk, EnsureUserCanSetUserRights, EnsureUser, Ok, Err

LEMMA MayRead ==
  ASSUME NEW u \in Principal, NEW k \in KeyId
  PROVE  IsOk(EnsureUserCanRead(u, k))
           <=> u = Owner(k) \/ access_control[<<u, k>>] \in Readers
BY DEF IsOk, EnsureUserCanRead, EnsureUser, Ok, Err

(* An entry changes only in an accepted update that names it.              *)
LEMMA EntryChange ==
  ASSUME TypeOK, [Next]_vars, NEW u \in Principal, NEW k \in KeyId,
         access_control'[<<u, k>>] # access_control[<<u, k>>]
  PROVE  /\ call'.caller \in Principal
         /\ IsOk(EnsureUserCanSetUserRights(call'.caller, k))
         /\ call'.key = k /\ call'.user = u
         /\ ~ OwnerNamesItself(call'.caller, k, u)
         /\ IsOk(call'.reply)
         /\ \/ call'.op = "set"
            \/ call'.op = "remove" /\ access_control'[<<u, k>>] = None
<1>1. ~ UNCHANGED access_control
  OBVIOUS
<1>2. ASSUME NEW caller \in Principal, NEW user \in Principal, NEW j \in KeyId,
             NEW r \in Rights, SetUserRights(caller, j, user, r)
      PROVE  /\ IsOk(EnsureUserCanSetUserRights(caller, k)) /\ user = u /\ j = k
             /\ ~ OwnerNamesItself(caller, k, u)
             /\ call'.op = "set" /\ call'.caller = caller /\ call'.key = k
             /\ call'.user = u /\ IsOk(call'.reply)
  <2>1. user = u /\ j = k
    BY <1>2 DEF SetUserRights, Shared, Entry, TypeOK
  <2> QED
    BY <1>2, <2>1 DEF SetUserRights, Reply, Ok, IsOk
<1>3. ASSUME NEW caller \in Principal, NEW user \in Principal, NEW j \in KeyId,
             RemoveUser(caller, j, user)
      PROVE  /\ IsOk(EnsureUserCanSetUserRights(caller, k)) /\ user = u /\ j = k
             /\ ~ OwnerNamesItself(caller, k, u)
             /\ call'.op = "remove" /\ call'.caller = caller /\ call'.key = k
             /\ call'.user = u /\ IsOk(call'.reply)
             /\ access_control'[<<u, k>>] = None
  <2>1. user = u /\ j = k
    BY <1>3 DEF RemoveUser, Unshared, Entry, TypeOK
  <2>2. access_control'[<<u, k>>] = None
    BY <1>3, <2>1 DEF RemoveUser, Unshared, Entry, TypeOK
  <2> QED
    BY <1>3, <2>1, <2>2 DEF RemoveUser, Reply, Ok, IsOk
<1> QED
  BY <1>1, <1>2, <1>3 DEF Next, vars, Unauthorized, OwnersRightsFixed

-----------------------------------------------------------------------------
(* The first entry of a key is made by its owner.                          *)
THEOREM FirstShare == Spec => FirstShareIsOwners
<1>1. TypeOK /\ [Next]_vars =>
        [\A k \in KeyId :
            /\ \A u \in Principal : access_control[<<u, k>>] = None
            /\ \E u \in Principal : access_control'[<<u, k>>] # None
            => call'.caller = Owner(k)]_vars
  <2> SUFFICES ASSUME TypeOK, [Next]_vars, NEW k \in KeyId,
                      \A u \in Principal : access_control[<<u, k>>] = None,
                      NEW u \in Principal, access_control'[<<u, k>>] # None
               PROVE  call'.caller = Owner(k)
    OBVIOUS
  <2>1. /\ call'.caller \in Principal
        /\ IsOk(EnsureUserCanSetUserRights(call'.caller, k))
    BY EntryChange
  <2>2. access_control[<<call'.caller, k>>] \notin Managers
    BY <2>1, RightsAssumption
  <2> QED
    BY <2>1, <2>2, MayManage
<1> QED
  BY <1>1, TypeCorrect, PTL DEF Spec, FirstShareIsOwners

(* Whoever could not read a key reads it only after somebody else who      *)
(* managed it granted him that.  The trait does not say that a right to    *)
(* manage allows reading; where it does not, its holder can grant himself  *)
(* the rest.  In the AccessRights enum it does.                            *)
THEOREM AccessFromManager ==
  ASSUME Managers \subseteq Readers
  PROVE  Spec => AccessComesFromAManager
<1>1. TypeOK /\ [Next]_vars =>
        [\A u \in Principal, k \in KeyId :
            ~ IsOk(EnsureUserCanRead(u, k)) /\ IsOk(EnsureUserCanRead(u, k)') =>
                /\ call'.op = "set" /\ call'.key = k /\ call'.user = u
                /\ call'.caller # u
                /\ IsOk(call'.reply)
                /\ \/ call'.caller = Owner(k)
                   \/ CanSetUserRights(access_control[<<call'.caller, k>>])]_vars
  <2> SUFFICES ASSUME TypeOK, [Next]_vars, NEW u \in Principal, NEW k \in KeyId,
                      ~ IsOk(EnsureUserCanRead(u, k)), IsOk(EnsureUserCanRead(u, k)')
               PROVE  /\ call'.op = "set" /\ call'.key = k /\ call'.user = u
                      /\ call'.caller # u
                      /\ IsOk(call'.reply)
                      /\ \/ call'.caller = Owner(k)
                         \/ CanSetUserRights(access_control[<<call'.caller, k>>])
    OBVIOUS
  <2>1. u # Owner(k) /\ access_control[<<u, k>>] \notin Readers
    BY MayRead
  <2>2. access_control'[<<u, k>>] \in Readers
    BY <2>1 DEF EnsureUserCanRead, EnsureUser, IsOk, Err, Owner
  <2>3. /\ call'.caller \in Principal
        /\ IsOk(EnsureUserCanSetUserRights(call'.caller, k))
        /\ call'.op = "set" /\ call'.key = k /\ call'.user = u
        /\ IsOk(call'.reply)
    BY <2>1, <2>2, EntryChange, RightsAssumption
  <2>4. call'.caller = Owner(k) \/ access_control[<<call'.caller, k>>] \in Managers
    BY <2>3, MayManage
  <2>5. call'.caller # u
    BY <2>1, <2>4
  <2> QED
    BY <2>3, <2>4, <2>5 DEF CanSetUserRights
<1> QED
  BY <1>1, TypeCorrect, PTL DEF Spec, AccessComesFromAManager

-----------------------------------------------------------------------------
(* The two listings agree with each other and with the guards, and neither *)
(* panics, provided every right of T allows reading: a user with a right   *)
(* that does not would be listed without any.                              *)
THEOREM SameListings ==
  ASSUME Rights \subseteq Readers
  PROVE  Spec => []ListingsAgree
<1>1. TypeOK /\ IndexesAgree => ListingsAgree
  <2> SUFFICES ASSUME TypeOK, IndexesAgree, NEW k \in KeyId, NEW viewer \in Principal,
                      IsOk(EnsureUserCanGetUserRights(viewer, k))
               PROVE  LET list == GetSharedUserAccessForKey(viewer, k)
                      IN  /\ IsOk(list)
                          /\ {e[1] : e \in list.value}
                                = {u \in Principal : k \in GetAccessibleSharedKeyIds(u)}
                          /\ \A e \in list.value : EnsureUserCanRead(e[1], k) = Ok(e[2])
    BY DEF ListingsAgree
  <2> DEFINE rights(u) == GetUserRights(viewer, k, u)
  <2>1. ASSUME NEW u \in SharedWith(k)
        PROVE  /\ rights(u) = EnsureUserCanRead(u, k)
               /\ rights(u) = Ok(rights(u).value)
               /\ rights(u) # Ok(None)
    <3>1. u \in Principal /\ access_control[<<u, k>>] \in Readers
      BY DEF SharedWith, IndexesAgree, TypeOK, MaybeRights
    <3>2. IsOk(EnsureUserCanRead(u, k))
      BY <3>1, MayRead
    <3>3. rights(u) = EnsureUserCanRead(u, k)
      BY <3>2 DEF GetUserRights
    <3> QED
      BY <3>1, <3>3, RightsAssumption DEF EnsureUserCanRead, EnsureUser, Ok
  <2>2. GetSharedUserAccessForKey(viewer, k)
          = Ok({<<u, rights(u).value>> : u \in SharedWith(k)})
    BY <2>1 DEF GetSharedUserAccessForKey
  <2>3. {e[1] : e \in {<<u, rights(u).value>> : u \in SharedWith(k)}} = SharedWith(k)
    <3> DEFINE L == {<<u, rights(u).value>> : u \in SharedWith(k)}
    <3> HIDE DEF rights
    <3>1. ASSUME NEW v \in SharedWith(k)
          PROVE  \E e \in L : e[1] = v
      <4>1. <<v, rights(v).value>> \in L /\ <<v, rights(v).value>>[1] = v
        OBVIOUS
      <4> QED
        BY <4>1
    <3>2. ASSUME NEW e \in L
          PROVE  e[1] \in SharedWith(k)
      OBVIOUS
    <3> HIDE DEF L
    <3>3. {e[1] : e \in L} = SharedWith(k)
      BY <3>1, <3>2
    <3> QED
      BY <3>3 DEF L
  <2>4. SharedWith(k) = {u \in Principal : k \in GetAccessibleSharedKeyIds(u)}
    BY DEF SharedWith, GetAccessibleSharedKeyIds, IndexesAgree
  <2>5. ASSUME NEW e \in {<<u, rights(u).value>> : u \in SharedWith(k)}
        PROVE  EnsureUserCanRead(e[1], k) = Ok(e[2])
    BY <2>1
  <2> QED
    BY <2>2, <2>3, <2>4, <2>5 DEF IsOk, Ok
<1> QED
  BY <1>1, TypeCorrect, MapsAgree, PTL

-----------------------------------------------------------------------------
(* The refinement.  What the owner is told of a user is what the guards    *)
(* act on, whichever of his rights they ask for.                           *)
LEMMA Answered ==
  ASSUME Rights \subseteq Readers, TypeOK, NEW k \in KeyId, NEW u \in Principal
  PROVE  AnsweredRights[k][u]
           = IF u = Owner(k) THEN OwnerRights ELSE access_control[<<u, k>>]
<1>1. AnsweredRights[k][u] = GetUserRights(Owner(k), k, u).value
  BY DEF AnsweredRights
<1>2. GetUserRights(Owner(k), k, u)
        = IF IsOk(EnsureUserCanRead(u, k)) THEN EnsureUserCanRead(u, k) ELSE Ok(None)
  BY DEF GetUserRights, EnsureUserCanGetUserRights, EnsureUser, IsOk, Ok
<1>3. CASE u = Owner(k)
  BY <1>1, <1>2, <1>3 DEF EnsureUserCanRead, EnsureUser, IsOk, Ok
<1>4. CASE u # Owner(k)
  <2>1. access_control[<<u, k>>] \in Readers \/ access_control[<<u, k>>] = None
    BY DEF TypeOK, MaybeRights
  <2>2. CASE access_control[<<u, k>>] \in Readers
    BY <1>1, <1>2, <1>4, <2>2 DEF EnsureUserCanRead, EnsureUser, IsOk, Ok
  <2>3. CASE access_control[<<u, k>>] = None
    BY <1>1, <1>2, <1>4, <2>3, RightsAssumption
    DEF EnsureUserCanRead, EnsureUser, IsOk, Ok, Err
  <2> QED
    BY <2>1, <2>2, <2>3
<1> QED
  BY <1>3, <1>4

(* The same in the next state. *)
LEMMA AnsweredNext ==
  ASSUME Rights \subseteq Readers
  PROVE  (TypeOK => \A k \in KeyId, u \in Principal :
            AnsweredRights[k][u]
              = IF u = Owner(k) THEN OwnerRights ELSE access_control[<<u, k>>])'
<1>1. TypeOK => \A k \in KeyId, u \in Principal :
          AnsweredRights[k][u]
            = IF u = Owner(k) THEN OwnerRights ELSE access_control[<<u, k>>]
  BY Answered
<1> QED
  BY <1>1, PTL

LEMMA SharingMayManage ==
  ASSUME Rights \subseteq Readers, TypeOK, NEW k \in KeyId, NEW u \in Principal
  PROVE  Sharing!MayManage(u, k) <=> IsOk(EnsureUserCanSetUserRights(u, k))
BY Answered, MayManage DEF Sharing!MayManage, Sharing!CanSetUserRights, Sharing!Owner, Owner

(* Replacing one entry of access_control replaces one entry of the matrix, *)
(* or none when it is the owner's.                                         *)
LEMMA MatrixStep ==
  ASSUME Rights \subseteq Readers, TypeOK, TypeOK',
         NEW k \in KeyId, NEW user \in Principal, NEW new \in MaybeRights,
         access_control' = [access_control EXCEPT ![<<user, k>>] = new]
  PROVE  AnsweredRights' = IF user = Owner(k) THEN AnsweredRights
                           ELSE [AnsweredRights EXCEPT ![k][user] = new]
<1> DEFINE target == IF user = Owner(k) THEN AnsweredRights
                     ELSE [AnsweredRights EXCEPT ![k][user] = new]
<1>1. /\ AnsweredRights = [j \in KeyId |-> [u \in Principal |-> AnsweredRights[j][u]]]
      /\ AnsweredRights' = [j \in KeyId |-> [u \in Principal |-> AnsweredRights'[j][u]]]
  BY DEF AnsweredRights
<1>2. target = [j \in KeyId |-> [u \in Principal |-> target[j][u]]]
  BY <1>1
<1>3. ASSUME NEW j \in KeyId, NEW u \in Principal
      PROVE  AnsweredRights'[j][u] = target[j][u]
  <2>1. AnsweredRights'[j][u] = IF u = Owner(j) THEN OwnerRights ELSE access_control'[<<u, j>>]
    BY AnsweredNext DEF Owner
  <2>2. AnsweredRights[j][u] = IF u = Owner(j) THEN OwnerRights ELSE access_control[<<u, j>>]
    BY Answered
  <2>3. access_control'[<<u, j>>] = IF j = k /\ u = user THEN new ELSE access_control[<<u, j>>]
    BY DEF TypeOK
  <2>4. target[j][u] = IF user # Owner(k) /\ j = k /\ u = user THEN new
                       ELSE AnsweredRights[j][u]
    BY <1>1
  <2> QED
    BY <2>1, <2>2, <2>3, <2>4
<1> HIDE DEF target
<1>4. AnsweredRights' = target
  BY <1>1, <1>2, <1>3
<1> QED
  BY <1>4 DEF target

(* The Rust key manager implements the matrix of KeySharing.               *)
THEOREM RefinesKeySharing ==
  ASSUME Rights \subseteq Readers
  PROVE  Spec => ImplementsKeySharing
<1>1. Init => Sharing!Init
  <2> SUFFICES ASSUME Init PROVE Sharing!Init
    OBVIOUS
  <2>1. TypeOK
    BY DEF Init, TypeOK, MaybeRights
  <2>2. ASSUME NEW k \in KeyId, NEW u \in Principal
        PROVE  AnsweredRights[k][u] = IF u = Owner(k) THEN OwnerRights ELSE None
    BY <2>1, Answered DEF Init
  <2>3. AnsweredRights = [k \in KeyId |-> [u \in Principal |-> AnsweredRights[k][u]]]
    BY DEF AnsweredRights
  <2>4. AnsweredRights = Sharing!OwnersOnly
    BY <2>2, <2>3 DEF Sharing!OwnersOnly, Sharing!Owner, Owner, Sharing!None, None
  <2> QED
    BY <2>4 DEF Init, Sharing!Init, NoCall, Sharing!NoCall
<1>2. TypeOK /\ TypeOK' /\ [Next]_vars => [Sharing!Next]_<<AnsweredRights, call>>
  <2> SUFFICES ASSUME TypeOK, TypeOK', [Next]_vars
               PROVE  [Sharing!Next]_<<AnsweredRights, call>>
    OBVIOUS
  <2>1. CASE UNCHANGED vars
    BY <2>1 DEF vars, AnsweredRights, GetUserRights, EnsureUserCanGetUserRights,
                EnsureUserCanRead, EnsureUser
  <2>2. ASSUME NEW caller \in Principal, NEW user \in Principal, NEW k \in KeyId,
               NEW r \in Rights, SetUserRights(caller, k, user, r)
        PROVE  Sharing!Change("set", caller, k, user, r)
    <3>1. Sharing!Accepted(caller, k, user)
      BY <2>2, SharingMayManage
      DEF SetUserRights, Sharing!Accepted, OwnerNamesItself, Sharing!Owner, Owner
    <3>2. AnsweredRights' = IF user = Owner(k) THEN AnsweredRights
                            ELSE [AnsweredRights EXCEPT ![k][user] = r]
      BY <2>2, MatrixStep DEF SetUserRights, Entry, MaybeRights
    <3>3. /\ access_control[<<user, k>>] \in MaybeRights
          /\ user # Owner(k) => access_control[<<user, k>>] = AnsweredRights[k][user]
      BY Answered DEF TypeOK
    <3> QED
      BY <2>2, <3>1, <3>2, <3>3
      DEF SetUserRights, Sharing!Change, Reply, Sharing!Owner, Owner, Sharing!Ok, Ok,
          Sharing!MaybeRights, MaybeRights, Sharing!None, None
  <2>3. ASSUME NEW caller \in Principal, NEW user \in Principal, NEW k \in KeyId,
               RemoveUser(caller, k, user)
        PROVE  Sharing!Change("remove", caller, k, user, None)
    <3>1. Sharing!Accepted(caller, k, user)
      BY <2>3, SharingMayManage
      DEF RemoveUser, Sharing!Accepted, OwnerNamesItself, Sharing!Owner, Owner
    <3>2. AnsweredRights' = IF user = Owner(k) THEN AnsweredRights
                            ELSE [AnsweredRights EXCEPT ![k][user] = None]
      BY <2>3, MatrixStep DEF RemoveUser, Entry, MaybeRights
    <3>3. /\ access_control[<<user, k>>] \in MaybeRights
          /\ user # Owner(k) => access_control[<<user, k>>] = AnsweredRights[k][user]
      BY Answered DEF TypeOK
    <3> QED
      BY <2>3, <3>1, <3>2, <3>3
      DEF RemoveUser, Sharing!Change, Reply, Sharing!Owner, Owner, Sharing!Ok, Ok,
          Sharing!MaybeRights, MaybeRights, Sharing!None, None
  <2>4. ASSUME NEW caller \in Principal, NEW user \in Principal, NEW k \in KeyId,
               NEW op \in {"set", "remove"}, Unauthorized(op, caller, k, user)
        PROVE  Sharing!Refuse(op, caller, k, user)
    <3>1. ~ Sharing!Accepted(caller, k, user)
      BY <2>4, SharingMayManage DEF Unauthorized, Sharing!Accepted
    <3>2. AnsweredRights' = AnsweredRights
      BY <2>4 DEF Unauthorized, AnsweredRights, GetUserRights, EnsureUserCanGetUserRights,
                  EnsureUserCanRead, EnsureUser
    <3>3. EnsureUserCanSetUserRights(caller, k) = Err("unauthorized")
      BY <2>4, RefusalIsUnauthorized DEF Unauthorized
    <3> QED
      BY <2>4, <3>1, <3>2, <3>3 DEF Unauthorized, Sharing!Refuse, Reply, Sharing!Err, Err
  <2>5. ASSUME NEW caller \in Principal, NEW user \in Principal, NEW k \in KeyId,
               NEW op \in {"set", "remove"}, OwnersRightsFixed(op, caller, k, user)
        PROVE  Sharing!Refuse(op, caller, k, user)
    <3>1. ~ Sharing!Accepted(caller, k, user)
      BY <2>5 DEF OwnersRightsFixed, OwnerNamesItself, Sharing!Accepted, Sharing!Owner, Owner
    <3>2. AnsweredRights' = AnsweredRights
      BY <2>5 DEF OwnersRightsFixed, AnsweredRights, GetUserRights,
                  EnsureUserCanGetUserRights, EnsureUserCanRead, EnsureUser
    <3> QED
      BY <2>5, <3>1, <3>2 DEF OwnersRightsFixed, Sharing!Refuse, Reply, Sharing!Err, Err
  <2> QED
    BY <2>1, <2>2, <2>3, <2>4, <2>5 DEF Next, Sharing!Next, Sharing!None, None
<1> QED
  BY <1>1, <1>2, TypeCorrect, PTL DEF Spec, ImplementsKeySharing, Sharing!Spec
=============================================================================
