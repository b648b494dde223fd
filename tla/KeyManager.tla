----------------------------- MODULE KeyManager -----------------------------
(***************************************************************************)
(* The Rust KeyManager: two stable maps that must tell the same story.     *)
(* access_control answers "what may this user do", shared_keys answers     *)
(* "with whom is this key shared"; every update writes both.               *)
(*                                                                         *)
(* A call is one atomic step: neither update method awaits.  The query     *)
(* methods change nothing and are operators on the state, so a property    *)
(* can ask any of them in any state.  call holds the last update with the  *)
(* reply it got, which is what the users see of the two maps' history.     *)
(***************************************************************************)
EXTENDS VetKeysTypes

VARIABLES
    access_control,   \* [Principal \X KeyId -> MaybeRights], None: no entry
    shared_keys,      \* the set of pairs <<key id, user>>
    call              \* the last update call, with its reply

vars == <<access_control, shared_keys, call>>

NoCall == [op |-> "none"]

Calls == [op : {"set", "remove"}, caller : Principal, key : KeyId,
          user : Principal,
          reply : [tag : {"Ok"}, value : MaybeRights]
                  \cup [tag : {"Err"}, value : {"unauthorized", "owner"}]]

TypeOK ==
    /\ access_control \in [Principal \X KeyId -> MaybeRights]
    /\ shared_keys \subseteq KeyId \X Principal
    /\ call \in Calls \cup {NoCall}

Init ==
    /\ access_control = [e \in Principal \X KeyId |-> None]
    /\ shared_keys = {}
    /\ call = NoCall

-----------------------------------------------------------------------------
(* The guards.  The owner is let through before the map is looked at.      *)

(* Slip (not the code): the stored entry is looked at before ownership.    *)
EnsureUserEntryFirst(user, k, allowing) ==
    IF access_control[<<user, k>>] \in allowing THEN Ok(access_control[<<user, k>>])
    ELSE IF access_control[<<user, k>>] # None THEN Err("unauthorized")
    ELSE IF user = Owner(k) THEN Ok(OwnerRights)
    ELSE Err("unauthorized")

EnsureUser(user, k, allowing) ==
    IF user = Owner(k) THEN Ok(OwnerRights)
    ELSE IF access_control[<<user, k>>] \in allowing THEN Ok(access_control[<<user, k>>])
    ELSE Err("unauthorized")

(* Slips (not the code): a guard asks for its neighbour's right; a guard   *)
(* lets everyone through.                                                  *)
EnsureUserWrites(user, k) == EnsureUser(user, k, Writers)
EnsureAnyone(user, k) == EnsureUser(user, k, MaybeRights)

EnsureUserCanRead(user, k) == EnsureUser(user, k, Readers)
EnsureUserCanWrite(user, k) == EnsureUser(user, k, Writers)
EnsureUserCanGetUserRights(user, k) == EnsureUser(user, k, Viewers)
EnsureUserCanSetUserRights(user, k) == EnsureUser(user, k, Managers)

-----------------------------------------------------------------------------
(* The queries.                                                            *)

GetAccessibleSharedKeyIds(caller) ==
    {k \in KeyId : access_control[<<caller, k>>] # None}

(* Whoever is asked about has some access as far as this answer goes when  *)
(* he can read.                                                            *)
GetUserRights(caller, k, user) ==
    IF ~ IsOk(EnsureUserCanGetUserRights(caller, k))
    THEN EnsureUserCanGetUserRights(caller, k)
    ELSE IF IsOk(EnsureUserCanRead(user, k)) THEN EnsureUserCanRead(user, k)
    ELSE Ok(None)

SharedWith(k) == {user \in Principal : <<k, user>> \in shared_keys}

(* One pair for each user in shared_keys; a user without rights there is   *)
(* an expect() that fails.                                                 *)
GetSharedUserAccessForKey(caller, k) ==
    IF ~ IsOk(EnsureUserCanGetUserRights(caller, k))
    THEN EnsureUserCanGetUserRights(caller, k)
    ELSE IF \E user \in SharedWith(k) : GetUserRights(caller, k, user) = Ok(None)
    THEN Trap
    ELSE Ok({<<user, GetUserRights(caller, k, user).value>> : user \in SharedWith(k)})

-----------------------------------------------------------------------------
(* The updates.                                                            *)

Reply(op, caller, k, user, reply) ==
    call' = [op |-> op, caller |-> caller, key |-> k, user |-> user, reply |-> reply]

(* The owner cannot name itself in an update; a manager can name the owner.*)
OwnerNamesItself(caller, k, user) == caller = Owner(k) /\ caller = user

(* Slips (not the code): the pair stored the wrong way round; a removal    *)
(* that leaves the reverse index alone; one that takes every key of a user.*)
SharedSwapped(k, user) == shared_keys \cup {<<user, k>>}
UnsharedNothing(k, user) == shared_keys
EntryOfAnyKey(user, k, r) ==
    [e \in Principal \X KeyId |-> IF e[1] = user THEN r ELSE access_control[e]]

Shared(k, user) == shared_keys \cup {<<k, user>>}
Unshared(k, user) == shared_keys \ {<<k, user>>}
Entry(user, k, r) == [access_control EXCEPT ![<<user, k>>] = r]

SetUserRights(caller, k, user, r) ==
    /\ IsOk(EnsureUserCanSetUserRights(caller, k))
    /\ ~ OwnerNamesItself(caller, k, user)
    /\ shared_keys' = Shared(k, user)
    /\ access_control' = Entry(user, k, r)
    /\ Reply("set", caller, k, user, Ok(access_control[<<user, k>>]))

RemoveUser(caller, k, user) ==
    /\ IsOk(EnsureUserCanSetUserRights(caller, k))
    /\ ~ OwnerNamesItself(caller, k, user)
    /\ shared_keys' = Unshared(k, user)
    /\ access_control' = Entry(user, k, None)
    /\ Reply("remove", caller, k, user, Ok(access_control[<<user, k>>]))

Unauthorized(op, caller, k, user) ==
    /\ ~ IsOk(EnsureUserCanSetUserRights(caller, k))
    /\ Reply(op, caller, k, user, EnsureUserCanSetUserRights(caller, k))
    /\ UNCHANGED <<access_control, shared_keys>>

OwnersRightsFixed(op, caller, k, user) ==
    /\ IsOk(EnsureUserCanSetUserRights(caller, k))
    /\ OwnerNamesItself(caller, k, user)
    /\ Reply(op, caller, k, user, Err("owner"))
    /\ UNCHANGED <<access_control, shared_keys>>

Next ==
    \E caller, user \in Principal, k \in KeyId :
        \/ \E r \in Rights : SetUserRights(caller, k, user, r)
        \/ RemoveUser(caller, k, user)
        \/ \E op \in {"set", "remove"} : Unauthorized(op, caller, k, user)
        \/ \E op \in {"set", "remove"} : OwnersRightsFixed(op, caller, k, user)

Spec == Init /\ [][Next]_vars

-----------------------------------------------------------------------------
(* Properties.                                                             *)

(* The two maps agree: a user has an entry for a key exactly when the key  *)
(* lists the user.  Every update writes both maps, in separate statements. *)
IndexesAgree ==
    \A u \in Principal, k \in KeyId :
        access_control[<<u, k>>] # None <=> <<k, u>> \in shared_keys

(* What two different queries say of one share is the same, whoever asks:  *)
(* the list a viewer gets of a key names exactly the users whose own list  *)
(* has the key, each with the rights the guards will act on, and the query *)
(* does not panic on its expect("always some access rights").              *)
ListingsAgree ==
    \A k \in KeyId, viewer \in Principal :
        LET list == GetSharedUserAccessForKey(viewer, k)
        IN  IsOk(EnsureUserCanGetUserRights(viewer, k)) =>
                /\ IsOk(list)
                /\ {e[1] : e \in list.value}
                      = {u \in Principal : k \in GetAccessibleSharedKeyIds(u)}
                /\ \A e \in list.value : EnsureUserCanRead(e[1], k) = Ok(e[2])

(* As long as nobody has an entry for a key, only its owner can create     *)
(* one: no sequence of calls by others opens a key the owner never shared. *)
FirstShareIsOwners ==
    [][\A k \in KeyId :
          /\ \A u \in Principal : access_control[<<u, k>>] = None
          /\ \E u \in Principal : access_control'[<<u, k>>] # None
          => call'.caller = Owner(k)]_vars

(* A user who cannot read a key, say because he was removed, can read it   *)
(* again only after a grant to him by another user who managed the key at  *)
(* the time of the grant.                                                  *)
AccessComesFromAManager ==
    [][\A u \in Principal, k \in KeyId :
          ~ IsOk(EnsureUserCanRead(u, k)) /\ IsOk(EnsureUserCanRead(u, k)') =>
              /\ call'.op = "set" /\ call'.key = k /\ call'.user = u
              /\ call'.caller # u
              /\ IsOk(call'.reply)
              /\ \/ call'.caller = Owner(k)
                 \/ CanSetUserRights(access_control[<<call'.caller, k>>])]_vars

(* The matrix of rights that the answers to the owner's questions draw.    *)
AnsweredRights ==
    [k \in KeyId |-> [u \in Principal |-> GetUserRights(Owner(k), k, u).value]]

Sharing == INSTANCE KeySharing WITH matrix <- AnsweredRights

(* The two maps, as the queries read them, behave as one matrix of rights  *)
(* in which the owner's row cannot be touched and in which each accepted   *)
(* update replaces the one entry it names and reports what was there.      *)
ImplementsKeySharing == Sharing!Spec

(* The documentation of the lists of a key's, or a map's, users says that  *)
(* they leave out the owner.                                               *)
ListExcludesOwner ==
    \A k \in KeyId : Owner(k) \notin SharedWith(k)
=============================================================================
