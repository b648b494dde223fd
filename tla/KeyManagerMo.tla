---------------------------- MODULE KeyManagerMo ----------------------------
(***************************************************************************)
(* The Motoko KeyManager.  It keeps the same two indexes as the Rust one,  *)
(* but as one array per user and one array per key, which each method      *)
(* searches from the front and replaces as a whole.  An absent array and   *)
(* an empty one are read alike by every method and are both << >> here.    *)
(***************************************************************************)
EXTENDS VetKeysTypes, Arrays

VARIABLES
    accessControl,   \* [Principal -> Seq(KeyId \X Rights)]
    sharedKeys,      \* [KeyId -> Seq(Principal)]
    call             \* the last update call, with its reply

vars == <<accessControl, sharedKeys, call>>

NoCall == [op |-> "none"]

Init ==
    /\ accessControl = [u \in Principal |-> << >>]
    /\ sharedKeys = [k \in KeyId |-> << >>]
    /\ call = NoCall

TypeOK ==
    /\ \A u \in Principal : accessControl[u] \in Seq(KeyId \X Rights)
    /\ \A k \in KeyId : sharedKeys[k] \in Seq(Principal)

-----------------------------------------------------------------------------
(* The first entry for a key in a user's array, as find and the loops over *)
(* entries see it.                                                         *)
Positions(entries, k) == {i \in DOMAIN entries : entries[i][1] = k}

FirstPosition(entries, k) ==
    CHOOSE i \in Positions(entries, k) : \A j \in Positions(entries, k) : i <= j

Find(user, k) ==
    IF Positions(accessControl[user], k) = {} THEN None
    ELSE accessControl[user][FirstPosition(accessControl[user], k)][2]

EnsureUser(user, k, allowing) ==
    IF user = Owner(k) THEN Ok(OwnerRights)
    ELSE IF Find(user, k) \in allowing THEN Ok(Find(user, k))
    ELSE Err("unauthorized")

EnsureUserCanRead(user, k) == EnsureUser(user, k, Readers)
EnsureUserCanWrite(user, k) == EnsureUser(user, k, Writers)
EnsureUserCanGetUserRights(user, k) == EnsureUser(user, k, Viewers)
EnsureUserCanSetUserRights(user, k) == EnsureUser(user, k, Managers)

-----------------------------------------------------------------------------
(* The queries.                                                            *)

GetAccessibleSharedKeyIds(caller) ==
    [i \in DOMAIN accessControl[caller] |-> accessControl[caller][i][1]]

(* Slip (not the code): no guard, the callers being trusted to have one.   *)
GetUserRightsUnguarded(caller, k, user) ==
    IF user = Owner(k) THEN Ok(OwnerRights) ELSE Ok(Find(user, k))

(* The rights found are reported whether or not they allow reading.        *)
GetUserRights(caller, k, user) ==
    IF ~ IsOk(EnsureUserCanGetUserRights(caller, k))
    THEN EnsureUserCanGetUserRights(caller, k)
    ELSE IF user = Owner(k) THEN Ok(OwnerRights)
    ELSE Ok(Find(user, k))

(* The guard is the one for reading; the one for viewing rights is met in  *)
(* GetUserRights, once for each user in the list and so only if there is   *)
(* one.                                                                    *)
GetSharedUserAccessForKey(caller, k) ==
    LET users == sharedKeys[k]
        answer(i) == GetUserRights(caller, k, users[i])
        stops == {i \in DOMAIN users : ~ IsOk(answer(i)) \/ answer(i) = Ok(None)}
    IN  IF ~ IsOk(EnsureUserCanRead(caller, k)) THEN EnsureUserCanRead(caller, k)
        ELSE IF stops # {}
        THEN LET first == CHOOSE i \in stops : \A j \in stops : i <= j
             IN  IF IsOk(answer(first)) THEN Trap ELSE answer(first)
        ELSE Ok([i \in DOMAIN users |-> <<users[i], answer(i).value>>])

-----------------------------------------------------------------------------
(* The updates.                                                            *)

Reply(op, caller, k, user, reply) ==
    call' = [op |-> op, caller |-> caller, key |-> k, user |-> user, reply |-> reply]

OwnerNamesItself(caller, k, user) == caller = Owner(k) /\ caller = user

(* Slips (not the code): a user appended without a look at those there; an *)
(* entry put in the first place, or stored the wrong way round.            *)
WithUserAppended(users, user) == Append(users, user)
WithEntryAtFront(entries, k, r) ==
    IF Positions(entries, k) = {} THEN Append(entries, <<k, r>>)
    ELSE [entries EXCEPT ![1] = <<k, r>>]
WithEntrySwapped(entries, k, r) == Append(entries, <<r, k>>)

WithUser(users, user) ==
    IF user \in Range(users) THEN users ELSE Append(users, user)

WithEntry(entries, k, r) ==
    IF Positions(entries, k) = {} THEN Append(entries, <<k, r>>)
    ELSE [entries EXCEPT ![FirstPosition(entries, k)] = <<k, r>>]

(* foldRight takes the entries from the back and appends each it keeps: the*)
(* array comes out reversed.                                               *)
WithoutEntry(entries, k) ==
    Reverse(Kept(entries, {e \in Range(entries) : e[1] # k}))

WithoutUser(users, user) == Kept(users, Range(users) \ {user})

SetUserRights(caller, k, user, r) ==
    /\ IsOk(EnsureUserCanSetUserRights(caller, k))
    /\ ~ OwnerNamesItself(caller, k, user)
    /\ sharedKeys' = [sharedKeys EXCEPT ![k] = WithUser(@, user)]
    /\ accessControl' = [accessControl EXCEPT ![user] = WithEntry(@, k, r)]
    /\ Reply("set", caller, k, user, Ok(Find(user, k)))

RemoveUserRights(caller, k, user) ==
    /\ IsOk(EnsureUserCanSetUserRights(caller, k))
    /\ ~ OwnerNamesItself(caller, k, user)
    /\ sharedKeys' = [sharedKeys EXCEPT ![k] = WithoutUser(@, user)]
    /\ accessControl' = [accessControl EXCEPT ![user] = WithoutEntry(@, k)]
    /\ Reply("remove", caller, k, user, Ok(Find(user, k)))

Unauthorized(op, caller, k, user) ==
    /\ ~ IsOk(EnsureUserCanSetUserRights(caller, k))
    /\ Reply(op, caller, k, user, EnsureUserCanSetUserRights(caller, k))
    /\ UNCHANGED <<accessControl, sharedKeys>>

OwnersRightsFixed(op, caller, k, user) ==
    /\ IsOk(EnsureUserCanSetUserRights(caller, k))
    /\ OwnerNamesItself(caller, k, user)
    /\ Reply(op, caller, k, user, Err("owner"))
    /\ UNCHANGED <<accessControl, sharedKeys>>

Next ==
    \E caller, user \in Principal, k \in KeyId :
        \/ \E r \in Rights : SetUserRights(caller, k, user, r)
        \/ RemoveUserRights(caller, k, user)
        \/ \E op \in {"set", "remove"} : Unauthorized(op, caller, k, user)
        \/ \E op \in {"set", "remove"} : OwnersRightsFixed(op, caller, k, user)

Spec == Init /\ [][Next]_vars

-----------------------------------------------------------------------------
(* Properties.                                                             *)

(* No array has two entries for one key or one user twice.  The guards act *)
(* on the first entry and an update replaces the first: a second one would *)
(* be reported by the listings and come into force with a removal.         *)
NoDuplicates ==
    /\ \A u \in Principal : IsInjective(GetAccessibleSharedKeyIds(u))
    /\ \A k \in KeyId : IsInjective(sharedKeys[k])

(* The two arrays as the two maps of the Rust key manager.                 *)
Entries == [e \in Principal \X KeyId |-> Find(e[1], e[2])]
Pairs == {e \in KeyId \X Principal : e[2] \in Range(sharedKeys[e[1]])}

Rust == INSTANCE KeyManager WITH access_control <- Entries, shared_keys <- Pairs

(* The Motoko key manager takes the same steps as the Rust one and gives   *)
(* the same replies to the updates, word for word.                         *)
ImplementsRust == Rust!Spec

(* A list of Motoko's is compared as the set Rust's list is modelled by.   *)
SameList(mo, rust) ==
    /\ mo.tag = rust.tag
    /\ IF IsOk(mo) THEN Range(mo.value) = rust.value ELSE mo.value = rust.value

(* Each query is answered as the Rust key manager answers it in the same   *)
(* state, although the guard of the list of users is a weaker one here.    *)
SameAnswers ==
    \A c \in Principal :
        /\ Range(GetAccessibleSharedKeyIds(c)) = Rust!GetAccessibleSharedKeyIds(c)
        /\ \A k \in KeyId :
              /\ SameList(GetSharedUserAccessForKey(c, k), Rust!GetSharedUserAccessForKey(c, k))
              /\ \A u \in Principal :
                    GetUserRights(c, k, u) = Rust!GetUserRights(c, k, u)
=============================================================================
