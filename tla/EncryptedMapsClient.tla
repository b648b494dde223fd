------------------------- MODULE EncryptedMapsClient -------------------------
(***************************************************************************)
(* The EncryptedMaps objects of the frontend, used by concurrent calls on  *)
(* a page, with their caches of derived key material and a canister that   *)
(* other users use too.                                                    *)
(*                                                                         *)
(* A page is set up in one of two ways.  Either it has one object with the *)
(* cache in memory, the default, whose agent changes its identity and      *)
(* whose cache is cleared then.  Or it has an object for each identity,    *)
(* each with a cache in an IndexedDB database of its own, which outlives   *)
(* the page.                                                               *)
(*                                                                         *)
(* A call runs from one await to the next without interruption, and other  *)
(* calls, clearCache(), a change of identity and a reload run in between.  *)
(* A request carries the identity the agent had when it was sent, and it   *)
(* or its reply may be lost.  A text is the place <<map, key>> it was      *)
(* written for; a ciphertext records the map whose key material made it    *)
(* and the map key authenticated with it.                                  *)
(***************************************************************************)
EXTENDS VetKeysTypes

CONSTANTS
    MapKey,     \* the keys inside a map
    User,       \* the principals that log in on the page
    Task,       \* concurrent calls of the objects' methods
    Method,     \* the methods they call
    Setup,      \* the ways to set a page up: is there an object for each user?
    Page,       \* the object of a page that has one
    Garbage,    \* bytes that decryptMessage accepts under no key
    Nothing     \* no ciphertext, no handle

ASSUME UserAssumption == User \subseteq Principal
ASSUME SetupAssumption == Setup \subseteq BOOLEAN

VARIABLES
    persistent, \* the way this page is set up
    identity,   \* the user who is logged in
    cache,      \* [Object -> [KeyId -> handle of key material, or Nothing]]
    verifiable, \* the objects that hold the verification key
    task,       \* the calls under way
    rights,     \* canister: [User \X KeyId -> MaybeRights]
    store       \* canister: [KeyId \X MapKey -> ciphertext, Garbage or Nothing]

page == <<persistent, identity, cache, verifiable>>
canister == <<rights, store>>
vars == <<page, task, canister>>

Place == KeyId \X MapKey
Text == Place
NoHandles == [m \in KeyId |-> Nothing]

(* Slip (not the code): authenticated with the map instead of the key.     *)
EncryptedForMap(m, key, text) == [under |-> m, aad |-> m, text |-> text]
Encrypted(m, key, text) == [under |-> m, aad |-> key, text |-> text]

Handle(m, who) == [map |-> m, by |-> who]

Object == IF persistent THEN User ELSE {Page}
Current == IF persistent THEN identity ELSE Page

(* Slip (not the code): the databases of all identities have one name.     *)
OneDatabase(o) == CHOOSE u \in Object : TRUE
Database(o) == o

(* The calls: of one value, of one map, and of all maps.  The last stands  *)
(* for getAllAccessibleMaps as well, which goes the same way.              *)
Request ==
    {r \in {"getValue", "setValue", "removeEncryptedValue"} \X KeyId \X MapKey
             \cup {"getValuesForMap", "removeMapValues"} \X KeyId \X {Nothing}
             \cup {"getAllAccessibleValues"} \X {Nothing} \X {Nothing} : r[1] \in Method}

Reads == {"getValue", "getValuesForMap", "getAllAccessibleValues"}

(* A call under way.  A value is a place with its ciphertext: `at' is the  *)
(* one to decrypt now, `todo' are those after it.  For the properties      *)
(* alone: mayRead, the maps that the object's user, or who signed the      *)
(* request on its way, could read at some time of the call, and did, once  *)
(* the canister has let the request pass: the places it had values for.    *)
Idle == [pc |-> "idle"]

Signer(o) == IF persistent THEN o ELSE identity

Begun(r, o) ==
    [pc |-> IF r[1] = "setValue" THEN "lookup" ELSE "call",
     op |-> r[1], map |-> r[2], key |-> r[3], object |-> o, who |-> Signer(o),
     cipher |-> Nothing, handle |-> Nothing, reply |-> Ok(Nothing),
     at |-> Nothing, todo |-> {}, shown |-> {}, mayRead |-> {}, did |-> Nothing]

(* The canister's Err, the agent's error, or a failed decryption: a throw. *)
Failed == Err(Nothing)

(* Slip (not the code): a caller whose key is refused is left waiting.     *)
SettledUnlessRefused(c, reply) ==
    IF c.pc = "derived" THEN c ELSE [c EXCEPT !.pc = "done", !.reply = reply]
Settled(c, reply) ==
    [c EXCEPT !.pc = "done", !.who = Nothing, !.cipher = Nothing, !.handle = Nothing,
              !.at = Nothing, !.todo = {}, !.reply = reply]

Refuse(c) == [Settled(c, Failed) EXCEPT !.shown = {}, !.mayRead = {}, !.did = Nothing]

(* The map whose key material a call needs, and the key within the map.    *)
Wanted(c) == IF c.at = Nothing THEN c.map ELSE c.at.place[1]

Ciphertext == [under : KeyId, aad : MapKey, text : Text]
Value == [place : Place, cipher : Ciphertext \cup {Garbage}]

ASSUME NothingAssumption == Nothing \notin Value /\ \A places \in SUBSET Place : places # Nothing

TypeOK ==
    /\ persistent \in Setup
    /\ identity \in User
    /\ cache \in [Object -> [KeyId -> [map : KeyId, by : User] \cup {Nothing}]]
    /\ verifiable \subseteq Object
    /\ \A t \in Task : task[t].pc \in {"idle", "lookup", "derive", "derived", "fetch",
                                       "fetched", "use", "call", "reply", "done"}
    /\ rights \in [User \X KeyId -> MaybeRights]
    /\ store \in [Place -> Ciphertext \cup {Garbage, Nothing}]

-----------------------------------------------------------------------------
(* The canister, as the modules KeyManager and EncryptedMaps have it: what *)
(* the endpoints these objects call do.                                    *)

Readable(u, m) == u = Owner(m) \/ rights[<<u, m>>] \in Readers
Writable(u, m) == u = Owner(m) \/ rights[<<u, m>>] \in Writers

(* Slip (not the code): the key guards the reads, the canister does not.   *)
AllowedAllReads(c) == c.op \in Reads \/ Writable(c.who, c.map)
Allowed(c) ==
    CASE c.op = "getAllAccessibleValues" -> TRUE
      [] c.op \in Reads \ {"getAllAccessibleValues"} -> Readable(c.who, c.map)
      [] OTHER -> Writable(c.who, c.map)

(* The places a request is about.                                          *)
Addressed(c) ==
    CASE c.op = "getAllAccessibleValues" -> {m \in KeyId : Readable(c.who, m)} \X MapKey
      [] c.op \in {"getValuesForMap", "removeMapValues"} -> {c.map} \X MapKey
      [] OTHER -> {<<c.map, c.key>>}

(* The values in a reply: for a write, what was there before.  Clearing a  *)
(* map replies with its keys only.                                         *)
Replied(c) ==
    IF c.op = "removeMapValues" THEN {}
    ELSE {[place |-> p, cipher |-> store[p]] : p \in {q \in Addressed(c) : store[q] # Nothing}}

Init ==
    /\ persistent \in Setup
    /\ identity \in User
    /\ cache = [o \in Object |-> NoHandles]
    /\ verifiable = {}
    /\ task = [t \in Task |-> Idle]
    /\ rights = [e \in User \X KeyId |-> None]
    /\ store = [p \in Place |-> Nothing]

(* A canister call: the reply is made, and the effect takes place, at once.*)
(* The reply may still be lost on its way.                                 *)
CanisterCall(t) ==
    LET c == task[t]
    IN  /\ c.pc = "call"
        /\ \E lost \in BOOLEAN :
              task' = [task EXCEPT ![t].pc = "reply", ![t].who = Nothing, ![t].cipher = Nothing,
                         ![t].did = IF Allowed(c) THEN {v.place : v \in Replied(c)} ELSE Nothing,
                         ![t].reply = IF ~lost /\ Allowed(c) THEN Ok(Replied(c)) ELSE Failed]
        /\ store' = IF Allowed(c) /\ c.op \notin Reads
                    THEN [p \in Place |-> IF p \in Addressed(c) THEN c.cipher ELSE store[p]]
                    ELSE store
        /\ UNCHANGED <<page, rights>>

CanisterDerive(t) ==
    LET c == task[t]
    IN  /\ c.pc = "derive"
        /\ \E lost \in BOOLEAN :
              task' = [task EXCEPT ![t].pc = "derived", ![t].who = Nothing,
                         ![t].reply = IF ~lost /\ Readable(c.who, Wanted(c))
                                      THEN Ok(Handle(Wanted(c), c.who)) ELSE Failed]
        /\ UNCHANGED <<page, canister>>

(* The request does not reach the canister, or the reply does not come.    *)
RequestFails(t) ==
    /\ task[t].pc \in {"call", "derive", "fetch"}
    /\ task' = [task EXCEPT ![t] = Refuse(task[t])]
    /\ UNCHANGED <<page, canister>>

(* Other users of the canister: rights are granted and revoked, and anyone *)
(* who can write stores what he likes, the ciphertext of another place     *)
(* included.                                                               *)
MayReadToo(u, m) ==
    [t \in Task |->
        IF /\ task[t].pc # "idle" /\ u \in {Signer(task[t].object), task[t].who}
           /\ task[t].map \in {m, Nothing}
        THEN [task[t] EXCEPT !.mayRead = @ \cup {m}] ELSE task[t]]

ChangeRights(u, m, r) ==
    /\ u # Owner(m)
    /\ rights' = [rights EXCEPT ![<<u, m>>] = r]
    /\ task' = IF r \in Readers THEN MayReadToo(u, m) ELSE task
    /\ UNCHANGED <<page, store>>

OthersWrite(p, c) ==
    /\ store' = [store EXCEPT ![p] = c]
    /\ UNCHANGED <<page, task, rights>>

-----------------------------------------------------------------------------
(* The calls of the objects.                                               *)

ReadableNow(u, r) == {m \in KeyId : r[2] \in {m, Nothing} /\ Readable(u, m)}

(* setValue encrypts before it calls the canister, the others call first.  *)
Start(t, r) ==
    /\ task[t].pc = "idle"
    /\ task' = [task EXCEPT ![t] =
                  [Begun(r, Current) EXCEPT !.mayRead = ReadableNow(identity, r)]]
    /\ UNCHANGED <<page, canister>>

(* Slip (not the code): a cache by the map's name alone.                   *)
CachedByName(o, m) ==
    LET same == {n \in KeyId : n[2] = m[2] /\ cache[Database(o)][n] # Nothing}
    IN  IF same = {} THEN Nothing ELSE cache[Database(o)][CHOOSE n \in same : TRUE]

Cached(o, m) == cache[Database(o)][m]

Opens(handle, key, cipher) ==
    cipher # Garbage /\ cipher.under = handle.map /\ cipher.aad = key

(* getDerivedKeyMaterialOrFetchIfNeeded: a hit is used, a miss asks the    *)
(* canister.  Two calls that miss together both ask.                       *)
CacheHit(t) ==
    LET c == task[t]
    IN  /\ c.pc = "lookup"
        /\ Cached(c.object, Wanted(c)) # Nothing
        /\ task' = [task EXCEPT ![t].pc = "use", ![t].handle = Cached(c.object, Wanted(c))]
        /\ UNCHANGED <<page, canister>>

CacheMiss(t) ==
    LET c == task[t]
    IN  /\ c.pc = "lookup"
        /\ Cached(c.object, Wanted(c)) = Nothing
        /\ task' = [task EXCEPT ![t].pc = "derive", ![t].who = Signer(c.object)]
        /\ UNCHANGED <<page, canister>>

(* The encrypted key has come.  The object asks once for the key it        *)
(* verifies with; calls that come to it together all ask.                  *)
KeyArrives(t) ==
    LET c == task[t]
    IN  /\ c.pc = "derived" /\ IsOk(c.reply)
        /\ task' = [task EXCEPT ![t].pc = IF c.object \in verifiable THEN "fetched" ELSE "fetch",
                                ![t].handle = c.reply.value, ![t].reply = Ok(Nothing)]
        /\ UNCHANGED <<page, canister>>

KeyRefused(t) ==
    /\ task[t].pc = "derived" /\ ~IsOk(task[t].reply)
    /\ task' = [task EXCEPT ![t] = Refuse(task[t])]
    /\ UNCHANGED <<page, canister>>

VerificationKey(t) ==
    /\ task[t].pc = "fetch"
    /\ verifiable' = verifiable \cup {task[t].object}
    /\ task' = [task EXCEPT ![t].pc = "fetched"]
    /\ UNCHANGED <<persistent, identity, cache, canister>>

(* The key is verified, put into the cache whatever happened to that       *)
(* meanwhile, and used.                                                    *)
KeyDerived(t) ==
    LET c == task[t]
    IN  /\ c.pc = "fetched"
        /\ cache' = [cache EXCEPT ![Database(c.object)][c.handle.map] = c.handle]
        /\ task' = [task EXCEPT ![t].pc = "use"]
        /\ UNCHANGED <<persistent, identity, verifiable, canister>>

(* The database rejects a read or a write, and the call throws.            *)
DatabaseFails(t) ==
    /\ persistent
    /\ task[t].pc \in {"lookup", "fetched"}
    /\ task' = [task EXCEPT ![t] = Refuse(task[t])]
    /\ UNCHANGED <<page, canister>>

(* encryptFor of setValue, then the request to the canister.               *)
Encrypt(t) ==
    LET c == task[t]
    IN  /\ c.pc = "use" /\ c.at = Nothing
        /\ task' = [task EXCEPT ![t].pc = "call", ![t].who = Signer(c.object),
                      ![t].handle = Nothing,
                      ![t].cipher = Encrypted(c.handle.map, c.key, <<c.map, c.key>>)]
        /\ UNCHANGED <<page, canister>>

(* The canister's reply: an error is thrown, no value is returned as such, *)
(* and values, for a write the one that was replaced or removed, have to   *)
(* be decrypted.                                                           *)
CallSettles(t) ==
    LET c == task[t]
    IN  /\ c.pc = "reply"
        /\ ~IsOk(c.reply) \/ c.reply.value = {}
        /\ task' = [task EXCEPT ![t] = IF IsOk(c.reply) THEN Settled(c, Ok({})) ELSE Refuse(c)]
        /\ UNCHANGED <<page, canister>>

DecryptNext(c, values) ==
    {[c EXCEPT !.pc = "lookup", !.handle = Nothing, !.reply = Ok(Nothing),
               !.at = v, !.todo = values \ {v}] : v \in values}

CallReturnsValues(t) ==
    LET c == task[t]
    IN  /\ c.pc = "reply" /\ IsOk(c.reply)
        /\ \E d \in DecryptNext(c, c.reply.value) : task' = [task EXCEPT ![t] = d]
        /\ UNCHANGED <<page, canister>>

(* decryptFor: the text, or an error of the authenticated decryption; one  *)
(* value that does not open fails a whole listing.                         *)
Opened(c) == c.shown \cup {[place |-> c.at.place, text |-> c.at.cipher.text]}

(* Slip (not the code): a value that does not open is left out.            *)
AfterDecryptLenient(c) ==
    LET d == IF Opens(c.handle, c.at.place[2], c.at.cipher)
             THEN [c EXCEPT !.shown = Opened(c)] ELSE c
    IN  IF c.todo = {} THEN {Settled(d, Ok({}))} ELSE DecryptNext(d, c.todo)

AfterDecrypt(c) ==
    LET d == [c EXCEPT !.shown = Opened(c)]
    IN  CASE ~Opens(c.handle, c.at.place[2], c.at.cipher) -> {Refuse(c)}
          [] Opens(c.handle, c.at.place[2], c.at.cipher) /\ c.todo = {} -> {Settled(d, Ok({}))}
          [] OTHER -> DecryptNext(d, c.todo)

Decrypt(t) ==
    LET c == task[t]
    IN  /\ c.pc = "use" /\ c.at # Nothing
        /\ \E d \in AfterDecrypt(c) : task' = [task EXCEPT ![t] = d]
        /\ UNCHANGED <<page, canister>>

(* The caller has its answer, and the slot serves another call.            *)
Finish(t) ==
    /\ task[t].pc = "done"
    /\ task' = [task EXCEPT ![t] = Idle]
    /\ UNCHANGED <<page, canister>>

ClearCache ==
    /\ cache' = [cache EXCEPT ![Database(Current)] = NoHandles]
    /\ UNCHANGED <<persistent, identity, verifiable, task, canister>>

(* Another user logs in: a page with one object does what the              *)
(* documentation recommends and clears the cache as the identity changes;  *)
(* else the user has another object.                                       *)
ChangeIdentity(u) ==
    /\ identity # u
    /\ identity' = u
    /\ cache' = IF persistent THEN cache ELSE [o \in Object |-> NoHandles]
    /\ task' = IF persistent THEN task
               ELSE [t \in Task |->
                       IF task[t].pc = "idle" THEN task[t]
                       ELSE [task[t] EXCEPT !.mayRead =
                               @ \cup ReadableNow(u, <<task[t].op, task[t].map>>)]]
    /\ UNCHANGED <<persistent, verifiable, canister>>

(* The page is loaded anew: calls and objects are gone, databases stay.    *)
Reload ==
    /\ task' = [t \in Task |-> Idle]
    /\ verifiable' = {}
    /\ cache' = IF persistent THEN cache ELSE [o \in Object |-> NoHandles]
    /\ UNCHANGED <<persistent, identity, canister>>

TaskStep(t) ==
    \/ CanisterCall(t) \/ CanisterDerive(t) \/ RequestFails(t)
    \/ CacheHit(t) \/ CacheMiss(t) \/ KeyArrives(t) \/ KeyRefused(t)
    \/ VerificationKey(t) \/ KeyDerived(t) \/ DatabaseFails(t)
    \/ Encrypt(t) \/ CallSettles(t) \/ CallReturnsValues(t) \/ Decrypt(t)

Next ==
    \/ \E t \in Task : TaskStep(t)
    \/ \E t \in Task, r \in Request : Start(t, r)
    \/ \E t \in Task : Finish(t)
    \/ ClearCache
    \/ Reload
    \/ \E u \in User : ChangeIdentity(u)
    \/ \E u \in User, m \in KeyId, r \in MaybeRights : ChangeRights(u, m, r)
    \/ \E p \in Place, q \in Place : OthersWrite(p, Encrypted(q[1], q[2], q))
    \/ \E p \in Place : OthersWrite(p, Garbage)

(* A call that has begun goes on: promises are resolved, and a request is  *)
(* answered, by a reply or by the agent's error.                           *)
Spec == Init /\ [][Next]_vars /\ \A t \in Task : WF_vars(TaskStep(t))

-----------------------------------------------------------------------------
(* Properties.                                                             *)

(* What a call has returned to its caller: all of it, at its end.          *)
Returned(t) == IF task[t].pc = "done" THEN task[t].shown ELSE {}

(* A text that a call shows was written for the place it is shown at: not  *)
(* for another map, and not for another key of the map, even when someone  *)
(* stored the ciphertext of one place at another (getValue, the listings,  *)
(* and the previous values that writes return).                            *)
ShowsTextOfItsPlace ==
    \A t \in Task : \A s \in Returned(t) : s.text = s.place

(* Key material that is still cached does not show anything to a user who  *)
(* could not read the map at any time of the call: the ciphertext does not *)
(* come without the right to read.                                         *)
ShowsOnlyToReaders ==
    \A t \in Task : \A s \in Returned(t) : s.place[1] \in task[t].mayRead

(* A call that returns without an error tells what happened.  The canister *)
(* has let it pass, so that a write has taken effect, and every value that *)
(* was listed, replaced or removed is there: none is left out because it   *)
(* cannot be decrypted.  (An error does not tell: a write may have taken   *)
(* effect.)                                                                *)
ReturnsWhatHappened ==
    \A t \in Task : task[t].pc = "done" /\ IsOk(task[t].reply) =>
        /\ task[t].did # Nothing
        /\ {s.place : s \in task[t].shown} = task[t].did

(* Every call settles, unless the page is loaded anew.                     *)
CallsSettle ==
    \A t \in Task : task[t].pc # "idle" ~> task[t].pc \in {"done", "idle"}

(* "The cache belongs to a single identity, so clearing it ... prevents    *)
(* one identity's key material from being served to another": no handle is *)
(* cached for an object's user that another identity derived.              *)
CacheBelongsToIdentity ==
    \A o \in Object, m \in KeyId :
        Cached(o, m) # Nothing => Cached(o, m).by = Signer(o)

(* With an object and a database for each identity this is so, over every  *)
(* change of identity and reload, and for calls of the user before that    *)
(* are still under way (cache.ts: "give each identity its own database     *)
(* name").                                                                 *)
DatabasesBelongToIdentity == persistent => CacheBelongsToIdentity
=============================================================================
