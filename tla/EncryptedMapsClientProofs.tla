----------------------- MODULE EncryptedMapsClientProofs -----------------------
(***************************************************************************)
(* Proofs about the EncryptedMaps objects of the frontend, for any users,  *)
(* maps and keys and any number of concurrent calls, on a page of either   *)
(* kind.                                                                   *)
(***************************************************************************)
EXTENDS EncryptedMapsClient, TLAPS

(* The places of some values, or of some texts.                            *)
Places(values) == {v.place : v \in values}

LEMMA NoPlaces == Places({}) = {}
BY DEF Places

LEMMA OnePlaceMore ==
  ASSUME NEW values, NEW v
  PROVE  Places(values \cup {v}) = Places(values) \cup {v.place}
BY DEF Places

LEMMA OnePlaceLess ==
  ASSUME NEW values, NEW v \in values
  PROVE  Places(values) = Places(values \ {v}) \cup {v.place}
<1>1. values = (values \ {v}) \cup {v}
  OBVIOUS
<1> QED
  BY <1>1, OnePlaceMore

-----------------------------------------------------------------------------
(* The inductive invariant.                                                *)

(* What is stored was made for the place in its text, whoever put it where. *)
Genuine(cipher) == cipher \in Ciphertext /\ cipher.text = <<cipher.under, cipher.aad>>

StoreFits ==
    /\ rights \in [User \X KeyId -> MaybeRights]
    /\ \A p \in Place : store[p] = Garbage \/ store[p] = Nothing \/ Genuine(store[p])
    /\ store = [p \in Place |-> store[p]]

(* A handle is cached for its own map and, where each user has an object,  *)
(* for the user it was derived by.                                         *)
OfMap(handle, m) == handle \in [map : KeyId, by : User] /\ handle.map = m

CacheFits ==
    /\ cache = [o \in Object |-> [m \in KeyId |-> cache[o][m]]]
    /\ \A o \in Object, m \in KeyId :
          cache[o][m] # Nothing =>
              /\ OfMap(cache[o][m], m)
              /\ persistent => cache[o][m].by = o

PageFits ==
    /\ persistent \in Setup
    /\ identity \in User
    /\ verifiable \subseteq Object

(* A record with the fields of a call.                                     *)
Shaped(c) ==
    c = [pc |-> c.pc, op |-> c.op, map |-> c.map, key |-> c.key, object |-> c.object,
         who |-> c.who, cipher |-> c.cipher, handle |-> c.handle, reply |-> c.reply,
         at |-> c.at, todo |-> c.todo, shown |-> c.shown, mayRead |-> c.mayRead, did |-> c.did]

(* What a call is about.                                                   *)
Asks(c) ==
    \/ c.op \in {"getValue", "setValue", "removeEncryptedValue"} /\ c.map \in KeyId /\ c.key \in MapKey
    \/ c.op \in {"getValuesForMap", "removeMapValues"} /\ c.map \in KeyId
    \/ c.op = "getAllAccessibleValues" /\ c.map = Nothing

GoodValue(c, v) ==
    /\ v \in Value
    /\ v.cipher = Garbage \/ Genuine(v.cipher)
    /\ v.place[1] \in c.mayRead

GoodText(c, s) == s.text = s.place /\ s.place[1] \in c.mayRead

Deriving == {"lookup", "derive", "derived", "fetch", "fetched", "use"}

(* Between two requests: setValue before it encrypts, or a call with       *)
(* values of the canister to decrypt, of which it loses none.              *)
Decrypts(c) ==
    /\ c.at = Nothing => c.op = "setValue" /\ c.shown = {}
    /\ c.at # Nothing =>
          /\ GoodValue(c, c.at)
          /\ \A v \in c.todo : GoodValue(c, v)
          /\ c.did = Places(c.shown) \cup {c.at.place} \cup Places(c.todo)
          /\ c.did \in SUBSET Place

(* The key material of a call on its way.                                  *)
Derives(c, own) ==
    /\ c.pc = "derive" => c.who \in User /\ (own => c.who = c.object)
    /\ c.pc = "derived" /\ IsOk(c.reply) =>
          /\ OfMap(c.reply.value, Wanted(c))
          /\ own => c.reply.value.by = c.object
    /\ c.pc \in {"fetch", "fetched"} =>
          /\ OfMap(c.handle, Wanted(c))
          /\ own => c.handle.by = c.object
    /\ c.pc = "use" => OfMap(c.handle, Wanted(c))

(* A call under way; own says that each user has an object.                *)
Fits(c, own) ==
    /\ Shaped(c)
    /\ Asks(c)
    /\ c.object \in IF own THEN User ELSE {Page}
    /\ c.pc \in Deriving \cup {"call", "reply", "done"}
    /\ \A s \in c.shown : GoodText(c, s)
    /\ c.pc \in Deriving => Decrypts(c) /\ Derives(c, own)
    /\ c.pc = "call" =>
          /\ c.who \in User
          /\ c.cipher = Nothing \/ Genuine(c.cipher)
          /\ c.shown = {}
    /\ c.pc = "reply" =>
          /\ c.shown = {}
          /\ IsOk(c.reply) =>
                /\ \A v \in c.reply.value : GoodValue(c, v)
                /\ c.did = Places(c.reply.value)
                /\ c.did \in SUBSET Place
    /\ c.pc = "done" /\ IsOk(c.reply) =>
          /\ c.did = Places(c.shown)
          /\ c.did \in SUBSET Place

(* The maps that the user can read are among those he could read.          *)
ReadsNoted(c, user) ==
    \A m \in KeyId : c.map \in {m, Nothing} /\ Readable(user, m) => m \in c.mayRead

Noted(c) ==
    /\ c.pc # "done" => ReadsNoted(c, Signer(c.object))
    /\ c.pc = "call" => ReadsNoted(c, c.who)

TasksFit ==
    /\ task = [t \in Task |-> task[t]]
    /\ \A t \in Task : task[t].pc # "idle" => Fits(task[t], persistent) /\ Noted(task[t])

IInv == PageFits /\ StoreFits /\ CacheFits /\ TasksFit

-----------------------------------------------------------------------------
(* The invariant gives the properties.                                     *)

LEMMA InvariantTypes == IInv => TypeOK
<1> SUFFICES ASSUME IInv PROVE TypeOK
  OBVIOUS
<1>1. cache \in [Object -> [KeyId -> [map : KeyId, by : User] \cup {Nothing}]]
  <2>1. \A o \in Object : \A m \in KeyId : cache[o][m] \in [map : KeyId, by : User] \cup {Nothing}
    BY DEF IInv, CacheFits, OfMap
  <2>2. cache = [o \in Object |-> [m \in KeyId |-> cache[o][m]]]
    BY DEF IInv, CacheFits
  <2> QED
    BY <2>1, <2>2
<1>2. \A t \in Task : task[t].pc \in {"idle", "lookup", "derive", "derived", "fetch",
                                       "fetched", "use", "call", "reply", "done"}
  BY DEF IInv, TasksFit, Fits, Deriving
<1>3. store \in [Place -> Ciphertext \cup {Garbage, Nothing}]
  BY DEF IInv, StoreFits, Genuine
<1> QED
  BY <1>1, <1>2, <1>3 DEF TypeOK, IInv, PageFits, StoreFits

LEMMA InvariantShows == IInv => ShowsTextOfItsPlace /\ ShowsOnlyToReaders
BY DEF IInv, TasksFit, Fits, GoodText, ShowsTextOfItsPlace, ShowsOnlyToReaders, Returned

LEMMA InvariantReturns == IInv => ReturnsWhatHappened
BY NothingAssumption DEF IInv, TasksFit, Fits, Places, ReturnsWhatHappened

LEMMA InvariantDatabases == IInv => DatabasesBelongToIdentity
BY DEF IInv, CacheFits, DatabasesBelongToIdentity, CacheBelongsToIdentity, Cached, Database, Signer

-----------------------------------------------------------------------------
(* Each step preserves it.                                                 *)

(* A step of one call, which leaves rights and identity alone, has only to *)
(* show what has become of that call.                                      *)
LEMMA OneCall ==
  ASSUME IInv, NEW t \in Task,
         task' = [s \in Task |-> task'[s]],
         \A s \in Task \ {t} : task'[s] = task[s],
         task'[t].pc # "idle" => Fits(task'[t], persistent) /\ Noted(task'[t]),
         UNCHANGED <<persistent, identity, rights>>
  PROVE  TasksFit'
<1>1. ASSUME NEW s \in Task, task'[s].pc # "idle"
      PROVE  Fits(task'[s], persistent) /\ Noted(task'[s])
  BY <1>1 DEF IInv, TasksFit
<1>2. ASSUME NEW s \in Task, task'[s].pc # "idle"
      PROVE  Fits(task'[s], persistent')
  BY <1>1, <1>2
<1>3. ASSUME NEW s \in Task, task'[s].pc # "idle"
      PROVE  Noted(task[s])'
  BY <1>1, <1>3 DEF Noted, ReadsNoted, Readable, Signer
<1> QED
  BY <1>2, <1>3 DEF TasksFit

(* Where a step of a call leads, in terms of its records.                  *)
LEMMA StepOfCall ==
  ASSUME IInv, NEW t \in Task, NEW d, task' = [task EXCEPT ![t] = d],
         d.pc # "idle" => Fits(d, persistent),
         d.pc \notin {"idle", "done"} => ReadsNoted(d, Signer(d.object)),
         d.pc = "call" => ReadsNoted(d, d.who),
         UNCHANGED <<persistent, identity, rights>>
  PROVE  TasksFit'
<1>1. /\ task'[t] = d
      /\ task' = [s \in Task |-> task'[s]]
      /\ \A s \in Task \ {t} : task'[s] = task[s]
  BY DEF IInv, TasksFit
<1>2. task'[t].pc # "idle" => Fits(task'[t], persistent) /\ Noted(task'[t])
  BY <1>1 DEF Noted
<1> QED
  BY <1>1, <1>2, OneCall

(* A call that ends keeps what it is about and what it shows.              *)
LEMMA SettledCall ==
  ASSUME NEW c, NEW reply, Shaped(c)
  PROVE  LET d == Settled(c, reply)
         IN  /\ Shaped(d) /\ d.pc = "done" /\ d.reply = reply
             /\ d.op = c.op /\ d.map = c.map /\ d.key = c.key /\ d.object = c.object
             /\ d.shown = c.shown /\ d.mayRead = c.mayRead /\ d.did = c.did
<1> DEFINE d == Settled(c, reply)
<1>1. d = [c EXCEPT !.pc = "done", !.who = Nothing, !.cipher = Nothing, !.handle = Nothing,
                    !.at = Nothing, !.todo = {}, !.reply = reply]
  BY DEF Settled
<1> HIDE DEF d
<1>2. /\ Shaped(d) /\ d.pc = "done" /\ d.reply = reply
      /\ d.op = c.op /\ d.map = c.map /\ d.key = c.key /\ d.object = c.object
      /\ d.shown = c.shown /\ d.mayRead = c.mayRead /\ d.did = c.did
  BY <1>1 DEF Shaped
<1> QED
  BY <1>2 DEF d

(* A call that ends with an error.                                         *)
LEMMA RefusalFits ==
  ASSUME NEW c, NEW own, Fits(c, own)
  PROVE  Fits(Refuse(c), own) /\ Refuse(c).pc = "done"
<1> DEFINE d == Refuse(c)
<1>1. Shaped(c) /\ Asks(c) /\ c.object \in IF own THEN User ELSE {Page}
  BY DEF Fits
<1>2. /\ Shaped(d) /\ d.pc = "done" /\ d.op = c.op /\ d.map = c.map /\ d.key = c.key
      /\ d.object = c.object /\ d.shown = {} /\ d.reply = Failed
  <2> DEFINE e == Settled(c, Failed)
  <2>1. Shaped(e) /\ e.pc = "done" /\ e.op = c.op /\ e.map = c.map /\ e.key = c.key
        /\ e.object = c.object /\ e.reply = Failed
    <3> HIDE DEF e
    <3>1. e = Settled(c, Failed)
      BY DEF e
    <3> QED
      BY <1>1, <3>1, SettledCall
  <2>2. d = [e EXCEPT !.shown = {}, !.mayRead = {}, !.did = Nothing]
    BY DEF Refuse
  <2> HIDE DEF d, e
  <2> QED
    BY <2>1, <2>2 DEF Shaped
<1> HIDE DEF d
<1>3. ~ IsOk(d.reply)
  BY <1>2 DEF Failed, Err, IsOk
<1>4. Asks(d)
  BY <1>1, <1>2 DEF Asks
<1>5. Fits(d, own)
  BY <1>1, <1>2, <1>3, <1>4 DEF Fits, Deriving
<1> QED
  BY <1>2, <1>5 DEF d

LEMMA RefusalStep ==
  ASSUME IInv, NEW t \in Task, task[t].pc # "idle", task' = [task EXCEPT ![t] = Refuse(task[t])],
         UNCHANGED <<page, canister>>
  PROVE  IInv'
<1>1. Fits(task[t], persistent)
  BY DEF IInv, TasksFit
<1>2. Fits(Refuse(task[t]), persistent) /\ Refuse(task[t]).pc = "done"
  BY <1>1, RefusalFits
<1>3. UNCHANGED <<persistent, identity, cache, verifiable, rights, store>>
  BY DEF page, canister
<1>4. TasksFit'
  BY <1>2, <1>3, StepOfCall
<1> QED
  BY <1>3, <1>4 DEF IInv, PageFits, StoreFits, CacheFits, Object

LEMMA OnlyTasks ==
  ASSUME IInv, TasksFit', UNCHANGED <<page, canister>>
  PROVE  IInv'
BY DEF IInv, PageFits, StoreFits, CacheFits, Object, page, canister

LEMMA UnderWay ==
  ASSUME IInv, NEW t \in Task, task[t].pc # "idle"
  PROVE  /\ Fits(task[t], persistent) /\ Noted(task[t])
         /\ Shaped(task[t]) /\ Asks(task[t]) /\ task[t].object \in Object
BY DEF IInv, TasksFit, Fits, Object

LEMMA WantedIsMap ==
  ASSUME NEW c, NEW own, Fits(c, own), c.pc \in Deriving
  PROVE  Wanted(c) \in KeyId
<1>1. CASE c.at = Nothing
  BY <1>1 DEF Fits, Decrypts, Asks, Wanted
<1>2. CASE c.at # Nothing
  <2>1. c.at \in Value
    BY <1>2 DEF Fits, Decrypts, GoodValue
  <2>2. c.at.place \in KeyId \X MapKey
    BY <2>1 DEF Value, Place
  <2> QED
    BY <1>2, <2>2 DEF Wanted
<1> QED
  BY <1>1, <1>2

(* A step on the way to the key material does not touch the rest.          *)
LEMMA DerivingFits ==
  ASSUME NEW c, NEW d, NEW own, Fits(c, own), Shaped(d), c.pc \in Deriving, d.pc \in Deriving,
         d.op = c.op, d.map = c.map, d.key = c.key, d.object = c.object, d.at = c.at,
         d.todo = c.todo, d.shown = c.shown, d.mayRead = c.mayRead, d.did = c.did,
         Derives(d, own)
  PROVE  Fits(d, own)
<1>1. Decrypts(d)
  BY DEF Fits, Decrypts, GoodValue
<1>2. Asks(d)
  BY DEF Fits, Asks
<1>3. \A s \in d.shown : GoodText(d, s)
  BY DEF Fits, GoodText
<1> QED
  BY <1>1, <1>2, <1>3 DEF Fits, Deriving

(* Such a step of a call, in the state.                                    *)
LEMMA DerivingStep ==
  ASSUME IInv, NEW t \in Task, NEW d, task' = [task EXCEPT ![t] = d],
         Shaped(d), task[t].pc \in Deriving, d.pc \in Deriving,
         d.op = task[t].op, d.map = task[t].map, d.key = task[t].key,
         d.object = task[t].object, d.at = task[t].at, d.todo = task[t].todo,
         d.shown = task[t].shown, d.mayRead = task[t].mayRead, d.did = task[t].did,
         Derives(d, persistent),
         UNCHANGED <<persistent, identity, rights>>
  PROVE  TasksFit'
<1>1. /\ task[t].pc \notin {"idle", "call", "done"}
      /\ d.pc \notin {"idle", "call", "done"}
  BY DEF Deriving
<1>2. Fits(task[t], persistent) /\ Noted(task[t])
  BY <1>1, UnderWay
<1>3. Fits(d, persistent)
  BY <1>2, DerivingFits
<1>4. ReadsNoted(d, Signer(d.object))
  BY <1>1, <1>2 DEF Noted, ReadsNoted
<1> QED
  BY <1>1, <1>3, <1>4, StepOfCall

LEMMA CacheHitStep ==
  ASSUME IInv, NEW t \in Task, CacheHit(t)
  PROVE  IInv'
<1> DEFINE c == task[t]
           h == Cached(c.object, Wanted(c))
           d == [c EXCEPT !.pc = "use", !.handle = h]
<1>1. /\ c.pc = "lookup" /\ h # Nothing /\ task' = [task EXCEPT ![t] = d]
      /\ UNCHANGED <<page, canister>>
  BY DEF CacheHit
<1>2. /\ Shaped(c) /\ c.pc \in Deriving /\ c.object \in Object /\ Fits(c, persistent)
  BY <1>1, UnderWay DEF Deriving
<1>3. OfMap(h, Wanted(c))
  BY <1>1, <1>2, WantedIsMap DEF IInv, CacheFits, Cached, Database
<1>4. d = [c EXCEPT !.pc = "use", !.handle = h]
  OBVIOUS
<1> HIDE DEF c, h, d
<1>5. /\ Shaped(d) /\ d.pc = "use" /\ d.handle = h
      /\ d.op = c.op /\ d.map = c.map /\ d.key = c.key /\ d.object = c.object /\ d.at = c.at
      /\ d.todo = c.todo /\ d.shown = c.shown /\ d.mayRead = c.mayRead /\ d.did = c.did
  BY <1>2, <1>4 DEF Shaped
<1>6. Derives(d, persistent) /\ d.pc \in Deriving
  BY <1>3, <1>5 DEF Derives, Wanted, Deriving
<1>7. TasksFit'
  BY <1>1, <1>2, <1>5, <1>6, DerivingStep DEF c, page, canister
<1> QED
  BY <1>1, <1>7, OnlyTasks

LEMMA CacheMissStep ==
  ASSUME IInv, NEW t \in Task, CacheMiss(t)
  PROVE  IInv'
<1> DEFINE c == task[t]
           who == Signer(c.object)
           d == [c EXCEPT !.pc = "derive", !.who = who]
<1>1. /\ c.pc = "lookup" /\ task' = [task EXCEPT ![t] = d]
      /\ UNCHANGED <<page, canister>>
  BY DEF CacheMiss
<1>2. /\ Shaped(c) /\ c.pc \in Deriving /\ c.object \in Object /\ Fits(c, persistent)
  BY <1>1, UnderWay DEF Deriving
<1>3. who \in User /\ (persistent => who = c.object)
  BY <1>2 DEF IInv, PageFits, Signer, Object
<1>4. d = [c EXCEPT !.pc = "derive", !.who = who]
  OBVIOUS
<1> HIDE DEF c, who, d
<1>5. /\ Shaped(d) /\ d.pc = "derive" /\ d.who = who
      /\ d.op = c.op /\ d.map = c.map /\ d.key = c.key /\ d.object = c.object /\ d.at = c.at
      /\ d.todo = c.todo /\ d.shown = c.shown /\ d.mayRead = c.mayRead /\ d.did = c.did
  BY <1>2, <1>4 DEF Shaped
<1>6. Derives(d, persistent) /\ d.pc \in Deriving
  BY <1>3, <1>5 DEF Derives, Deriving
<1>7. TasksFit'
  BY <1>1, <1>2, <1>5, <1>6, DerivingStep DEF c, page, canister
<1> QED
  BY <1>1, <1>7, OnlyTasks

LEMMA CanisterDeriveStep ==
  ASSUME IInv, NEW t \in Task, CanisterDerive(t)
  PROVE  IInv'
<1> DEFINE c == task[t]
<1>1. PICK reply :
         /\ reply = Ok(Handle(Wanted(c), c.who)) \/ reply = Failed
         /\ c.pc = "derive"
         /\ task' = [task EXCEPT ![t].pc = "derived", ![t].who = Nothing, ![t].reply = reply]
         /\ UNCHANGED <<page, canister>>
  <2>1. PICK lost \in BOOLEAN :
           task' = [task EXCEPT ![t].pc = "derived", ![t].who = Nothing,
                      ![t].reply = IF ~lost /\ Readable(c.who, Wanted(c))
                                   THEN Ok(Handle(Wanted(c), c.who)) ELSE Failed]
    BY DEF CanisterDerive
  <2> DEFINE reply == IF ~lost /\ Readable(c.who, Wanted(c))
                      THEN Ok(Handle(Wanted(c), c.who)) ELSE Failed
  <2>2. reply = Ok(Handle(Wanted(c), c.who)) \/ reply = Failed
    OBVIOUS
  <2>3. task' = [task EXCEPT ![t].pc = "derived", ![t].who = Nothing, ![t].reply = reply]
    BY <2>1
  <2> HIDE DEF reply
  <2> QED
    BY <2>2, <2>3 DEF CanisterDerive
<1> DEFINE d == [c EXCEPT !.pc = "derived", !.who = Nothing, !.reply = reply]
<1>2. /\ Shaped(c) /\ c.pc \in Deriving /\ c.object \in Object /\ Fits(c, persistent)
      /\ task' = [task EXCEPT ![t] = d]
  BY <1>1, UnderWay DEF Deriving
<1>3. IsOk(reply) => OfMap(reply.value, Wanted(c)) /\ (persistent => reply.value.by = c.object)
  <2>1. /\ Wanted(c) \in KeyId
        /\ c.who \in User /\ (persistent => c.who = c.object)
    BY <1>1, <1>2, WantedIsMap DEF Fits, Derives
  <2> HIDE DEF c
  <2> QED
    BY <1>1, <2>1 DEF OfMap, Handle, Ok, Err, Failed, IsOk
<1>4. d = [c EXCEPT !.pc = "derived", !.who = Nothing, !.reply = reply]
  OBVIOUS
<1> HIDE DEF c, d
<1>5. /\ Shaped(d) /\ d.pc = "derived" /\ d.reply = reply
      /\ d.op = c.op /\ d.map = c.map /\ d.key = c.key /\ d.object = c.object /\ d.at = c.at
      /\ d.todo = c.todo /\ d.shown = c.shown /\ d.mayRead = c.mayRead /\ d.did = c.did
  BY <1>2, <1>4 DEF Shaped
<1>6. Derives(d, persistent) /\ d.pc \in Deriving
  BY <1>3, <1>5 DEF Derives, Wanted, Deriving
<1>7. TasksFit'
  BY <1>1, <1>2, <1>5, <1>6, DerivingStep DEF c, page, canister
<1> QED
  BY <1>1, <1>7, OnlyTasks

LEMMA KeyArrivesStep ==
  ASSUME IInv, NEW t \in Task, KeyArrives(t)
  PROVE  IInv'
<1> DEFINE c == task[t]
           pc == IF c.object \in verifiable THEN "fetched" ELSE "fetch"
           d == [c EXCEPT !.pc = pc, !.handle = c.reply.value, !.reply = Ok(Nothing)]
<1>1. /\ c.pc = "derived" /\ IsOk(c.reply) /\ task' = [task EXCEPT ![t] = d]
      /\ UNCHANGED <<page, canister>>
  BY DEF KeyArrives
<1>2. /\ Shaped(c) /\ c.pc \in Deriving /\ c.object \in Object /\ Fits(c, persistent)
  BY <1>1, UnderWay DEF Deriving
<1>3. /\ OfMap(c.reply.value, Wanted(c)) /\ (persistent => c.reply.value.by = c.object)
      /\ pc \in {"fetch", "fetched"}
  BY <1>1, <1>2 DEF Fits, Derives
<1>4. d = [c EXCEPT !.pc = pc, !.handle = c.reply.value, !.reply = Ok(Nothing)]
  OBVIOUS
<1> HIDE DEF c, pc, d
<1>5. /\ Shaped(d) /\ d.pc = pc /\ d.handle = c.reply.value
      /\ d.op = c.op /\ d.map = c.map /\ d.key = c.key /\ d.object = c.object /\ d.at = c.at
      /\ d.todo = c.todo /\ d.shown = c.shown /\ d.mayRead = c.mayRead /\ d.did = c.did
  BY <1>2, <1>4 DEF Shaped
<1>6. Derives(d, persistent) /\ d.pc \in Deriving
  BY <1>3, <1>5 DEF Derives, Wanted, Deriving
<1>7. TasksFit'
  BY <1>1, <1>2, <1>5, <1>6, DerivingStep DEF c, page, canister
<1> QED
  BY <1>1, <1>7, OnlyTasks

LEMMA VerificationKeyStep ==
  ASSUME IInv, NEW t \in Task, VerificationKey(t)
  PROVE  IInv'
<1> DEFINE c == task[t]
           d == [c EXCEPT !.pc = "fetched"]
<1>1. /\ c.pc = "fetch" /\ task' = [task EXCEPT ![t] = d]
      /\ verifiable' = verifiable \cup {c.object}
      /\ UNCHANGED <<persistent, identity, cache, rights, store>>
  BY DEF VerificationKey, canister
<1>2. /\ Shaped(c) /\ c.pc \in Deriving /\ c.object \in Object /\ Fits(c, persistent)
  BY <1>1, UnderWay DEF Deriving
<1>3. OfMap(c.handle, Wanted(c)) /\ (persistent => c.handle.by = c.object)
  BY <1>1, <1>2 DEF Fits, Derives
<1>4. d = [c EXCEPT !.pc = "fetched"]
  OBVIOUS
<1> HIDE DEF c, d
<1>5. /\ Shaped(d) /\ d.pc = "fetched" /\ d.handle = c.handle
      /\ d.op = c.op /\ d.map = c.map /\ d.key = c.key /\ d.object = c.object /\ d.at = c.at
      /\ d.todo = c.todo /\ d.shown = c.shown /\ d.mayRead = c.mayRead /\ d.did = c.did
  BY <1>2, <1>4 DEF Shaped
<1>6. Derives(d, persistent) /\ d.pc \in Deriving
  BY <1>3, <1>5 DEF Derives, Wanted, Deriving
<1>7. TasksFit'
  BY <1>1, <1>2, <1>5, <1>6, DerivingStep DEF c
<1> QED
  BY <1>1, <1>2, <1>7 DEF IInv, PageFits, StoreFits, CacheFits, Object

LEMMA KeyDerivedStep ==
  ASSUME IInv, NEW t \in Task, KeyDerived(t)
  PROVE  IInv'
<1> DEFINE c == task[t]
           d == [c EXCEPT !.pc = "use"]
<1>1. /\ c.pc = "fetched" /\ task' = [task EXCEPT ![t] = d]
      /\ cache' = [cache EXCEPT ![c.object][c.handle.map] = c.handle]
      /\ UNCHANGED <<persistent, identity, verifiable, rights, store>>
  BY DEF KeyDerived, Database, canister
<1>2. /\ Shaped(c) /\ c.pc \in Deriving /\ c.object \in Object /\ Fits(c, persistent)
  BY <1>1, UnderWay DEF Deriving
<1>3. OfMap(c.handle, Wanted(c)) /\ (persistent => c.handle.by = c.object)
  BY <1>1, <1>2 DEF Fits, Derives
<1>4. d = [c EXCEPT !.pc = "use"]
  OBVIOUS
<1> HIDE DEF c, d
<1>5. /\ Shaped(d) /\ d.pc = "use" /\ d.handle = c.handle
      /\ d.op = c.op /\ d.map = c.map /\ d.key = c.key /\ d.object = c.object /\ d.at = c.at
      /\ d.todo = c.todo /\ d.shown = c.shown /\ d.mayRead = c.mayRead /\ d.did = c.did
  BY <1>2, <1>4 DEF Shaped
<1>6. Derives(d, persistent) /\ d.pc \in Deriving
  BY <1>3, <1>5 DEF Derives, Wanted, Deriving
<1>7. TasksFit'
  BY <1>1, <1>2, <1>5, <1>6, DerivingStep DEF c
<1>8. CacheFits'
  <2>1. OfMap(c.handle, c.handle.map)
    BY <1>3 DEF OfMap
  <2>2. ASSUME NEW o \in Object, NEW m \in KeyId
        PROVE  cache'[o][m] = IF o = c.object /\ m = c.handle.map THEN c.handle ELSE cache[o][m]
    BY <1>1 DEF IInv, CacheFits
  <2>3. cache' = [o \in Object |-> [m \in KeyId |-> cache'[o][m]]]
    BY <1>1 DEF IInv, CacheFits
  <2>4. Object' = Object /\ persistent' = persistent
    BY <1>1 DEF Object
  <2>5. ASSUME NEW o \in Object, NEW m \in KeyId, cache'[o][m] # Nothing
        PROVE  OfMap(cache'[o][m], m) /\ (persistent => cache'[o][m].by = o)
    BY <1>3, <2>1, <2>2, <2>5 DEF IInv, CacheFits
  <2> QED
    BY <2>3, <2>4, <2>5 DEF CacheFits, OfMap
<1> QED
  BY <1>1, <1>7, <1>8 DEF IInv, PageFits, StoreFits, Object

LEMMA EncryptStep ==
  ASSUME IInv, NEW t \in Task, Encrypt(t)
  PROVE  IInv'
<1> DEFINE c == task[t]
           who == Signer(c.object)
           cipher == Encrypted(c.handle.map, c.key, <<c.map, c.key>>)
           d == [c EXCEPT !.pc = "call", !.who = who, !.handle = Nothing, !.cipher = cipher]
<1>1. /\ c.pc = "use" /\ c.at = Nothing /\ task' = [task EXCEPT ![t] = d]
      /\ UNCHANGED <<page, canister>>
  BY DEF Encrypt
<1>2. /\ Shaped(c) /\ c.pc \in Deriving /\ c.object \in Object
      /\ Fits(c, persistent) /\ Noted(c)
  BY <1>1, UnderWay DEF Deriving
<1>3. who \in User
  BY <1>2 DEF IInv, PageFits, Signer, Object
<1>4. Genuine(cipher)
  <2>1. /\ c.op = "setValue" /\ c.map \in KeyId /\ c.key \in MapKey /\ c.handle.map = c.map
    BY <1>1, <1>2 DEF Fits, Decrypts, Derives, Asks, OfMap, Wanted
  <2>2. cipher = [under |-> c.map, aad |-> c.key, text |-> <<c.map, c.key>>]
    BY <2>1 DEF Encrypted
  <2> HIDE DEF cipher, c
  <2> QED
    BY <2>1, <2>2 DEF Genuine, Ciphertext, Text, Place
<1>5. ReadsNoted(c, who) /\ c.shown = {}
  BY <1>1, <1>2 DEF Noted, Fits, Decrypts
<1>6. d = [c EXCEPT !.pc = "call", !.who = who, !.handle = Nothing, !.cipher = cipher]
  OBVIOUS
<1>7. who = Signer(c.object)
  OBVIOUS
<1> HIDE DEF c, who, cipher, d
<1>8. /\ Shaped(d) /\ d.pc = "call" /\ d.who = who /\ d.cipher = cipher
      /\ d.op = c.op /\ d.map = c.map /\ d.key = c.key /\ d.object = c.object
      /\ d.shown = c.shown /\ d.mayRead = c.mayRead
  BY <1>2, <1>6 DEF Shaped
<1>9. Fits(d, persistent)
  BY <1>2, <1>3, <1>4, <1>5, <1>8 DEF Fits, Asks, Deriving
<1>10. ReadsNoted(d, Signer(d.object)) /\ ReadsNoted(d, d.who)
  BY <1>5, <1>7, <1>8 DEF ReadsNoted
<1>11. TasksFit'
  BY <1>1, <1>9, <1>10, StepOfCall DEF c, page, canister
<1> QED
  BY <1>1, <1>11, OnlyTasks

(* The values of a reply are whole, and of maps that the caller can read.  *)
LEMMA ReplyFits ==
  ASSUME IInv, Writers \subseteq Readers, NEW c, Fits(c, persistent), Noted(c),
         c.pc = "call", Allowed(c)
  PROVE  /\ \A v \in Replied(c) : GoodValue(c, v)
         /\ Places(Replied(c)) \in SUBSET Place
<1>1. ASSUME NEW p \in Addressed(c)
      PROVE  p \in Place /\ p[1] \in c.mayRead
  <2>1. ReadsNoted(c, c.who)
    BY DEF Noted
  <2>2. CASE c.op = "getAllAccessibleValues"
    <3>1. c.map = Nothing
      BY <2>2 DEF Fits, Asks
    <3>2. p \in Place /\ p[1] \in KeyId /\ Readable(c.who, p[1])
      BY <1>1, <2>2 DEF Addressed, Place
    <3> QED
      BY <2>1, <3>1, <3>2 DEF ReadsNoted
  <2>3. CASE c.op # "getAllAccessibleValues"
    <3>1. c.map \in KeyId
      BY <2>3 DEF Fits, Asks
    <3>2. Readable(c.who, c.map)
      BY <2>3 DEF Allowed, Readable, Writable, Reads
    <3>3. c.map \in c.mayRead
      BY <2>1, <3>1, <3>2 DEF ReadsNoted
    <3>4. CASE c.op \in {"getValuesForMap", "removeMapValues"}
      BY <1>1, <3>1, <3>3, <3>4 DEF Addressed, Place
    <3>5. CASE c.op \in {"getValue", "setValue", "removeEncryptedValue"}
      <4>1. c.key \in MapKey
        BY <3>5 DEF Fits, Asks
      <4>2. p = <<c.map, c.key>>
        BY <1>1, <3>5 DEF Addressed
      <4> QED
        BY <3>1, <3>3, <4>1, <4>2 DEF Place
    <3> QED
      BY <2>3, <3>4, <3>5 DEF Fits, Asks
  <2> QED
    BY <2>2, <2>3
<1>2. ASSUME NEW v \in Replied(c)
      PROVE  GoodValue(c, v) /\ v.place \in Place
  <2>1. PICK p \in Addressed(c) : store[p] # Nothing /\ v = [place |-> p, cipher |-> store[p]]
    BY <1>2 DEF Replied
  <2>2. p \in Place /\ p[1] \in c.mayRead
    BY <1>1
  <2>3. store[p] = Garbage \/ Genuine(store[p])
    BY <2>1, <2>2 DEF IInv, StoreFits
  <2> QED
    BY <2>1, <2>2, <2>3 DEF GoodValue, Value, Genuine
<1> QED
  BY <1>2 DEF Places

LEMMA CanisterCallStep ==
  ASSUME IInv, Writers \subseteq Readers, NEW t \in Task, CanisterCall(t)
  PROVE  IInv'
<1> DEFINE c == task[t]
           did == IF Allowed(c) THEN Places(Replied(c)) ELSE Nothing
<1>1. PICK reply :
         /\ reply = Failed \/ (Allowed(c) /\ reply = Ok(Replied(c)))
         /\ task' = [task EXCEPT ![t].pc = "reply", ![t].who = Nothing, ![t].cipher = Nothing,
                       ![t].did = did, ![t].reply = reply]
  <2>1. PICK lost \in BOOLEAN :
           task' = [task EXCEPT ![t].pc = "reply", ![t].who = Nothing, ![t].cipher = Nothing,
                      ![t].did = did,
                      ![t].reply = IF ~lost /\ Allowed(c) THEN Ok(Replied(c)) ELSE Failed]
    BY DEF CanisterCall, Places
  <2> DEFINE reply == IF ~lost /\ Allowed(c) THEN Ok(Replied(c)) ELSE Failed
  <2>2. reply = Failed \/ (Allowed(c) /\ reply = Ok(Replied(c)))
    OBVIOUS
  <2>3. task' = [task EXCEPT ![t].pc = "reply", ![t].who = Nothing, ![t].cipher = Nothing,
                   ![t].did = did, ![t].reply = reply]
    BY <2>1
  <2> HIDE DEF reply, did
  <2> QED
    BY <2>2, <2>3
<1>2. /\ c.pc = "call" /\ UNCHANGED <<persistent, identity, cache, verifiable, rights>>
      /\ store' = IF Allowed(c) /\ c.op \notin Reads
                  THEN [p \in Place |-> IF p \in Addressed(c) THEN c.cipher ELSE store[p]]
                  ELSE store
  BY DEF CanisterCall, page
<1>3. Shaped(c) /\ Fits(c, persistent) /\ Noted(c)
  BY <1>2, UnderWay
<1>4. StoreFits'
  <2>1. c.cipher = Nothing \/ Genuine(c.cipher)
    BY <1>2, <1>3 DEF Fits
  <2> HIDE DEF c
  <2>2. ASSUME NEW p \in Place
        PROVE  store'[p] = Garbage \/ store'[p] = Nothing \/ Genuine(store'[p])
    BY <1>2, <2>1 DEF IInv, StoreFits
  <2>3. store' = [p \in Place |-> store'[p]]
    BY <1>2 DEF IInv, StoreFits
  <2> QED
    BY <1>2, <2>2, <2>3 DEF IInv, StoreFits, Genuine
<1> DEFINE d == [c EXCEPT !.pc = "reply", !.who = Nothing, !.cipher = Nothing,
                          !.did = did, !.reply = reply]
<1>5. task' = [task EXCEPT ![t] = d]
  BY <1>1
<1>6. c.shown = {} /\ ReadsNoted(c, Signer(c.object))
  BY <1>2, <1>3 DEF Fits, Noted
<1>7. IsOk(reply) => /\ \A v \in reply.value : GoodValue(c, v)
                     /\ did = Places(reply.value)
                     /\ did \in SUBSET Place
  <2> SUFFICES ASSUME IsOk(reply)
               PROVE  /\ \A v \in reply.value : GoodValue(c, v)
                      /\ did = Places(reply.value)
                      /\ did \in SUBSET Place
    OBVIOUS
  <2>1. Allowed(c) /\ reply = Ok(Replied(c))
    BY <1>1 DEF Failed, Err, IsOk
  <2>2. reply.value = Replied(c) /\ did = Places(Replied(c))
    BY <2>1 DEF Ok
  <2>3. /\ \A v \in Replied(c) : GoodValue(c, v)
        /\ Places(Replied(c)) \in SUBSET Place
    BY <1>2, <1>3, <2>1, ReplyFits
  <2> HIDE DEF did
  <2> QED
    BY <2>2, <2>3
<1>8. d = [c EXCEPT !.pc = "reply", !.who = Nothing, !.cipher = Nothing,
                    !.did = did, !.reply = reply]
  OBVIOUS
<1> HIDE DEF c, did, d
<1>9. /\ Shaped(d) /\ d.pc = "reply" /\ d.did = did /\ d.reply = reply
      /\ d.op = c.op /\ d.map = c.map /\ d.key = c.key /\ d.object = c.object
      /\ d.shown = c.shown /\ d.mayRead = c.mayRead
  BY <1>3, <1>8 DEF Shaped
<1>10. Fits(d, persistent)
  <2>1. \A v : GoodValue(c, v) => GoodValue(d, v)
    BY <1>9 DEF GoodValue
  <2> QED
    BY <1>3, <1>6, <1>7, <1>9, <2>1 DEF Fits, Asks, Deriving
<1>11. ReadsNoted(d, Signer(d.object))
  BY <1>6, <1>9 DEF ReadsNoted
<1>12. TasksFit'
  BY <1>2, <1>5, <1>9, <1>10, <1>11, StepOfCall DEF c
<1> QED
  BY <1>2, <1>4, <1>12 DEF IInv, PageFits, CacheFits, Object

LEMMA CallSettlesStep ==
  ASSUME IInv, NEW t \in Task, CallSettles(t)
  PROVE  IInv'
<1>1. /\ task[t].pc = "reply"
      /\ ~ IsOk(task[t].reply) \/ task[t].reply.value = {}
      /\ UNCHANGED <<page, canister>>
  BY DEF CallSettles
<1>2. CASE ~ IsOk(task[t].reply)
  BY <1>1, <1>2, RefusalStep DEF CallSettles
<1>3. CASE IsOk(task[t].reply)
  <2> DEFINE c == task[t]
             d == Settled(c, Ok({}))
  <2>1. task' = [task EXCEPT ![t] = d]
    BY <1>3 DEF CallSettles
  <2>2. Shaped(c) /\ Fits(c, persistent)
    BY <1>1, UnderWay
  <2>3. c.shown = {} /\ c.did = Places(c.shown) /\ c.did \in SUBSET Place
    BY <1>1, <1>3, <2>2, NoPlaces DEF Fits
  <2>4. /\ Shaped(d) /\ d.pc = "done"
        /\ d.op = c.op /\ d.map = c.map /\ d.key = c.key /\ d.object = c.object
        /\ d.shown = c.shown /\ d.did = c.did
    BY <2>2, SettledCall
  <2> HIDE DEF c, d
  <2>5. Fits(d, persistent)
    BY <2>2, <2>3, <2>4 DEF Fits, Asks, Deriving
  <2>6. TasksFit'
    BY <1>1, <2>1, <2>4, <2>5, StepOfCall DEF c, page, canister
  <2> QED
    BY <1>1, <2>6, OnlyTasks
<1> QED
  BY <1>2, <1>3

(* The next value to decrypt, out of those that are left.                  *)
LEMMA NextFits ==
  ASSUME NEW c, NEW own, NEW values, NEW d \in DecryptNext(c, values), Shaped(c), Asks(c),
         c.object \in IF own THEN User ELSE {Page},
         \A s \in c.shown : GoodText(c, s),
         \A v \in values : GoodValue(c, v),
         c.did = Places(c.shown) \cup Places(values), c.did \in SUBSET Place
  PROVE  Fits(d, own) /\ d.pc = "lookup" /\ d.map = c.map /\ d.object = c.object
         /\ d.mayRead = c.mayRead
<1>1. PICK v \in values :
         d = [c EXCEPT !.pc = "lookup", !.handle = Nothing, !.reply = Ok(Nothing),
                       !.at = v, !.todo = values \ {v}]
  BY DEF DecryptNext
<1>2. /\ Shaped(d) /\ d.pc = "lookup" /\ d.at = v /\ d.todo = values \ {v}
      /\ d.op = c.op /\ d.map = c.map /\ d.key = c.key /\ d.object = c.object
      /\ d.shown = c.shown /\ d.mayRead = c.mayRead /\ d.did = c.did
  BY <1>1 DEF Shaped
<1>3. GoodValue(d, d.at) /\ \A w \in d.todo : GoodValue(d, w)
  BY <1>2 DEF GoodValue
<1>4. d.at # Nothing
  BY <1>3, NothingAssumption DEF GoodValue
<1>5. d.did = Places(d.shown) \cup {d.at.place} \cup Places(d.todo)
  <2>1. Places(values) = Places(values \ {v}) \cup {v.place}
    BY OnePlaceLess
  <2> QED
    BY <1>2, <2>1
<1>6. Decrypts(d)
  BY <1>2, <1>3, <1>4, <1>5 DEF Decrypts
<1>7. Derives(d, own)
  BY <1>2 DEF Derives
<1>8. Asks(d) /\ \A s \in d.shown : GoodText(d, s)
  BY <1>2 DEF Asks, GoodText
<1> QED
  BY <1>2, <1>6, <1>7, <1>8 DEF Fits, Deriving

LEMMA CallReturnsValuesStep ==
  ASSUME IInv, NEW t \in Task, CallReturnsValues(t)
  PROVE  IInv'
<1> DEFINE c == task[t]
<1>1. PICK d \in DecryptNext(c, c.reply.value) : task' = [task EXCEPT ![t] = d]
  BY DEF CallReturnsValues
<1>2. c.pc = "reply" /\ IsOk(c.reply) /\ UNCHANGED <<page, canister>>
  BY DEF CallReturnsValues
<1>3. Shaped(c) /\ Asks(c) /\ Fits(c, persistent) /\ Noted(c)
  BY <1>2, UnderWay
<1>4. /\ c.object \in IF persistent THEN User ELSE {Page}
      /\ \A s \in c.shown : GoodText(c, s)
      /\ \A v \in c.reply.value : GoodValue(c, v)
      /\ c.shown = {} /\ c.did = Places(c.reply.value) /\ c.did \in SUBSET Place
  BY <1>2, <1>3 DEF Fits
<1>5. c.did = Places(c.shown) \cup Places(c.reply.value)
  BY <1>4, NoPlaces
<1>6. ReadsNoted(c, Signer(c.object))
  BY <1>2, <1>3 DEF Noted
<1> HIDE DEF c
<1>7. Fits(d, persistent) /\ d.pc = "lookup" /\ d.map = c.map /\ d.object = c.object
      /\ d.mayRead = c.mayRead
  BY <1>3, <1>4, <1>5, NextFits
<1>8. ReadsNoted(d, Signer(d.object))
  BY <1>6, <1>7 DEF ReadsNoted
<1>9. TasksFit'
  BY <1>1, <1>2, <1>7, <1>8, StepOfCall DEF c, page, canister
<1> QED
  BY <1>2, <1>9, OnlyTasks

LEMMA DecryptStep ==
  ASSUME IInv, NEW t \in Task, Decrypt(t)
  PROVE  IInv'
<1> DEFINE c == task[t]
           s == [place |-> c.at.place, text |-> c.at.cipher.text]
           e == [c EXCEPT !.shown = Opened(c)]
<1>1. /\ c.pc = "use" /\ c.at # Nothing /\ UNCHANGED <<page, canister>>
      /\ \E d \in AfterDecrypt(c) : task' = [task EXCEPT ![t] = d]
  BY DEF Decrypt
<1>2. CASE ~ Opens(c.handle, c.at.place[2], c.at.cipher)
  <2>1. AfterDecrypt(c) = {Refuse(c)}
    BY <1>2 DEF AfterDecrypt
  <2>2. task' = [task EXCEPT ![t] = Refuse(c)]
    BY <1>1, <2>1
  <2> QED
    BY <1>1, <2>2, RefusalStep
<1>3. CASE Opens(c.handle, c.at.place[2], c.at.cipher)
  <2>1. Shaped(c) /\ Asks(c) /\ Fits(c, persistent) /\ Noted(c)
    BY <1>1, UnderWay
  <2>2. /\ c.object \in IF persistent THEN User ELSE {Page}
        /\ \A x \in c.shown : GoodText(c, x)
        /\ GoodValue(c, c.at) /\ \A v \in c.todo : GoodValue(c, v)
        /\ c.did = Places(c.shown) \cup {c.at.place} \cup Places(c.todo)
        /\ c.did \in SUBSET Place
        /\ OfMap(c.handle, Wanted(c))
        /\ ReadsNoted(c, Signer(c.object))
    BY <1>1, <2>1 DEF Fits, Decrypts, Derives, Deriving, Noted
  <2>3. GoodText(c, s)
    <3>1. /\ Genuine(c.at.cipher) /\ c.at.place \in KeyId \X MapKey
          /\ c.at.place[1] \in c.mayRead
      BY <1>3, <2>2 DEF Opens, GoodValue, Value, Place
    <3>2. c.at.cipher.under = c.at.place[1] /\ c.at.cipher.aad = c.at.place[2]
      BY <1>1, <1>3, <2>2 DEF Opens, OfMap, Wanted
    <3>3. c.at.cipher.text = c.at.place
      BY <3>1, <3>2 DEF Genuine
    <3> HIDE DEF c
    <3> QED
      BY <3>1, <3>3 DEF GoodText
  <2>4. Places(c.shown \cup {s}) = Places(c.shown) \cup {c.at.place}
    BY OnePlaceMore
  <2>5. e = [c EXCEPT !.shown = c.shown \cup {s}]
    BY DEF Opened
  <2>6. /\ AfterDecrypt(c) = IF c.todo = {} THEN {Settled(e, Ok({}))} ELSE DecryptNext(e, c.todo)
    BY <1>3 DEF AfterDecrypt
  <2> HIDE DEF c, s, e
  <2>7. /\ Shaped(e) /\ e.shown = c.shown \cup {s} /\ e.todo = c.todo
        /\ e.op = c.op /\ e.map = c.map /\ e.key = c.key /\ e.object = c.object
        /\ e.mayRead = c.mayRead /\ e.did = c.did
    BY <2>1, <2>5 DEF Shaped
  <2>8. /\ Asks(e)
        /\ \A x \in e.shown : GoodText(e, x)
        /\ \A v \in e.todo : GoodValue(e, v)
        /\ e.did = Places(e.shown) \cup Places(e.todo)
    BY <2>1, <2>2, <2>3, <2>4, <2>7 DEF Asks, GoodText, GoodValue
  <2>9. CASE c.todo = {}
    <3> DEFINE d == Settled(e, Ok({}))
    <3>1. task' = [task EXCEPT ![t] = d]
      BY <1>1, <2>6, <2>9
    <3>2. /\ Shaped(d) /\ d.pc = "done"
          /\ d.op = e.op /\ d.map = e.map /\ d.key = e.key /\ d.object = e.object
          /\ d.shown = e.shown /\ d.mayRead = e.mayRead /\ d.did = e.did
      BY <2>7, SettledCall
    <3> HIDE DEF d
    <3>3. d.did = Places(d.shown) /\ d.did \in SUBSET Place
      BY <2>2, <2>7, <2>8, <2>9, <3>2, NoPlaces
    <3>4. Asks(d) /\ \A x \in d.shown : GoodText(d, x)
      BY <2>8, <3>2 DEF Asks, GoodText
    <3>5. Fits(d, persistent)
      BY <2>2, <2>7, <3>2, <3>3, <3>4 DEF Fits, Deriving
    <3>6. TasksFit'
      BY <1>1, <3>1, <3>2, <3>5, StepOfCall DEF c, page, canister
    <3> QED
      BY <1>1, <3>6, OnlyTasks
  <2>10. CASE c.todo # {}
    <3>1. PICK d \in DecryptNext(e, c.todo) : task' = [task EXCEPT ![t] = d]
      BY <1>1, <2>6, <2>10
    <3>2. Fits(d, persistent) /\ d.pc = "lookup" /\ d.map = e.map /\ d.object = e.object
          /\ d.mayRead = e.mayRead
      <4>1. e.object \in IF persistent THEN User ELSE {Page}
        BY <2>2, <2>7
      <4>2. /\ \A v \in c.todo : GoodValue(e, v)
            /\ e.did = Places(e.shown) \cup Places(c.todo) /\ e.did \in SUBSET Place
        BY <2>2, <2>7, <2>8
      <4>3. Shaped(e) /\ Asks(e) /\ \A x \in e.shown : GoodText(e, x)
        BY <2>7, <2>8
      <4> DEFINE values == c.todo
      <4>4. /\ d \in DecryptNext(e, values) /\ \A v \in values : GoodValue(e, v)
            /\ e.did = Places(e.shown) \cup Places(values)
        BY <3>1, <4>2
      <4> HIDE DEF values
      <4> QED
        BY <4>1, <4>2, <4>3, <4>4, NextFits
    <3>3. ReadsNoted(d, Signer(d.object))
      BY <2>2, <2>7, <3>2 DEF ReadsNoted
    <3>4. TasksFit'
      BY <1>1, <3>1, <3>2, <3>3, StepOfCall DEF c, page, canister
    <3> QED
      BY <1>1, <3>4, OnlyTasks
  <2> QED
    BY <2>9, <2>10
<1> QED
  BY <1>2, <1>3

LEMMA FinishStep ==
  ASSUME IInv, NEW t \in Task, Finish(t)
  PROVE  IInv'
<1>1. /\ task[t].pc = "done" /\ task' = [task EXCEPT ![t] = Idle] /\ Idle.pc = "idle"
      /\ UNCHANGED <<page, canister>>
  BY DEF Finish, Idle
<1>2. TasksFit'
  <2> HIDE DEF Idle
  <2> QED
    BY <1>1, StepOfCall DEF page, canister
<1> QED
  BY <1>1, <1>2, OnlyTasks

(* A call as it begins. *)
Beginning(r, o, mayRead) == [Begun(r, o) EXCEPT !.mayRead = mayRead]

LEMMA BeginningFits ==
  ASSUME PageFits, NEW r \in Request, NEW o \in Object, NEW mayRead
  PROVE  LET d == Beginning(r, o, mayRead)
         IN  /\ Fits(d, persistent) /\ d.map = r[2] /\ d.object = o /\ d.mayRead = mayRead
             /\ d.pc = "lookup" \/ (d.pc = "call" /\ d.who = Signer(o))
<1> DEFINE d == Beginning(r, o, mayRead)
           pc == IF r[1] = "setValue" THEN "lookup" ELSE "call"
           who == Signer(o)
<1>1. d = [pc |-> pc, op |-> r[1], map |-> r[2], key |-> r[3], object |-> o, who |-> who,
           cipher |-> Nothing, handle |-> Nothing, reply |-> Ok(Nothing),
           at |-> Nothing, todo |-> {}, shown |-> {}, mayRead |-> mayRead, did |-> Nothing]
  BY DEF Beginning, Begun
<1>2. (pc = "lookup" /\ r[1] = "setValue") \/ pc = "call"
  OBVIOUS
<1>3. who \in User
  BY DEF PageFits, Signer, Object
<1>4. \/ r[1] \in {"getValue", "setValue", "removeEncryptedValue"} /\ r[2] \in KeyId /\ r[3] \in MapKey
      \/ r[1] \in {"getValuesForMap", "removeMapValues"} /\ r[2] \in KeyId
      \/ r[1] = "getAllAccessibleValues" /\ r[2] = Nothing
  BY DEF Request
<1>5. o \in IF persistent THEN User ELSE {Page}
  BY DEF Object
<1> HIDE DEF pc, who, d
<1>6. /\ Shaped(d) /\ d.pc = pc /\ d.op = r[1] /\ d.map = r[2] /\ d.key = r[3] /\ d.object = o
      /\ d.who = who /\ d.cipher = Nothing /\ d.at = Nothing /\ d.shown = {}
      /\ d.mayRead = mayRead
  <2>1. /\ d.pc = pc /\ d.op = r[1] /\ d.map = r[2] /\ d.key = r[3] /\ d.object = o
        /\ d.who = who /\ d.cipher = Nothing /\ d.handle = Nothing /\ d.reply = Ok(Nothing)
        /\ d.at = Nothing /\ d.todo = {} /\ d.shown = {} /\ d.mayRead = mayRead
        /\ d.did = Nothing
    BY <1>1
  <2>2. Shaped(d)
    BY <1>1, <2>1 DEF Shaped
  <2> QED
    BY <2>1, <2>2
<1>7. Asks(d)
  BY <1>4, <1>6 DEF Asks
<1>8. d.pc = "lookup" => Decrypts(d) /\ Derives(d, persistent)
  BY <1>2, <1>6 DEF Decrypts, Derives
<1>9. Fits(d, persistent)
  BY <1>2, <1>3, <1>5, <1>6, <1>7, <1>8 DEF Fits, Deriving
<1> QED
  BY <1>2, <1>6, <1>9 DEF who, d

LEMMA StartStep ==
  ASSUME IInv, NEW t \in Task, NEW r \in Request, Start(t, r)
  PROVE  IInv'
<1> DEFINE mayRead == ReadableNow(identity, r)
           d == Beginning(r, Current, mayRead)
<1>1. task' = [task EXCEPT ![t] = d] /\ UNCHANGED <<page, canister>>
  BY DEF Start, Beginning
<1>2. Current \in Object /\ Signer(Current) = identity /\ PageFits
  BY DEF IInv, PageFits, Current, Object, Signer
<1>3. d = Beginning(r, Current, mayRead)
  OBVIOUS
<1>4. \A m \in KeyId : r[2] \in {m, Nothing} /\ Readable(identity, m) => m \in mayRead
  BY DEF ReadableNow
<1> DEFINE o == Current
<1> HIDE DEF d, o, mayRead
<1>5. o \in Object /\ d = Beginning(r, o, mayRead)
  BY <1>2, <1>3 DEF o
<1>6. /\ Fits(d, persistent) /\ d.map = r[2] /\ d.object = o /\ d.mayRead = mayRead
      /\ d.pc = "lookup" \/ (d.pc = "call" /\ d.who = Signer(o))
  BY <1>2, <1>5, BeginningFits
<1>7. ReadsNoted(d, identity)
  BY <1>4, <1>6 DEF ReadsNoted
<1>8. ReadsNoted(d, Signer(d.object)) /\ (d.pc = "call" => ReadsNoted(d, d.who))
  BY <1>2, <1>6, <1>7 DEF o
<1>9. TasksFit'
  BY <1>1, <1>6, <1>8, StepOfCall DEF page, canister
<1> QED
  BY <1>1, <1>9, OnlyTasks

LEMMA ClearCacheStep ==
  ASSUME IInv, ClearCache
  PROVE  IInv'
<1>1. /\ cache' = [cache EXCEPT ![Current] = NoHandles]
      /\ UNCHANGED <<persistent, identity, verifiable, task, rights, store>>
  BY DEF ClearCache, Database, canister
<1>2. CacheFits'
  <2>1. ASSUME NEW o \in Object, NEW m \in KeyId
        PROVE  cache'[o][m] \in {cache[o][m], Nothing}
    BY <1>1 DEF IInv, CacheFits, NoHandles
  <2>2. cache' = [o \in Object |-> [m \in KeyId |-> cache'[o][m]]]
    BY <1>1 DEF IInv, CacheFits, NoHandles
  <2>3. Object' = Object /\ persistent' = persistent
    BY <1>1 DEF Object
  <2>4. ASSUME NEW o \in Object, NEW m \in KeyId, cache'[o][m] # Nothing
        PROVE  OfMap(cache'[o][m], m) /\ (persistent => cache'[o][m].by = o)
    BY <2>1, <2>4 DEF IInv, CacheFits
  <2> QED
    BY <2>2, <2>3, <2>4 DEF CacheFits, OfMap
<1> QED
  BY <1>1, <1>2 DEF IInv, PageFits, StoreFits, TasksFit, Noted, ReadsNoted, Readable, Signer, Object

(* The maps of one more reader are noted.                                  *)
LEMMA NotedMore ==
  ASSUME NEW c, NEW own, NEW mayRead, NEW d, Fits(c, own), c.mayRead \subseteq mayRead,
         d = [c EXCEPT !.mayRead = mayRead]
  PROVE  /\ Fits(d, own) /\ d.pc = c.pc /\ d.map = c.map /\ d.object = c.object
         /\ d.who = c.who /\ d.mayRead = mayRead
<1>1. Shaped(c)
  BY DEF Fits
<1>2. /\ Shaped(d) /\ d.mayRead = mayRead
      /\ d.pc = c.pc /\ d.op = c.op /\ d.map = c.map /\ d.key = c.key /\ d.object = c.object
      /\ d.who = c.who /\ d.cipher = c.cipher /\ d.handle = c.handle /\ d.reply = c.reply
      /\ d.at = c.at /\ d.todo = c.todo /\ d.shown = c.shown /\ d.did = c.did
  BY <1>1 DEF Shaped
<1>3. /\ \A v : GoodValue(c, v) => GoodValue(d, v)
      /\ \A s : GoodText(c, s) => GoodText(d, s)
  BY <1>2 DEF GoodValue, GoodText
<1>4. Decrypts(c) => Decrypts(d)
  BY <1>2, <1>3 DEF Decrypts
<1>5. Derives(c, own) => Derives(d, own)
  BY <1>2 DEF Derives, Wanted
<1>6. Asks(d)
  BY <1>2 DEF Fits, Asks
<1> QED
  BY <1>2, <1>3, <1>4, <1>5, <1>6 DEF Fits

LEMMA ChangeIdentityStep ==
  ASSUME IInv, NEW u \in User, ChangeIdentity(u)
  PROVE  IInv'
<1>1. /\ identity' = u /\ UNCHANGED <<persistent, verifiable, rights, store>>
      /\ persistent => UNCHANGED <<cache, task>>
  BY DEF ChangeIdentity, canister
<1>2. PageFits' /\ StoreFits' /\ CacheFits'
  <2>1. CASE persistent
    BY <1>1, <2>1 DEF IInv, PageFits, StoreFits, CacheFits, Object
  <2>2. CASE ~ persistent
    <3>1. cache' = [o \in Object |-> NoHandles] /\ Object' = Object /\ ~ persistent'
      BY <1>1, <2>2 DEF ChangeIdentity, Object
    <3>2. CacheFits'
      BY <3>1 DEF CacheFits, NoHandles
    <3> QED
      BY <1>1, <3>1, <3>2 DEF IInv, PageFits, StoreFits
  <2> QED
    BY <2>1, <2>2
<1>3. TasksFit'
  <2>1. CASE persistent
    BY <1>1, <2>1 DEF IInv, TasksFit, Noted, ReadsNoted, Readable, Signer
  <2>2. CASE ~ persistent
    <3> DEFINE may(t) == task[t].mayRead \cup ReadableNow(u, <<task[t].op, task[t].map>>)
               new(t) == [task[t] EXCEPT !.mayRead = may(t)]
    <3>1. task' = [t \in Task |-> IF task[t].pc = "idle" THEN task[t] ELSE new(t)]
      BY <2>2 DEF ChangeIdentity
    <3>2. ASSUME NEW t \in Task, task'[t].pc # "idle"
          PROVE  Fits(task'[t], persistent) /\ Noted(task[t])'
      <4> DEFINE c == task[t]
                 mayRead == may(t)
      <4>1. c.pc # "idle"
        BY <3>1, <3>2
      <4>2. task'[t] = [c EXCEPT !.mayRead = mayRead]
        BY <3>1, <4>1
      <4>3. Fits(c, persistent) /\ Noted(c) /\ c.mayRead \subseteq mayRead
        BY <4>1, UnderWay
      <4>4. \A m \in KeyId : c.map \in {m, Nothing} /\ Readable(u, m) => m \in mayRead
        BY DEF ReadableNow
      <4> DEFINE d == task'[t]
      <4> HIDE DEF c, mayRead, d
      <4>5. d = [c EXCEPT !.mayRead = mayRead]
        BY <4>2 DEF d
      <4>6. /\ Fits(d, persistent) /\ d.pc = c.pc /\ d.map = c.map /\ d.object = c.object
            /\ d.who = c.who /\ d.mayRead = mayRead
        BY <4>3, <4>5, NotedMore
      <4>7. /\ \A m \in KeyId : d.map \in {m, Nothing} /\ Readable(u, m) => m \in d.mayRead
            /\ d.pc = "call" => ReadsNoted(d, d.who)
        BY <4>3, <4>4, <4>6 DEF Noted, ReadsNoted
      <4>8. ~ persistent' /\ identity' = u /\ rights' = rights
        BY <1>1, <2>2
      <4> QED
        BY <4>6, <4>7, <4>8 DEF d, Noted, ReadsNoted, Readable, Signer
    <3>3. task' = [t \in Task |-> task'[t]]
      BY <3>1
    <3>4. persistent' = persistent
      BY <1>1
    <3> QED
      BY <3>2, <3>3, <3>4 DEF TasksFit
  <2> QED
    BY <2>1, <2>2
<1> QED
  BY <1>2, <1>3 DEF IInv

LEMMA ReloadStep ==
  ASSUME IInv, Reload
  PROVE  IInv'
<1>1. /\ task' = [t \in Task |-> Idle] /\ verifiable' = {}
      /\ UNCHANGED <<persistent, identity, rights, store>>
      /\ cache' = IF persistent THEN cache ELSE [o \in Object |-> NoHandles]
  BY DEF Reload, canister
<1>2. Object' = Object
  BY <1>1 DEF Object
<1>3. CacheFits'
  <2>1. CASE persistent
    BY <1>1, <1>2, <2>1 DEF IInv, CacheFits, OfMap
  <2>2. CASE ~ persistent
    BY <1>1, <1>2, <2>2 DEF CacheFits, NoHandles
  <2> QED
    BY <2>1, <2>2
<1>4. TasksFit'
  BY <1>1 DEF TasksFit, Idle
<1> QED
  BY <1>1, <1>2, <1>3, <1>4 DEF IInv, PageFits, StoreFits

LEMMA ChangeRightsStep ==
  ASSUME IInv, NEW u \in User, NEW m \in KeyId, NEW r \in MaybeRights, ChangeRights(u, m, r)
  PROVE  IInv'
<1>1. /\ rights' = [rights EXCEPT ![<<u, m>>] = r]
      /\ task' = IF r \in Readers THEN MayReadToo(u, m) ELSE task
      /\ UNCHANGED <<persistent, identity, cache, verifiable, store>>
  BY DEF ChangeRights, page
<1>2. PageFits' /\ CacheFits' /\ StoreFits'
  BY <1>1 DEF IInv, PageFits, CacheFits, StoreFits, Object
<1> DEFINE ReadableThen(user, n) == user = Owner(n) \/ rights'[<<user, n>>] \in Readers
<1>3. ASSUME NEW user \in User, NEW n \in KeyId, ReadableThen(user, n)
      PROVE  Readable(user, n) \/ (user = u /\ n = m /\ r \in Readers)
  <2>1. rights'[<<user, n>>] = IF user = u /\ n = m THEN r ELSE rights[<<user, n>>]
    BY <1>1 DEF IInv, StoreFits
  <2> QED
    BY <1>3, <2>1 DEF Readable
<1>4. ASSUME NEW t \in Task, task'[t].pc # "idle"
      PROVE  Fits(task'[t], persistent) /\ Noted(task[t])'
  <2> DEFINE c == task[t]
             d == task'[t]
             told == r \in Readers /\ u \in {Signer(c.object), c.who} /\ c.map \in {m, Nothing}
             mayRead == IF told THEN c.mayRead \cup {m} ELSE c.mayRead
  <2>1. /\ c.pc # "idle"
        /\ d = IF told THEN [c EXCEPT !.mayRead = c.mayRead \cup {m}] ELSE c
    <3>1. CASE r \in Readers
      BY <1>1, <1>4, <3>1 DEF MayReadToo
    <3>2. CASE r \notin Readers
      BY <1>1, <1>4, <3>2
    <3> QED
      BY <3>1, <3>2
  <2>2. Fits(c, persistent) /\ Noted(c) /\ c.object \in Object
    BY <2>1, UnderWay
  <2>3. c.pc = "call" => c.who \in User
    BY <2>2 DEF Fits
  <2>4. Signer(c.object) \in User
    BY <2>2 DEF IInv, PageFits, Signer, Object
  <2>5. /\ Fits(d, persistent) /\ d.pc = c.pc /\ d.map = c.map /\ d.object = c.object
        /\ d.who = c.who /\ d.mayRead = mayRead
    <3> HIDE DEF c, d
    <3>1. CASE told
      <4> DEFINE more == c.mayRead \cup {m}
      <4>1. d = [c EXCEPT !.mayRead = more] /\ c.mayRead \subseteq more /\ mayRead = more
        BY <2>1, <3>1
      <4> HIDE DEF more, told, mayRead
      <4> QED
        BY <2>2, <4>1, NotedMore
    <3>2. CASE ~ told
      BY <2>1, <2>2, <3>2
    <3> QED
      BY <3>1, <3>2
  <2>6. ASSUME NEW user \in User, NEW n \in KeyId, ReadsNoted(c, user),
               user \in {Signer(c.object), c.who}, d.map \in {n, Nothing}, ReadableThen(user, n)
        PROVE  n \in d.mayRead
    <3>1. CASE Readable(user, n)
      BY <2>5, <2>6, <3>1 DEF ReadsNoted
    <3>2. CASE user = u /\ n = m /\ r \in Readers
      BY <2>5, <2>6, <3>2
    <3> QED
      BY <1>3, <2>6, <3>1, <3>2
  <2> DEFINE signer == Signer(c.object)
  <2>7. ASSUME d.pc # "done", NEW n \in KeyId, d.map \in {n, Nothing}, ReadableThen(signer, n)
        PROVE  n \in d.mayRead
    BY <2>2, <2>4, <2>5, <2>6, <2>7 DEF Noted
  <2>8. ASSUME d.pc = "call", NEW n \in KeyId, d.map \in {n, Nothing}, ReadableThen(d.who, n)
        PROVE  n \in d.mayRead
    <3>1. c.who \in User /\ d.who = c.who /\ ReadsNoted(c, c.who)
      BY <2>2, <2>3, <2>5, <2>8 DEF Noted
    <3> HIDE DEF c, d, ReadableThen
    <3> QED
      BY <2>6, <2>8, <3>1
  <2>9. (Signer(task[t].object))' = signer
    BY <1>1, <2>5 DEF Signer
  <2> QED
    BY <2>5, <2>7, <2>8, <2>9 DEF Noted, ReadsNoted, Readable
<1>5. task' = [t \in Task |-> task'[t]]
  BY <1>1 DEF MayReadToo, IInv, TasksFit
<1>6. TasksFit'
  BY <1>1, <1>4, <1>5 DEF TasksFit
<1> QED
  BY <1>2, <1>6 DEF IInv

LEMMA OthersWriteStep ==
  ASSUME IInv, NEW p \in Place, NEW cipher, cipher = Garbage \/ Genuine(cipher),
         OthersWrite(p, cipher)
  PROVE  IInv'
<1>1. /\ store' = [store EXCEPT ![p] = cipher]
      /\ UNCHANGED <<persistent, identity, cache, verifiable, task, rights>>
  BY DEF OthersWrite, page
<1>2. StoreFits'
  <2>1. ASSUME NEW q \in Place
        PROVE  store'[q] = IF q = p THEN cipher ELSE store[q]
    BY <1>1 DEF IInv, StoreFits
  <2>2. store' = [q \in Place |-> store'[q]]
    BY <1>1 DEF IInv, StoreFits
  <2> QED
    BY <1>1, <2>1, <2>2 DEF IInv, StoreFits, Genuine
<1> QED
  BY <1>1, <1>2 DEF IInv, PageFits, CacheFits, TasksFit, Object, Noted, ReadsNoted, Readable, Signer

LEMMA StutteringStep ==
  ASSUME IInv, UNCHANGED vars
  PROVE  IInv'
BY DEF vars, page, canister, IInv, PageFits, StoreFits, CacheFits, TasksFit, Object, Noted,
       ReadsNoted, Readable, Signer, Genuine, OfMap

LEMMA NextStep ==
  ASSUME IInv, Writers \subseteq Readers, Next
  PROVE  IInv'
<1>1. ASSUME NEW t \in Task, TaskStep(t)
      PROVE  IInv'
  <2>1. CASE RequestFails(t) \/ KeyRefused(t) \/ DatabaseFails(t)
    BY <2>1, RefusalStep DEF RequestFails, KeyRefused, DatabaseFails
  <2>2. CASE CanisterCall(t) \/ CanisterDerive(t)
    BY <2>2, CanisterCallStep, CanisterDeriveStep
  <2>3. CASE CacheHit(t) \/ CacheMiss(t) \/ KeyArrives(t) \/ VerificationKey(t) \/ KeyDerived(t)
    BY <2>3, CacheHitStep, CacheMissStep, KeyArrivesStep, VerificationKeyStep, KeyDerivedStep
  <2>4. CASE Encrypt(t) \/ CallSettles(t) \/ CallReturnsValues(t) \/ Decrypt(t)
    BY <2>4, EncryptStep, CallSettlesStep, CallReturnsValuesStep, DecryptStep
  <2> QED
    BY <1>1, <2>1, <2>2, <2>3, <2>4 DEF TaskStep
<1>2. ASSUME NEW p \in Place, NEW q \in Place, OthersWrite(p, Encrypted(q[1], q[2], q))
      PROVE  IInv'
  <2>1. Genuine(Encrypted(q[1], q[2], q))
    BY DEF Genuine, Encrypted, Ciphertext, Text, Place
  <2> QED
    BY <1>2, <2>1, OthersWriteStep
<1>3. ASSUME NEW p \in Place, OthersWrite(p, Garbage)
      PROVE  IInv'
  BY <1>3, OthersWriteStep
<1> QED
  BY <1>1, <1>2, <1>3, StartStep, FinishStep, ClearCacheStep, ReloadStep, ChangeIdentityStep,
     ChangeRightsStep DEF Next

THEOREM Invariant ==
  ASSUME Writers \subseteq Readers
  PROVE  Spec => []IInv
<1>1. ASSUME Init
      PROVE  IInv
  <2>1. PageFits
    BY <1>1 DEF Init, PageFits
  <2>2. StoreFits
    BY <1>1 DEF Init, StoreFits, MaybeRights
  <2>3. CacheFits
    BY <1>1 DEF Init, CacheFits, NoHandles
  <2>4. TasksFit
    BY <1>1 DEF Init, TasksFit, Idle
  <2> QED
    BY <2>1, <2>2, <2>3, <2>4 DEF IInv
<1>2. IInv /\ [Next]_vars => IInv'
  BY NextStep, StutteringStep
<1> QED
  BY <1>1, <1>2, PTL DEF Spec

(* Handles, ciphertexts and rights keep their form, whatever is lost on    *)
(* the way.                                                                *)
THEOREM TypeCorrect ==
  ASSUME Writers \subseteq Readers
  PROVE  Spec => []TypeOK
BY Invariant, InvariantTypes, PTL

(* A text is shown only at the place it was written for, wherever its      *)
(* ciphertext was put: for any number of calls, changes of identity and    *)
(* reloads among them.                                                     *)
THEOREM TextsInPlace ==
  ASSUME Writers \subseteq Readers
  PROVE  Spec => []ShowsTextOfItsPlace
BY Invariant, InvariantShows, PTL

(* Nothing is shown of a map that could not be read, whatever key material *)
(* is cached and whoever used the page before.                             *)
THEOREM TextsToReaders ==
  ASSUME Writers \subseteq Readers
  PROVE  Spec => []ShowsOnlyToReaders
BY Invariant, InvariantShows, PTL

(* A call that returns without an error has taken effect, and leaves no    *)
(* value out.                                                              *)
THEOREM WholeReturned ==
  ASSUME Writers \subseteq Readers
  PROVE  Spec => []ReturnsWhatHappened
BY Invariant, InvariantReturns, PTL

(* A database for each identity never holds another identity's handle.     *)
THEOREM DatabasesKeptApart ==
  ASSUME Writers \subseteq Readers
  PROVE  Spec => []DatabasesBelongToIdentity
BY Invariant, InvariantDatabases, PTL
=============================================================================
