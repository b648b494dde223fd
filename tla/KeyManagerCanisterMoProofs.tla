---------------------- MODULE KeyManagerCanisterMoProofs ----------------------
(***************************************************************************)
(* The canister around the Motoko KeyManager implements the Rust one, for  *)
(* any users, key ids, key names and number of concurrent calls: each of   *)
(* its steps is one of the Rust canister, or a message to itself that the  *)
(* Rust canister does not send.                                            *)
(***************************************************************************)
EXTENDS KeyManagerCanisterMo, SequenceTheorems, TLAPS

(* What the two canisters have to agree on: names that fit into a Blob<32>,*)
(* and no key name that means none.                                        *)
NamesFit ==
    /\ \A k \in KeyId : Len(k[2]) <= 32
    /\ None \notin InstallName

(* A record with the fields of a call.                                     *)
Shaped(c) ==
    c = [status |-> c.status, op |-> c.op, caller |-> c.caller, key |-> c.key,
         frames |-> c.frames, request |-> c.request, reply |-> c.reply,
         could |-> c.could, lacked |-> c.lacked]

(* What is known of a call: a request is answered by what was asked, or by *)
(* an error, and a refusal is one frame deep.                              *)
Fits(c) ==
    /\ Shaped(c)
    /\ c.status \in {"idle", "sent", "called", "asking", "waiting", "returning", "done"}
    /\ c.status \in {"sent", "called"} =>
          c.op = "verification_key" \/ (c.op = "vetkey" /\ c.key \in KeyId)
    /\ c.status = "returning" =>
          \/ c.reply = Err("unauthorized") /\ c.frames = 1
          \/ c.reply = Err("vetKD")
          \/ c.reply = Ok(c.request)

IInv ==
    /\ state = installed
    /\ installed = NoConfig => readers = {} /\ \A s \in Slot : calls[s].status = "idle"
    /\ calls = [s \in Slot |-> calls[s]]
    /\ \A s \in Slot : Fits(calls[s])

-----------------------------------------------------------------------------
(* The Rust canister's view of a call.                                     *)

LEMMA ViewOfCall ==
  ASSUME NEW c
  PROVE  LET r == RustCall(c)
         IN  /\ r = [status |-> r.status, op |-> r.op, caller |-> r.caller, key |-> r.key,
                     request |-> r.request, reply |-> r.reply, could |-> r.could,
                     lacked |-> r.lacked]
             /\ r.status = RustStatus(c) /\ r.op = c.op /\ r.caller = c.caller
             /\ r.key = c.key /\ r.request = c.request /\ r.reply = c.reply
             /\ r.could = c.could /\ r.lacked = c.lacked
BY DEF RustCall

(* The view of a call that has just begun is such a call.                  *)
LEMMA ViewOfNewCall ==
  ASSUME NEW status \in {"idle", "sent"}, NEW op, NEW caller, NEW k, NEW could
  PROVE  /\ Fits(Called(status, op, caller, k, could))
            <=> (status = "sent" => op = "verification_key" \/ (op = "vetkey" /\ k \in KeyId))
         /\ RustCall(Called(status, op, caller, k, could))
              = Rust!Called(status, op, caller, k, could)
<1> DEFINE c == Called(status, op, caller, k, could)
           lacked == ~ could
<1>1. c = [status |-> status, op |-> op, caller |-> caller, key |-> k, frames |-> 0,
           request |-> NoRequest, reply |-> NoReply, could |-> could, lacked |-> lacked]
  BY DEF Called
<1>2. Rust!Called(status, op, caller, k, could)
        = [status |-> status, op |-> op, caller |-> caller, key |-> k,
           request |-> NoRequest, reply |-> NoReply, could |-> could, lacked |-> lacked]
  BY DEF Rust!Called, Rust!NoRequest, Rust!NoReply, NoRequest, NoReply,
     Rust!NoConfig, NoConfig, Rust!None, None
<1> HIDE DEF c, lacked
<1>3. /\ c.status = status /\ c.op = op /\ c.caller = caller /\ c.key = k
      /\ c.request = NoRequest /\ c.reply = NoReply /\ c.could = could /\ c.lacked = lacked
      /\ c.frames = 0
  BY <1>1
<1>4. Shaped(c)
  BY <1>1, <1>3 DEF Shaped
<1>5. RustStatus(c) = status
  BY <1>3 DEF RustStatus, Refused
<1>6. RustCall(c) = Rust!Called(status, op, caller, k, could)
  BY <1>2, <1>3, <1>5 DEF RustCall
<1>7. Fits(c) <=> (status = "sent" => op = "verification_key" \/ (op = "vetkey" /\ k \in KeyId))
  BY <1>3, <1>4 DEF Fits
<1> QED
  BY <1>6, <1>7 DEF c

(* A step of one call, as the Rust canister sees it.                       *)
LEMMA OneCall ==
  ASSUME IInv, NEW s \in Slot, NEW d, Fits(d), calls' = [calls EXCEPT ![s] = d],
         installed # NoConfig,
         UNCHANGED <<state, readers, installed>>
  PROVE  /\ IInv'
         /\ AsRust' = [AsRust EXCEPT ![s] = RustCall(d)]
         /\ AsRust[s] = RustCall(calls[s])
<1>1. \A t \in Slot : calls'[t] = IF t = s THEN d ELSE calls[t]
  BY DEF IInv
<1>2. IInv'
  BY <1>1 DEF IInv, Fits, Shaped
<1>3. AsRust' = [AsRust EXCEPT ![s] = RustCall(d)]
  <2>1. AsRust' = [t \in Slot |-> RustCall(calls'[t])]
    BY DEF AsRust, RustCall, RustStatus, Refused
  <2>2. \A t \in Slot : RustCall(calls'[t]) = IF t = s THEN RustCall(d) ELSE RustCall(calls[t])
    BY <1>1
  <2> QED
    BY <2>1, <2>2 DEF AsRust
<1> QED
  BY <1>2, <1>3 DEF AsRust

LEMMA UnderWay ==
  ASSUME IInv, NEW s \in Slot, calls[s].status # "idle"
  PROVE  /\ installed # NoConfig /\ state = installed
         /\ Fits(calls[s]) /\ Shaped(calls[s])
BY DEF IInv, Fits

-----------------------------------------------------------------------------
(* The messages that a canister sends to itself.                           *)

LEMMA Silent ==
  ASSUME IInv, NEW s \in Slot, NEW d, Fits(d), Becomes(s, d), installed # NoConfig,
         RustCall(d) = RustCall(calls[s])
  PROVE  IInv' /\ UNCHANGED Rust!vars
<1>1. IInv' /\ AsRust' = [AsRust EXCEPT ![s] = RustCall(calls[s])] /\ AsRust[s] = RustCall(calls[s])
  BY OneCall DEF Becomes
<1>2. AsRust' = AsRust
  BY <1>1 DEF AsRust
<1> QED
  BY <1>1, <1>2 DEF Becomes, Rust!vars

LEMMA EndpointStep ==
  ASSUME IInv, NEW s \in Slot, Endpoint(s)
  PROVE  IInv' /\ UNCHANGED Rust!vars
<1> DEFINE c == calls[s]
           d == [c EXCEPT !.status = "called"]
<1>1. c.status = "sent" /\ Becomes(s, d)
  BY DEF Endpoint
<1>2. installed # NoConfig /\ Fits(c) /\ Shaped(c)
  BY <1>1, UnderWay
<1>3. d = [c EXCEPT !.status = "called"]
  OBVIOUS
<1> HIDE DEF c, d
<1>4. /\ Shaped(d) /\ d.status = "called"
      /\ d.request = c.request /\ d.reply = c.reply
      /\ d.op = c.op /\ d.caller = c.caller /\ d.key = c.key
      /\ d.could = c.could /\ d.lacked = c.lacked
  BY <1>2, <1>3 DEF Shaped
<1>5. Fits(d)
  BY <1>1, <1>2, <1>4 DEF Fits
<1>6. RustCall(d) = RustCall(c)
  BY <1>1, <1>4 DEF RustCall, RustStatus, Refused
<1> QED
  BY <1>1, <1>2, <1>5, <1>6, Silent DEF c

LEMMA VetKdRequestStep ==
  ASSUME IInv, NEW s \in Slot, VetKdRequest(s)
  PROVE  IInv' /\ UNCHANGED Rust!vars
<1> DEFINE c == calls[s]
           d == [c EXCEPT !.status = "waiting"]
<1>1. c.status = "asking" /\ Becomes(s, d)
  BY DEF VetKdRequest
<1>2. installed # NoConfig /\ Fits(c) /\ Shaped(c)
  BY <1>1, UnderWay
<1>3. d = [c EXCEPT !.status = "waiting"]
  OBVIOUS
<1> HIDE DEF c, d
<1>4. /\ Shaped(d) /\ d.status = "waiting"
      /\ d.request = c.request /\ d.reply = c.reply
      /\ d.op = c.op /\ d.caller = c.caller /\ d.key = c.key
      /\ d.could = c.could /\ d.lacked = c.lacked
  BY <1>2, <1>3 DEF Shaped
<1>5. Fits(d)
  BY <1>1, <1>2, <1>4 DEF Fits
<1>6. RustCall(d) = RustCall(c)
  BY <1>1, <1>4 DEF RustCall, RustStatus, Refused
<1> QED
  BY <1>1, <1>2, <1>5, <1>6, Silent DEF c

LEMMA ReturnStep ==
  ASSUME IInv, NEW s \in Slot, Return(s)
  PROVE  IInv' /\ UNCHANGED Rust!vars
<1> DEFINE c == calls[s]
           frames == c.frames - 1
           d == [c EXCEPT !.frames = frames]
<1>1. c.status = "returning" /\ c.frames > 1 /\ Becomes(s, d)
  BY DEF Return
<1>2. installed # NoConfig /\ Fits(c) /\ Shaped(c)
  BY <1>1, UnderWay
<1>3. d = [c EXCEPT !.frames = frames]
  OBVIOUS
<1>4. c.frames # 1
  BY <1>1
<1> HIDE DEF c, frames, d
<1>5. /\ Shaped(d) /\ d.status = "returning"
      /\ d.request = c.request /\ d.reply = c.reply
      /\ d.op = c.op /\ d.caller = c.caller /\ d.key = c.key
      /\ d.could = c.could /\ d.lacked = c.lacked
  BY <1>1, <1>2, <1>3 DEF Shaped
<1>6. Fits(d)
  BY <1>1, <1>2, <1>4, <1>5 DEF Fits
<1>7. RustCall(d) = RustCall(c)
  BY <1>1, <1>5 DEF RustCall, RustStatus, Refused
<1> QED
  BY <1>1, <1>2, <1>6, <1>7, Silent DEF c

-----------------------------------------------------------------------------
(* The steps of a call that the Rust canister takes too.                   *)

LEMMA RefuseStep ==
  ASSUME NamesFit, IInv, NEW s \in Slot, Refuse(s)
  PROVE  IInv' /\ Rust!EndpointRefuses(s)
<1> DEFINE c == calls[s]
           d == [c EXCEPT !.status = "returning", !.frames = 1, !.reply = Err("unauthorized")]
           r == RustCall(c)
<1>1. c.status = "called" /\ ~ Allowed(c) /\ Becomes(s, d)
  BY DEF Refuse
<1>2. installed # NoConfig /\ state = installed /\ Fits(c) /\ Shaped(c)
  BY <1>1, UnderWay
<1>3. d = [c EXCEPT !.status = "returning", !.frames = 1, !.reply = Err("unauthorized")]
  OBVIOUS
<1>4. r.status = "sent" /\ r.op = c.op /\ r.caller = c.caller /\ r.key = c.key
  BY <1>1 DEF RustCall, RustStatus, Refused
<1>5. /\ r = [status |-> r.status, op |-> r.op, caller |-> r.caller, key |-> r.key,
              request |-> r.request, reply |-> r.reply, could |-> r.could, lacked |-> r.lacked]
      /\ r.request = c.request /\ r.could = c.could /\ r.lacked = c.lacked
  BY ViewOfCall
<1>6. c.op = "vetkey" /\ c.key \in KeyId /\ ~ EnsureUserCanRead(c.caller, c.key, readers)
  BY <1>1, <1>2 DEF Allowed, Fits
<1> HIDE DEF c, d, r
<1>7. /\ Shaped(d) /\ d.status = "returning" /\ d.frames = 1 /\ d.reply = Err("unauthorized")
      /\ d.request = c.request
      /\ d.op = c.op /\ d.caller = c.caller /\ d.key = c.key
      /\ d.could = c.could /\ d.lacked = c.lacked
  BY <1>2, <1>3 DEF Shaped
<1>8. Fits(d)
  BY <1>7 DEF Fits
<1>9. RustCall(d) = [r EXCEPT !.status = "done", !.reply = Err("unauthorized")]
  <2>1. RustStatus(d) = "done"
    BY <1>4, <1>5, <1>7 DEF RustStatus, Refused
  <2>2. RustCall(d)
          = [status |-> "done", op |-> r.op, caller |-> r.caller, key |-> r.key,
             request |-> r.request, reply |-> Err("unauthorized"), could |-> r.could, lacked |-> r.lacked]
    BY <1>4, <1>5, <1>7, <2>1 DEF RustCall
  <2> DEFINE q == [r EXCEPT !.status = "done", !.reply = Err("unauthorized")]
  <2>3. q = [r EXCEPT !.status = "done", !.reply = Err("unauthorized")]
    OBVIOUS
  <2> HIDE DEF q
  <2>4. q = [status |-> "done", op |-> r.op, caller |-> r.caller, key |-> r.key,
             request |-> r.request, reply |-> Err("unauthorized"), could |-> r.could, lacked |-> r.lacked]
    BY <1>4, <1>5, <1>7, <2>3
  <2> QED
    BY <2>2, <2>4 DEF q
<1>10. IInv' /\ AsRust' = [AsRust EXCEPT ![s] = RustCall(d)] /\ AsRust[s] = r
  BY <1>1, <1>2, <1>8, OneCall DEF Becomes, r, c
<1>11. Rust!Answer(s, Rust!Err("unauthorized"))
  <2>1. AsRust' = [AsRust EXCEPT ![s] = [r EXCEPT !.status = "done", !.reply = Err("unauthorized")]]
    BY <1>9, <1>10
  <2>2. Rust!Err("unauthorized") = Err("unauthorized")
    BY DEF Rust!Err, Err
  <2> HIDE DEF Err
  <2> QED
    BY <1>10, <2>1, <2>2 DEF Rust!Answer
<1>12. Rust!Unauthorized(AsRust[s])
  <2>1. ~ Rust!TooLarge(r)
    <3>1. Len(c.key[2]) \in Nat /\ Len(c.key[2]) <= 32
      BY <1>6, KeyIdAssumption, KeyNameAssumption, LenProperties DEF NamesFit
    <3> QED
      BY <1>4, <3>1 DEF Rust!TooLarge, Rust!KeyNameSize
  <2>2. ~ Rust!Unattached(r)
    BY <1>2 DEF Rust!Unattached, Rust!NoConfig, NoConfig, Rust!None, None
  <2>3. ~ Rust!EnsureUserCanRead(r.caller, r.key)
    BY <1>4, <1>6 DEF Rust!EnsureUserCanRead, EnsureUserCanRead, Rust!Owner, Owner
  <2> QED
    BY <1>4, <1>6, <1>10, <2>1, <2>2, <2>3 DEF Rust!Unauthorized
<1> QED
  BY <1>1, <1>4, <1>10, <1>11, <1>12 DEF Rust!EndpointRefuses, Becomes

LEMMA AskStep ==
  ASSUME NamesFit, IInv, NEW s \in Slot, AskManagementCanister(s)
  PROVE  IInv' /\ Rust!EndpointRequests(s)
<1> DEFINE c == calls[s]
           request == Request(c)
           d == [c EXCEPT !.status = "asking", !.request = request]
           r == RustCall(c)
<1>1. c.status = "called" /\ Allowed(c) /\ Becomes(s, d)
  BY DEF AskManagementCanister
<1>2. installed # NoConfig /\ state = installed /\ Fits(c) /\ Shaped(c)
  BY <1>1, UnderWay
<1>3. d = [c EXCEPT !.status = "asking", !.request = request]
  OBVIOUS
<1>4. r.status = "sent" /\ r.op = c.op /\ r.caller = c.caller /\ r.key = c.key
  BY <1>1 DEF RustCall, RustStatus, Refused
<1>5. /\ r = [status |-> r.status, op |-> r.op, caller |-> r.caller, key |-> r.key,
              request |-> r.request, reply |-> r.reply, could |-> r.could, lacked |-> r.lacked]
      /\ r.reply = c.reply /\ r.could = c.could /\ r.lacked = c.lacked
  BY ViewOfCall
<1>6. /\ c.op = "vetkey" => c.key \in KeyId /\ EnsureUserCanRead(c.caller, c.key, readers)
      /\ c.op \in {"vetkey", "verification_key"}
  BY <1>1, <1>2 DEF Allowed, Fits
<1>7. request = Rust!Request(r)
  BY <1>4 DEF Request, Rust!Request, KeyIdToVetKdInput, Rust!KeyIdToVetKdInput
<1> HIDE DEF c, request, d, r
<1>8. /\ Shaped(d) /\ d.status = "asking" /\ d.request = request
      /\ d.reply = c.reply
      /\ d.op = c.op /\ d.caller = c.caller /\ d.key = c.key
      /\ d.could = c.could /\ d.lacked = c.lacked
  BY <1>2, <1>3 DEF Shaped
<1>9. Fits(d)
  BY <1>8 DEF Fits
<1>10. RustCall(d) = [r EXCEPT !.status = "waiting", !.request = request]
  <2>1. RustStatus(d) = "waiting"
    BY <1>4, <1>5, <1>8 DEF RustStatus, Refused
  <2>2. RustCall(d)
          = [status |-> "waiting", op |-> r.op, caller |-> r.caller, key |-> r.key,
             request |-> request, reply |-> r.reply, could |-> r.could, lacked |-> r.lacked]
    BY <1>4, <1>5, <1>8, <2>1 DEF RustCall
  <2> DEFINE q == [r EXCEPT !.status = "waiting", !.request = request]
  <2>3. q = [r EXCEPT !.status = "waiting", !.request = request]
    OBVIOUS
  <2> HIDE DEF q
  <2>4. q = [status |-> "waiting", op |-> r.op, caller |-> r.caller, key |-> r.key,
             request |-> request, reply |-> r.reply, could |-> r.could, lacked |-> r.lacked]
    BY <1>4, <1>5, <1>8, <2>3
  <2> QED
    BY <2>2, <2>4 DEF q
<1>11. IInv' /\ AsRust' = [AsRust EXCEPT ![s] = RustCall(d)] /\ AsRust[s] = r
  BY <1>1, <1>2, <1>9, OneCall DEF Becomes, r, c
<1>12. /\ ~ Rust!TooLarge(r) /\ ~ Rust!Unattached(r) /\ ~ Rust!Unauthorized(r)
  <2>1. ~ Rust!TooLarge(r)
    <3>1. CASE c.op = "vetkey"
      <4>1. Len(c.key[2]) \in Nat /\ Len(c.key[2]) <= 32
        BY <1>6, <3>1, KeyIdAssumption, KeyNameAssumption, LenProperties DEF NamesFit
      <4> QED
        BY <1>4, <4>1 DEF Rust!TooLarge, Rust!KeyNameSize
    <3>2. CASE c.op # "vetkey"
      BY <1>4, <3>2 DEF Rust!TooLarge
    <3> QED
      BY <3>1, <3>2
  <2>2. ~ Rust!Unattached(r)
    BY <1>2 DEF Rust!Unattached, Rust!NoConfig, NoConfig, Rust!None, None
  <2>3. ~ Rust!Unauthorized(r)
    BY <1>4, <1>6 DEF Rust!Unauthorized, Rust!EnsureUserCanRead, EnsureUserCanRead, Rust!Owner, Owner
  <2> QED
    BY <2>1, <2>2, <2>3
<1>13. AsRust' = [AsRust EXCEPT ![s].status = "waiting", ![s].request = request]
  BY <1>10, <1>11
<1> QED
  BY <1>1, <1>4, <1>7, <1>11, <1>12, <1>13 DEF Rust!EndpointRequests, Becomes

LEMMA ReplyStep ==
  ASSUME IInv, NEW s \in Slot, VetKdReplies(s)
  PROVE  IInv' /\ Rust!VetKdReplies(s)
<1> DEFINE c == calls[s]
           r == RustCall(c)
<1>1. PICK answered \in BOOLEAN :
         /\ answered => c.request.key_id \in VetKdName
         /\ Becomes(s, [c EXCEPT !.status = "returning", !.frames = 3,
                !.reply = IF answered THEN Ok(c.request) ELSE Err("vetKD")])
  BY DEF VetKdReplies
<1> DEFINE reply == IF answered THEN Ok(c.request) ELSE Err("vetKD")
           d == [c EXCEPT !.status = "returning", !.frames = 3, !.reply = reply]
<1>2. c.status = "waiting" /\ Becomes(s, d)
  BY <1>1 DEF VetKdReplies
<1>3. installed # NoConfig /\ Fits(c) /\ Shaped(c)
  BY <1>2, UnderWay
<1>4. d = [c EXCEPT !.status = "returning", !.frames = 3, !.reply = reply]
  OBVIOUS
<1>5. r.status = "waiting" /\ r.request = c.request
  BY <1>2 DEF RustCall, RustStatus, Refused
<1>6. /\ r = [status |-> r.status, op |-> r.op, caller |-> r.caller, key |-> r.key,
              request |-> r.request, reply |-> r.reply, could |-> r.could, lacked |-> r.lacked]
      /\ r.op = c.op /\ r.caller = c.caller /\ r.key = c.key
      /\ r.could = c.could /\ r.lacked = c.lacked
  BY ViewOfCall
<1>7. /\ reply = Ok(c.request) \/ reply = Err("vetKD")
      /\ reply # Err("unauthorized")
  BY DEF Ok, Err
<1>8. reply = IF answered THEN Rust!Ok(r.request) ELSE Rust!Err("vetKD")
  BY <1>5 DEF Ok, Err, Rust!Ok, Rust!Err
<1> HIDE DEF c, reply, d, r
<1>9. /\ Shaped(d) /\ d.status = "returning" /\ d.reply = reply /\ d.request = c.request
      /\ d.op = c.op /\ d.caller = c.caller /\ d.key = c.key
      /\ d.could = c.could /\ d.lacked = c.lacked
  BY <1>3, <1>4 DEF Shaped
<1>10. Fits(d)
  BY <1>7, <1>9 DEF Fits
<1>11. RustCall(d) = [r EXCEPT !.status = "replied", !.reply = reply]
  <2>1. RustStatus(d) = "replied"
    BY <1>5, <1>6, <1>7, <1>9 DEF RustStatus, Refused
  <2>2. RustCall(d)
          = [status |-> "replied", op |-> r.op, caller |-> r.caller, key |-> r.key,
             request |-> r.request, reply |-> reply, could |-> r.could, lacked |-> r.lacked]
    BY <1>5, <1>6, <1>7, <1>9, <2>1 DEF RustCall
  <2> DEFINE q == [r EXCEPT !.status = "replied", !.reply = reply]
  <2>3. q = [r EXCEPT !.status = "replied", !.reply = reply]
    OBVIOUS
  <2> HIDE DEF q
  <2>4. q = [status |-> "replied", op |-> r.op, caller |-> r.caller, key |-> r.key,
             request |-> r.request, reply |-> reply, could |-> r.could, lacked |-> r.lacked]
    BY <1>5, <1>6, <1>7, <1>9, <2>3
  <2> QED
    BY <2>2, <2>4 DEF q
<1>12. IInv' /\ AsRust' = [AsRust EXCEPT ![s] = RustCall(d)] /\ AsRust[s] = r
  BY <1>2, <1>3, <1>10, OneCall DEF Becomes, r, c
<1>13. AsRust' = [AsRust EXCEPT ![s].status = "replied", ![s].reply = reply]
  BY <1>11, <1>12
<1> QED
  BY <1>1, <1>2, <1>5, <1>8, <1>12, <1>13 DEF Rust!VetKdReplies, Becomes

LEMMA EndpointReturnsStep ==
  ASSUME IInv, NEW s \in Slot, EndpointReturns(s)
  PROVE  IInv' /\ (Rust!Callback(s) \/ UNCHANGED Rust!vars)
<1> DEFINE c == calls[s]
           r == RustCall(c)
           reply == Answer(c)
           d == [c EXCEPT !.status = "done", !.reply = reply]
<1>1. /\ c.status = "returning"
      /\ calls' = [calls EXCEPT ![s] = d]
      /\ delivered' = delivered \cup HandedOut(c)
      /\ UNCHANGED <<state, readers, installed>>
  BY DEF EndpointReturns
<1>2. installed # NoConfig /\ Fits(c) /\ Shaped(c)
  BY <1>1, UnderWay
<1>3. d = [c EXCEPT !.status = "done", !.reply = reply]
  OBVIOUS
<1>4. /\ r = [status |-> r.status, op |-> r.op, caller |-> r.caller, key |-> r.key,
              request |-> r.request, reply |-> r.reply, could |-> r.could, lacked |-> r.lacked]
      /\ r.op = c.op /\ r.caller = c.caller /\ r.key = c.key /\ r.request = c.request
      /\ r.reply = c.reply /\ r.could = c.could /\ r.lacked = c.lacked
      /\ r.status = RustStatus(c)
  BY ViewOfCall
<1>5. \/ c.reply = Err("unauthorized") /\ r.status = "done" /\ reply = c.reply
         /\ HandedOut(c) = {}
      \/ c.reply \in {Ok(c.request), Err("vetKD")} /\ r.status = "replied"
         /\ reply = Rust!Settled(r.reply) /\ HandedOut(c) = Rust!HandedOut(r)
  <2>1. CASE c.reply = Err("unauthorized")
    BY <1>1, <1>4, <2>1 DEF RustStatus, Refused, Answer, HandedOut, Err, IsOk
  <2>2. CASE c.reply = Err("vetKD")
    <3>1. reply = Trap /\ r.status = "replied" /\ HandedOut(c) = {}
      BY <1>1, <1>4, <2>2 DEF RustStatus, Refused, Answer, HandedOut, Err, IsOk
    <3>2. Rust!Settled(r.reply) = Trap /\ Rust!HandedOut(r) = {}
      BY <1>4, <2>2 DEF Rust!Settled, Rust!HandedOut, Rust!IsOk, Err, Rust!Trap, Trap,
                        Rust!NoConfig, NoConfig, Rust!None, None
    <3> QED
      BY <2>2, <3>1, <3>2
  <2>3. CASE c.reply = Ok(c.request)
    <3>1. reply = c.reply /\ r.status = "replied" /\ IsOk(c.reply)
      BY <1>1, <1>4, <2>3 DEF RustStatus, Refused, Answer, Ok, Err, IsOk
    <3>2. Rust!Settled(r.reply) = c.reply
      BY <1>4, <3>1 DEF Rust!Settled, Rust!IsOk, IsOk
    <3>3. HandedOut(c) = Rust!HandedOut(r)
      BY <1>4, <3>1, <3>2 DEF HandedOut, Rust!HandedOut, Rust!IsOk, IsOk
    <3> QED
      BY <2>3, <3>1, <3>2, <3>3
  <2> QED
    BY <1>1, <1>2, <2>1, <2>2, <2>3 DEF Fits
<1> HIDE DEF c, reply, d, r
<1>6. /\ Shaped(d) /\ d.status = "done" /\ d.reply = reply /\ d.request = c.request
      /\ d.op = c.op /\ d.caller = c.caller /\ d.key = c.key
      /\ d.could = c.could /\ d.lacked = c.lacked
  BY <1>2, <1>3 DEF Shaped
<1>7. Fits(d)
  BY <1>6 DEF Fits
<1>8. RustCall(d) = [r EXCEPT !.status = "done", !.reply = reply]
  <2>1. RustStatus(d) = "done"
    BY <1>4, <1>6 DEF RustStatus, Refused
  <2>2. RustCall(d)
          = [status |-> "done", op |-> r.op, caller |-> r.caller, key |-> r.key,
             request |-> r.request, reply |-> reply, could |-> r.could, lacked |-> r.lacked]
    BY <1>4, <1>6, <2>1 DEF RustCall
  <2> DEFINE q == [r EXCEPT !.status = "done", !.reply = reply]
  <2>3. q = [r EXCEPT !.status = "done", !.reply = reply]
    OBVIOUS
  <2> HIDE DEF q
  <2>4. q = [status |-> "done", op |-> r.op, caller |-> r.caller, key |-> r.key,
             request |-> r.request, reply |-> reply, could |-> r.could, lacked |-> r.lacked]
    BY <1>4, <1>6, <2>3
  <2> QED
    BY <2>2, <2>4 DEF q
<1>9. IInv' /\ AsRust' = [AsRust EXCEPT ![s] = RustCall(d)] /\ AsRust[s] = r
  BY <1>1, <1>2, <1>7, OneCall DEF r, c
<1>10. CASE r.status = "done" /\ reply = c.reply /\ HandedOut(c) = {}
  <2>1. RustCall(d) = r
    BY <1>4, <1>8, <1>10
  <2>2. AsRust' = AsRust /\ delivered' = delivered
    BY <1>1, <1>9, <1>10, <2>1 DEF AsRust
  <2> QED
    BY <1>1, <1>9, <2>2 DEF Rust!vars
<1>11. CASE /\ r.status = "replied" /\ reply = Rust!Settled(r.reply)
            /\ HandedOut(c) = Rust!HandedOut(r)
  <2>1. AsRust' = [AsRust EXCEPT ![s].status = "done", ![s].reply = reply]
    BY <1>8, <1>9
  <2> QED
    BY <1>1, <1>9, <1>11, <2>1 DEF Rust!Callback, Rust!CallbackRuns, Rust!Answer
<1> QED
  BY <1>5, <1>10, <1>11

LEMMA ForgetStep ==
  ASSUME IInv, NEW s \in Slot, Forget(s)
  PROVE  IInv' /\ Rust!Forget(s)
<1>1. /\ calls[s].status = "done" /\ calls' = [calls EXCEPT ![s] = Idle]
      /\ UNCHANGED <<state, readers, installed, delivered>>
  BY DEF Forget
<1>2. Fits(Idle) /\ RustCall(Idle) = Rust!Idle
  BY ViewOfNewCall DEF Idle, Rust!Idle, Rust!NoConfig, NoConfig, Rust!None, None
<1>3. /\ IInv' /\ AsRust' = [AsRust EXCEPT ![s] = RustCall(Idle)]
      /\ AsRust[s] = RustCall(calls[s])
  BY <1>1, <1>2, UnderWay, OneCall
<1>4. AsRust[s].status = "done"
  BY <1>1, <1>3, ViewOfCall DEF RustStatus, Refused
<1> QED
  BY <1>1, <1>2, <1>3, <1>4 DEF Rust!Forget


LEMMA SendVetkeyStep ==
  ASSUME IInv, NEW s \in Slot, NEW caller \in Principal, NEW k \in Asked,
         SendGetEncryptedVetkey(s, caller, k)
  PROVE  IInv' /\ Rust!SendGetEncryptedVetkey(s, caller, k)
<1> DEFINE could == EnsureUserCanRead(caller, k, readers)
           d == Called("sent", "vetkey", caller, k, could)
<1>1. /\ installed # NoConfig /\ calls[s].status = "idle" /\ calls' = [calls EXCEPT ![s] = d]
      /\ UNCHANGED <<state, readers, installed, delivered>>
  BY DEF SendGetEncryptedVetkey
<1>2. could = Rust!MayRead(caller, k, readers)
  BY DEF EnsureUserCanRead, Rust!MayRead, Owner, Rust!Owner
<1> HIDE DEF could
<1>3. Fits(d) /\ RustCall(d) = Rust!Called("sent", "vetkey", caller, k, could)
  BY ViewOfNewCall, AskedAssumption
<1> HIDE DEF d
<1>4. /\ IInv' /\ AsRust' = [AsRust EXCEPT ![s] = RustCall(d)]
      /\ AsRust[s] = RustCall(calls[s])
  BY <1>1, <1>3, OneCall
<1>5. AsRust[s].status = "idle" /\ installed # Rust!NoConfig
  BY <1>1, <1>4, ViewOfCall DEF RustStatus, Refused, Rust!NoConfig, NoConfig, Rust!None, None
<1> QED
  BY <1>1, <1>2, <1>3, <1>4, <1>5 DEF Rust!SendGetEncryptedVetkey

LEMMA SendVerificationKeyStep ==
  ASSUME IInv, NEW s \in Slot, SendGetVetkeyVerificationKey(s)
  PROVE  IInv' /\ Rust!SendGetVetkeyVerificationKey(s)
<1> DEFINE d == Called("sent", "verification_key", None, <<>>, FALSE)
<1>1. /\ installed # NoConfig /\ calls[s].status = "idle" /\ calls' = [calls EXCEPT ![s] = d]
      /\ UNCHANGED <<state, readers, installed, delivered>>
  BY DEF SendGetVetkeyVerificationKey
<1>2. Fits(d) /\ RustCall(d) = Rust!Called("sent", "verification_key", Rust!None, <<>>, FALSE)
  BY ViewOfNewCall DEF Rust!NoConfig, NoConfig, Rust!None, None
<1> HIDE DEF d
<1>3. /\ IInv' /\ AsRust' = [AsRust EXCEPT ![s] = RustCall(d)]
      /\ AsRust[s] = RustCall(calls[s])
  BY <1>1, <1>2, OneCall
<1>4. AsRust[s].status = "idle" /\ installed # Rust!NoConfig
  BY <1>1, <1>3, ViewOfCall DEF RustStatus, Refused, Rust!NoConfig, NoConfig, Rust!None, None
<1> QED
  BY <1>1, <1>2, <1>3, <1>4 DEF Rust!SendGetVetkeyVerificationKey

-----------------------------------------------------------------------------
(* The steps of the canister.                                              *)

(* Both canisters note the same of a change of rights.                     *)
LEMMA WatchedAlike ==
  ASSUME IInv, NEW granted, NEW s \in Slot
  PROVE  /\ Fits(Watched(granted)[s])
         /\ Watched(granted)[s].status = calls[s].status
         /\ RustCall(Watched(granted)[s]) = Rust!Watched(granted)[s]
<1> DEFINE c == calls[s]
           r == RustCall(c)
           could == c.could \/ EnsureUserCanRead(c.caller, c.key, granted)
           lacked == c.lacked \/ ~ EnsureUserCanRead(c.caller, c.key, granted)
           kept == c.status \in {"idle", "done"} \/ c.op # "vetkey" \/ Refused(c)
           d == [c EXCEPT !.could = could, !.lacked = lacked]
           e == [r EXCEPT !.could = could, !.lacked = lacked]
<1>1. Fits(c) /\ Shaped(c)
  BY DEF IInv, Fits
<1>2. Watched(granted)[s] = IF kept THEN c ELSE d
  BY DEF Watched
<1>3. AsRust[s] = r
  BY DEF AsRust
<1>4. /\ r = [status |-> r.status, op |-> r.op, caller |-> r.caller, key |-> r.key,
              request |-> r.request, reply |-> r.reply, could |-> r.could, lacked |-> r.lacked]
      /\ r.op = c.op /\ r.caller = c.caller /\ r.key = c.key /\ r.request = c.request
      /\ r.reply = c.reply /\ r.could = c.could /\ r.lacked = c.lacked
      /\ r.status = RustStatus(c)
  BY ViewOfCall
<1>5. kept <=> r.status \in {"idle", "done"} \/ r.op # "vetkey"
  BY <1>1, <1>4 DEF Fits, RustStatus, Refused
<1>6. Rust!Watched(granted)[s] = IF kept THEN r ELSE e
  <2>1. Rust!Watched(granted)[s]
          = IF r.status \in {"idle", "done"} \/ r.op # "vetkey" THEN r
            ELSE [r EXCEPT !.could = @ \/ Rust!MayRead(r.caller, r.key, granted),
                           !.lacked = @ \/ ~ Rust!MayRead(r.caller, r.key, granted)]
    BY <1>3 DEF Rust!Watched
  <2>2. Rust!MayRead(r.caller, r.key, granted) <=> EnsureUserCanRead(c.caller, c.key, granted)
    BY <1>4 DEF Rust!MayRead, EnsureUserCanRead, Owner, Rust!Owner
  <2> QED
    BY <1>4, <1>5, <2>1, <2>2
<1>7. CASE kept
  BY <1>1, <1>2, <1>6, <1>7
<1>8. CASE ~ kept
  <2>1. /\ d = [c EXCEPT !.could = could, !.lacked = lacked]
        /\ e = [r EXCEPT !.could = could, !.lacked = lacked]
    OBVIOUS
  <2> HIDE DEF c, r, could, lacked, d, e
  <2>2. /\ Shaped(d) /\ d.status = c.status /\ d.op = c.op /\ d.caller = c.caller
        /\ d.key = c.key /\ d.frames = c.frames /\ d.request = c.request /\ d.reply = c.reply
        /\ d.could = could /\ d.lacked = lacked
    BY <1>1, <2>1 DEF Shaped
  <2>3. Fits(d)
    BY <1>1, <2>2 DEF Fits
  <2>4. e = [status |-> RustStatus(c), op |-> c.op, caller |-> c.caller, key |-> c.key,
             request |-> c.request, reply |-> c.reply, could |-> could, lacked |-> lacked]
    BY <1>4, <2>1
  <2>5. RustStatus(d) = RustStatus(c)
    BY <2>2 DEF RustStatus, Refused
  <2>6. RustCall(d) = e
    BY <2>2, <2>4, <2>5 DEF RustCall
  <2> QED
    BY <1>2, <1>6, <1>8, <2>2, <2>3, <2>6 DEF c
<1> QED
  BY <1>7, <1>8

LEMMA WatchedStep ==
  ASSUME IInv, calls' = Watched(readers'), installed' = state', installed' # NoConfig
  PROVE  IInv' /\ AsRust' = Rust!Watched(readers')
<1>1. \A s \in Slot : calls'[s] = Watched(readers')[s]
  OBVIOUS
<1>2. calls' = [s \in Slot |-> calls'[s]]
  BY DEF Watched
<1>3. \A s \in Slot : Fits(calls'[s]) /\ RustCall(calls'[s]) = Rust!Watched(readers')[s]
  BY <1>1, WatchedAlike
<1>4. IInv'
  BY <1>2, <1>3 DEF IInv, Fits, Shaped
<1>5. AsRust' = [s \in Slot |-> RustCall(calls'[s])]
  BY DEF AsRust, RustCall, RustStatus, Refused
<1>6. Rust!Watched(readers') = [s \in Slot |-> Rust!Watched(readers')[s]]
  BY DEF Rust!Watched
<1> QED
  BY <1>3, <1>4, <1>5, <1>6

(* The Rust canister sees no callback where the Motoko one has none.       *)
LEMMA NoneOutstanding ==
  ASSUME IInv, NoCallbacks
  PROVE  Rust!Stopped
BY ViewOfCall DEF NoCallbacks, Rust!Stopped, AsRust, RustStatus, Refused

(* What is configured at an installation is not taken for nothing.         *)
LEMMA GivenConfig ==
  ASSUME NamesFit, NEW separator, NEW name \in InstallName
  PROVE  [domain_separator |-> separator, key_id |-> name] # NoConfig
<1>1. name # None
  BY DEF NamesFit
<1> QED
  BY <1>1 DEF NoConfig

LEMMA InstallStep ==
  ASSUME NamesFit, IInv, NEW separator \in Separator, NEW name \in InstallName,
         Install(separator, name)
  PROVE  IInv' /\ Rust!Install(separator, name)
<1> DEFINE config == [domain_separator |-> separator, key_id |-> name]
<1>1. /\ installed = NoConfig /\ state = NoConfig /\ readers = {}
      /\ state' = config /\ readers' = {} /\ installed' = config
      /\ UNCHANGED <<calls, delivered>>
  BY DEF Install, NewState, IInv
<1>2. Rust!Setup(state, separator, name)
  BY <1>1 DEF Rust!Setup, Rust!Opened, Rust!NoConfig, NoConfig, Rust!None, None
<1>3. config # NoConfig
  BY GivenConfig
<1>4. Rust!Install(separator, name) <=>
         /\ installed = Rust!NoConfig
         /\ Rust!Setup(state, separator, name)
         /\ installed' = config
         /\ UNCHANGED <<readers, AsRust, delivered>>
  BY DEF Rust!Install
<1> HIDE DEF config
<1>5. IInv'
  BY <1>1, <1>3 DEF IInv, Fits, Shaped
<1>6. AsRust' = AsRust
  BY <1>1 DEF AsRust, RustCall, RustStatus, Refused
<1> QED
  BY <1>1, <1>2, <1>4, <1>5, <1>6 DEF Rust!NoConfig, NoConfig, Rust!None, None

LEMMA UpgradeStep ==
  ASSUME IInv, NEW separator \in Separator, NEW name \in InstallName,
         Upgrade(separator, name)
  PROVE  IInv' /\ Rust!Upgrade(separator)
<1>1. installed # NoConfig /\ state # NoConfig /\ NoCallbacks /\ UNCHANGED vars
  BY DEF Upgrade, FieldsKept, vars, IInv
<1>2. IInv'
  BY <1>1 DEF vars, IInv, Fits, Shaped
<1>3. AsRust' = AsRust
  BY <1>1 DEF vars, AsRust, RustCall, RustStatus, Refused
<1>4. Rust!NoConfig = NoConfig
  BY DEF Rust!NoConfig, NoConfig, Rust!None, None
<1>5. Rust!PostUpgrade(separator)
  BY <1>1, <1>4 DEF vars, Rust!PostUpgrade, Rust!Setup, Rust!Opened
<1> QED
  BY <1>1, <1>2, <1>3, <1>4, <1>5, NoneOutstanding DEF vars, Rust!Upgrade

LEMMA ReinstallStep ==
  ASSUME NamesFit, IInv, NEW separator \in Separator, NEW name \in InstallName,
         Reinstall(separator, name)
  PROVE  IInv' /\ Rust!Reinstall(separator, name)
<1> DEFINE config == [domain_separator |-> separator, key_id |-> name]
<1>1. /\ installed # NoConfig /\ NoCallbacks
      /\ state' = config /\ readers' = {} /\ installed' = config /\ delivered' = {}
      /\ calls' = Watched(readers')
  BY DEF Reinstall, NewState
<1>2. config # NoConfig
  BY GivenConfig
<1>3. Rust!NoConfig = NoConfig
  BY DEF Rust!NoConfig, NoConfig, Rust!None, None
<1>4. Rust!Setup(Rust!NoConfig, separator, name)
  BY <1>1 DEF Rust!Setup, Rust!Opened
<1>5. Rust!Reinstall(separator, name) <=>
         /\ installed # Rust!NoConfig /\ Rust!Stopped
         /\ Rust!Setup(Rust!NoConfig, separator, name)
         /\ installed' = config
         /\ readers' = {}
         /\ AsRust' = Rust!Watched({})
         /\ delivered' = {}
  BY DEF Rust!Reinstall
<1> HIDE DEF config
<1>6. installed' = state' /\ installed' # NoConfig
  BY <1>1, <1>2
<1>7. IInv' /\ AsRust' = Rust!Watched(readers')
  BY <1>1, <1>6, WatchedStep
<1>8. AsRust' = Rust!Watched({})
  BY <1>1, <1>7
<1> QED
  BY <1>1, <1>3, <1>4, <1>5, <1>7, <1>8, NoneOutstanding

LEMMA ChangeReadersStep ==
  ASSUME NamesFit, IInv, ChangeReaders
  PROVE  IInv' /\ Rust!ChangeReaders
<1>1. PICK u \in Principal, k \in KeyId, granted \in BOOLEAN :
         /\ installed # NoConfig /\ u # Owner(k)
         /\ readers' = IF granted THEN readers \cup {<<u, k>>} ELSE readers \ {<<u, k>>}
         /\ calls' = Watched(readers')
         /\ UNCHANGED <<state, installed, delivered>>
  BY DEF ChangeReaders
<1>2. IInv' /\ AsRust' = Rust!Watched(readers')
  <2>1. installed' = state' /\ installed' # NoConfig
    BY <1>1 DEF IInv
  <2> QED
    BY <1>1, <2>1, WatchedStep
<1> QED
  BY <1>1, <1>2 DEF Rust!ChangeReaders, Rust!Owner, Owner, Rust!NoConfig, NoConfig, Rust!None, None

-----------------------------------------------------------------------------
LEMMA HandleStep ==
  ASSUME NamesFit, IInv, NEW s \in Slot, Handle(s)
  PROVE  IInv' /\ (Rust!Handle(s) \/ UNCHANGED Rust!vars)
<1>1. CASE Endpoint(s) \/ VetKdRequest(s) \/ Return(s)
  BY <1>1, EndpointStep, VetKdRequestStep, ReturnStep
<1>2. CASE Refuse(s) \/ AskManagementCanister(s) \/ VetKdReplies(s)
  BY <1>2, RefuseStep, AskStep, ReplyStep DEF Rust!Handle
<1>3. CASE EndpointReturns(s)
  BY <1>3, EndpointReturnsStep DEF Rust!Handle
<1> QED
  BY <1>1, <1>2, <1>3 DEF Handle

LEMMA NextStep ==
  ASSUME NamesFit, IInv, [Next]_vars
  PROVE  IInv' /\ [Rust!Next]_(Rust!vars)
<1>1. CASE UNCHANGED vars
  <2>1. IInv'
    BY <1>1 DEF vars, IInv, Fits, Shaped
  <2>2. UNCHANGED Rust!vars
    BY <1>1 DEF vars, Rust!vars, AsRust, RustCall, RustStatus, Refused
  <2> QED
    BY <2>1, <2>2
<1>2. ASSUME NEW separator \in Separator, NEW name \in InstallName,
             Install(separator, name) \/ Upgrade(separator, name) \/ Reinstall(separator, name)
      PROVE  IInv' /\ Rust!Next
  BY <1>2, InstallStep, UpgradeStep, ReinstallStep DEF Rust!Next
<1>3. CASE ChangeReaders
  BY <1>3, ChangeReadersStep DEF Rust!Next
<1>4. ASSUME NEW s \in Slot, NEW caller \in Principal, NEW k \in Asked,
             SendGetEncryptedVetkey(s, caller, k)
      PROVE  IInv' /\ Rust!Next
  BY <1>4, SendVetkeyStep DEF Rust!Next
<1>5. ASSUME NEW s \in Slot, SendGetVetkeyVerificationKey(s) \/ Forget(s)
      PROVE  IInv' /\ Rust!Next
  BY <1>5, SendVerificationKeyStep, ForgetStep DEF Rust!Next
<1>6. ASSUME NEW s \in Slot, Handle(s)
      PROVE  IInv' /\ (Rust!Next \/ UNCHANGED Rust!vars)
  BY <1>6, HandleStep DEF Rust!Next
<1> QED
  BY <1>1, <1>2, <1>3, <1>4, <1>5, <1>6 DEF Next

(* Over installations, upgrades and reinstallations, and whatever happens  *)
(* between its messages to itself, the Motoko canister takes the steps of  *)
(* the Rust one: whatever is safe there is safe here.                      *)
THEOREM RefinesRust ==
  ASSUME NamesFit
  PROVE  Spec => Rust!Init /\ [][Rust!Next]_(Rust!vars)
<1>1. ASSUME Init
      PROVE  IInv /\ Rust!Init
  <2>1. Fits(Idle) /\ RustCall(Idle) = Rust!Idle
    BY ViewOfNewCall DEF Idle, Rust!Idle, Rust!NoConfig, NoConfig, Rust!None, None
  <2>2. IInv
    BY <1>1, <2>1, ViewOfNewCall DEF Init, IInv, Idle, Called
  <2>3. AsRust = [s \in Slot |-> Rust!Idle]
    BY <1>1, <2>1 DEF Init, AsRust
  <2> QED
    BY <1>1, <2>2, <2>3 DEF Init, Rust!Init, Rust!NoConfig, NoConfig, Rust!None, None
<1>2. IInv /\ [Next]_vars => IInv' /\ [Rust!Next]_(Rust!vars)
  BY NextStep
<1> QED
  BY <1>1, <1>2, PTL DEF Spec
=============================================================================
