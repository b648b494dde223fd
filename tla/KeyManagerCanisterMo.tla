------------------------ MODULE KeyManagerCanisterMo ------------------------
(***************************************************************************)
(* The canister around the Motoko KeyManager.  An async function of a      *)
(* Motoko module is called by a message of the canister to itself: between *)
(* the endpoint and the guard of getEncryptedVetkey, and between the guard *)
(* and the request to the vetKD system, other messages are handled, and    *)
(* each answer goes back the same way.                                     *)
(*                                                                         *)
(* The state of the key manager is a persistent field of the actor and is  *)
(* made once; the wrapper around it, made anew from it at an upgrade, holds*)
(* the bytes of its domain separator and is not modelled.                  *)
(* A canister with a callback outstanding cannot be upgraded.  Names are   *)
(* Blobs of any size here; the key ids are those the Rust canister takes.  *)
(***************************************************************************)
EXTENDS VetKdInput

CONSTANTS Slot, Separator, InstallName, VetKdName, Asked

ASSUME AskedAssumption == Asked = KeyId

VARIABLES
    state,       \* keyManagerState: its vetKdKeyId and domainSeparator, or NoConfig
    readers,     \* keyManagerState: who, other than the owner, reads which key
    calls,       \* [Slot -> call]
    installed,   \* the configuration given when the data began (history)
    delivered    \* the keys handed out since then (history)

vars == <<state, readers, calls, installed, delivered>>

NoConfig == [domain_separator |-> None, key_id |-> None]

NoRequest == NoConfig
NoReply == [tag |-> None]

(* frames counts the messages to itself the answer still goes through.     *)
Called(status, op, caller, k, could) ==
    [status |-> status, op |-> op, caller |-> caller, key |-> k, frames |-> 0,
     request |-> NoRequest, reply |-> NoReply, could |-> could, lacked |-> ~ could]

Idle == Called("idle", "none", None, <<>>, FALSE)

Init ==
    /\ state = NoConfig
    /\ readers = {}
    /\ calls = [s \in Slot |-> Idle]
    /\ installed = NoConfig
    /\ delivered = {}

-----------------------------------------------------------------------------
(* The life of the canister.                                               *)

EnsureUserCanRead(u, k, granted) == u = Owner(k) \/ <<u, k>> \in granted

(* A call whose guard has been asked and said no is decided.               *)
Refused(c) == c.status = "returning" /\ c.reply = Err("unauthorized")

Watched(granted) ==
    [s \in Slot |->
        LET c == calls[s]
        IN  IF c.status \in {"idle", "done"} \/ c.op # "vetkey" \/ Refused(c) THEN c
            ELSE [c EXCEPT !.could = @ \/ EnsureUserCanRead(c.caller, c.key, granted),
                           !.lacked = @ \/ ~ EnsureUserCanRead(c.caller, c.key, granted)]]

NoCallbacks ==
    \A s \in Slot : calls[s].status \in {"idle", "sent", "done"}

NewState(separator, name) ==
    /\ state' = [domain_separator |-> separator, key_id |-> name]
    /\ readers' = {}

Install(separator, name) ==
    /\ installed = NoConfig
    /\ NewState(separator, name)
    /\ installed' = state'
    /\ UNCHANGED <<calls, delivered>>

(* Slip (not the code): the state is transient and made anew.              *)
FieldsMade(separator, name) == NewState(separator, name)

(* A persistent field keeps its value; its initial value, and with it the  *)
(* key name and separator that are given, is not looked at again.          *)
FieldsKept(separator, name) == UNCHANGED <<state, readers>>

Upgrade(separator, name) ==
    /\ installed # NoConfig /\ NoCallbacks
    /\ FieldsKept(separator, name)
    /\ UNCHANGED <<calls, installed, delivered>>

Reinstall(separator, name) ==
    /\ installed # NoConfig /\ NoCallbacks
    /\ NewState(separator, name)
    /\ calls' = Watched({})
    /\ installed' = state'
    /\ delivered' = {}

-----------------------------------------------------------------------------
(* The endpoints.                                                          *)

SendGetEncryptedVetkey(s, caller, k) ==
    /\ installed # NoConfig /\ calls[s].status = "idle"
    /\ calls' = [calls EXCEPT ![s] =
                    Called("sent", "vetkey", caller, k, EnsureUserCanRead(caller, k, readers))]
    /\ UNCHANGED <<state, readers, installed, delivered>>

SendGetVetkeyVerificationKey(s) ==
    /\ installed # NoConfig /\ calls[s].status = "idle"
    /\ calls' = [calls EXCEPT ![s] = Called("sent", "verification_key", None, <<>>, FALSE)]
    /\ UNCHANGED <<state, readers, installed, delivered>>

(* A step of one call. *)
Becomes(s, call) ==
    /\ calls' = [calls EXCEPT ![s] = call]
    /\ UNCHANGED <<state, readers, installed, delivered>>

(* The endpoint calls the method of the key manager ...                    *)
Endpoint(s) ==
    /\ calls[s].status = "sent"
    /\ Becomes(s, [calls[s] EXCEPT !.status = "called"])

Allowed(c) == c.op = "vetkey" => EnsureUserCanRead(c.caller, c.key, readers)

(* ... which asks the guard, and returns its error ...                     *)
Refuse(s) ==
    /\ calls[s].status = "called" /\ ~ Allowed(calls[s])
    /\ Becomes(s, [calls[s] EXCEPT !.status = "returning", !.frames = 1,
                                   !.reply = Err("unauthorized")])

Request(c) ==
    IF c.op = "verification_key"
    THEN [key_id |-> state.key_id, context |-> state.domain_separator]
    ELSE [key_id |-> state.key_id, context |-> state.domain_separator,
          input |-> KeyIdToVetKdInput(c.key[1], c.key[2])]

(* ... or calls the function of the ManagementCanister module ...          *)
AskManagementCanister(s) ==
    /\ calls[s].status = "called" /\ Allowed(calls[s])
    /\ Becomes(s, [calls[s] EXCEPT !.status = "asking", !.request = Request(calls[s])])

(* ... which calls the vetKD system.                                       *)
VetKdRequest(s) ==
    /\ calls[s].status = "asking"
    /\ Becomes(s, [calls[s] EXCEPT !.status = "waiting"])

VetKdReplies(s) ==
    /\ calls[s].status = "waiting"
    /\ \E answered \in BOOLEAN :
          /\ answered => calls[s].request.key_id \in VetKdName
          /\ Becomes(s, [calls[s] EXCEPT !.status = "returning", !.frames = 3,
                 !.reply = IF answered THEN Ok(calls[s].request) ELSE Err("vetKD")])

(* The reply, or the error that nobody catches, goes from frame to frame.  *)
Return(s) ==
    /\ calls[s].status = "returning" /\ calls[s].frames > 1
    /\ Becomes(s, [calls[s] EXCEPT !.frames = @ - 1])

(* An error thrown out of the endpoint rejects the call.                   *)
Answer(c) == IF c.reply.tag = "Err" /\ c.reply.value = "vetKD" THEN Trap ELSE c.reply

HandedOut(c) ==
    IF ~ IsOk(c.reply) THEN {}
    ELSE IF c.op = "vetkey" THEN {[op |-> c.op, id |-> c.key, key |-> c.reply.value]}
    ELSE {[op |-> c.op, key |-> c.reply.value]}

EndpointReturns(s) ==
    /\ calls[s].status = "returning" /\ calls[s].frames = 1
    /\ calls' = [calls EXCEPT ![s].status = "done", ![s].reply = Answer(calls[s])]
    /\ delivered' = delivered \cup HandedOut(calls[s])
    /\ UNCHANGED <<state, readers, installed>>

Forget(s) ==
    /\ calls[s].status = "done"
    /\ calls' = [calls EXCEPT ![s] = Idle]
    /\ UNCHANGED <<state, readers, installed, delivered>>

(* setUserRights and removeUserRights of whoever may call them.            *)
ChangeReaders ==
    \E u \in Principal, k \in KeyId, granted \in BOOLEAN :
        /\ installed # NoConfig /\ u # Owner(k)
        /\ readers' = IF granted THEN readers \cup {<<u, k>>} ELSE readers \ {<<u, k>>}
        /\ calls' = Watched(readers')
        /\ UNCHANGED <<state, installed, delivered>>

Handle(s) ==
    \/ Endpoint(s) \/ Refuse(s) \/ AskManagementCanister(s) \/ VetKdRequest(s)
    \/ VetKdReplies(s) \/ Return(s) \/ EndpointReturns(s)

Next ==
    \/ \E separator \in Separator, name \in InstallName :
        Install(separator, name) \/ Upgrade(separator, name) \/ Reinstall(separator, name)
    \/ ChangeReaders
    \/ \E s \in Slot :
        \/ \E caller \in Principal, k \in Asked : SendGetEncryptedVetkey(s, caller, k)
        \/ SendGetVetkeyVerificationKey(s)
        \/ Handle(s)
        \/ Forget(s)

(* The network delivers each message, those to oneself included.           *)
Spec == Init /\ [][Next]_vars /\ \A s \in Slot : WF_vars(Handle(s))

-----------------------------------------------------------------------------
(* Properties.                                                             *)

(* What the Rust canister would know of a call: a message to oneself is a  *)
(* message not handled yet, a refusal on its way back an answer.           *)
RustStatus(c) ==
    CASE c.status = "called" -> "sent"
      [] c.status = "asking" -> "waiting"
      [] Refused(c) -> "done"
      [] c.status = "returning" /\ ~ Refused(c) -> "replied"
      [] OTHER -> c.status

RustCall(c) ==
    [status |-> RustStatus(c), op |-> c.op, caller |-> c.caller, key |-> c.key,
     request |-> c.request, reply |-> c.reply, could |-> c.could, lacked |-> c.lacked]

AsRust == [s \in Slot |-> RustCall(calls[s])]

Rust == INSTANCE KeyManagerCanister
            WITH config_cell <- state, key_manager <- state, calls <- AsRust

(* With its messages to itself the Motoko canister gives the answers the   *)
(* Rust one could give, over installations and upgrades, and to each call. *)
ImplementsRust == Rust!Spec
=============================================================================
