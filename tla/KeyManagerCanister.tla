------------------------- MODULE KeyManagerCanister -------------------------
(***************************************************************************)
(* The canister around the Rust KeyManager: installation, upgrade and      *)
(* reinstallation, and the two endpoints that await the vetKD system.      *)
(*                                                                         *)
(* The canister handles one message at a time.  An endpoint that awaits is *)
(* three steps: the request, which checks the right to read and copies the *)
(* configuration; the vetKD system's work, outside of the canister; and    *)
(* the callback with its reply.  Other calls, changes of rights included,  *)
(* run between them.  A canister is stopped before it is upgraded, and so  *)
(* has no callback outstanding then.                                       *)
(***************************************************************************)
EXTENDS VetKdInput

CONSTANTS
    Slot,          \* at most this many calls are under way
    Separator,     \* the domain separators that versions of the code pass
    InstallName,   \* the vetKD key names a canister is installed with
    VetKdName,     \* the vetKD key names that exist
    Asked          \* the key ids callers name, over-long ones included

(* Blob<32>, the type of a name in the stable maps.                        *)
KeyNameSize == 32

ASSUME AskedAssumption ==
    /\ Asked \subseteq Principal \X KeyName
    /\ KeyId = {k \in Asked : Len(k[2]) <= KeyNameSize}

ASSUME InstallNameAssumption == None \notin InstallName

VARIABLES
    config_cell,   \* stable memory: the configuration, or NoConfig
    readers,       \* stable memory: who, other than the owner, reads which key
    key_manager,   \* the thread-local object: its configuration, or NoConfig
    calls,         \* [Slot -> call]
    installed,     \* the configuration given when the data began (history)
    delivered      \* the keys handed out since then (history)

vars == <<config_cell, readers, key_manager, calls, installed, delivered>>

(* KeyManagerConfig.  Each version of the code passes its own separator.   *)
Config(names) == [domain_separator : Separator, key_id : names]
NoConfig == [domain_separator |-> None, key_id |-> None]

NoRequest == NoConfig
NoReply == [tag |-> None]

(* A call, and what has come of it so far: the request to the vetKD system *)
(* and the reply; could and lacked are what a call for a vetKey remembers  *)
(* of its caller's right to read.                                          *)
Called(status, op, caller, k, could) ==
    [status |-> status, op |-> op, caller |-> caller, key |-> k,
     request |-> NoRequest, reply |-> NoReply, could |-> could, lacked |-> ~ could]

Idle == Called("idle", "none", None, <<>>, FALSE)

TypeOK ==
    /\ config_cell \in Config(InstallName \cup {""}) \cup {NoConfig}
    /\ readers \subseteq Principal \X KeyId
    /\ key_manager \in Config(InstallName \cup {""}) \cup {NoConfig}
    /\ installed \in Config(InstallName) \cup {NoConfig}
    /\ \A s \in Slot :
        \/ calls[s].status \in {"idle", "sent"}
        \/ /\ calls[s].status \in {"waiting", "replied"}
           /\ calls[s].op = "vetkey" => calls[s].key \in KeyId
           /\ calls[s].request.key_id \in InstallName
           /\ calls[s].request.context \in Separator
        \/ /\ calls[s].status = "done"
           /\ calls[s].reply.tag \in {"Ok", "Err", "Trap"}

Init ==
    /\ config_cell = NoConfig
    /\ readers = {}
    /\ key_manager = NoConfig
    /\ calls = [s \in Slot |-> Idle]
    /\ installed = NoConfig
    /\ delivered = {}

-----------------------------------------------------------------------------
(* The life of the canister.                                               *)

(* Slip (not the code): the cell takes what it is given.                   *)
OpenedAnew(cell, default) == default

(* StableCell::init keeps the value it finds.                              *)
Opened(cell, default) == IF cell = NoConfig THEN default ELSE cell

(* The cell's value is the configuration of the object, whatever is given. *)
Setup(cell, separator, name) ==
    LET config == Opened(cell, [domain_separator |-> separator, key_id |-> name])
    IN  config_cell' = config /\ key_manager' = config

MayRead(u, k, granted) == u = Owner(k) \/ <<u, k>> \in granted

(* A call for a vetKey remembers whether its caller could read the key,    *)
(* and whether he could not, at some moment while it was under way.        *)
Watched(granted) ==
    [s \in Slot |->
        LET c == calls[s]
        IN  IF c.status \in {"idle", "done"} \/ c.op # "vetkey" THEN c
            ELSE [c EXCEPT !.could = @ \/ MayRead(c.caller, c.key, granted),
                           !.lacked = @ \/ ~ MayRead(c.caller, c.key, granted)]]

Stopped == \A s \in Slot : calls[s].status \notin {"waiting", "replied"}

Install(separator, name) ==
    /\ installed = NoConfig
    /\ Setup(config_cell, separator, name)
    /\ installed' = [domain_separator |-> separator, key_id |-> name]
    /\ UNCHANGED <<readers, calls, delivered>>

(* The object is lost with the heap and made anew from stable memory.      *)
PostUpgrade(separator) == Setup(config_cell, separator, "")

Upgrade(separator) ==
    /\ installed # NoConfig /\ Stopped
    /\ PostUpgrade(separator)
    /\ UNCHANGED <<readers, calls, installed, delivered>>

(* All memory is wiped before, so the cell is found empty.                 *)
Reinstall(separator, name) ==
    /\ installed # NoConfig /\ Stopped
    /\ Setup(NoConfig, separator, name)
    /\ installed' = [domain_separator |-> separator, key_id |-> name]
    /\ readers' = {}
    /\ calls' = Watched({})
    /\ delivered' = {}

-----------------------------------------------------------------------------
(* The endpoints.                                                          *)

(* Slip (not the code): to be able to read any key is enough.              *)
EnsureUserReadsAny(u, k) == \E j \in KeyId : u = Owner(j) \/ <<u, j>> \in readers

EnsureUserCanRead(u, k) == u = Owner(k) \/ <<u, k>> \in readers

SendGetEncryptedVetkey(s, caller, k) ==
    /\ installed # NoConfig /\ calls[s].status = "idle"
    /\ calls' = [calls EXCEPT ![s] =
                    Called("sent", "vetkey", caller, k, MayRead(caller, k, readers))]
    /\ UNCHANGED <<config_cell, readers, key_manager, installed, delivered>>

SendGetVetkeyVerificationKey(s) ==
    /\ installed # NoConfig /\ calls[s].status = "idle"
    /\ calls' = [calls EXCEPT ![s] = Called("sent", "verification_key", None, <<>>, FALSE)]
    /\ UNCHANGED <<config_cell, readers, key_manager, installed, delivered>>

Answer(s, reply) ==
    calls' = [calls EXCEPT ![s].status = "done", ![s].reply = reply]

(* Slip (not the code): names of any size are taken.                       *)
TooLargeNever(c) == FALSE

(* The name is decoded first, then the object unwrapped, then the guard    *)
(* asked.                                                                  *)
TooLarge(c) == c.op = "vetkey" /\ Len(c.key[2]) > KeyNameSize
Unattached(c) == ~ TooLarge(c) /\ key_manager = NoConfig
Unauthorized(c) ==
    /\ ~ TooLarge(c) /\ ~ Unattached(c)
    /\ c.op = "vetkey" /\ ~ EnsureUserCanRead(c.caller, c.key)

EndpointRefuses(s) ==
    /\ calls[s].status = "sent"
    /\ \/ TooLarge(calls[s]) /\ Answer(s, Err("too large input"))
       \/ Unattached(calls[s]) /\ Answer(s, Trap)
       \/ Unauthorized(calls[s]) /\ Answer(s, Err("unauthorized"))
    /\ UNCHANGED <<config_cell, readers, key_manager, installed, delivered>>

(* Both parts of the configuration are copied before the await.            *)
Request(c) ==
    IF c.op = "verification_key"
    THEN [key_id |-> key_manager.key_id, context |-> key_manager.domain_separator]
    ELSE [key_id |-> key_manager.key_id, context |-> key_manager.domain_separator,
          input |-> KeyIdToVetKdInput(c.key[1], c.key[2])]

EndpointRequests(s) ==
    /\ calls[s].status = "sent"
    /\ ~ TooLarge(calls[s]) /\ ~ Unattached(calls[s]) /\ ~ Unauthorized(calls[s])
    /\ calls' = [calls EXCEPT ![s].status = "waiting", ![s].request = Request(calls[s])]
    /\ UNCHANGED <<config_cell, readers, key_manager, installed, delivered>>

(* A key is a function of the request for it.  The call can always fail.   *)
VetKdReplies(s) ==
    /\ calls[s].status = "waiting"
    /\ \E answered \in BOOLEAN :
          /\ answered => calls[s].request.key_id \in VetKdName
          /\ calls' = [calls EXCEPT ![s].status = "replied",
                 ![s].reply = IF answered THEN Ok(calls[s].request) ELSE Err("vetKD")]
    /\ UNCHANGED <<config_cell, readers, key_manager, installed, delivered>>

(* Slip (not the code): the callback handles only a success.               *)
CallbackOfSuccess(s) == calls[s].status = "replied" /\ IsOk(calls[s].reply)

CallbackRuns(s) == calls[s].status = "replied"

(* expect() makes a failed call a panic of the callback.                   *)
Settled(result) == IF IsOk(result) THEN result ELSE Trap

HandedOut(c) ==
    IF ~ IsOk(Settled(c.reply)) THEN {}
    ELSE IF c.op = "vetkey" THEN {[op |-> c.op, id |-> c.key, key |-> c.reply.value]}
    ELSE {[op |-> c.op, key |-> c.reply.value]}

Callback(s) ==
    /\ CallbackRuns(s)
    /\ Answer(s, Settled(calls[s].reply))
    /\ delivered' = delivered \cup HandedOut(calls[s])
    /\ UNCHANGED <<config_cell, readers, key_manager, installed>>

(* The caller takes the answer. *)
Forget(s) ==
    /\ calls[s].status = "done"
    /\ calls' = [calls EXCEPT ![s] = Idle]
    /\ UNCHANGED <<config_cell, readers, key_manager, installed, delivered>>

(* set_user_rights and remove_user of whoever may call them.               *)
ChangeReaders ==
    \E u \in Principal, k \in KeyId, granted \in BOOLEAN :
        /\ installed # NoConfig /\ u # Owner(k)
        /\ readers' = IF granted THEN readers \cup {<<u, k>>} ELSE readers \ {<<u, k>>}
        /\ calls' = Watched(readers')
        /\ UNCHANGED <<config_cell, key_manager, installed, delivered>>

Handle(s) ==
    EndpointRefuses(s) \/ EndpointRequests(s) \/ VetKdReplies(s) \/ Callback(s)

Next ==
    \/ \E separator \in Separator :
        \/ \E name \in InstallName : Install(separator, name) \/ Reinstall(separator, name)
        \/ Upgrade(separator)
    \/ ChangeReaders
    \/ \E s \in Slot :
        \/ \E caller \in Principal, k \in Asked : SendGetEncryptedVetkey(s, caller, k)
        \/ SendGetVetkeyVerificationKey(s)
        \/ Handle(s)
        \/ Forget(s)

(* The network delivers each message, and answers each call it delivered.  *)
Spec == Init /\ [][Next]_vars /\ \A s \in Slot : WF_vars(Handle(s))

-----------------------------------------------------------------------------
(* Properties.                                                             *)

(* Whatever happens to the rights while a call waits for the vetKD system, *)
(* a vetKey goes only to a caller who could read it at some moment of the  *)
(* call, and a caller is refused only if he could not at some moment.      *)
AnswersFitRights ==
    \A s \in Slot :
        calls[s].status = "done" /\ calls[s].op = "vetkey" =>
            /\ IsOk(calls[s].reply) => calls[s].could
            /\ calls[s].reply = Err("unauthorized") => calls[s].lacked

(* From installation on the object is there, and every request, before and *)
(* after any upgrade, names the vetKD key of the installation and its      *)
(* domain separator, whatever those of the newer code are (KeyManager::init*)
(* keeps the cell's value).                                                *)
ServesInstalledKey ==
    /\ installed # NoConfig => key_manager = installed
    /\ \A s \in Slot : calls[s].status \in {"waiting", "replied"} =>
          /\ calls[s].request.key_id = installed.key_id
          /\ calls[s].request.context = installed.domain_separator

(* Of the vetKeys delivered between two reinstallations those for one key  *)
(* id are the same and those for two are not, and the verification keys    *)
(* delivered are the ones that verify them.                                *)
DeliveredKeysFit ==
    \A d, e \in delivered :
        /\ d.key.key_id = e.key.key_id /\ d.key.context = e.key.context
        /\ d.op = "vetkey" /\ e.op = "vetkey" => (d.key = e.key <=> d.id = e.id)

(* Every call that is sent gets an answer.                                 *)
CallsAnswered ==
    \A s \in Slot : calls[s].status = "sent" ~> calls[s].status = "done"
=============================================================================
