---------------------- MODULE KeyManagerCanisterProofs ----------------------
(***************************************************************************)
(* Proofs about the canister around the Rust KeyManager, for any users,    *)
(* key ids, names of vetKD keys and number of concurrent calls.            *)
(***************************************************************************)
EXTENDS KeyManagerCanister, SequenceTheorems, TLAPS

-----------------------------------------------------------------------------
(* The encoding of key ids.                                                *)

(* Two concatenations whose first parts have one length are equal only     *)
(* part by part.                                                           *)
LEMMA ConcatInjective ==
    ASSUME NEW S, NEW p \in Seq(S), NEW q \in Seq(S), NEW a \in Seq(S), NEW b \in Seq(S),
           Len(p) = Len(q), p \o a = q \o b
    PROVE  p = q /\ a = b
<1>1. /\ Len(p) \in Nat /\ Len(a) \in Nat /\ Len(b) \in Nat
      /\ Len(p \o a) = Len(p) + Len(a)
      /\ Len(q \o b) = Len(q) + Len(b)
  BY ConcatProperties, LenProperties
<1>2. \A i \in 1 .. Len(p) : (p \o a)[i] = p[i] /\ (q \o b)[i] = q[i]
  <2>1. \A i \in 1 .. Len(p) + Len(a) :
          (p \o a)[i] = IF i <= Len(p) THEN p[i] ELSE a[i - Len(p)]
    BY ConcatProperties
  <2>2. \A i \in 1 .. Len(q) + Len(b) :
          (q \o b)[i] = IF i <= Len(q) THEN q[i] ELSE b[i - Len(q)]
    BY ConcatProperties
  <2> QED BY <1>1, <2>1, <2>2
<1>3. p = q
  BY <1>2, SeqEqual
<1>4. p \o a = p \o b
  BY <1>3
<1> QED BY <1>3, <1>4, ConcatSimplifications

(* The grouping of a concatenation of three does not matter.               *)
LEMMA ConcatRegroups ==
    ASSUME NEW S, NEW x \in Seq(S), NEW s \in Seq(S), NEW a \in Seq(S)
    PROVE  x \o s \o a = x \o (s \o a) /\ s \o a \in Seq(S)
  BY ConcatAssociative, ConcatProperties

(* The length of a principal is a byte, and the cast leaves it alone.      *)
LEMMA LengthByte ==
    ASSUME NEW p \in Principal
    PROVE  /\ Len(PrincipalBytes[p]) % 256 = Len(PrincipalBytes[p])
           /\ Len(PrincipalBytes[p]) % 256 \in Byte
<1>1. Len(PrincipalBytes[p]) \in Nat /\ Len(PrincipalBytes[p]) <= 29
  BY PrincipalBytesAssumption, LenProperties
<1>2. \A i \in Nat : i <= 29 => i % 256 = i /\ i \in Byte
  BY DEF Byte
<1> QED BY <1>1, <1>2

(* Two key ids with the same derivation input are the same key id: the     *)
(* input of key_id_to_vetkd_input starts with the length of the principal, *)
(* so its bytes cannot run together with those of the name.                *)
THEOREM VetKdInputInjective ==
    ASSUME NEW p \in Principal, NEW q \in Principal,
           NEW n \in KeyName, NEW m \in KeyName,
           KeyIdToVetKdInput(p, n) = KeyIdToVetKdInput(q, m)
    PROVE  p = q /\ n = m
<1> DEFINE P == PrincipalBytes[p]
           Q == PrincipalBytes[q]
           C == <<Len(P) % 256>>
           D == <<Len(Q) % 256>>
<1>1. P \in Seq(Byte) /\ Q \in Seq(Byte)
  BY PrincipalBytesAssumption
<1>2. n \in Seq(Byte) /\ m \in Seq(Byte)
  BY KeyNameAssumption
<1>3. C \in Seq(Byte) /\ D \in Seq(Byte)
  <2>1. \A e \in Byte : <<e>> \in Seq(Byte)
    OBVIOUS
  <2>2. Len(P) % 256 \in Byte /\ Len(Q) % 256 \in Byte
    BY LengthByte
  <2> QED BY <2>1, <2>2
<1>4. Len(C) = Len(D)
  OBVIOUS
<1>5. C = D => Len(P) = Len(Q)
  <2>1. C = D => Len(P) % 256 = Len(Q) % 256
    OBVIOUS
  <2> QED BY <2>1, LengthByte
<1>6. C \o P \o n = D \o Q \o m
  BY DEF KeyIdToVetKdInput
<1>7. P = Q => p = q
  BY PrincipalBytesAssumption
<1> HIDE DEF P, Q, C, D
<1>8. C \o P \o n = C \o (P \o n) /\ P \o n \in Seq(Byte)
  BY <1>1, <1>2, <1>3, ConcatRegroups
<1>9. D \o Q \o m = D \o (Q \o m) /\ Q \o m \in Seq(Byte)
  <2>1. D \in Seq(Byte) /\ Q \in Seq(Byte) /\ m \in Seq(Byte)
    BY <1>1, <1>2, <1>3
  <2> QED BY <2>1, ConcatRegroups
<1>10. C \o (P \o n) = D \o (Q \o m)
  BY <1>6, <1>8, <1>9
<1>11. C = D /\ P \o n = Q \o m
  <2> DEFINE U == P \o n
             V == Q \o m
  <2>1. U \in Seq(Byte) /\ V \in Seq(Byte) /\ C \o U = D \o V
    BY <1>8, <1>9, <1>10
  <2> HIDE DEF U, V
  <2>2. C = D /\ U = V
    BY <1>3, <1>4, <2>1, ConcatInjective
  <2> QED BY <2>2 DEF U, V
<1>12. Len(P) = Len(Q)
  BY <1>5, <1>11
<1>13. P = Q /\ n = m
  BY <1>1, <1>2, <1>11, <1>12, ConcatInjective
<1> QED BY <1>7, <1>13

-----------------------------------------------------------------------------
(* The calls.                                                              *)

(* The inductive invariant.  The object holds the configuration of the     *)
(* installation, as the cell does; before installation there is no call.                    *)
Installed ==
    /\ installed \in Config(InstallName) \cup {NoConfig}
    /\ config_cell = installed /\ key_manager = installed
    /\ readers \subseteq Principal \X KeyId
    /\ installed = NoConfig => delivered = {} /\ \A s \in Slot : calls[s].status = "idle"

(* The request that a call sends under a configuration.                    *)
RequestUnder(c, config) ==
    IF c.op = "verification_key"
    THEN [key_id |-> config.key_id, context |-> config.domain_separator]
    ELSE [key_id |-> config.key_id, context |-> config.domain_separator,
          input |-> KeyIdToVetKdInput(c.key[1], c.key[2])]

(* A record with the fields of a call.                                     *)
Shaped(c) ==
    c = [status |-> c.status, op |-> c.op, caller |-> c.caller, key |-> c.key,
         request |-> c.request, reply |-> c.reply, could |-> c.could, lacked |-> c.lacked]

(* What is known of a call under way, when the users in granted have been  *)
(* given rights and the canister was installed with config.                *)
Fits(c, granted, config) ==
    /\ Shaped(c)
    /\ c.status \in {"idle", "sent", "waiting", "replied", "done"}
    /\ c.op = "vetkey" => c.caller \in Principal /\ c.key \in Asked
    /\ c.status # "idle" => c.op \in {"vetkey", "verification_key"}
    /\ c.status \in {"sent", "waiting", "replied"} /\ c.op = "vetkey" =>
          /\ MayRead(c.caller, c.key, granted) => c.could
          /\ ~ MayRead(c.caller, c.key, granted) => c.lacked
    /\ c.status \in {"waiting", "replied"} =>
          /\ c.request = RequestUnder(c, config)
          /\ c.op = "vetkey" => c.key \in KeyId /\ c.could
    /\ c.status = "replied" => c.reply = Ok(c.request) \/ c.reply = Err("vetKD")
    /\ c.status = "done" =>
          /\ c.reply.tag \in {"Ok", "Err", "Trap"}
          /\ c.op = "vetkey" => /\ IsOk(c.reply) => c.could
                                /\ c.reply = Err("unauthorized") => c.lacked

CallsFit ==
    /\ calls = [s \in Slot |-> calls[s]]
    /\ \A s \in Slot : Fits(calls[s], readers, installed)

(* What has been delivered answers a request under the installed           *)
(* configuration.                                                          *)
DeliveredFits ==
    \A d \in delivered :
        /\ d.op \in {"vetkey", "verification_key"}
        /\ d.op = "verification_key" =>
              d.key = [key_id |-> installed.key_id, context |-> installed.domain_separator]
        /\ d.op = "vetkey" =>
              /\ d.id \in KeyId
              /\ d.key = [key_id |-> installed.key_id, context |-> installed.domain_separator,
                          input |-> KeyIdToVetKdInput(d.id[1], d.id[2])]

IInv == Installed /\ CallsFit /\ DeliveredFits

-----------------------------------------------------------------------------
(* The invariant gives the properties.                                     *)

(* A configuration that is given is one, and is not none.                  *)
LEMMA GivenConfig ==
  ASSUME NEW separator \in Separator, NEW name \in InstallName
  PROVE  LET config == [domain_separator |-> separator, key_id |-> name]
         IN  config \in Config(InstallName) /\ config # NoConfig
<1>1. name # None
  BY InstallNameAssumption
<1> QED
  BY <1>1 DEF Config, NoConfig

LEMMA RequestsNameInstalled ==
  ASSUME IInv, NEW s \in Slot, calls[s].status \in {"waiting", "replied"}
  PROVE  /\ calls[s].request.key_id = installed.key_id
         /\ calls[s].request.context = installed.domain_separator
         /\ installed \in Config(InstallName)
<1>1. calls[s].request = RequestUnder(calls[s], installed)
  BY DEF IInv, CallsFit, Fits
<1>2. /\ RequestUnder(calls[s], installed).key_id = installed.key_id
      /\ RequestUnder(calls[s], installed).context = installed.domain_separator
  BY DEF RequestUnder
<1>3. installed \in Config(InstallName)
  BY DEF IInv, Installed
<1> QED
  BY <1>1, <1>2, <1>3

LEMMA InvariantTypes == IInv => TypeOK
<1> SUFFICES ASSUME IInv PROVE TypeOK
  OBVIOUS
<1>1. /\ config_cell \in Config(InstallName \cup {""}) \cup {NoConfig}
      /\ readers \subseteq Principal \X KeyId
      /\ key_manager \in Config(InstallName \cup {""}) \cup {NoConfig}
      /\ installed \in Config(InstallName) \cup {NoConfig}
  <2>1. Config(InstallName) \subseteq Config(InstallName \cup {""})
    BY DEF Config
  <2> QED
    BY <2>1 DEF IInv, Installed
<1>2. ASSUME NEW s \in Slot
      PROVE  \/ calls[s].status \in {"idle", "sent"}
             \/ /\ calls[s].status \in {"waiting", "replied"}
                /\ calls[s].op = "vetkey" => calls[s].key \in KeyId
                /\ calls[s].request.key_id \in InstallName
                /\ calls[s].request.context \in Separator
             \/ /\ calls[s].status = "done"
                /\ calls[s].reply.tag \in {"Ok", "Err", "Trap"}
  <2>1. \A c \in Config(InstallName) : c.key_id \in InstallName /\ c.domain_separator \in Separator
    BY DEF Config
  <2> QED
    BY <2>1, RequestsNameInstalled DEF IInv, CallsFit, Fits
<1> QED
  BY <1>1, <1>2 DEF TypeOK

LEMMA InvariantAnswers == IInv => AnswersFitRights
BY DEF IInv, CallsFit, Fits, AnswersFitRights

LEMMA InvariantServes == IInv => ServesInstalledKey
BY RequestsNameInstalled DEF IInv, Installed, ServesInstalledKey

LEMMA InvariantDelivers == IInv => DeliveredKeysFit
<1> SUFFICES ASSUME IInv, NEW d \in delivered, NEW e \in delivered
             PROVE  /\ d.key.key_id = e.key.key_id /\ d.key.context = e.key.context
                    /\ d.op = "vetkey" /\ e.op = "vetkey" => (d.key = e.key <=> d.id = e.id)
  BY DEF DeliveredKeysFit
<1>1. ASSUME NEW x \in delivered
      PROVE  x.key.key_id = installed.key_id /\ x.key.context = installed.domain_separator
  <2>1. CASE x.op = "verification_key"
    <3>1. x.key = [key_id |-> installed.key_id, context |-> installed.domain_separator]
      BY <2>1 DEF IInv, DeliveredFits
    <3> QED
      BY <3>1
  <2>2. CASE x.op = "vetkey"
    <3>1. x.key = [key_id |-> installed.key_id, context |-> installed.domain_separator,
                    input |-> KeyIdToVetKdInput(x.id[1], x.id[2])]
      BY <2>2 DEF IInv, DeliveredFits
    <3> QED
      BY <3>1
  <2> QED
    BY <2>1, <2>2 DEF IInv, DeliveredFits
<1>2. ASSUME d.op = "vetkey", e.op = "vetkey"
      PROVE  d.key = e.key <=> d.id = e.id
  <2>1. /\ d.id \in KeyId /\ e.id \in KeyId
        /\ d.key = [key_id |-> installed.key_id, context |-> installed.domain_separator,
                    input |-> KeyIdToVetKdInput(d.id[1], d.id[2])]
        /\ e.key = [key_id |-> installed.key_id, context |-> installed.domain_separator,
                          input |-> KeyIdToVetKdInput(e.id[1], e.id[2])]
    BY <1>2 DEF IInv, DeliveredFits
  <2>2. d.key = e.key => KeyIdToVetKdInput(d.id[1], d.id[2]) = KeyIdToVetKdInput(e.id[1], e.id[2])
    BY <2>1
  <2>3. /\ d.id \in Principal \X KeyName /\ e.id \in Principal \X KeyName
    BY <2>1, KeyIdAssumption
  <2>4. d.key = e.key => d.id[1] = e.id[1] /\ d.id[2] = e.id[2]
    BY <2>2, <2>3, VetKdInputInjective
  <2> QED
    BY <2>1, <2>3, <2>4
<1> QED
  BY <1>1, <1>2

-----------------------------------------------------------------------------
(* Each step preserves it.                                                 *)

(* No call waits for the vetKD system, so that the configuration does not  *)
(* matter.                                                                 *)
LEMMA FitsAnyConfig ==
  ASSUME NEW c, NEW granted, NEW config, NEW other, Fits(c, granted, config),
         c.status \notin {"waiting", "replied"}
  PROVE  Fits(c, granted, other)
BY DEF Fits

(* A change of rights is remembered by the calls under way.                *)
LEMMA FitsWhenWatched ==
  ASSUME NEW granted, NEW s \in Slot, Fits(calls[s], readers, installed)
  PROVE  /\ Fits(Watched(granted)[s], granted, installed)
         /\ Watched(granted)[s].status = calls[s].status
<1> DEFINE c == calls[s]
           could == c.could \/ MayRead(c.caller, c.key, granted)
           lacked == c.lacked \/ ~ MayRead(c.caller, c.key, granted)
           d == [c EXCEPT !.could = could, !.lacked = lacked]
<1>1. CASE c.status \in {"idle", "done"} \/ c.op # "vetkey"
  <2>1. Watched(granted)[s] = c
    BY <1>1 DEF Watched
  <2> QED
    BY <1>1, <2>1 DEF Fits, RequestUnder
<1>2. CASE ~ (c.status \in {"idle", "done"} \/ c.op # "vetkey")
  <2>1. Watched(granted)[s] = d
    BY <1>2 DEF Watched
  <2>2. Shaped(c)
    BY DEF Fits
  <2>3. /\ Shaped(d)
        /\ d.status = c.status /\ d.op = c.op /\ d.caller = c.caller /\ d.key = c.key
        /\ d.request = c.request /\ d.reply = c.reply
        /\ d.could = could /\ d.lacked = lacked
    <3> HIDE DEF c, could, lacked
    <3>1. d = [c EXCEPT !.could = could, !.lacked = lacked]
      OBVIOUS
    <3> HIDE DEF d
    <3> QED
      BY <2>2, <3>1 DEF Shaped
  <2> HIDE DEF d
  <2>4. Fits(d, granted, installed)
    BY <1>2, <2>3 DEF Fits, RequestUnder
  <2> QED
    BY <2>1, <2>3, <2>4
<1> QED
  BY <1>1, <1>2

(* A step of one call, which leaves the rest of the state alone, has only  *)
(* to show what has become of that call.                                   *)
LEMMA OneCall ==
  ASSUME IInv, NEW s \in Slot, installed # NoConfig,
         calls' = [t \in Slot |-> calls'[t]],
         \A t \in Slot \ {s} : calls'[t] = calls[t],
         Fits(calls'[s], readers, installed),
         UNCHANGED <<config_cell, readers, key_manager, installed>>
  PROVE  Installed' /\ CallsFit'
<1>1. Installed'
  BY DEF IInv, Installed
<1>2. ASSUME NEW t \in Slot
      PROVE  Fits(calls[t], readers, installed)'
  <2>1. CASE t = s
    BY <2>1 DEF Fits, RequestUnder, MayRead
  <2>2. CASE t # s
    <3>1. calls'[t] = calls[t] /\ Fits(calls[t], readers, installed)
      BY <2>2 DEF IInv, CallsFit
    <3> QED
      BY <3>1 DEF Fits, RequestUnder, MayRead
  <2> QED
    BY <2>1, <2>2
<1> QED
  BY <1>1, <1>2 DEF CallsFit

(* A call is under way only after an installation. *)
LEMMA UnderWay ==
  ASSUME IInv, NEW s \in Slot, calls[s].status # "idle"
  PROVE  installed # NoConfig
BY DEF IInv, Installed

LEMMA InstallSteps ==
  ASSUME IInv, NEW separator \in Separator, NEW name \in InstallName,
         Install(separator, name) \/ Reinstall(separator, name)
  PROVE  IInv'
<1> DEFINE config == [domain_separator |-> separator, key_id |-> name]
<1>1. Installed' /\ installed' = config
  <2>1. config \in Config(InstallName) /\ config # NoConfig
    BY GivenConfig
  <2>2. /\ installed' = config /\ config_cell' = config /\ key_manager' = config
        /\ readers' \subseteq Principal \X KeyId
    BY DEF IInv, Installed, Install, Reinstall, Setup, Opened
  <2> QED
    BY <2>1, <2>2 DEF Installed
<1> HIDE DEF config
<1>2. DeliveredFits'
  BY DEF IInv, Installed, Install, Reinstall, DeliveredFits
<1>3. CASE Install(separator, name)
  <2>1. ASSUME NEW s \in Slot
        PROVE  Fits(calls[s], readers, installed)'
    <3>1. Fits(calls[s], readers, installed) /\ calls[s].status = "idle"
      BY <1>3 DEF IInv, Installed, CallsFit, Install
    <3>2. Fits(calls[s], readers, config)
      BY <3>1, FitsAnyConfig
    <3> QED
      BY <1>1, <1>3, <3>2 DEF Install, Fits, RequestUnder, MayRead
  <2> QED
    BY <1>1, <1>2, <1>3, <2>1 DEF IInv, CallsFit, Install
<1>4. CASE Reinstall(separator, name)
  <2>1. ASSUME NEW s \in Slot
        PROVE  Fits(calls[s], readers, installed)'
    <3>1. /\ Fits(Watched({})[s], {}, installed)
          /\ Watched({})[s].status \notin {"waiting", "replied"}
      BY <1>4, FitsWhenWatched DEF IInv, CallsFit, Reinstall, Stopped
    <3>2. Fits(Watched({})[s], {}, config)
      BY <3>1, FitsAnyConfig
    <3>3. calls'[s] = Watched({})[s] /\ readers' = {} /\ installed' = config
      BY <1>1, <1>4 DEF Reinstall
    <3> QED
      BY <3>2, <3>3 DEF Fits, RequestUnder, MayRead
  <2>2. calls' = [s \in Slot |-> calls'[s]]
    BY <1>4 DEF Reinstall, Watched
  <2> QED
    BY <1>1, <1>2, <2>1, <2>2 DEF IInv, CallsFit
<1> QED
  BY <1>3, <1>4

LEMMA UpgradeStep ==
  ASSUME IInv, NEW separator \in Separator, Upgrade(separator)
  PROVE  IInv'
<1>1. UNCHANGED vars
  BY DEF IInv, Installed, Upgrade, PostUpgrade, Setup, Opened, vars
<1> QED
  BY <1>1 DEF vars, IInv, Installed, CallsFit, Fits, RequestUnder, MayRead, Shaped, DeliveredFits

LEMMA ChangeReadersStep ==
  ASSUME IInv, ChangeReaders
  PROVE  IInv'
<1>1. /\ installed # NoConfig
      /\ readers' \subseteq Principal \X KeyId
      /\ calls' = Watched(readers')
      /\ UNCHANGED <<config_cell, key_manager, installed, delivered>>
  BY DEF ChangeReaders, IInv, Installed
<1>2. Installed'
  BY <1>1 DEF IInv, Installed
<1>3. ASSUME NEW s \in Slot
      PROVE  Fits(calls[s], readers, installed)'
  <2>1. Fits(Watched(readers')[s], readers', installed)
    BY FitsWhenWatched DEF IInv, CallsFit
  <2> QED
    BY <1>1, <2>1 DEF Fits, RequestUnder, MayRead
<1>4. calls' = [s \in Slot |-> calls'[s]]
  BY <1>1 DEF Watched
<1>5. DeliveredFits'
  BY <1>1 DEF IInv, DeliveredFits
<1> QED
  BY <1>2, <1>3, <1>4, <1>5 DEF IInv, CallsFit

LEMMA SendSteps ==
  ASSUME IInv, NEW s \in Slot,
         \/ \E caller \in Principal, k \in Asked : SendGetEncryptedVetkey(s, caller, k)
         \/ SendGetVetkeyVerificationKey(s)
  PROVE  IInv'
<1>1. /\ installed # NoConfig
      /\ calls = [t \in Slot |-> calls[t]]
      /\ UNCHANGED <<config_cell, readers, key_manager, installed, delivered>>
  BY DEF SendGetEncryptedVetkey, SendGetVetkeyVerificationKey, IInv, CallsFit
<1>2. ASSUME NEW call, calls' = [calls EXCEPT ![s] = call], Fits(call, readers, installed)
      PROVE  IInv'
  <2>1. /\ calls'[s] = call
        /\ calls' = [t \in Slot |-> calls'[t]]
        /\ \A t \in Slot \ {s} : calls'[t] = calls[t]
    BY <1>1, <1>2
  <2>2. Installed' /\ CallsFit'
    BY <1>1, <1>2, <2>1, OneCall
  <2> QED
    BY <1>1, <2>2 DEF IInv, DeliveredFits
<1>3. ASSUME NEW caller \in Principal, NEW k \in Asked, SendGetEncryptedVetkey(s, caller, k)
      PROVE  IInv'
  <2> DEFINE could == MayRead(caller, k, readers)
             call == Called("sent", "vetkey", caller, k, could)
  <2>1. calls' = [calls EXCEPT ![s] = call]
    BY <1>3 DEF SendGetEncryptedVetkey
  <2>2. /\ Shaped(call)
        /\ call.status = "sent" /\ call.op = "vetkey" /\ call.caller = caller /\ call.key = k
        /\ call.could = could /\ call.lacked = ~ could
    <3> HIDE DEF could
    <3> QED
      BY DEF Called, Shaped
  <2> HIDE DEF call
  <2>3. Fits(call, readers, installed)
    BY <2>2 DEF Fits
  <2> QED
    BY <1>2, <2>1, <2>3
<1>4. CASE SendGetVetkeyVerificationKey(s)
  <2> DEFINE call == Called("sent", "verification_key", None, <<>>, FALSE)
  <2>1. calls' = [calls EXCEPT ![s] = call]
    BY <1>4 DEF SendGetVetkeyVerificationKey
  <2>2. Shaped(call) /\ call.status = "sent" /\ call.op = "verification_key"
    BY DEF Called, Shaped
  <2> HIDE DEF call
  <2>3. Fits(call, readers, installed)
    BY <2>2 DEF Fits
  <2> QED
    BY <1>2, <2>1, <2>3
<1> QED
  BY <1>3, <1>4

(* A step that answers a call, with a reply that fits it.                  *)
LEMMA AnsweredCallFits ==
  ASSUME IInv, NEW s \in Slot, NEW reply, calls[s].status # "idle", Answer(s, reply),
         reply.tag \in {"Ok", "Err", "Trap"},
         calls[s].op = "vetkey" => /\ IsOk(reply) => calls[s].could
                                   /\ reply = Err("unauthorized") => calls[s].lacked,
         UNCHANGED <<config_cell, readers, key_manager, installed>>
  PROVE  Installed' /\ CallsFit'
<1> DEFINE c == calls[s]
           d == calls'[s]
<1>1. Shaped(c) /\ calls = [t \in Slot |-> calls[t]] /\ Fits(c, readers, installed)
  BY DEF IInv, CallsFit, Fits
<1>2. /\ calls' = [t \in Slot |-> calls'[t]]
      /\ \A t \in Slot \ {s} : calls'[t] = calls[t]
      /\ d = [c EXCEPT !.status = "done", !.reply = reply]
  BY <1>1 DEF Answer
<1> HIDE DEF c, d
<1>3. /\ Shaped(d) /\ d.status = "done" /\ d.reply = reply
      /\ d.op = c.op /\ d.caller = c.caller /\ d.key = c.key
      /\ d.could = c.could /\ d.lacked = c.lacked
  BY <1>1, <1>2 DEF Shaped
<1>4. Fits(d, readers, installed)
  BY <1>1, <1>3 DEF Fits, c
<1>5. installed # NoConfig
  BY UnderWay
<1> QED
  BY <1>2, <1>4, <1>5, OneCall DEF d

LEMMA RefusalStep ==
  ASSUME IInv, NEW s \in Slot, EndpointRefuses(s)
  PROVE  IInv'
<1>1. /\ calls[s].status = "sent" /\ Fits(calls[s], readers, installed)
      /\ UNCHANGED <<config_cell, readers, key_manager, installed, delivered>>
  BY DEF EndpointRefuses, IInv, CallsFit
<1>2. CASE Answer(s, Err("too large input"))
  BY <1>1, <1>2, AnsweredCallFits DEF Err, IsOk, IInv, DeliveredFits
<1>3. CASE Answer(s, Trap)
  BY <1>1, <1>3, AnsweredCallFits DEF Trap, Err, IsOk, IInv, DeliveredFits
<1>4. CASE Unauthorized(calls[s]) /\ Answer(s, Err("unauthorized"))
  <2>1. calls[s].op = "vetkey" => calls[s].lacked
    BY <1>1, <1>4 DEF Unauthorized, EnsureUserCanRead, Fits, MayRead
  <2> QED
    BY <1>1, <1>4, <2>1, AnsweredCallFits DEF Err, IsOk, IInv, DeliveredFits
<1> QED
  BY <1>2, <1>3, <1>4 DEF EndpointRefuses

LEMMA RequestStep ==
  ASSUME IInv, NEW s \in Slot, EndpointRequests(s)
  PROVE  IInv'
<1> DEFINE c == calls[s]
           d == calls'[s]
<1>1. /\ c.status = "sent" /\ Fits(c, readers, installed) /\ Shaped(c)
      /\ calls = [t \in Slot |-> calls[t]]
      /\ UNCHANGED <<config_cell, readers, key_manager, installed, delivered>>
  BY DEF EndpointRequests, IInv, CallsFit, Fits
<1>2. installed # NoConfig /\ key_manager = installed
  BY <1>1, UnderWay DEF IInv, Installed
<1>3. Request(c) = RequestUnder(c, installed)
  BY <1>2 DEF Request, RequestUnder
<1>4. c.op = "vetkey" => c.key \in KeyId /\ c.could
  <2> SUFFICES ASSUME c.op = "vetkey" PROVE c.key \in KeyId /\ c.could
    OBVIOUS
  <2>1. ~ (Len(c.key[2]) > KeyNameSize) /\ EnsureUserCanRead(c.caller, c.key)
    BY DEF EndpointRequests, TooLarge, Unauthorized
  <2>2. c.key \in Asked
    BY <1>1 DEF Fits
  <2>3. Len(c.key[2]) \in Nat
    BY <2>2, AskedAssumption, KeyNameAssumption, LenProperties
  <2>4. c.key \in KeyId
    BY <2>1, <2>2, <2>3, AskedAssumption DEF KeyNameSize
  <2> QED
    BY <1>1, <2>1, <2>4 DEF EnsureUserCanRead, MayRead, Fits
<1>5. /\ calls' = [t \in Slot |-> calls'[t]]
      /\ \A t \in Slot \ {s} : calls'[t] = calls[t]
      /\ d = [c EXCEPT !.status = "waiting", !.request = Request(c)]
  BY <1>1 DEF EndpointRequests
<1> HIDE DEF c, d
<1>6. /\ Shaped(d) /\ d.status = "waiting" /\ d.request = Request(c)
      /\ d.op = c.op /\ d.caller = c.caller /\ d.key = c.key
      /\ d.could = c.could /\ d.lacked = c.lacked
  BY <1>1, <1>5 DEF Shaped
<1>7. Fits(d, readers, installed)
  BY <1>1, <1>3, <1>4, <1>6 DEF Fits, RequestUnder
<1>8. Installed' /\ CallsFit'
  BY <1>1, <1>2, <1>5, <1>7, OneCall DEF d
<1> QED
  BY <1>1, <1>8 DEF IInv, DeliveredFits

LEMMA ReplyStep ==
  ASSUME IInv, NEW s \in Slot, VetKdReplies(s)
  PROVE  IInv'
<1> DEFINE c == calls[s]
           d == calls'[s]
<1>1. /\ c.status = "waiting" /\ Fits(c, readers, installed) /\ Shaped(c)
      /\ calls = [t \in Slot |-> calls[t]]
      /\ UNCHANGED <<config_cell, readers, key_manager, installed, delivered>>
  BY DEF VetKdReplies, IInv, CallsFit, Fits
<1>2. installed # NoConfig
  BY <1>1, UnderWay
<1>3. PICK reply : /\ reply = Ok(c.request) \/ reply = Err("vetKD")
                   /\ calls' = [calls EXCEPT ![s].status = "replied", ![s].reply = reply]
  BY DEF VetKdReplies
<1>4. /\ calls' = [t \in Slot |-> calls'[t]]
      /\ \A t \in Slot \ {s} : calls'[t] = calls[t]
      /\ d = [c EXCEPT !.status = "replied", !.reply = reply]
  BY <1>1, <1>3
<1> HIDE DEF c, d
<1>5. /\ Shaped(d) /\ d.status = "replied" /\ d.reply = reply /\ d.request = c.request
      /\ d.op = c.op /\ d.caller = c.caller /\ d.key = c.key
      /\ d.could = c.could /\ d.lacked = c.lacked
  BY <1>1, <1>4 DEF Shaped
<1>6. Fits(d, readers, installed)
  BY <1>1, <1>3, <1>5 DEF Fits, RequestUnder
<1>7. Installed' /\ CallsFit'
  BY <1>1, <1>2, <1>4, <1>6, OneCall DEF d
<1> QED
  BY <1>1, <1>7 DEF IInv, DeliveredFits

LEMMA CallbackStep ==
  ASSUME IInv, NEW s \in Slot, Callback(s)
  PROVE  IInv'
<1> DEFINE c == calls[s]
<1>1. /\ c.status = "replied" /\ Fits(c, readers, installed)
      /\ Answer(s, Settled(c.reply))
      /\ delivered' = delivered \cup HandedOut(c)
      /\ UNCHANGED <<config_cell, readers, key_manager, installed>>
  BY DEF Callback, CallbackRuns, IInv, CallsFit
<1> HIDE DEF c
<1>2. /\ c.request = RequestUnder(c, installed)
      /\ c.op = "vetkey" => c.key \in KeyId /\ c.could
      /\ c.op \in {"vetkey", "verification_key"}
      /\ c.reply = Ok(c.request) \/ c.reply = Err("vetKD")
  BY <1>1 DEF Fits
<1>3. \/ c.reply = Ok(c.request) /\ Settled(c.reply) = Ok(c.request)
      \/ c.reply = Err("vetKD") /\ Settled(c.reply) = Trap
  BY <1>2 DEF Settled, Ok, Err, IsOk
<1>4. /\ Settled(c.reply).tag \in {"Ok", "Err", "Trap"}
      /\ Settled(c.reply) # Err("unauthorized")
  BY <1>3 DEF Ok, Err, Trap
<1>5. Installed' /\ CallsFit'
  BY <1>1, <1>2, <1>4, AnsweredCallFits DEF c
<1>6. ASSUME NEW e \in HandedOut(c)
      PROVE  /\ e.op \in {"vetkey", "verification_key"}
             /\ e.op = "verification_key" =>
                   e.key = [key_id |-> installed.key_id, context |-> installed.domain_separator]
             /\ e.op = "vetkey" =>
                   /\ e.id \in KeyId
                   /\ e.key = [key_id |-> installed.key_id, context |-> installed.domain_separator,
                          input |-> KeyIdToVetKdInput(e.id[1], e.id[2])]
  <2>1. c.reply.value = RequestUnder(c, installed)
    BY <1>2, <1>3, <1>6 DEF HandedOut, IsOk, Trap, Ok
  <2>2. CASE c.op = "vetkey"
    <3>1. e.op = "vetkey" /\ e.id = c.key /\ e.key = c.reply.value
      BY <1>6, <2>2 DEF HandedOut
    <3> QED
      BY <1>2, <2>1, <2>2, <3>1 DEF RequestUnder
  <2>3. CASE c.op = "verification_key"
    <3>1. e.op = "verification_key" /\ e.key = c.reply.value
      BY <1>6, <2>3 DEF HandedOut
    <3> QED
      BY <2>1, <2>3, <3>1 DEF RequestUnder
  <2> QED
    BY <1>2, <2>2, <2>3
<1>7. DeliveredFits'
  BY <1>1, <1>6 DEF IInv, DeliveredFits
<1> QED
  BY <1>5, <1>7 DEF IInv

LEMMA ForgetStep ==
  ASSUME IInv, NEW s \in Slot, Forget(s)
  PROVE  IInv'
<1>1. /\ calls[s].status = "done"
      /\ calls = [t \in Slot |-> calls[t]]
      /\ calls' = [calls EXCEPT ![s] = Idle]
      /\ UNCHANGED <<config_cell, readers, key_manager, installed, delivered>>
  BY DEF Forget, IInv, CallsFit
<1>2. Fits(Idle, readers, installed)
  <2>1. Shaped(Idle) /\ Idle.status = "idle" /\ Idle.op = "none"
    BY DEF Idle, Called, Shaped
  <2> QED
    BY <2>1 DEF Fits
<1>3. /\ calls'[s] = Idle
      /\ calls' = [t \in Slot |-> calls'[t]]
      /\ \A t \in Slot \ {s} : calls'[t] = calls[t]
  BY <1>1
<1>4. Installed' /\ CallsFit'
  BY <1>1, <1>2, <1>3, UnderWay, OneCall
<1> QED
  BY <1>1, <1>4 DEF IInv, DeliveredFits

THEOREM Invariant == Spec => []IInv
<1>1. Init => IInv
  <2> SUFFICES ASSUME Init PROVE IInv
    OBVIOUS
  <2>1. ASSUME NEW s \in Slot
        PROVE  calls[s].status = "idle" /\ Fits(calls[s], readers, installed)
    <3>1. Shaped(Idle) /\ Idle.status = "idle" /\ Idle.op = "none"
      BY DEF Idle, Called, Shaped
    <3>2. calls[s] = Idle
      BY DEF Init
    <3> QED
      BY <3>1, <3>2 DEF Fits
  <2> QED
    BY <2>1 DEF Init, IInv, Installed, CallsFit, DeliveredFits
<1>2. IInv /\ [Next]_vars => IInv'
  <2> SUFFICES ASSUME IInv, [Next]_vars
               PROVE  IInv'
    OBVIOUS
  <2>1. CASE UNCHANGED vars
    BY <2>1 DEF vars, IInv, Installed, CallsFit, Fits, RequestUnder, MayRead, Shaped, DeliveredFits
  <2>2. CASE Next
    BY <2>2, InstallSteps, UpgradeStep, ChangeReadersStep, SendSteps, RefusalStep,
       RequestStep, ReplyStep, CallbackStep, ForgetStep
    DEF Next, Handle
  <2> QED
    BY <2>1, <2>2
<1> QED
  BY <1>1, <1>2, PTL DEF Spec

(* A call that waits has a key id of the canister, and a name it knows.     *)
THEOREM TypeCorrect == Spec => []TypeOK
BY Invariant, InvariantTypes, PTL

(* Whatever is done to the rights while calls wait for the vetKD system, a *)
(* vetKey goes only to who could read it at some moment of his call.       *)
THEOREM AnswersFit == Spec => []AnswersFitRights
BY Invariant, InvariantAnswers, PTL

(* The object survives every upgrade, and with it the key name and the     *)
(* domain separator.                                                       *)
THEOREM InstalledServed == Spec => []ServesInstalledKey
BY Invariant, InvariantServes, PTL

(* One key id has one key and two have two, whatever their bytes.          *)
THEOREM DeliveriesFit == Spec => []DeliveredKeysFit
BY Invariant, InvariantDelivers, PTL
=============================================================================
