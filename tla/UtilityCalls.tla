---------------------------- MODULE UtilityCalls ----------------------------
(***************************************************************************)
(* Calls of the library's utilities, one at a time, with any bytes: those  *)
(* the library wrote, altered ones, and ones it never wrote.               *)
(***************************************************************************)
EXTENDS DerivedKeyMaterial, G2PrecomputedTable, KeyManagerClient

CONSTANTS
    Vetkey, Author, Plaintext, DomainSep, AssociatedData, Nonce,   \* of messages
    NonceByte,     \* the bytes that a nonce is drawn from
    WindowWidth, TableScalar, ExtraPoint,                  \* of the table
    TransportKey, PublicKey, Input, Seed,                  \* of vetKeys
    KeyOwner, VetkeyName,                                  \* of the key manager
    SecretBytes,   \* what stands for a transport key or its seed
    Mainnet, PocketIc,     \* networks: the master secrets of a vetKD system, by name
    ShortString    \* byte strings up to the length of the longest form

(* Bytes of a nonce are none that AES-GCM made.                            *)
ASSUME MessagesAssumption ==
    /\ Nonce \subseteq [1 .. NonceSize -> NonceByte]
    /\ \A b \in NonceByte : Len(b) # 5
    /\ \A m \in Plaintext : Len(m) \in Nat

(* The arguments, and what the networks of the tests and the hardcoded     *)
(* public keys have to do with each other.                                 *)
ASSUME ArgumentsAssumption ==
    /\ TransportKey \cup PublicKey \subseteq Scalar
    /\ Input \cup SecretBytes \cup ShortString \subseteq Seq(Byte)
    /\ Seed = [1 .. SeedBytes -> Byte]
    /\ KeyOwner \cup VetkeyName \subseteq Seq(Byte)
    /\ \A owner \in KeyOwner : Len(owner) % 256 \in Byte

(* Windows as the comment of WINDOW_BITS allows, scalars and points as the *)
(* group has them.                                                         *)
ASSUME TableArguments ==
    /\ WindowWidth \subseteq 1 .. BITS_IN_BYTE - 1
    /\ TableScalar \cup ExtraPoint \subseteq 0 .. SubgroupOrder - 1

ASSUME NetworksAssumption ==
    /\ \A n \in DOMAIN Mainnet : Mainnet[n] \in Scalar
    /\ \A n \in DOMAIN PocketIc : PocketIc[n] \in Scalar
    /\ \A n \in DOMAIN MainnetKey : n \in DOMAIN Mainnet /\ Mainnet[n] = MainnetKey[n]
    /\ \A n \in DOMAIN PocketIcKey : n \in DOMAIN PocketIc /\ PocketIc[n] = PocketIcKey[n]
    /\ DOMAIN MainnetKey \subseteq DOMAIN PocketIcKey

VARIABLES
    call,      \* the call under way, with its arguments
    result     \* what it returns

vars == <<call, result>>

NoCall == [fn |-> "none"]

Init == call = NoCall /\ result = Err("none")

(* A caller's step: it calls a utility, which answers at once.             *)
Called(arguments, answer) ==
    /\ call' = arguments
    /\ result' = answer

(* The author's messages in both formats, and what cutting and joining     *)
(* makes of them: shorter ones, ones without a header or with another's.   *)
Written ==
    {EncryptMessage(Author, m, ds, aad, n) :
        m \in Plaintext, ds \in DomainSep, aad \in AssociatedData, n \in Nonce}
    \cup {LegacyEncryptMessage(Author, m, ds, n) :
        m \in Plaintext, ds \in DomainSep, n \in Nonce}

Spliced ==
    UNION {{SubSeq(a, 1, i) \o SubSeq(b, j, Len(b)) : i \in 0 .. Len(a), j \in 1 .. Len(b) + 1} :
        a \in Written, b \in Written}

CallDecryptMessage == call = NoCall /\
    \E v \in Vetkey, c \in Spliced, ds \in DomainSep, aad \in AssociatedData :
        Called([fn |-> "decrypt_message", vetkey |-> v, ctext |-> c, domainSep |-> ds, aad |-> aad],
               DecryptMessage(v, c, ds, aad))

CallMul == call = NoCall /\
    \E w \in WindowWidth, pt \in ExtraPoint, s \in TableScalar, extra \in ExtraPoint :
        LET tbl == New(pt, w)
        IN  Called([fn |-> "mul", width |-> w, pt |-> pt, scalar |-> s, extra |-> extra],
                   Ok(<<Mul(tbl, s, w), MulVartime(tbl, s, extra, w)>>))

CallDecryptAndVerify == call = NoCall /\
    \E bytes \in ShortString, tsk \in TransportKey, dpk \in PublicKey, input \in Input :
        LET ek == DeserializeEncrypted(bytes)
        IN  Called([fn |-> "decrypt_and_verify", bytes |-> bytes,
                    tsk |-> tsk, dpk |-> dpk, input |-> input],
                   IF IsOk(ek) THEN DecryptAndVerify(ek.value, tsk, dpk, input) ELSE ek)

(* The vetKey is the one of the identity `input', as the contract of       *)
(* decrypt asks.                                                           *)
CallIbeDecrypt == call = NoCall /\
    \E bytes \in ShortString, dpk \in PublicKey, input \in Input :
        LET ct == IbeDeserialize(bytes)
        IN  Called([fn |-> "ibe_decrypt", bytes |-> bytes, dpk |-> dpk, input |-> input],
                   IF IsOk(ct) THEN IbeDecrypt(ct.value, VetKeyOf(dpk, input)) ELSE ct)

CallVrfDeserialize == call = NoCall /\
    \E bytes \in ShortString :
        Called([fn |-> "vrf_deserialize", bytes |-> bytes], VrfDeserialize(bytes))

(* A seed for encryption of any length; what is encrypted with it opens.   *)
CallIbeEncrypt == call = NoCall /\
    \E bytes \in SecretBytes, dpk \in PublicKey, input \in Input, m \in Input :
        LET seed == IbeSeedFromBytes(bytes)
        IN  Called([fn |-> "ibe_encrypt", seed |-> bytes, dpk |-> dpk, input |-> input,
                    msg |-> m],
                   IF IsOk(seed) THEN Ok(IbeSerialize(IbeEncrypt(dpk, input, m, seed.value)))
                   ELSE seed)

(* A transport key from a seed or from storage.                            *)
CallTransportKey == call = NoCall /\
    \E bytes \in SecretBytes, isSeed \in BOOLEAN :
        Called([fn |-> "transport_key", bytes |-> bytes, isSeed |-> isSeed],
               IF isSeed THEN TransportKeyFromSeed(bytes) ELSE DeserializeTransportKey(bytes))

(* A canister's public key offline: in two steps, with bytes in between.   *)
CallDerivePublicKey == call = NoCall /\
    \E network \in {Mainnet, PocketIc}, canister \in Input, context \in Input,
       name \in DOMAIN MainnetKey :
        LET master == IF network = Mainnet THEN ForMainnetKey(name) ELSE ForPocketIcKey(name)
            canisterKey == SerializePublicKey(DeriveCanisterKey(
                DeserializePublicKey(SerializePublicKey(master.value)).value, canister))
            key == DeriveSubKey(DeserializePublicKey(canisterKey).value, context)
        IN  Called([fn |-> "derive_public_key",
                    publicKey |-> VetkdPublicKey(network, canister, context, name)],
                   Ok(SerializePublicKey(key)))

(* A reply of the vetKD system, one that has a byte too many, and none.    *)
Replies(reply) == {reply, Ok(reply.value \o <<0>>), CallFailed}

(* A refusal is answered as it is.                                         *)
Answers(answer) == IF IsOk(answer) THEN Replies(answer) ELSE {answer}

Configuration == [domain_separator : Input, key_id : DOMAIN Mainnet]

(* The frontend's key manager, with a random transport key; the canister   *)
(* may be reinstalled, or another one take its id, between the two calls.  *)
CallGetVetkey == call = NoCall /\
    \E canister \in Input, config \in Configuration, later \in Configuration,
       owner \in KeyOwner, name \in VetkeyName, mayRead \in BOOLEAN,
       tsk \in TransportKey \ {0}, rho \in TransportKey :
    \E encryptedVetkey \in Answers(GetEncryptedVetkey(Mainnet, canister, config, mayRead,
                               owner, name, TransportPublicKey(tsk), rho)),
       verificationKey \in Replies(GetVetkeyVerificationKey(Mainnet, canister, later)) :
        Called([fn |-> "get_vetkey", owner |-> owner, name |-> name, mayRead |-> mayRead,
                encryptedVetkey |-> encryptedVetkey, verificationKey |-> verificationKey,
                derivedUnder |-> GetVetkeyVerificationKey(Mainnet, canister, config),
                servedLater |-> GetVetkeyVerificationKey(Mainnet, canister, later)],
               GetVetkey(tsk, encryptedVetkey, verificationKey, owner, name))

CallSignWithBls == call = NoCall /\
    \E canister \in Input, context \in Input, input \in Input, rho \in TransportKey :
    \E name \in DOMAIN Mainnet, named \in BOOLEAN :
    \E reply \in Replies(VetkdDeriveKey(Mainnet, canister, context, name, input,
                                        UnencryptedTransportKey, rho)) :
        Called([fn |-> "sign_with_bls", input |-> input, reply |-> reply,
                publicKey |-> BlsPublicKey(Mainnet, canister,
                                  IF named THEN Ok(canister) ELSE Err(<<>>), context, name)],
               SignWithBls(reply))

CallComputeVrf == call = NoCall /\
    \E network \in {Mainnet, PocketIc}, canister \in Input, context \in Input,
       input \in Input, rho \in TransportKey :
    \E name \in DOMAIN network :
    \E reply \in Replies(VetkdDeriveKey(network, canister, context, name, input,
                                        UnencryptedTransportKey, rho)),
       publicKey \in Replies(VetkdPublicKey(network, canister, context, name)) :
        Called([fn |-> "compute_vrf", network |-> network, name |-> name, input |-> input,
                reply |-> reply, publicKey |-> publicKey,
                ownKey |-> VetkdPublicKey(network, canister, context, name)],
               ComputeVrf(reply, publicKey, canister, context, name, input))

(* The caller takes the answer.                                            *)
Forget ==
    /\ call # NoCall
    /\ call' = NoCall
    /\ result' = Err("none")

Next ==
    \/ CallDecryptMessage
    \/ CallMul
    \/ CallDecryptAndVerify
    \/ CallIbeDecrypt
    \/ CallVrfDeserialize
    \/ CallIbeEncrypt
    \/ CallTransportKey
    \/ CallDerivePublicKey
    \/ CallGetVetkey
    \/ CallSignWithBls
    \/ CallComputeVrf
    \/ Forget

Spec == Init /\ [][Next]_vars

(***************************************************************************)
(* Properties                                                              *)
(***************************************************************************)

(* What a string of bytes says to a reader with this vetKey, separator and *)
(* data: the plaintexts that some encryption turns into these bytes.  An   *)
(* old message is told by not having the header, and has to be as long as  *)
(* a new one.                                                              *)
Said(c) ==
    {m \in Plaintext : \E n \in Nonce :
        \/ c.ctext = EncryptMessage(c.vetkey, m, c.domainSep, c.aad, n)
        \/ /\ c.ctext = LegacyEncryptMessage(c.vetkey, m, c.domainSep, n)
           /\ c.aad = <<>>
           /\ ~HasHeader(c.ctext)
           /\ Len(m) >= HeaderSize}

(* Decryption answers with the plaintext for exactly those bytes that an   *)
(* encryption with the same key, separator and data made, in one format or *)
(* the other: cut, joined or stripped of the header they are refused       *)
(* (decrypt_message of both libraries).                                    *)
MessagesOpenAsSealed ==
    call.fn = "decrypt_message" =>
        IF IsOk(result) THEN Said(call) = {result.value} ELSE Said(call) = {}

(* "Decryption of old messages is supported": every message of the older   *)
(* format is decrypted, but for those whose random nonce begins like the   *)
(* header.  The code refuses those of fewer bytes than the header has,     *)
(* because it asks for the length of the new format first.                 *)
OldMessagesOpen ==
    call.fn = "decrypt_message" =>
        \A m \in Plaintext, n \in Nonce :
            (/\ call.ctext = LegacyEncryptMessage(call.vetkey, m, call.domainSep, n)
             /\ call.aad = <<>>
             /\ ~HasHeader(call.ctext)) => IsOk(result)

(* Both multiplications by the table are multiplication, for each width of *)
(* the windows that the comment of WINDOW_BITS allows (G2PrecomputedTable).*)
TableMultiplies ==
    call.fn = "mul" =>
        LET product == (call.scalar * call.pt) % SubgroupOrder
        IN  result.value = <<product, Add(product, call.extra)>>

(* Whatever bytes stand for an encrypted vetKey, the key that comes out is *)
(* the vetKey of the public key and input, and one comes out exactly when  *)
(* the bytes are its encryption to the transport key (decrypt_and_verify). *)
OnlyTheVetKey ==
    call.fn = "decrypt_and_verify" =>
        LET isEncrypted == \E rho \in Scalar : call.bytes =
                SerializeEncrypted(EncryptedFor(call.tsk, call.dpk, call.input, rho))
        IN  /\ IsOk(result) <=> isEncrypted /\ call.dpk # 0
            /\ IsOk(result) => result.value = VetKeyOf(call.dpk, call.input)

(* A ciphertext is decrypted exactly when some message and seed encrypt to *)
(* it, and to such a message: nothing made in another way is accepted, and *)
(* what is encrypted with a seed of any length that is accepted can be     *)
(* decrypted with the vetKey of the identity.  Sizes are as announced.     *)
(* (IbeCiphertext::encrypt, deserialize and decrypt, IbeSeed::from_bytes.) *)
OnlyEncryptionsDecrypt ==
    /\ call.fn = "ibe_decrypt" =>
        LET encrypts(m) == \E seed \in Seed :
                call.bytes = IbeSerialize(IbeEncrypt(call.dpk, call.input, m, seed))
        IN  IF IsOk(result)
            THEN encrypts(result.value) /\ PlaintextSize(Len(call.bytes)) = Ok(Len(result.value))
            ELSE \A m \in Input : ~encrypts(m)
    /\ call.fn = "ibe_encrypt" =>
        /\ IsOk(result) <=> Len(call.seed) >= MinSeedBytes
        /\ IsOk(result) =>
              /\ Len(result.value) = CiphertextSize(Len(call.msg))
              /\ IbeDecrypt(IbeDeserialize(result.value).value, VetKeyOf(call.dpk, call.input))
                    = Ok(call.msg)

(* A vetKey arrives at the frontend when the canister grants it, nothing   *)
(* is lost or altered on the way, and the verification key, which is asked *)
(* for after it, is still the one it was derived under, or one with the    *)
(* same vetKey; and nothing else arrives: a refused caller, one with a     *)
(* name that is too long, and one whose canister was reinstalled in        *)
(* between get an error (KeyManager.getVetkey, get_encrypted_vetkey).      *)
(* What can be had offline is the same: a transport key exactly from its   *)
(* serialization, or from seeds of one length, and the public key that the *)
(* system has (TransportSecretKey, MasterPublicKey).                       *)
VetKeyArrives ==
    /\ call.fn = "get_vetkey" =>
        LET input == KeyIdToVetKdInput(call.owner, call.name)
            derivedUnder == DeserializePublicKey(call.derivedUnder.value).value
            servedLater == DeserializePublicKey(call.servedLater.value).value
            isIntact == /\ IsOk(call.encryptedVetkey)
                        /\ Len(call.encryptedVetkey.value) = EncryptedVetKeyBytes
                        /\ call.verificationKey = call.servedLater
        IN  /\ IsOk(result) <=>
                  /\ isIntact /\ servedLater # 0
                  /\ VetKeyOf(derivedUnder, input) = VetKeyOf(servedLater, input)
            /\ IsOk(result) =>
                  /\ call.mayRead /\ Len(call.name) <= KeyNameSize
                  /\ DeserializeVetKey(result.value) = Ok(VetKeyOf(derivedUnder, input))
                  /\ VerifyBlsSignatureBytes(servedLater, input, result.value)
                  /\ IsValidTransportPublicKeyEncoding(result.value)
    /\ call.fn = "transport_key" =>
        IsOk(result) <=> IF call.isSeed THEN Len(call.bytes) = SecretKeyBytes
                         ELSE \E tsk \in Scalar : call.bytes = SerializeTransportKey(tsk)
    /\ call.fn = "derive_public_key" => result = call.publicKey

(* A signature that a canister makes verifies under the public key that is *)
(* returned for the same canister, context and key name, whether the       *)
(* canister is named or not; a reply of another length makes none          *)
(* (sign_with_bls, bls_public_key).                                        *)
SignaturesVerify ==
    call.fn = "sign_with_bls" =>
        LET pk == DeserializePublicKey(call.publicKey.value).value
        IN  /\ IsOk(result) <=> IsOk(call.reply) /\ Len(call.reply.value) = EncryptedVetKeyBytes
            /\ IsOk(result) /\ pk # 0 => VerifyBlsSignatureBytes(pk, call.input, result.value)

(* A VRF output that is read back is the one that was written, with the    *)
(* proof for its key and input, and every such output can be read.  One    *)
(* that a canister computes can be read back and is for its own key on the *)
(* main network, and wherever the name of the key is not hardcoded; it     *)
(* comes out when the calls it needs are answered (VrfOutput, compute_vrf).*)
OutputsVerify ==
    /\ call.fn = "vrf_deserialize" =>
        LET isOutput == \E dpk \in Scalar \ {0} :
                \E k \in 0 .. Len(call.bytes) :
                    LET input == SubSeq(call.bytes, k + 1, Len(call.bytes))
                    IN  call.bytes = VrfSerialize([proof |-> VetKeyOf(dpk, input), dpk |-> dpk,
                                                   input |-> input])
        IN  /\ IsOk(result) <=> isOutput
            /\ IsOk(result) => /\ VrfSerialize(result.value) = call.bytes
                               /\ result.value.proof = VetKeyOf(result.value.dpk, result.value.input)
    /\ call.fn = "compute_vrf" =>
        LET isHardcoded == call.name \in DOMAIN MainnetKey
            ownKey == DeserializePublicKey(call.ownKey.value).value
            isAnswered == /\ IsOk(call.reply) /\ Len(call.reply.value) = EncryptedVetKeyBytes
                          /\ isHardcoded \/ call.publicKey = call.ownKey
        IN  /\ IsOk(result) =>
                  /\ isAnswered
                  /\ result.value.input = call.input
                  /\ result.value.proof = VetKeyOf(result.value.dpk, call.input)
                  /\ VrfDeserialize(VrfSerialize(result.value)) = result
            /\ call.network = Mainnet \/ ~isHardcoded =>
                  /\ IsOk(result) <=> isAnswered /\ ownKey # 0
                  /\ IsOk(result) => result.value.dpk = ownKey
=============================================================================
