------------------------------- MODULE VetKd -------------------------------
(***************************************************************************)
(* The vetKeys themselves: derived public keys, encrypted vetKeys, BLS     *)
(* signatures, identity-based encryption and VRF outputs, with their       *)
(* serialized forms.                                                       *)
(*                                                                         *)
(* G1, G2 and Gt are groups of one prime order with a bilinear pairing.  A *)
(* point is its discrete logarithm to the generator, so that a public key  *)
(* and its secret key are one number here, 0 is the identity, and the      *)
(* pairing is multiplication.  Hash functions and XOR are parameters.      *)
(***************************************************************************)
EXTENDS Results, Integers, Sequences

CONSTANTS
    Order,             \* the order of the groups
    Byte,              \* the values of a byte
    G1Bytes,           \* 48 in the code
    G2Bytes,           \* 96
    SecretKeyBytes,    \* 32
    SeedBytes,         \* 32: IBE_SEED_BYTES
    MinSeedBytes,      \* 16
    MainnetKey,        \* the hardcoded master public keys, by name
    PocketIcKey,
    IbeHeader,         \* "IC IBE", 0, 1
    HashToG1(_),       \* hash_to_curve
    HashToScalar(_, _),\* of some bytes and a domain separator
    RandomScalar(_),   \* the first of the generator with this seed
    Hkdf(_, _, _),     \* of some bytes, a domain separator and a length
    Shake256(_, _),    \* of a seed and a length
    XorByte(_, _)      \* of two bytes

ASSUME VetKdAssumption ==
    /\ Order \in Nat \ {0, 1} /\ \A p \in 2 .. Order - 1 : Order % p # 0
    /\ 0 .. Order - 1 \subseteq Byte /\ Byte \subseteq Nat
    /\ {G1Bytes, G2Bytes, SecretKeyBytes, SeedBytes, MinSeedBytes} \subseteq Nat \ {0}
    /\ MinSeedBytes <= SeedBytes
    /\ {MainnetKey[n] : n \in DOMAIN MainnetKey} \subseteq 0 .. Order - 1
    /\ {PocketIcKey[n] : n \in DOMAIN PocketIcKey} \subseteq 0 .. Order - 1
    /\ IbeHeader \in Seq(Byte)
    /\ \A a, b \in Byte : /\ XorByte(a, b) \in Byte
                          /\ XorByte(a, b) = XorByte(b, a)
                          /\ XorByte(XorByte(a, b), b) = a

Scalar == 0 .. Order - 1

Plus(p, q) == (p + q) % Order
Negated(p) == (Order - p) % Order
Times(p, s) == (p * s) % Order
Pairing(p, q) == Times(p, q)

(* The compressed form of a point; not every string of its length is one.  *)
Compressed(p, size) == [i \in 1 .. size |-> p]

FromCompressed(bytes, size) ==
    IF bytes \in {Compressed(p, size) : p \in Scalar} THEN Ok(bytes[1])
    ELSE Err("InvalidPoint")

(* The bytes of a scalar: a number that is not reduced is none.            *)
ToScalarBytes(s) == [i \in 1 .. SecretKeyBytes |-> IF i = SecretKeyBytes THEN s ELSE 0]

FromScalarBytes(bytes) ==
    IF bytes \in {ToScalarBytes(s) : s \in Scalar} THEN Ok(bytes[SecretKeyBytes])
    ELSE Err("InvalidScalar")

(***************************************************************************)
(* Transport keys                                                          *)
(***************************************************************************)

TransportKeyFromSeed(seed) ==
    IF Len(seed) = SecretKeyBytes THEN Ok(RandomScalar(seed)) ELSE Err("seed not 32 bytes")

TransportPublicKey(tsk) == Compressed(Times(1, tsk), G1Bytes)

SerializeTransportKey(tsk) == ToScalarBytes(tsk)

DeserializeTransportKey(bytes) ==
    IF Len(bytes) = SecretKeyBytes /\ IsOk(FromScalarBytes(bytes)) THEN FromScalarBytes(bytes)
    ELSE Err("invalid TransportSecretKey")

IsValidTransportPublicKeyEncoding(bytes) ==
    Len(bytes) = G1Bytes /\ IsOk(FromCompressed(bytes, G1Bytes))

(***************************************************************************)
(* Public keys                                                             *)
(***************************************************************************)

(* Of a master key and of a derived key alike.                             *)
SerializePublicKey(pk) == Compressed(pk, G2Bytes)

DeserializePublicKey(bytes) ==
    IF Len(bytes) = G2Bytes /\ IsOk(FromCompressed(bytes, G2Bytes))
    THEN FromCompressed(bytes, G2Bytes) ELSE Err("InvalidPublicKey")

(* The name alone decides: on another network it is another key.           *)
ForMainnetKey(name) ==
    IF name \in DOMAIN MainnetKey THEN Ok(MainnetKey[name]) ELSE Err("None")

ForPocketIcKey(name) ==
    IF name \in DOMAIN PocketIcKey THEN Ok(PocketIcKey[name]) ELSE Err("None")

LengthPrefixed(data) == <<Len(data)>> \o data

HashToScalarTwoInputs(input1, input2, dst) ==
    HashToScalar(LengthPrefixed(input1) \o LengthPrefixed(input2), dst)

DeriveCanisterKey(mpk, canister) ==
    Plus(mpk, HashToScalarTwoInputs(SerializePublicKey(mpk), canister, "canister-id"))

DeriveSubKey(dpk, context) ==
    IF context = <<>> THEN dpk
    ELSE Plus(dpk, HashToScalarTwoInputs(SerializePublicKey(dpk), context, "context"))

(***************************************************************************)
(* BLS signatures, which the vetKeys are                                   *)
(***************************************************************************)

AugmentedHashToG1(dpk, data) == HashToG1(Compressed(dpk, G2Bytes) \o data)

GtMultipairing(p1, q1, p2, q2) == Plus(Pairing(p1, q1), Pairing(p2, q2))

(* Slip (not the code): the identity passes for a public key.              *)
VerifyBlsSignatureAnyKey(dpk, input, signature) ==
    GtMultipairing(signature, Negated(1), AugmentedHashToG1(dpk, input), dpk) = 0

VerifyBlsSignature(dpk, input, signature) ==
    /\ dpk # 0
    /\ GtMultipairing(signature, Negated(1), AugmentedHashToG1(dpk, input), dpk) = 0

SerializeVetKey(k) == Compressed(k, G1Bytes)

DeserializeVetKey(bytes) ==
    IF Len(bytes) # G1Bytes THEN Err("Vetkey is unexpected length")
    ELSE IF IsOk(FromCompressed(bytes, G1Bytes)) THEN FromCompressed(bytes, G1Bytes)
    ELSE Err("Invalid VetKey")

VerifyBlsSignatureBytes(dpk, input, signature) ==
    LET k == DeserializeVetKey(signature)
    IN  IsOk(k) /\ VerifyBlsSignature(dpk, input, k.value)

(* What vetKeys are, for the properties: the signature, and its encryption *)
(* to a transport key.                                                     *)
VetKeyOf(dpk, input) == Times(AugmentedHashToG1(dpk, input), dpk)

EncryptedFor(tpk, dpk, input, rho) ==
    [c1 |-> rho, c2 |-> rho, c3 |-> Plus(VetKeyOf(dpk, input), Times(tpk, rho))]

(***************************************************************************)
(* Encrypted vetKeys                                                       *)
(***************************************************************************)

SerializeEncrypted(ek) ==
    Compressed(ek.c1, G1Bytes) \o Compressed(ek.c2, G2Bytes) \o Compressed(ek.c3, G1Bytes)

DeserializeG2(bytes) ==
    IF Len(bytes) # G2Bytes THEN Err("Invalid length for G2")
    ELSE IF IsOk(FromCompressed(bytes, G2Bytes)) THEN FromCompressed(bytes, G2Bytes)
    ELSE Err("Invalid G2 elliptic curve point")

C2Offset == G1Bytes
C3Offset == G1Bytes + G2Bytes
EncryptedVetKeyBytes == 2 * G1Bytes + G2Bytes

DeserializeEncrypted(bytes) ==
    LET c1 == FromCompressed(SubSeq(bytes, 1, C2Offset), G1Bytes)
        c2 == FromCompressed(SubSeq(bytes, C2Offset + 1, C3Offset), G2Bytes)
        c3 == FromCompressed(SubSeq(bytes, C3Offset + 1, EncryptedVetKeyBytes), G1Bytes)
    IN  IF Len(bytes) = EncryptedVetKeyBytes /\ IsOk(c1) /\ IsOk(c2) /\ IsOk(c3)
        THEN Ok([c1 |-> c1.value, c2 |-> c2.value, c3 |-> c3.value])
        ELSE Err("InvalidEncryptedVetKey")

Consistent(ek) == GtMultipairing(ek.c1, Negated(1), 1, ek.c2) = 0

(* Slip (not the code): c1 and c2 are not compared.                        *)
DecryptAndVerifyAny(ek, tsk, dpk, input) ==
    LET k == Plus(ek.c3, Negated(Times(ek.c1, tsk)))
    IN  IF VerifyBlsSignature(dpk, input, k) THEN Ok(k) ELSE Err("invalid encrypted key")

DecryptAndVerify(ek, tsk, dpk, input) ==
    LET k == Plus(ek.c3, Negated(Times(ek.c1, tsk)))
    IN  IF Consistent(ek) /\ VerifyBlsSignature(dpk, input, k)
        THEN Ok(k) ELSE Err("invalid encrypted key")

(***************************************************************************)
(* Identity-based encryption                                               *)
(***************************************************************************)

(* A seed of the right length is used as it is, another one is hashed.     *)
IbeSeedFromBytes(bytes) ==
    IF Len(bytes) < MinSeedBytes THEN Err("Insufficient input material")
    ELSE IF Len(bytes) = SeedBytes THEN Ok(bytes)
    ELSE Ok(Hkdf(bytes, <<"ibe-hash-seed">>, SeedBytes))

MaskSeedSep == <<"ibe-mask-seed">>
MaskMsgSep(len) == <<"ibe-mask-msg", len>>

XorBuf(a, b) == [i \in 1 .. Len(a) |-> XorByte(a[i], b[i])]

HashToMask(header, seed, msg) == HashToScalar(header \o seed \o msg, "ibe-hash-to-mask")

MaskSeed(seed, t) == XorBuf(Hkdf(<<t>>, MaskSeedSep, SeedBytes), seed)

MaskMsg(msg, seed) ==
    XorBuf(msg, Shake256(Hkdf(seed, MaskMsgSep(Len(msg)), SeedBytes), Len(msg)))

IbeEncrypt(dpk, identity, msg, seed) ==
    LET t == HashToMask(IbeHeader, seed, msg)
        tsig == Times(Pairing(AugmentedHashToG1(dpk, identity), dpk), t)
    IN  [header |-> IbeHeader, c1 |-> t, c2 |-> MaskSeed(seed, tsig), c3 |-> MaskMsg(msg, seed)]

IbeSerialize(ct) == ct.header \o Compressed(ct.c1, G2Bytes) \o ct.c2 \o ct.c3

IbeOverhead == Len(IbeHeader) + SeedBytes + G2Bytes

CiphertextSize(plaintextSize) == plaintextSize + IbeOverhead

PlaintextSize(ciphertextSize) ==
    IF ciphertextSize >= IbeOverhead THEN Ok(ciphertextSize - IbeOverhead) ELSE Err("None")

IbeDeserialize(bytes) ==
    LET afterHeader == Len(IbeHeader)
        afterC1 == afterHeader + G2Bytes
        c1 == DeserializeG2(SubSeq(bytes, afterHeader + 1, afterC1))
    IN  IF Len(bytes) >= IbeOverhead /\ IsOk(c1) /\ SubSeq(bytes, 1, afterHeader) = IbeHeader
        THEN Ok([header |-> SubSeq(bytes, 1, afterHeader),
                 c1 |-> c1.value,
                 c2 |-> SubSeq(bytes, afterC1 + 1, afterC1 + SeedBytes),
                 c3 |-> SubSeq(bytes, afterC1 + SeedBytes + 1, Len(bytes))])
        ELSE Err("invalid IbeCiphertext")

(* Slip (not the code): what comes out is not encrypted again to compare.  *)
IbeDecryptUnchecked(ct, vetkey) == Ok(MaskMsg(ct.c3, MaskSeed(ct.c2, Pairing(vetkey, ct.c1))))

IbeDecrypt(ct, vetkey) ==
    LET seed == MaskSeed(ct.c2, Pairing(vetkey, ct.c1))
        msg == MaskMsg(ct.c3, seed)
        t == HashToMask(ct.header, seed, msg)
    IN  IF ct.c1 = t THEN Ok(msg) ELSE Err("decryption failed")

(***************************************************************************)
(* VRF outputs                                                             *)
(***************************************************************************)

ComputeVrfHash(proof, dpk, input) ==
    Hkdf(LengthPrefixed(Compressed(proof, G1Bytes)) \o LengthPrefixed(Compressed(dpk, G2Bytes))
             \o LengthPrefixed(input), <<"vrf">>, SeedBytes)

VrfCreate(proof, input, dpk) ==
    IF VerifyBlsSignature(dpk, input, proof)
    THEN Ok([proof |-> proof, dpk |-> dpk, input |-> input,
             output |-> ComputeVrfHash(proof, dpk, input)])
    ELSE Err("InvalidProof")

(* The output is not in it: it is computed again.                          *)
VrfSerialize(vrf) ==
    Compressed(vrf.proof, G1Bytes) \o Compressed(vrf.dpk, G2Bytes) \o vrf.input

VrfDeserialize(bytes) ==
    LET proof == DeserializeVetKey(SubSeq(bytes, 1, G1Bytes))
        dpk == DeserializePublicKey(SubSeq(bytes, G1Bytes + 1, G1Bytes + G2Bytes))
    IN  IF Len(bytes) < G1Bytes + G2Bytes THEN Err("UnexpectedLength")
        ELSE IF IsOk(proof) /\ IsOk(dpk)
        THEN VrfCreate(proof.value, SubSeq(bytes, G1Bytes + G2Bytes + 1, Len(bytes)), dpk.value)
        ELSE Err("InvalidData")
=============================================================================
