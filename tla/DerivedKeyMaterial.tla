------------------------- MODULE DerivedKeyMaterial -------------------------
(***************************************************************************)
(* The encryption of messages under the key material derived from a        *)
(* vetKey: the present format, with a header, and the older one without,   *)
(* which can still be decrypted.                                           *)
(*                                                                         *)
(* A byte is a tuple that tells where it comes from.  AES-GCM and HKDF are *)
(* ideal: a sealed byte is the byte of one key, nonce, associated data and *)
(* message, and a derived key is the sequence of what went into it.        *)
(***************************************************************************)
EXTENDS Results, Naturals, Sequences

CONSTANTS
    HeaderSize,    \* 8 bytes in the code
    NonceSize,     \* 12
    TagSize        \* 16

ASSUME SizesAssumption ==
    /\ {HeaderSize, NonceSize, TagSize} \subseteq Nat \ {0}
    /\ HeaderSize < NonceSize

(* "IC GCMv2" *)
Header == [i \in 1 .. HeaderSize |-> <<i>>]

DeriveSymmetricKey(input, domainSep) == Append(input, domainSep)

(* as_derived_key_material derives `key' from the vetKey, which it keeps   *)
(* as `raw_vetkey' for the older format.                                   *)
DeriveAesGcmKey(vetkey, domainSep) ==
    LET key == DeriveSymmetricKey(<<vetkey>>, "derived-key-material")
    IN  DeriveSymmetricKey(key \o <<"aes-gcm-v2">>, domainSep)

LegacyKey(vetkey, domainSep) == DeriveSymmetricKey(<<vetkey>>, domainSep)

GcmEncrypt(key, nonce, aad, msg) ==
    [i \in 1 .. Len(msg) + TagSize |-> <<key, nonce, aad, msg, i>>]

(* Any byte of a sealed message tells what was sealed, if it is one.       *)
GcmDecrypt(key, nonce, aad, sealed) ==
    IF Len(sealed[1]) = 5 /\ sealed = GcmEncrypt(key, nonce, aad, sealed[1][4])
    THEN Ok(sealed[1][4])
    ELSE Err("InvalidCiphertext")

EncryptMessage(vetkey, msg, domainSep, aad, nonce) ==
    Header \o nonce
        \o GcmEncrypt(DeriveAesGcmKey(vetkey, domainSep), nonce, Header \o aad, msg)

(* What versions before 0.5.0 of the frontend library wrote.               *)
LegacyEncryptMessage(vetkey, msg, domainSep, nonce) ==
    nonce \o GcmEncrypt(LegacyKey(vetkey, domainSep), nonce, <<>>, msg)

DecryptLegacy(vetkey, ctext, domainSep) ==
    GcmDecrypt(LegacyKey(vetkey, domainSep), SubSeq(ctext, 1, NonceSize), <<>>,
               SubSeq(ctext, NonceSize + 1, Len(ctext)))

DecryptWithHeader(vetkey, ctext, domainSep, aad) ==
    GcmDecrypt(DeriveAesGcmKey(vetkey, domainSep),
               SubSeq(ctext, HeaderSize + 1, HeaderSize + NonceSize),
               SubSeq(ctext, 1, HeaderSize) \o aad,
               SubSeq(ctext, HeaderSize + NonceSize + 1, Len(ctext)))

HasHeader(ctext) == SubSeq(ctext, 1, HeaderSize) = Header

(* Slip (not the code): the older format is tried with data as well.       *)
DecryptMessageLenient(vetkey, ctext, domainSep, aad) ==
    CASE Len(ctext) < HeaderSize + NonceSize + TagSize -> Err("MessageTooShort")
      [] Len(ctext) >= HeaderSize + NonceSize + TagSize /\ HasHeader(ctext) ->
            DecryptWithHeader(vetkey, ctext, domainSep, aad)
      [] OTHER -> DecryptLegacy(vetkey, ctext, domainSep)

DecryptMessage(vetkey, ctext, domainSep, aad) ==
    CASE Len(ctext) < HeaderSize + NonceSize + TagSize -> Err("MessageTooShort")
      [] Len(ctext) >= HeaderSize + NonceSize + TagSize /\ HasHeader(ctext) ->
            DecryptWithHeader(vetkey, ctext, domainSep, aad)
      [] OTHER ->
            IF aad = <<>> THEN DecryptLegacy(vetkey, ctext, domainSep)
                          ELSE Err("UnknownHeader")
=============================================================================
