-------------------------- MODULE KeyManagerClient --------------------------
(***************************************************************************)
(* The frontend's KeyManager asks a canister for a vetKey: two calls, each *)
(* awaited, for the encrypted key and for the key to verify it with.  The  *)
(* answers of the canister, and what comes of them on the way, are         *)
(* parameters of what the client does with them.                           *)
(***************************************************************************)
EXTENDS ManagementCanister

CONSTANT KeyNameSize   \* 32 in the code: the canister's names are Blob<32>

ASSUME KeyNameSizeAssumption == KeyNameSize \in Nat

-----------------------------------------------------------------------------
(* The canister.  An owner is the bytes of a principal; mayRead is what    *)
(* the guard says of the caller; config is a KeyManagerConfig.             *)

KeyIdToVetKdInput(owner, name) == <<Len(owner) % 256>> \o owner \o name

GetEncryptedVetkey(network, canister, config, mayRead, owner, name, tpk, rho) ==
    IF Len(name) > KeyNameSize THEN Err("too large input")
    ELSE IF ~mayRead THEN Err("unauthorized")
    ELSE VetkdDeriveKey(network, canister, config.domain_separator, config.key_id,
                        KeyIdToVetKdInput(owner, name), tpk, rho)

GetVetkeyVerificationKey(network, canister, config) ==
    VetkdPublicKey(network, canister, config.domain_separator, config.key_id)

-----------------------------------------------------------------------------
(* The frontend.                                                           *)

(* Slip (not the code): the length of the owner is left out.               *)
VetkeyInputUnmarked(owner, name) == owner \o name

(* A number put into a Uint8Array keeps its lowest byte.                   *)
VetkeyInput(owner, name) == <<Len(owner) % 256>> \o owner \o name

(* The first thing that goes wrong is thrown: the error that the canister  *)
(* answers with, a call that fails, bytes that are no point, a key that    *)
(* does not verify.                                                        *)
GetVetkey(tsk, encryptedVetkey, verificationKey, owner, name) ==
    LET derivedPublicKey == DeserializePublicKey(verificationKey.value)
        encrypted == DeserializeEncrypted(encryptedVetkey.value)
        vetkey == DecryptAndVerify(encrypted.value, tsk, derivedPublicKey.value,
                                   VetkeyInput(owner, name))
    IN  IF ~IsOk(encryptedVetkey) THEN encryptedVetkey
        ELSE IF ~IsOk(verificationKey) THEN verificationKey
        ELSE IF ~IsOk(derivedPublicKey) THEN derivedPublicKey
        ELSE IF ~IsOk(encrypted) THEN encrypted
        ELSE IF ~IsOk(vetkey) THEN vetkey
        ELSE Ok(SerializeVetKey(vetkey.value))
=============================================================================
