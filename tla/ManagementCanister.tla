------------------------- MODULE ManagementCanister -------------------------
(***************************************************************************)
(* The library's calls of the management canister from within a canister:  *)
(* unencrypted vetKeys as signatures, and VRF outputs.  The replies they   *)
(* await are parameters.                                                   *)
(***************************************************************************)
EXTENDS VetKdSystem

(* Encryption to the identity leaves the vetKey as it is.                  *)
UnencryptedTransportKey == Compressed(0, G1Bytes)

(* Slip (not the code): the first point of the reply.                      *)
DeriveUnencryptedVetkeyFirst(reply) ==
    IF IsOk(reply) /\ Len(reply.value) = EncryptedVetKeyBytes
    THEN Ok(SubSeq(reply.value, 1, G1Bytes)) ELSE Err("InvalidReply")

(* The one curve there is needs no check.                                  *)
DeriveUnencryptedVetkey(reply) ==
    IF ~IsOk(reply) THEN Err("CallFailed")
    ELSE IF Len(reply.value) # EncryptedVetKeyBytes THEN Err("InvalidReply")
    ELSE Ok(SubSeq(reply.value, C3Offset + 1, C3Offset + G1Bytes))

SignWithBls(reply) == DeriveUnencryptedVetkey(reply)

(* Of the calling canister where none is named.                            *)
BlsPublicKey(network, self, canister, context, name) ==
    VetkdPublicKey(network, IF IsOk(canister) THEN canister.value ELSE self, context, name)

(* The public key comes from the hardcoded master key of the name, on      *)
(* whatever network, and from the vetKD system only if the name is not     *)
(* known.  Every error becomes the same one.                               *)
ComputeVrf(keyReply, publicKeyReply, canister, context, name, input) ==
    LET bytes == DeriveUnencryptedVetkey(keyReply)
        vetkey == DeserializeVetKey(bytes.value)
        master == ForMainnetKey(name)
        dpk == CASE IsOk(master) ->
                        Ok(DeriveSubKey(DeriveCanisterKey(master.value, canister), context))
                 [] ~IsOk(master) /\ IsOk(publicKeyReply) ->
                        DeserializePublicKey(publicKeyReply.value)
                 [] OTHER -> publicKeyReply
        vrf == VrfCreate(vetkey.value, input, dpk.value)
    IN  IF IsOk(bytes) /\ IsOk(vetkey) /\ IsOk(dpk) /\ IsOk(vrf) THEN vrf
        ELSE Err("InvalidReply")
=============================================================================
