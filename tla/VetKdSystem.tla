---------------------------- MODULE VetKdSystem ----------------------------
(***************************************************************************)
(* The vetKD system as the repository's tests simulate it: it derives the  *)
(* key of a canister and context from its master secret and encrypts it to *)
(* a transport key.  What the library derives from the master public key   *)
(* offline has to be the same.                                             *)
(***************************************************************************)
EXTENDS VetKd

NoContext == Err(<<>>)

(* No context and an empty one are the same.                               *)
DerivationContext(canister, context) ==
    [canister |-> canister, context |-> IF context = <<>> THEN NoContext ELSE Ok(context)]

(* A point and a context, or a canister, make an offset.                   *)
SystemHashToScalar(input1, input2, dst) ==
    HashToScalar(<<Len(input1)>> \o input1 \o <<Len(input2)>> \o input2, dst)

(* The derived public key, and what its secret key is more than the master.*)
DeriveKey(derivation, mpk) ==
    LET offset == SystemHashToScalar(Compressed(mpk, G2Bytes), derivation.canister, "canister-id")
        canisterKey == Plus(Times(1, offset), mpk)
        contextOffset == SystemHashToScalar(Compressed(canisterKey, G2Bytes),
                                            derivation.context.value, "context")
    IN  IF derivation.context = NoContext THEN [key |-> canisterKey, delta |-> offset]
        ELSE [key |-> Plus(Times(1, contextOffset), canisterKey),
              delta |-> Plus(offset, contextOffset)]

(* r is drawn below the order by rejection: rho.                           *)
CreateEncryptedKey(msk, tpk, derivation, input, rho) ==
    LET derived == DeriveKey(derivation, Times(1, msk))
        dsk == Plus(derived.delta, msk)
    IN  [c1 |-> Times(1, rho), c2 |-> Times(1, rho),
         c3 |-> Plus(Times(tpk, rho), Times(AugmentedHashToG1(derived.key, input), dsk))]

-----------------------------------------------------------------------------
(* The endpoints of the management canister, on a network whose master     *)
(* secrets are given by name.                                              *)

CallFailed == Err(<<>>)

VetkdPublicKey(network, canister, context, name) ==
    IF name \in DOMAIN network
    THEN Ok(Compressed(DeriveKey(DerivationContext(canister, context),
                                 Times(1, network[name])).key, G2Bytes))
    ELSE CallFailed

VetkdDeriveKey(network, canister, context, name, input, tpk, rho) ==
    LET point == FromCompressed(tpk, G1Bytes)
    IN  IF name \in DOMAIN network /\ IsOk(point)
        THEN Ok(SerializeEncrypted(CreateEncryptedKey(network[name], point.value,
                    DerivationContext(canister, context), input, rho)))
        ELSE CallFailed
=============================================================================
