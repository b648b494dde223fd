----------------------------- MODULE VetKdInput -----------------------------
(***************************************************************************)
(* The bytes a key id becomes in a request to the vetKD system.  The same  *)
(* bytes give the same key, so no two key ids may have the same.           *)
(***************************************************************************)
EXTENDS VetKeysTypes, Integers, Sequences

CONSTANT PrincipalBytes   \* [Principal -> the bytes of a principal]

Byte == 0 .. 255

(* A principal has at most 29 bytes, so that its length fits into one.     *)
ASSUME PrincipalBytesAssumption ==
    /\ \A p \in Principal : PrincipalBytes[p] \in Seq(Byte) /\ Len(PrincipalBytes[p]) <= 29
    /\ \A p, q \in Principal : PrincipalBytes[p] = PrincipalBytes[q] => p = q

ASSUME KeyNameAssumption == KeyName \subseteq Seq(Byte)

(* Slip (not the code): the parts are put together without the length.     *)
KeyIdToVetKdInputUnmarked(p, name) == PrincipalBytes[p] \o name

(* The length is cast to a byte (as u8; Nat8.fromNat in Motoko).           *)
KeyIdToVetKdInput(p, name) ==
    <<Len(PrincipalBytes[p]) % 256>> \o PrincipalBytes[p] \o name
=============================================================================
