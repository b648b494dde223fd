---------------------------- MODULE VetKeysTypes ----------------------------
(***************************************************************************)
(* The data every component of the library shares: principals, key ids     *)
(* and the AccessControl trait.                                            *)
(*                                                                         *)
(* The library is generic in the type T of access rights; it knows T only  *)
(* through the AccessControl trait.  A value of the trait's operations is  *)
(* given here by the sets of rights they answer true for.  The enum the    *)
(* canisters use for T is in the module AccessRights.                      *)
(***************************************************************************)
EXTENDS Results

CONSTANTS
    Principal,     \* users and canisters: whoever can call
    KeyName,       \* the names of vetKeys, and of encrypted maps
    KeyId,         \* the key ids in use
    Rights,        \* the values of T
    Readers,       \* the rights that allow reading
    Writers,       \* ... writing
    Viewers,       \* ... seeing who has which rights
    Managers,      \* ... granting and revoking rights
    OwnerRights    \* what the trait says of the owner of a key

(* A key id is the principal that owns the key and the key's name; the     *)
(* owner is a part of the id and so never changes.                         *)
ASSUME KeyIdAssumption == KeyId \subseteq Principal \X KeyName

ASSUME RightsAssumption ==
    /\ None \notin Rights
    /\ OwnerRights \in Rights
    /\ Readers \subseteq Rights
    /\ Writers \subseteq Rights
    /\ Viewers \subseteq Rights
    /\ Managers \subseteq Rights

Owner(k) == k[1]

CanRead(r) == r \in Readers
CanWrite(r) == r \in Writers
CanGetUserRights(r) == r \in Viewers
CanSetUserRights(r) == r \in Managers

MaybeRights == Rights \cup {None}

(* What the Ord of principals and of blobs guarantees.                     *)
IsOrder(before, elements) ==
    /\ before \subseteq elements \X elements
    /\ \A a \in elements : <<a, a>> \notin before
    /\ \A a, b \in elements : a = b \/ <<a, b>> \in before \/ <<b, a>> \in before
    /\ \A a, b, c \in elements :
          <<a, b>> \in before /\ <<b, c>> \in before => <<a, c>> \in before
=============================================================================
