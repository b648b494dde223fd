----------------------- MODULE MCEncryptedMapsCanister -----------------------
(* Values of the constants of EncryptedMapsCanister for TLC.               *)
EXTENDS EncryptedMapsCanister, AccessRights, TLC

CONSTANTS alice, bob

Blob(bytes) == [data |-> bytes \o [i \in 1 .. BlobSize - Len(bytes) |-> 0], size |-> Len(bytes)]

(* Names that begin alike, the last one too long by a byte. *)
Names == {<<7>>, <<7, 0>>, <<7, 0, 0>>}
AskedMaps == {alice} \X Names
TwoMaps == {<<alice, Blob(<<7>>)>>, <<alice, Blob(<<7, 0>>)>>}
Blobs == {Blob(<<7>>), Blob(<<7, 0>>)}

(* The least key there is, and one that is too long.                       *)
Keys == {<<>>, <<7, 0, 0>>}
OneKey == {Blob(<<>>)}

Empty == Blob(<<>>)

(* Blobs are compared by the bytes that are in use.                        *)
BytesBefore(a, b) ==
    \E n \in 0 .. Len(a) :
        /\ n < Len(b) /\ SubSeq(a, 1, n) = SubSeq(b, 1, n)
        /\ n = Len(a) \/ a[n + 1] < b[n + 1]

Strings == {<<>>, <<7>>, <<7, 0>>}
ByBytes ==
    {<<Blob(pair[1]), Blob(pair[2])>> :
        pair \in {p \in Strings \X Strings : BytesBefore(p[1], p[2])}}
AliceFirst == {<<alice, bob>>}

(* TLC evaluates what stands for a constant at each use, and a definition  *)
(* that it names only once.                                                *)
TheBlobs == Blobs
TheMaps == TwoMaps
TheKey == OneKey
TheEmpty == Empty
TheOrder == ByBytes
TheAsked == AskedMaps
TheKeys == Keys

(* The bound: states in which a manager has given the owner rights to both *)
(* of his maps are checked, and not left.                                  *)
Bounded == \E m \in KeyId : access_control[<<Owner(m), m>>] = None

(* Separators are only compared: which one is which does not matter.       *)
Separators == Permutations(Separator)
=============================================================================
