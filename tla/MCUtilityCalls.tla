--------------------------- MODULE MCUtilityCalls ---------------------------
(***************************************************************************)
(* Bytes of three bits, groups of order seven, a table of fifteen bits.    *)
(***************************************************************************)
EXTENDS UtilityCalls, FiniteSetsExt, SequencesExt, Bitwise

Octal == 0 .. 7

Weighted(s) == FoldFunctionOnSet(+, 0, [i \in DOMAIN s |-> (2 * i + 1) * (s[i] + 1)], DOMAIN s)

LabelNumber(label) == IF Len(label) = 2 THEN 3 + label[2] ELSE 1

\* Stand-ins for the hash functions; none of the properties relies on them.
SmallHashToG1(s) == 1 + (Weighted(s) % 6)
SmallHashToScalar(s, dst) == (Weighted(s) + (IF dst = "context" THEN 2 ELSE 0)) % 7
SmallRandomScalar(s) == 1 + (Weighted(s) % 6)
SmallHkdf(s, label, n) == [i \in 1 .. n |-> (Weighted(s) + i * LabelNumber(label)) % 8]
SmallShake(s, n) == [i \in 1 .. n |-> (Weighted(s) + 3 * i) % 8]
SmallXor(a, b) == a ^^ b

\* Both networks have the keys of these names; each has one the other has not.
SmallMainnetKey == "key_1" :> 3 @@ "test_key_1" :> 5
SmallPocketIcKey == "key_1" :> 2 @@ "test_key_1" :> 4 @@ "dfx_test_key" :> 6
SmallMainnet == SmallMainnetKey @@ "key_2" :> 1
SmallPocketIc == SmallPocketIcKey

SmallIbeHeader == <<5>>

\* A nonce that begins like the header, and one that does not.
Nonces == {[i \in 1 .. NonceSize |-> <<"nonce", i>>],
           Header \o [i \in 1 .. NonceSize - HeaderSize |-> <<"nonce", i>>]}
NonceBytes == UNION {{n[i] : i \in DOMAIN n} : n \in Nonces}
Plaintexts == {<<>>, <<"a">>}
Associated == {<<>>, <<<<"ad", 1>>>>}

\* Around every boundary of a window of one bit, and some with bits mixed.
Scalars == {s \in {0, 1, SubgroupOrder - 1, 21845, 10922, 30583}
                  \cup UNION {{2 ^ k - 1, 2 ^ k, 2 ^ k + 1} : k \in 1 .. 14} : s < SubgroupOrder}

Inputs == {<<>>, <<3>>}
Seeds == {<<b>> : b \in Octal}

\* Without the length of the owner, <<>> and <<3>> make the same as <<3>> and <<>>.
KeyOwners == {<<>>, <<3>>}
VetkeyNames == {<<>>, <<3>>, <<3, 3>>}
SecretStrings == UNION {[1 .. n -> {0, 1, 6, 7}] : n \in 0 .. 3}
ShortStrings == UNION {[1 .. n -> Octal] : n \in 0 .. 4}
                    \cup {IbeHeader \o s : s \in [1 .. 4 -> Octal]}
                    \cup {s \o <<0>> : s \in {SerializeEncrypted(EncryptedFor(1, 3, <<>>, 2))}}
=============================================================================
