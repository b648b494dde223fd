------------------------- MODULE KeyManagerMoProofs -------------------------
(***************************************************************************)
(* Proofs about the Motoko KeyManager, for any users, keys and type T of   *)
(* access rights: its arrays have no duplicates and agree, and it takes    *)
(* the steps of the Rust KeyManager.                                       *)
(***************************************************************************)
EXTENDS KeyManagerMo, WellFoundedInduction, TLAPS

LEMMA LeastNat ==
  ASSUME NEW T, T \subseteq Nat, T # {}
  PROVE  \E n \in T : \A m \in T : n <= m
<1> DEFINE R == {ss \in Nat \X Nat : ss[1] < ss[2]}
<1>1. IsWellFoundedOn(R, Nat)
  BY NatLessThanWellFounded DEF OpToRel
<1>2. \E x \in T : \A y \in T : ~ (<<y, x>> \in R)
  <2> HIDE DEF R
  <2> QED BY <1>1, WFMin
<1>3. PICK n \in T : \A y \in T : ~ (<<y, n>> \in R)
  BY <1>2
<1>4. \A m \in T : ~ (m < n)
  BY <1>3
<1> QED
  BY <1>4

KeptUpTo(s, keep, G, n) ==
    IF n = 0 THEN << >>
    ELSE IF s[n] \in keep THEN Append(G[n - 1], s[n]) ELSE G[n - 1]

Computes(s, keep, n, G) == G = [i \in 0 .. n |-> KeptUpTo(s, keep, G, i)]

LEMMA RunExists ==
  ASSUME NEW s, NEW keep, NEW m \in Nat
  PROVE  \E G : Computes(s, keep, m, G)
<1> DEFINE T == {n \in Nat : ~ \E G : Computes(s, keep, n, G)}
<1>1. SUFFICES ASSUME T # {} PROVE FALSE
    OBVIOUS
<1>2. PICK n \in T : \A k \in T : n <= k
  <2> T \subseteq Nat OBVIOUS
  <2> HIDE DEF T
  <2> QED
    BY <1>1, LeastNat
<1>3. n \in Nat /\ ~ \E G : Computes(s, keep, n, G)
  OBVIOUS
<1>4. n # 0
  <2> DEFINE G == [i \in 0 .. 0 |-> << >>]
  <2>1. Computes(s, keep, 0, G) BY DEF Computes, KeptUpTo
  <2> QED BY <2>1, <1>3
<1>5. n - 1 \in Nat /\ n - 1 \notin T
  <2> n - 1 \in Nat BY <1>3, <1>4
  <2> ~ (n <= n - 1) BY <1>3
  <2> HIDE DEF T
  <2> QED BY <1>2
<1>6. PICK G : Computes(s, keep, n - 1, G)
  BY <1>5
<1> DEFINE H == [i \in 0 .. n |-> IF i = n THEN KeptUpTo(s, keep, G, n) ELSE G[i]]
<1>7. Computes(s, keep, n, H)
  <2>1. \A i \in 0 .. n - 1 : G[i] = KeptUpTo(s, keep, G, i)
    BY <1>6, <1>3, <1>4 DEF Computes, KeptUpTo
  <2>2. \A i \in 0 .. n : H[i] = KeptUpTo(s, keep, G, i)
    BY <2>1, <1>3, <1>4
  <2>3. \A i \in 0 .. n : i # 0 => i - 1 \in 0 .. n /\ H[i - 1] = G[i - 1]
    BY <1>3, <1>4
  <2>4. \A i \in 0 .. n : H[i] = KeptUpTo(s, keep, H, i)
    <3> HIDE DEF H
    <3> QED
    BY <2>2, <2>3, <1>3, <1>4 DEF KeptUpTo
  <2>5. H = [i \in 0 .. n |-> KeptUpTo(s, keep, H, i)]
    <3>1. H = [i \in 0 .. n |-> H[i]] OBVIOUS
    <3> HIDE DEF H
    <3> QED BY <3>1, <2>4
  <2> HIDE DEF H
  <2> QED
    BY <2>5 DEF Computes, KeptUpTo
<1> QED
  BY <1>7, <1>3

LEMMA KeptDef ==
  ASSUME NEW s, NEW keep, Len(s) \in Nat
  PROVE  \E G : /\ \A i \in 0 .. Len(s) : G[i] = KeptUpTo(s, keep, G, i)
                /\ Kept(s, keep) = G[Len(s)]
<1> DEFINE C == CHOOSE G : G = [n \in 0 .. Len(s) |-> IF n = 0 THEN << >>
            ELSE IF s[n] \in keep THEN Append(G[n - 1], s[n]) ELSE G[n - 1]]
<1>1. \E G : G = [n \in 0 .. Len(s) |-> IF n = 0 THEN << >>
            ELSE IF s[n] \in keep THEN Append(G[n - 1], s[n]) ELSE G[n - 1]]
  <2>1. PICK G : Computes(s, keep, Len(s), G)
    BY RunExists
  <2> QED
    BY <2>1 DEF Computes, KeptUpTo
<1>2. Computes(s, keep, Len(s), C)
  BY <1>1 DEF Computes, KeptUpTo
<1>3. Kept(s,keep) = C[Len(s)]
  BY DEF Kept
<1> HIDE DEF C
<1> QED BY <1>2, <1>3 DEF Computes, KeptUpTo

LEMMA Appended ==
  ASSUME NEW S, NEW s \in Seq(S), NEW e \in S
  PROVE  /\ Append(s, e) \in Seq(S)
         /\ Range(Append(s, e)) = Range(s) \cup {e}
         /\ IsInjective(s) /\ e \notin Range(s) => IsInjective(Append(s, e))
<1> DEFINE t == Append(s, e)
<1>1. /\ t \in Seq(S) /\ DOMAIN t = 1 .. Len(s) + 1
      /\ Len(s) \in Nat /\ DOMAIN s = 1 .. Len(s)
      /\ \A i \in 1 .. Len(s) : t[i] = s[i]
      /\ t[Len(s) + 1] = e
  OBVIOUS
<1> HIDE DEF t
<1>2. Range(t) = Range(s) \cup {e}
  BY <1>1 DEF Range
<1>3. ASSUME IsInjective(s), e \notin Range(s) PROVE IsInjective(t)
  BY <1>1, <1>3 DEF Range, IsInjective
<1> QED
  BY <1>1, <1>2, <1>3 DEF t

LEMMA KeptFacts ==
  ASSUME NEW S, NEW s \in Seq(S), NEW keep
  PROVE  /\ Kept(s, keep) \in Seq(S)
         /\ Range(Kept(s, keep)) = Range(s) \cap keep
         /\ IsInjective(s) => IsInjective(Kept(s, keep))
<1>1. Len(s) \in Nat /\ DOMAIN s = 1 .. Len(s) /\ \A i \in 1 .. Len(s) : s[i] \in S
  OBVIOUS
<1>2. PICK G : /\ \A i \in 0 .. Len(s) : G[i] = KeptUpTo(s, keep, G, i)
               /\ Kept(s, keep) = G[Len(s)]
  BY KeptDef, <1>1
<1> DEFINE Good(i) == /\ G[i] \in Seq(S)
                      /\ Range(G[i]) = {s[j] : j \in 1 .. i} \cap keep
                      /\ IsInjective(s) => IsInjective(G[i])
           T == {i \in 0 .. Len(s) : ~ Good(i)}
<1>3. SUFFICES ASSUME T # {} PROVE FALSE
  <2>1. Range(s) = {s[j] : j \in 1 .. Len(s)}
    BY <1>1 DEF Range
  <2>2. Good(Len(s))
    <3> HIDE DEF Good
    <3> QED
      BY <1>1, <1>3
  <2> QED
    BY <2>1, <2>2, <1>2
<1>4. PICK n \in T : \A k \in T : n <= k
  <2> T \subseteq Nat OBVIOUS
  <2> HIDE DEF T
  <2> QED
    BY <1>3, LeastNat
<1>5. n \in 0 .. Len(s) /\ ~ Good(n)
  OBVIOUS
<1>6. CASE n = 0
  <2>1. G[0] = << >>
    BY <1>1, <1>2 DEF KeptUpTo
  <2>2. Good(0)
    BY <2>1 DEF Range, IsInjective
  <2> QED BY <2>2, <1>5, <1>6
<1>7. CASE n # 0
  <2>1. n - 1 \in 0 .. Len(s) /\ n - 1 \notin T
    <3> n - 1 \in 0 .. Len(s) /\ ~ (n <= n - 1) BY <1>1, <1>5, <1>7
    <3> HIDE DEF T
    <3> QED BY <1>4
  <2>2. Good(n - 1)
    BY <2>1
  <2>3. s[n] \in S /\ n \in 1 .. Len(s)
    BY <1>1, <1>5, <1>7
  <2>4. {s[j] : j \in 1 .. n} = {s[j] : j \in 1 .. n - 1} \cup {s[n]}
    <3> 1 .. n = (1 .. n - 1) \cup {n}
      BY <2>3
    <3> QED OBVIOUS
  <2>5. CASE s[n] \in keep
    <3>1. G[n] = Append(G[n - 1], s[n])
      BY <1>2, <1>5, <1>7, <2>5 DEF KeptUpTo
    <3>2. IsInjective(s) => s[n] \notin Range(G[n - 1])
      BY <2>2, <2>3, <1>1 DEF IsInjective
    <3>3. Good(n)
      BY <3>1, <3>2, <2>2, <2>3, <2>4, <2>5, Appended
    <3> QED BY <3>3, <1>5
  <2>6. CASE s[n] \notin keep
    <3>1. G[n] = G[n - 1]
      BY <1>2, <1>5, <1>7, <2>6 DEF KeptUpTo
    <3>2. Good(n)
      BY <3>1, <2>2, <2>4, <2>6
    <3> QED BY <3>2, <1>5
  <2> QED BY <2>5, <2>6
<1> QED
  BY <1>6, <1>7

LEMMA Reversed ==
  ASSUME NEW S, NEW s \in Seq(S)
  PROVE  /\ Reverse(s) \in Seq(S)
         /\ Range(Reverse(s)) = Range(s)
         /\ IsInjective(s) => IsInjective(Reverse(s))
<1>1. Len(s) \in Nat /\ DOMAIN s = 1 .. Len(s) /\ \A i \in 1 .. Len(s) : s[i] \in S
  OBVIOUS
<1>2. /\ Reverse(s) \in Seq(S) /\ DOMAIN Reverse(s) = 1 .. Len(s)
      /\ \A i \in 1 .. Len(s) : Reverse(s)[i] = s[Len(s) - i + 1]
  BY <1>1 DEF Reverse
<1>3. \A i \in 1 .. Len(s) : Len(s) - i + 1 \in 1 .. Len(s) /\ Reverse(s)[Len(s) - i + 1] = s[i]
  BY <1>1, <1>2
<1>4. Range(Reverse(s)) = Range(s)
  <2>1. Range(s) = {s[i] : i \in 1 .. Len(s)}
    BY <1>1 DEF Range
  <2>2. Range(Reverse(s)) = {Reverse(s)[i] : i \in 1 .. Len(s)}
    BY <1>2 DEF Range
  <2>3. \A i \in 1 .. Len(s) : Reverse(s)[i] \in Range(s) /\ s[i] \in Range(Reverse(s))
    <3> HIDE DEF Range
    <3> QED
      BY <2>1, <2>2, <1>2, <1>3
  <2> QED
    BY <2>1, <2>2, <2>3
<1>5. ASSUME IsInjective(s) PROVE IsInjective(Reverse(s))
  BY <1>1, <1>2, <1>5 DEF IsInjective
<1> QED
  BY <1>2, <1>4, <1>5

-----------------------------------------------------------------------------
(* The arrays of entries.                                                  *)

(* What find returns from an array of entries. *)
Look(entries, k) ==
    IF Positions(entries, k) = {} THEN None
    ELSE entries[FirstPosition(entries, k)][2]

(* At most one entry for each key. *)
OneEach(entries) ==
    /\ IsInjective(entries)
    /\ \A d, e \in Range(entries) : d[1] = e[1] => d = e

LEMMA FirstPositionIsOne ==
  ASSUME NEW entries \in Seq(KeyId \X Rights), NEW k, Positions(entries, k) # {}
  PROVE  /\ FirstPosition(entries, k) \in DOMAIN entries
         /\ entries[FirstPosition(entries, k)][1] = k
<1>1. Positions(entries, k) \subseteq Nat
  BY DEF Positions
<1>2. \E i \in Positions(entries, k) : \A j \in Positions(entries, k) : i <= j
  BY <1>1, LeastNat
<1>3. FirstPosition(entries, k) \in Positions(entries, k)
  BY <1>2 DEF FirstPosition
<1> QED
  BY <1>3 DEF Positions

(* What is found is in an entry for the key, and the only such one. *)
LEMMA LookFinds ==
  ASSUME NEW entries \in Seq(KeyId \X Rights), OneEach(entries), NEW k \in KeyId
  PROVE  /\ Look(entries, k) = None => \A e \in Range(entries) : e[1] # k
         /\ Look(entries, k) # None => <<k, Look(entries, k)>> \in Range(entries)
         /\ \A r : <<k, r>> \in Range(entries) => Look(entries, k) = r
         /\ Look(entries, k) \in MaybeRights
<1>1. /\ Range(entries) = {entries[i] : i \in DOMAIN entries}
      /\ Range(entries) \subseteq KeyId \X Rights
  BY DEF Range
<1>2. CASE Positions(entries, k) = {}
  <2>1. Look(entries, k) = None
    BY <1>2 DEF Look
  <2>2. \A e \in Range(entries) : e[1] # k
    BY <1>1, <1>2 DEF Positions
  <2> QED
    BY <2>1, <2>2 DEF MaybeRights
<1>3. CASE Positions(entries, k) # {}
  <2> DEFINE e == entries[FirstPosition(entries, k)]
  <2>1. e \in Range(entries) /\ e[1] = k
    BY <1>1, <1>3, FirstPositionIsOne
  <2>2. Look(entries, k) = e[2]
    BY <1>3 DEF Look
  <2> HIDE DEF e
  <2>3. e \in KeyId \X Rights /\ e = <<k, e[2]>>
    BY <1>1, <2>1
  <2>4. \A r : <<k, r>> \in Range(entries) => r = e[2]
    BY <2>1, <2>3 DEF OneEach
  <2> QED
    BY <2>1, <2>2, <2>3, <2>4, RightsAssumption DEF MaybeRights
<1> QED
  BY <1>2, <1>3

(* An update puts the one entry for the key in the place of the old one.   *)
LEMMA EntryPut ==
  ASSUME NEW entries \in Seq(KeyId \X Rights), OneEach(entries),
         NEW k \in KeyId, NEW r \in Rights
  PROVE  /\ WithEntry(entries, k, r) \in Seq(KeyId \X Rights)
         /\ OneEach(WithEntry(entries, k, r))
         /\ Range(WithEntry(entries, k, r))
               = {e \in Range(entries) : e[1] # k} \cup {<<k, r>>}
<1> DEFINE w == WithEntry(entries, k, r)
<1>1. /\ Len(entries) \in Nat /\ DOMAIN entries = 1 .. Len(entries)
      /\ Range(entries) = {entries[i] : i \in DOMAIN entries}
      /\ Range(entries) \subseteq KeyId \X Rights
  BY DEF Range
<1>2. CASE Positions(entries, k) = {}
  <2>1. w = Append(entries, <<k, r>>)
    BY <1>2 DEF WithEntry
  <2>2. \A e \in Range(entries) : e[1] # k
    BY <1>1, <1>2 DEF Positions
  <2>3. <<k, r>> \notin Range(entries)
    BY <2>2
  <2>4. /\ w \in Seq(KeyId \X Rights)
        /\ IsInjective(w)
        /\ Range(w) = Range(entries) \cup {<<k, r>>}
    BY <2>1, <2>3, Appended, <<k, r>> \in KeyId \X Rights DEF OneEach
  <2> QED
    BY <2>2, <2>4 DEF OneEach
<1>3. CASE Positions(entries, k) # {}
  <2> DEFINE f == FirstPosition(entries, k)
  <2>1. f \in 1 .. Len(entries) /\ entries[f][1] = k
    BY <1>1, <1>3, FirstPositionIsOne
  <2>2. w = [entries EXCEPT ![f] = <<k, r>>]
    BY <1>3 DEF WithEntry
  <2> HIDE DEF f
  <2>3. /\ w \in Seq(KeyId \X Rights) /\ DOMAIN w = 1 .. Len(entries)
        /\ w[f] = <<k, r>>
        /\ \A i \in 1 .. Len(entries) : i # f => w[i] = entries[i]
    BY <2>1, <2>2
  <2> HIDE DEF w
  <2>4. \A i \in 1 .. Len(entries) : i # f => entries[i][1] # k
    <3> SUFFICES ASSUME NEW i \in 1 .. Len(entries), i # f, entries[i][1] = k
                 PROVE  FALSE
      OBVIOUS
    <3>1. entries[i] = entries[f]
      BY <1>1, <2>1 DEF OneEach
    <3> QED
      BY <1>1, <2>1, <3>1 DEF OneEach, IsInjective
  <2>5. Range(w) = {w[i] : i \in 1 .. Len(entries)}
    BY <2>3 DEF Range
  <2>6. Range(w) = {e \in Range(entries) : e[1] # k} \cup {<<k, r>>}
    <3> DEFINE others == {e \in Range(entries) : e[1] # k}
    <3>1. \A i \in 1 .. Len(entries) : w[i] \in others \cup {<<k, r>>}
      BY <1>1, <2>3, <2>4
    <3>2. <<k, r>> \in Range(w)
      BY <2>1, <2>3, <2>5
    <3>3. ASSUME NEW e \in others PROVE e \in Range(w)
      <4>1. PICK i \in 1 .. Len(entries) : e = entries[i]
        BY <1>1
      <4>2. i # f /\ w[i] = e
        BY <2>1, <2>3, <4>1
      <4> QED
        BY <2>5, <4>2
    <3>4. Range(w) = others \cup {<<k, r>>}
      <4> HIDE DEF others
      <4>1. \A e \in Range(w) : e \in others \cup {<<k, r>>}
        BY <2>5, <3>1
      <4> QED
        BY <3>2, <3>3, <4>1
    <3> QED
      BY <3>4
  <2>7. IsInjective(w)
    BY <1>1, <2>1, <2>3, <2>4 DEF OneEach, IsInjective
  <2>8. OneEach(w)
    BY <2>6, <2>7 DEF OneEach
  <2> QED
    BY <2>3, <2>6, <2>8 DEF w
<1> QED
  BY <1>2, <1>3

(* A removal takes the entry for the key and leaves the others.            *)
LEMMA EntryTaken ==
  ASSUME NEW entries \in Seq(KeyId \X Rights), OneEach(entries), NEW k \in KeyId
  PROVE  /\ WithoutEntry(entries, k) \in Seq(KeyId \X Rights)
         /\ OneEach(WithoutEntry(entries, k))
         /\ Range(WithoutEntry(entries, k)) = {e \in Range(entries) : e[1] # k}
<1> DEFINE kept == Kept(entries, {e \in Range(entries) : e[1] # k})
<1>1. /\ kept \in Seq(KeyId \X Rights) /\ IsInjective(kept)
      /\ Range(kept) = {e \in Range(entries) : e[1] # k}
  BY KeptFacts DEF OneEach
<1>2. WithoutEntry(entries, k) = Reverse(kept)
  BY DEF WithoutEntry
<1> HIDE DEF kept
<1> QED
  BY <1>1, <1>2, Reversed DEF OneEach

(* The same of the arrays of users. *)
LEMMA UserPut ==
  ASSUME NEW users \in Seq(Principal), IsInjective(users), NEW user \in Principal
  PROVE  /\ WithUser(users, user) \in Seq(Principal)
         /\ IsInjective(WithUser(users, user))
         /\ Range(WithUser(users, user)) = Range(users) \cup {user}
BY Appended DEF WithUser

LEMMA UserTaken ==
  ASSUME NEW users \in Seq(Principal), IsInjective(users), NEW user \in Principal
  PROVE  /\ WithoutUser(users, user) \in Seq(Principal)
         /\ IsInjective(WithoutUser(users, user))
         /\ Range(WithoutUser(users, user)) = Range(users) \ {user}
BY KeptFacts DEF WithoutUser

-----------------------------------------------------------------------------
(* The state.                                                              *)

(* The inductive invariant: the state is typed, nothing is in an array     *)
(* twice, and the arrays of users and those of keys tell the same story.   *)
(* The last part says what a removal from one relies on in the other.      *)
IInv ==
    /\ accessControl \in [Principal -> Seq(KeyId \X Rights)]
    /\ sharedKeys \in [KeyId -> Seq(Principal)]
    /\ \A u \in Principal : OneEach(accessControl[u])
    /\ \A k \in KeyId : IsInjective(sharedKeys[k])
    /\ \A u \in Principal, k \in KeyId :
          Find(u, k) # None <=> u \in Range(sharedKeys[k])

LEMMA FindLooks ==
  ASSUME NEW u, NEW k
  PROVE  /\ Find(u, k) = Look(accessControl[u], k)
         /\ Find(u, k)' = Look(accessControl'[u], k)
BY DEF Find, Look

LEMMA FindTyped ==
  ASSUME IInv, NEW u \in Principal, NEW k \in KeyId
  PROVE  Find(u, k) \in MaybeRights
<1>1. accessControl[u] \in Seq(KeyId \X Rights) /\ OneEach(accessControl[u])
  BY DEF IInv
<1>2. Look(accessControl[u], k) \in MaybeRights
  BY <1>1, LookFinds
<1> QED
  BY <1>2, FindLooks

(* An update of one user's rights to one key changes what find returns for *)
(* these two, and for no others.                                           *)
LEMMA PutStep ==
  ASSUME IInv, NEW user \in Principal, NEW k \in KeyId, NEW r \in Rights,
         sharedKeys' = [sharedKeys EXCEPT ![k] = WithUser(@, user)],
         accessControl' = [accessControl EXCEPT ![user] = WithEntry(@, k, r)]
  PROVE  /\ IInv'
         /\ Entries' = [Entries EXCEPT ![<<user, k>>] = r]
         /\ Pairs' = Pairs \cup {<<k, user>>}
<1>1. /\ accessControl' \in [Principal -> Seq(KeyId \X Rights)]
      /\ \A u \in Principal : OneEach(accessControl'[u])
      /\ \A u \in Principal : u # user => accessControl'[u] = accessControl[u]
      /\ Range(accessControl'[user])
            = {e \in Range(accessControl[user]) : e[1] # k} \cup {<<k, r>>}
  BY EntryPut DEF IInv
<1>2. /\ sharedKeys' \in [KeyId -> Seq(Principal)]
      /\ \A j \in KeyId : IsInjective(sharedKeys'[j])
      /\ \A j \in KeyId : j # k => sharedKeys'[j] = sharedKeys[j]
      /\ Range(sharedKeys'[k]) = Range(sharedKeys[k]) \cup {user}
  BY UserPut DEF IInv
<1>3. ASSUME NEW u \in Principal, NEW j \in KeyId
      PROVE  Find(u, j)' = IF u = user /\ j = k THEN r ELSE Find(u, j)
  <2>1. CASE u # user
    BY <1>1, <2>1, FindLooks
  <2>2. CASE u = user /\ j = k
    <3>1. accessControl'[user] \in Seq(KeyId \X Rights) /\ OneEach(accessControl'[user])
      BY <1>1
    <3>2. Look(accessControl'[user], k) = r
      BY <1>1, <3>1, LookFinds
    <3> QED
      BY <2>2, <3>2, FindLooks
  <2>3. CASE u = user /\ j # k
    <3> DEFINE old == accessControl[user]
               new == accessControl'[user]
    <3>1. /\ old \in Seq(KeyId \X Rights) /\ OneEach(old)
          /\ new \in Seq(KeyId \X Rights) /\ OneEach(new)
      BY <1>1 DEF IInv
    <3>2. Range(new) = {e \in Range(old) : e[1] # k} \cup {<<k, r>>}
      BY <1>1
    <3> HIDE DEF old, new
    <3>3. Look(new, j) = Look(old, j)
      <4>1. CASE Look(old, j) = None
        <5>1. \A e \in Range(new) : e[1] # j
          BY <2>3, <3>1, <3>2, <4>1, LookFinds
        <5>2. ~ (<<j, Look(new, j)>> \in Range(new))
          BY <5>1
        <5> QED
          BY <3>1, <4>1, <5>2, LookFinds
      <4>2. CASE Look(old, j) # None
        <5>1. <<j, Look(old, j)>> \in Range(old)
          BY <3>1, <4>2, LookFinds
        <5>2. <<j, Look(old, j)>> \in Range(new)
          BY <2>3, <3>2, <5>1
        <5> QED
          BY <3>1, <5>2, LookFinds
      <4> QED
        BY <4>1, <4>2
    <3> QED
      BY <2>3, <3>3, FindLooks DEF old, new
  <2> QED
    BY <2>1, <2>2, <2>3
<1>4. r # None
  BY RightsAssumption
<1>5. IInv'
  <2>1. \A u \in Principal, j \in KeyId :
           Find(u, j)' # None <=> u \in Range(sharedKeys'[j])
    BY <1>2, <1>3, <1>4 DEF IInv
  <2> QED
    BY <1>1, <1>2, <2>1 DEF IInv
<1>6. Entries' = [Entries EXCEPT ![<<user, k>>] = r]
  <2>1. \A e \in Principal \X KeyId :
           Entries'[e] = IF e = <<user, k>> THEN r ELSE Entries[e]
    BY <1>3 DEF Entries
  <2>2. /\ Entries = [e \in Principal \X KeyId |-> Entries[e]]
        /\ Entries' = [e \in Principal \X KeyId |-> Entries'[e]]
    BY DEF Entries
  <2> HIDE DEF Entries
  <2> QED
    BY <2>1, <2>2
<1>7. Pairs' = Pairs \cup {<<k, user>>}
  BY <1>2 DEF Pairs
<1> QED
  BY <1>5, <1>6, <1>7

LEMMA TakeStep ==
  ASSUME IInv, NEW user \in Principal, NEW k \in KeyId,
         sharedKeys' = [sharedKeys EXCEPT ![k] = WithoutUser(@, user)],
         accessControl' = [accessControl EXCEPT ![user] = WithoutEntry(@, k)]
  PROVE  /\ IInv'
         /\ Entries' = [Entries EXCEPT ![<<user, k>>] = None]
         /\ Pairs' = Pairs \ {<<k, user>>}
<1>1. /\ accessControl' \in [Principal -> Seq(KeyId \X Rights)]
      /\ \A u \in Principal : OneEach(accessControl'[u])
      /\ \A u \in Principal : u # user => accessControl'[u] = accessControl[u]
      /\ Range(accessControl'[user]) = {e \in Range(accessControl[user]) : e[1] # k}
  BY EntryTaken DEF IInv
<1>2. /\ sharedKeys' \in [KeyId -> Seq(Principal)]
      /\ \A j \in KeyId : IsInjective(sharedKeys'[j])
      /\ \A j \in KeyId : j # k => sharedKeys'[j] = sharedKeys[j]
      /\ Range(sharedKeys'[k]) = Range(sharedKeys[k]) \ {user}
  BY UserTaken DEF IInv
<1>3. ASSUME NEW u \in Principal, NEW j \in KeyId
      PROVE  Find(u, j)' = IF u = user /\ j = k THEN None ELSE Find(u, j)
  <2>1. CASE u # user
    BY <1>1, <2>1, FindLooks
  <2>2. CASE u = user
    <3> DEFINE old == accessControl[user]
               new == accessControl'[user]
    <3>1. /\ old \in Seq(KeyId \X Rights) /\ OneEach(old)
          /\ new \in Seq(KeyId \X Rights) /\ OneEach(new)
      BY <1>1 DEF IInv
    <3>2. Range(new) = {e \in Range(old) : e[1] # k}
      BY <1>1
    <3> HIDE DEF old, new
    <3>3. Look(new, j) = IF j = k THEN None ELSE Look(old, j)
      <4>1. CASE j = k \/ Look(old, j) = None
        <5>1. \A e \in Range(new) : e[1] # j
          BY <3>1, <3>2, <4>1, LookFinds
        <5>2. ~ (<<j, Look(new, j)>> \in Range(new))
          BY <5>1
        <5> QED
          BY <3>1, <4>1, <5>2, LookFinds
      <4>2. CASE j # k /\ Look(old, j) # None
        <5>1. <<j, Look(old, j)>> \in Range(old)
          BY <3>1, <4>2, LookFinds
        <5>2. <<j, Look(old, j)>> \in Range(new)
          BY <4>2, <3>2, <5>1
        <5> QED
          BY <3>1, <4>2, <5>2, LookFinds
      <4> QED
        BY <4>1, <4>2
    <3> QED
      BY <2>2, <3>3, FindLooks DEF old, new
  <2> QED
    BY <2>1, <2>2
<1>4. IInv'
  <2>1. \A u \in Principal, j \in KeyId :
           Find(u, j)' # None <=> u \in Range(sharedKeys'[j])
    BY <1>2, <1>3 DEF IInv
  <2> QED
    BY <1>1, <1>2, <2>1 DEF IInv
<1>5. Entries' = [Entries EXCEPT ![<<user, k>>] = None]
  <2>1. \A e \in Principal \X KeyId :
           Entries'[e] = IF e = <<user, k>> THEN None ELSE Entries[e]
    BY <1>3 DEF Entries
  <2>2. /\ Entries = [e \in Principal \X KeyId |-> Entries[e]]
        /\ Entries' = [e \in Principal \X KeyId |-> Entries'[e]]
    BY DEF Entries
  <2> HIDE DEF Entries
  <2> QED
    BY <2>1, <2>2
<1>6. Pairs' = Pairs \ {<<k, user>>}
  BY <1>2 DEF Pairs
<1> QED
  BY <1>4, <1>5, <1>6

(* The guards are those of the Rust key manager in the same state. *)
LEMMA SameGuard ==
  ASSUME NEW u \in Principal, NEW k \in KeyId, NEW allowing
  PROVE  EnsureUser(u, k, allowing) = Rust!EnsureUser(u, k, allowing)
<1>1. Entries[<<u, k>>] = Find(u, k)
  BY DEF Entries
<1> QED
  BY <1>1 DEF EnsureUser, Rust!EnsureUser, Owner, Rust!Owner, Ok, Rust!Ok, Err, Rust!Err

LEMMA SameGuards ==
  ASSUME NEW u \in Principal, NEW k \in KeyId
  PROVE  /\ EnsureUserCanRead(u, k) = Rust!EnsureUserCanRead(u, k)
         /\ EnsureUserCanGetUserRights(u, k) = Rust!EnsureUserCanGetUserRights(u, k)
         /\ EnsureUserCanSetUserRights(u, k) = Rust!EnsureUserCanSetUserRights(u, k)
BY SameGuard DEF EnsureUserCanRead, Rust!EnsureUserCanRead,
       EnsureUserCanGetUserRights, Rust!EnsureUserCanGetUserRights,
       EnsureUserCanSetUserRights, Rust!EnsureUserCanSetUserRights

(* Every step is one of the Rust key manager's and keeps the invariant. *)
LEMMA RustStep ==
  ASSUME IInv, Next
  PROVE  IInv' /\ Rust!Next
<1>1. PICK caller \in Principal, user \in Principal, k \in KeyId :
         \/ \E r \in Rights : SetUserRights(caller, k, user, r)
         \/ RemoveUserRights(caller, k, user)
         \/ \E op \in {"set", "remove"} : Unauthorized(op, caller, k, user)
         \/ \E op \in {"set", "remove"} : OwnersRightsFixed(op, caller, k, user)
  BY DEF Next
<1>2. /\ EnsureUserCanSetUserRights(caller, k) = Rust!EnsureUserCanSetUserRights(caller, k)
      /\ Entries[<<user, k>>] = Find(user, k)
  BY SameGuards DEF Entries
<1>3. ASSUME NEW r \in Rights, SetUserRights(caller, k, user, r)
      PROVE  IInv' /\ Rust!SetUserRights(caller, k, user, r)
  <2>1. /\ IInv'
        /\ Entries' = [Entries EXCEPT ![<<user, k>>] = r]
        /\ Pairs' = Pairs \cup {<<k, user>>}
    BY <1>3, PutStep DEF SetUserRights
  <2> QED
    BY <1>2, <1>3, <2>1 DEF SetUserRights, Rust!SetUserRights, IsOk, Rust!IsOk,
         OwnerNamesItself, Rust!OwnerNamesItself, Owner, Rust!Owner, Reply, Rust!Reply,
         Ok, Rust!Ok, Rust!Shared, Rust!Entry
<1>4. ASSUME RemoveUserRights(caller, k, user)
      PROVE  IInv' /\ Rust!RemoveUser(caller, k, user)
  <2>1. /\ IInv'
        /\ Entries' = [Entries EXCEPT ![<<user, k>>] = None]
        /\ Pairs' = Pairs \ {<<k, user>>}
    BY <1>4, TakeStep DEF RemoveUserRights
  <2> QED
    BY <1>2, <1>4, <2>1 DEF RemoveUserRights, Rust!RemoveUser, IsOk, Rust!IsOk,
         OwnerNamesItself, Rust!OwnerNamesItself, Owner, Rust!Owner, Reply, Rust!Reply,
         Ok, Rust!Ok, Rust!Unshared, Rust!Entry, None, Rust!None
<1>5. ASSUME UNCHANGED <<accessControl, sharedKeys>>
      PROVE  IInv' /\ UNCHANGED <<Entries, Pairs>>
  BY <1>5 DEF IInv, Entries, Pairs, Find
<1>6. ASSUME NEW op \in {"set", "remove"}, Unauthorized(op, caller, k, user)
      PROVE  IInv' /\ Rust!Unauthorized(op, caller, k, user)
  BY <1>2, <1>5, <1>6 DEF Unauthorized, Rust!Unauthorized, IsOk, Rust!IsOk, Reply, Rust!Reply
<1>7. ASSUME NEW op \in {"set", "remove"}, OwnersRightsFixed(op, caller, k, user)
      PROVE  IInv' /\ Rust!OwnersRightsFixed(op, caller, k, user)
  BY <1>2, <1>5, <1>7 DEF OwnersRightsFixed, Rust!OwnersRightsFixed, IsOk, Rust!IsOk,
       Reply, Rust!Reply, OwnerNamesItself, Rust!OwnerNamesItself, Owner, Rust!Owner,
       Err, Rust!Err
<1> QED
  BY <1>1, <1>3, <1>4, <1>6, <1>7 DEF Rust!Next

LEMMA Stuttering ==
  ASSUME UNCHANGED vars
  PROVE  UNCHANGED Rust!vars /\ (IInv => IInv')
BY DEF vars, Rust!vars, IInv, Entries, Pairs, Find

LEMMA Initially ==
  ASSUME Init
  PROVE  IInv /\ Rust!Init
<1>1. \A u \in Principal, k \in KeyId : Find(u, k) = None
  BY DEF Init, Find, Positions
<1>2. \A k \in KeyId : Range(sharedKeys[k]) = {}
  BY DEF Init, Range
<1>3. IInv
  BY <1>1, <1>2 DEF Init, IInv, OneEach, IsInjective, Range
<1>4. Entries = [e \in Principal \X KeyId |-> None] /\ Pairs = {}
  BY <1>1, <1>2 DEF Entries, Pairs
<1> QED
  BY <1>3, <1>4 DEF Init, Rust!Init, None, Rust!None, NoCall, Rust!NoCall

LEMMA Invariant == Spec => []IInv
<1>1. IInv /\ [Next]_vars => IInv'
  BY RustStep, Stuttering
<1> QED
  BY Initially, <1>1, PTL DEF Spec

(* The arrays always have the form the searches rely on.                   *)
THEOREM TypeCorrect == Spec => []TypeOK
<1>1. IInv => TypeOK
  BY DEF IInv, TypeOK
<1> QED
  BY Invariant, <1>1, PTL

(* No array has two entries for one key or one user twice, whatever is     *)
(* granted and revoked: the first entry, on which the guards act, is the   *)
(* only one.                                                               *)
THEOREM NothingTwice == Spec => []NoDuplicates
<1>1. IInv => NoDuplicates
  <2> SUFFICES ASSUME IInv PROVE NoDuplicates
    OBVIOUS
  <2>1. ASSUME NEW u \in Principal PROVE IsInjective(GetAccessibleSharedKeyIds(u))
    <3> DEFINE entries == accessControl[u]
               ids == GetAccessibleSharedKeyIds(u)
    <3>1. /\ ids = [i \in DOMAIN entries |-> entries[i][1]]
          /\ OneEach(entries)
      BY DEF IInv, GetAccessibleSharedKeyIds
    <3> HIDE DEF entries, ids
    <3>2. \A i, j \in DOMAIN ids : ids[i] = ids[j] => entries[i] = entries[j]
      BY <3>1 DEF OneEach, Range
    <3>3. IsInjective(ids)
      BY <3>1, <3>2 DEF OneEach, IsInjective
    <3> QED
      BY <3>3 DEF ids
  <2> QED
    BY <2>1 DEF IInv, NoDuplicates
<1> QED
  BY Invariant, <1>1, PTL

(* The Motoko key manager implements the Rust one: it takes the same steps *)
(* and replies to the updates with the same words, for any users, keys and *)
(* access rights.                                                          *)
THEOREM RefinesRust == Spec => ImplementsRust
<1>1. Init => Rust!Init
  BY Initially
<1>2. IInv /\ [Next]_vars => [Rust!Next]_(Rust!vars)
  BY RustStep, Stuttering
<1> QED
  BY Invariant, <1>1, <1>2, PTL DEF Spec, ImplementsRust, Rust!Spec

-----------------------------------------------------------------------------
(* The queries.                                                            *)

LEMMA SameIds ==
  ASSUME IInv, NEW c \in Principal
  PROVE  Range(GetAccessibleSharedKeyIds(c)) = Rust!GetAccessibleSharedKeyIds(c)
<1> DEFINE entries == accessControl[c]
           ids == GetAccessibleSharedKeyIds(c)
<1>1. /\ entries \in Seq(KeyId \X Rights) /\ OneEach(entries)
      /\ ids = [i \in DOMAIN entries |-> entries[i][1]]
      /\ Range(entries) = {entries[i] : i \in DOMAIN entries}
  BY DEF IInv, GetAccessibleSharedKeyIds, Range
<1>2. Rust!GetAccessibleSharedKeyIds(c) = {k \in KeyId : Look(entries, k) # None}
  <2>1. \A k \in KeyId : Entries[<<c, k>>] = Look(entries, k)
    BY FindLooks DEF Entries
  <2> HIDE DEF entries
  <2> QED
    BY <2>1 DEF Rust!GetAccessibleSharedKeyIds, None, Rust!None
<1> HIDE DEF entries, ids
<1>3. Range(ids) = {entries[i][1] : i \in DOMAIN entries}
  BY <1>1 DEF Range
<1>4. ASSUME NEW i \in DOMAIN entries
      PROVE  entries[i][1] \in KeyId /\ Look(entries, entries[i][1]) # None
  <2>1. entries[i] \in KeyId \X Rights /\ entries[i] \in Range(entries)
    BY <1>1
  <2> QED
    BY <1>1, <2>1, LookFinds
<1>5. ASSUME NEW k \in KeyId, Look(entries, k) # None
      PROVE  k \in Range(ids)
  <2>1. <<k, Look(entries, k)>> \in Range(entries)
    BY <1>1, <1>5, LookFinds
  <2>2. PICK i \in DOMAIN entries : entries[i] = <<k, Look(entries, k)>>
    BY <1>1, <2>1
  <2>3. entries[i][1] = k
    BY <2>2
  <2> QED
    BY <1>3, <2>3
<1>6. Range(ids) = {k \in KeyId : Look(entries, k) # None}
  BY <1>3, <1>4, <1>5
<1> QED
  BY <1>2, <1>6 DEF ids

(* What a guard answers. *)
LEMMA GuardAnswers ==
  ASSUME NEW u \in Principal, NEW k \in KeyId, NEW allowing, None \notin allowing
  PROVE  /\ IsOk(EnsureUser(u, k, allowing)) <=> u = Owner(k) \/ Find(u, k) \in allowing
         /\ ~ IsOk(EnsureUser(u, k, allowing)) =>
               EnsureUser(u, k, allowing) = Err("unauthorized")
BY DEF EnsureUser, IsOk, Ok, Err

LEMMA SameRights ==
  ASSUME Rights \subseteq Readers, IInv,
         NEW c \in Principal, NEW k \in KeyId, NEW u \in Principal
  PROVE  GetUserRights(c, k, u) = Rust!GetUserRights(c, k, u)
<1>1. /\ EnsureUserCanGetUserRights(c, k) = Rust!EnsureUserCanGetUserRights(c, k)
      /\ EnsureUserCanRead(u, k) = Rust!EnsureUserCanRead(u, k)
  BY SameGuards
<1>2. Find(u, k) \in Readers \cup {None} /\ None \notin Readers
  BY FindTyped, RightsAssumption DEF MaybeRights
<1>3. IF IsOk(EnsureUserCanRead(u, k))
      THEN EnsureUserCanRead(u, k) = IF u = Owner(k) THEN Ok(OwnerRights) ELSE Ok(Find(u, k))
      ELSE u # Owner(k) /\ Find(u, k) = None
  BY <1>2 DEF EnsureUserCanRead, EnsureUser, IsOk, Ok, Err
<1> QED
  BY <1>1, <1>3 DEF GetUserRights, Rust!GetUserRights, IsOk, Rust!IsOk, Ok, Rust!Ok,
       None, Rust!None

(* The list of a key's users.  Who may not see the rights of others but    *)
(* may read is in the list himself, and so refused there.                  *)
LEMMA SameUsers ==
  ASSUME Rights \subseteq Readers, IInv, NEW c \in Principal, NEW k \in KeyId
  PROVE  SameList(GetSharedUserAccessForKey(c, k), Rust!GetSharedUserAccessForKey(c, k))
<1> DEFINE users == sharedKeys[k]
           answer(i) == GetUserRights(c, k, users[i])
           stops == {i \in DOMAIN users : ~ IsOk(answer(i)) \/ answer(i) = Ok(None)}
           list == GetSharedUserAccessForKey(c, k)
           rust == Rust!GetSharedUserAccessForKey(c, k)
<1>1. users \in Seq(Principal) /\ Range(users) = {users[i] : i \in DOMAIN users}
  BY DEF IInv, Range
<1>2. /\ None \notin Viewers /\ None \notin Readers /\ Viewers \subseteq Readers
      /\ OwnerRights # None
  BY RightsAssumption
<1>3. CASE IsOk(EnsureUserCanGetUserRights(c, k))
  <2>1. IsOk(EnsureUserCanRead(c, k))
    BY <1>2, <1>3, GuardAnswers DEF EnsureUserCanRead, EnsureUserCanGetUserRights
  <2>2. ASSUME NEW u \in Range(users)
        PROVE  /\ u \in Principal
               /\ IsOk(GetUserRights(c, k, u)) /\ GetUserRights(c, k, u) # Ok(None)
               /\ Rust!GetUserRights(c, k, u) = GetUserRights(c, k, u)
    <3>1. u \in Principal /\ Find(u, k) # None
      BY <1>1 DEF IInv
    <3> QED
      BY <1>2, <1>3, <3>1, SameRights DEF GetUserRights, IsOk, Ok
  <2>3. stops = {}
    BY <1>1, <2>2
  <2>4. list = Ok([i \in DOMAIN users |-> <<users[i], answer(i).value>>])
    BY <2>1, <2>3 DEF GetSharedUserAccessForKey
  <2>5. Rust!SharedWith(k) = Range(users)
    BY <1>1 DEF Rust!SharedWith, Pairs
  <2>6. /\ EnsureUserCanGetUserRights(c, k) = Rust!EnsureUserCanGetUserRights(c, k)
        /\ \A u \in Range(users) : Rust!GetUserRights(c, k, u) # Rust!Ok(Rust!None)
    BY <2>2, SameGuards DEF Ok, Rust!Ok, None, Rust!None
  <2>7. rust = Ok({<<u, GetUserRights(c, k, u).value>> : u \in Range(users)})
    <3>1. rust = Rust!Ok({<<u, Rust!GetUserRights(c, k, u).value>> : u \in Range(users)})
      BY <1>3, <2>5, <2>6 DEF Rust!GetSharedUserAccessForKey, IsOk, Rust!IsOk
    <3>2. {<<u, Rust!GetUserRights(c, k, u).value>> : u \in Range(users)}
            = {<<u, GetUserRights(c, k, u).value>> : u \in Range(users)}
      BY <2>2
    <3> QED
      BY <3>1, <3>2 DEF Ok, Rust!Ok
  <2>8. Range([i \in DOMAIN users |-> <<users[i], answer(i).value>>])
          = {<<u, GetUserRights(c, k, u).value>> : u \in Range(users)}
    BY <1>1 DEF Range
  <2> QED
    BY <2>4, <2>7, <2>8 DEF SameList, Ok, IsOk
<1>4. CASE ~ IsOk(EnsureUserCanGetUserRights(c, k))
  <2>1. EnsureUserCanGetUserRights(c, k) = Err("unauthorized")
    BY <1>2, <1>4, GuardAnswers DEF EnsureUserCanGetUserRights
  <2>2. rust = Err("unauthorized")
    BY <1>4, <2>1, SameGuards DEF Rust!GetSharedUserAccessForKey, IsOk, Rust!IsOk
  <2>3. CASE ~ IsOk(EnsureUserCanRead(c, k))
    <3>1. list = Err("unauthorized")
      BY <1>2, <2>3, GuardAnswers DEF EnsureUserCanRead, GetSharedUserAccessForKey
    <3> QED
      BY <2>2, <3>1 DEF SameList, Err, IsOk
  <2>4. CASE IsOk(EnsureUserCanRead(c, k))
    <3>1. \A i : answer(i) = Err("unauthorized")
      BY <1>4, <2>1 DEF GetUserRights
    <3>2. c \in Range(users)
      <4>1. c # Owner(k) /\ Find(c, k) \in Readers
        BY <1>2, <1>4, <2>4, GuardAnswers DEF EnsureUserCanRead, EnsureUserCanGetUserRights
      <4> QED
        BY <1>2, <4>1 DEF IInv
    <3>3. stops # {}
      BY <1>1, <3>1, <3>2 DEF IsOk, Err
    <3>4. list = Err("unauthorized")
      BY <2>4, <3>1, <3>3 DEF GetSharedUserAccessForKey, IsOk, Err
    <3> QED
      BY <2>2, <3>4 DEF SameList, Err, IsOk
  <2> QED
    BY <2>3, <2>4
<1> QED
  BY <1>3, <1>4

(* In the same state both key managers answer every query alike, provided  *)
(* every right of T allows reading, as in the AccessRights enum: the Rust  *)
(* one asks, of a user it is asked about, whether he can read.             *)
THEOREM AnswersAgree ==
  ASSUME Rights \subseteq Readers
  PROVE  Spec => []SameAnswers
<1>1. IInv => SameAnswers
  BY SameIds, SameUsers, SameRights DEF SameAnswers
<1> QED
  BY Invariant, <1>1, PTL
=============================================================================
