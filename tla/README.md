# vetKeys: a verification development

TLA+ modules, TLC configurations and TLAPS proofs about the vetKeys library: its
key managers and encrypted maps in Rust and Motoko, the canisters around them,
the frontend client, and the cryptographic utilities that carry logic of their
own. Source paths are relative to the repository.

1. [The system](#1-the-system)
2. [The modules](#2-the-modules)
3. [The runs](#3-the-runs)
4. [Fairness](#4-fairness)
5. [The proofs](#5-the-proofs)
6. [Findings](#6-findings)
7. [What is only model-checked, and what is not modelled](#7-limits)
8. [Plan](#8-plan)

## 1. The system

A *vetKey* is a key that a canister obtains from the Internet Computer's vetKD
system for an input of its choice; the reply is encrypted to a transport key of
the user, who decrypts and verifies it. On top of that the repository has:

| component | source | state | operations |
|---|---|---|---|
| Access rights, `AccessControl` | `ic_vetkeys/src/types.rs`, `Types.mo` | none | what each right allows, what the owner has |
| KeyManager | `key_manager/mod.rs`, `KeyManager.mo` | rights by user and key, users by key, configuration | queries and updates of rights; two calls that await vetKD |
| EncryptedMaps | `encrypted_maps/mod.rs`, `EncryptedMaps.mo` | a key manager, values by map and key (and in Motoko an index of the keys of each map) | reading, listing, writing, clearing, rights of a map |
| Canisters | `canisters/*`, `encrypted_maps/canister.rs`, `ControlPlaneCanister.mo`, `Canister.mo` | a stable configuration, an object made anew after an upgrade | install, upgrade, endpoints that decode names |
| EncryptedMaps client | `frontend/.../encrypted_maps/index.ts`, `cache.ts` | the agent's identity, the verification key, a cache of derived key material in memory or in IndexedDB | `getValue`, `setValue`, `removeEncryptedValue`, listings, `removeMapValues`, `clearCache` |
| KeyManager client | `frontend/.../key_manager/index.ts` | none | `getVetkey`, with two awaits; the other methods pass calls on |
| Message encryption | `utils/mod.rs`, `utils.ts` (`DerivedKeyMaterial`) | none | a format with a header, and the older one without |
| vetKeys, IBE, BLS, VRF | `utils/mod.rs`, `utils.ts` | none | transport keys, master and derived public keys, decryption, verification, serialized forms |
| Calls of the management canister | `utils/mod.rs` (`management_canister`) | none | `sign_with_bls`, `bls_public_key`, `compute_vrf` |
| Test utilities | `ic_vetkeys_test_utils` | a master secret | a vetKD system in miniature |
| Table of G2 | `utils/mod.rs` (`G2PrecomputedTable`) | a table | multiplication by windows |

They interact by calls. The client calls the endpoints of an EncryptedMaps
canister; these call EncryptedMaps, which asks its key manager about rights
before it touches a value; the key manager awaits the vetKD system for a key or
a public key. The client takes the key through `decryptAndVerify` and derives
from it the key that encrypts values.

**What is hard.** A canister runs one message at a time, so that the updates of
rights and values are atomic; but each writes two maps in separate statements,
and the queries panic if these disagree. Calls that await vetKD are cut in two,
with other calls between. The client is cut at every `await`: clearing of the
cache, changes of identity, changes of rights and other calls run in between,
and requests are lost; its database outlives the page. An upgrade throws away
the heap of a Rust canister. Names of requests are bytes of any length, those of
the library arrays of 32 bytes and a size. A public key is derived offline in
the library and from the master secret in the vetKD system, and must be the
same. The Motoko code does with arrays what the Rust code does with maps, in
other loops. The utilities parse bytes of anyone by fixed offsets.
`PROJECT.json` lists each of these at its line under `hazards`, with the
properties about it.

**What makes each component correct.**

* KeyManager: whatever the calls, the answers are those of *one* matrix of
  rights in which the owner's row is fixed. The two maps agree; nobody gains
  access but through a manager.
* EncryptedMaps: only writers write, the overview has all that a user can read,
  and it opens without panic.
* Canister: only readers get a key, of the key id they asked for, the same over
  an upgrade; every call is answered. A request reaches what its bytes name, and
  what a listing names can be asked for.
* Client: a text is shown in the place it was written for, to a user who could
  read it; a call that returns returns all; each call settles; databases of two
  identities stay apart.
* Utilities: bytes are accepted exactly when the library or the vetKD system
  made them, and what the system makes arrives.
* Motoko and Rust: the same behaviour.

## 2. The modules

`EXTENDS` and `INSTANCE` between the modules:

    Results
      VetKeysTypes                    constants of every component
        KeySharing                    ABSTRACT: one matrix of rights
        KeyManager                    Rust; implements KeySharing
          KeyManagerProofs
          EncryptedMaps               Rust; contains a KeyManager
            EncryptedMapsCanister     its endpoints and life cycle, both forms
              EncryptedMapsCanisterProofs   proofs of both modules
        KeyManagerMo                  Motoko, with Arrays; implements KeyManager
          KeyManagerMoProofs
        EncryptedMapsMo               Motoko, with Arrays; contains a KeyManagerMo; implements EncryptedMaps
          EncryptedMapsMoProofs       cites KeyManagerMoProofs by INSTANCE
        EncryptedMapsClient           the page, with the canister's endpoints
          EncryptedMapsClientProofs
        VetKdInput                    the bytes of a key id
          KeyManagerCanister          Rust life cycle and asynchronous calls
            KeyManagerCanisterProofs  proofs of both modules
          KeyManagerCanisterMo        Motoko; implements KeyManagerCanister
            KeyManagerCanisterMoProofs
      DerivedKeyMaterial              messages
      VetKd                           vetKeys, transport keys, master keys, IBE, VRF
        VetKdSystem                   the other side: the vetKD system
          ManagementCanister          signatures and VRF outputs of a canister
            KeyManagerClient          the frontend's getVetkey and what it asks
      UtilityCalls                    calls of all of these and of G2PrecomputedTable
        UtilityCallsProofs
    AccessRights                      the enum, given to the constants by the MC modules
    MC*                               values of the constants for TLC

**VetKeysTypes.** The library is generic in the type `T` of rights and knows it
through a trait of five functions. `Rights` is the set of values of `T`, and
`Readers`, `Writers`, `Viewers`, `Managers` are the sets for which the trait
answers true. A theorem about the module therefore holds for each `T`. A key id
is a pair of owner and name, as in the code, so that the owner never changes.
`IsOrder` is what a stable map needs of the order of its keys.

**KeyManager** (`key_manager/mod.rs`). `access_control` is the stable map of
that name as a total function with `None`; `shared_keys` is the set of pairs of
the other one. The four guards are operators, and the queries operators on the
state, so that properties can ask them in every state. Each update is split into
its accepted form and the two refusals, in the order of the code: the guard
first, then whether the owner names itself. `call` is the last update with its
reply. A list is a set here: its order is not modelled.

**KeySharing** is what a caller may rely on. It has no maps, only `matrix`. The
refinement mapping `AnsweredRights` is not a variable of the implementation but
what `get_user_rights` *answers to the owner*, so that the refinement says that
the answers are right and not that a variable is.

**KeyManagerMo** (`KeyManager.mo`). `accessControl` and `sharedKeys` hold arrays
as sequences, searched from the front, replaced in place, rebuilt on removal,
with the loops' order. What a loop keeps of an array is `Kept` of the module
`Arrays`, a recursive function over the positions. `SameAnswers` says that each
query answers as the Rust one would in the state that `ImplementsRust` maps this
state to.

**EncryptedMaps** / **EncryptedMapsMo**. The values and, in Motoko, the index
`mapKeys`, a function on those maps that have an entry. The actions on rights
are the key manager's, as the code delegates them. The Rust maps read and clear
a map, and find a user's own maps, by scans of the B-tree: `From` is `range`,
the entries from a first key on, and `Scan` is `take_while`, those before the
first that is not wanted. The orders of principals and of blobs are constants;
the scans begin with the empty blob, which `OrderAssumption` puts first. That a
scan finds the entries of the map and no others, whatever the order, is proved.

**EncryptedMapsCanister** (`encrypted_maps/canister.rs`, the custom canister's
`lib.rs`). `export_encrypted_maps_canister!` generates a canister in two forms:
`full`, and `custom`, where a canister replaces the endpoints for values by its
own. An endpoint has the code's name and does what the code does in its order:
decode the name of the map, unwrap the object, decode the key, ask the library.
A blob is its array *and* its size, as in the code, so that `<<7>>` and
`<<7, 0>>` differ although the array does not tell them apart. `asked` is what
the last update named and `linked` what the custom form's own inserts reported;
both are for the properties. Installation makes the configuration (key name and
domain separator), an upgrade the object anew: it comes with a separator of its
own and no key name, and takes both from the cell. Asynchronous endpoints answer with the request they send; what
comes back is KeyManagerCanister's.

**EncryptedMapsClient** (`index.ts`, `cache.ts`). `Setup` says how a page is set
up: with one object, its cache in memory and its agent's identity changing
(`persistent` is false), or with an object and an IndexedDB database for each
identity. `task` is the program counter and local variables of each call under
way; an action is the code from one `await` to the next: look into the cache,
derive, fetch the verification key, put into the cache, decrypt the next value.
A request carries the identity of the agent at the time it is sent.
`CanisterCall` does what the endpoint does, and its reply or the request may be
lost; the database may fail. A listing decrypts its values one by one, each with
its own look into the cache. `Reload` drops calls and objects and keeps
databases. Others write what they like: `OthersWrite` puts any ciphertext, of
another place too, or bytes that are none, where they can. A text is identified
with the place it was written for. `mayRead` and `did` are history for the
properties. What the module takes from the utilities is one operator, `Opens`:
a ciphertext opens under the key and data it was made with. The run `utilities`
checks that of `decrypt_message` (`MessagesOpenAsSealed`).

**KeyManagerCanister** (`ic_vetkeys_manager_canister/src/lib.rs`, the
asynchronous functions of `key_manager/mod.rs`). `config_cell` and `readers` are
stable memory, and `key_manager` the thread-local object. The configuration is
the key name and the domain separator; each version of the code passes its own
separator, so that an upgrade may bring another one. It is copied into the
request before the await, and a key depends on both. A call is `sent`,
`waiting` at vetKD, `replied`, `done`. `expect` in the callback is `Trap`. A key
is a function of the request, so that two requests with the same bytes get the
same key. Upgrades wait until no call waits for a reply, which is what stopping
a canister does; `installed` and `delivered` are history.

**KeyManagerCanisterMo** (`Main.mo`, `KeyManager.mo`, `ManagementCanister.mo`,
`ControlPlaneCanister.mo`). The actor's fields are kept by orthogonal
persistence; a call to a function of the object is a message of its own. It
implements the Rust canister, its liveness included.

**VetKdInput.** `key_id_to_vetkd_input`: a length byte, the principal, the name.

**DerivedKeyMaterial** (`encrypt_message`, `decrypt_message`). A message is a
sequence of bytes that tell where they come from, so that cutting and joining
can be told from encrypting. The three sizes are constants, and every comparison
of lengths is the code's.

**VetKd.** The groups have one prime order; a point is its discrete logarithm to
the generator, and the pairing is multiplication. Hash functions, HKDF, SHAKE
and XOR are parameters: no property relies on their values. The forms of points
have constant sizes, and not every string is one, as with compressed points.
Master keys are looked up by name in a table for each network.

**VetKdSystem** (`ic_vetkeys_test_utils`). How the repository's tests simulate
the vetKD system: it adds the offsets of canister and context to its secret and
encrypts the vetKey. The library adds the points of the same offsets to the
master public key; that both arrive at one key is a property, not a definition.

**ManagementCanister** (`management_canister` in `utils/mod.rs`). What a canister
makes of the replies; the replies are parameters, among them a failed call and
one of a wrong length.

**KeyManagerClient** (`key_manager/index.ts`, with what the canister answers,
`lib.rs` and `key_manager/mod.rs`). `GetVetkey` is the client's part, in the
order of the code: the canister's refusal is thrown, the verification key is
parsed, the input is put together from owner and name, the encrypted key is
parsed, decrypted and verified. Its two awaits are two parameters: what came of
the answers of `GetEncryptedVetkey` and `GetVetkeyVerificationKey`, which build
the input on the canister's side.

**G2PrecomputedTable.** The table, the windows and both multiplications, with
shifts that lose bits at the width of a byte. The width of a window is a
parameter: a comment in the code allows 1 to 7, the code uses 4, and its tests
cover that one.

**UtilityCalls** calls the utilities, one at a time, with arguments from sets
that are constants: small ones for TLC, any at all in the proofs. What it asks
of them is in its `ASSUME`s: bytes that a nonce is drawn from are none of a
sealed text, scalars are below the order, and each network has the keys that the
library knows by name; `CallGetVetkey` is `KeyManager.getVetkey` with any transport key, against a
canister that grants or refuses the key; each answer may be altered or lost, and
the configuration may be another when the second call is served. The transport
key from a seed or from storage, and the public key derived offline, are calls
of their own, as `getVetkey` uses neither.

Definitions named as slips in a comment are not the code. Each is a mistake that
the code could have had, kept beside the definition it would replace; the
property it breaks is named in `PROJECT.json` under `mutants`.

## 3. The runs

| run | module | what it shows |
|---|---|---|
| `rust_keys` | MCKeyManager | both maps agree, listings and guards agree, no access without a manager, KeySharing is implemented |
| `motoko_keys` | MCKeyManagerMo | arrays have no second entry for a key, queries answer as in Rust, KeyManager is implemented |
| `rust_maps` | MCEncryptedMapsCanister | the overviews are complete and do not panic, only writers write, a clearing leaves nothing; requests touch what they name, a listed map can be opened, over upgrades and in both forms |
| `motoko_maps` | MCEncryptedMapsMo | the index names the values, queries answer as in Rust, EncryptedMaps is implemented |
| `client_calls` | MCEncryptedMapsClient | two concurrent reads on a page of either kind settle, show a text only to who could read it, and keep databases apart |
| `client_places` | same | one call of any method, two maps of one name, two keys: a text is shown in its place only, and what returns is whole |
| `rust_canister` | MCKeyManagerCanister | two concurrent calls, changes of rights, upgrades, reinstallation: the answers fit, one key id has one key, every call is answered |
| `motoko_canister` | MCKeyManagerCanisterMo | KeyManagerCanister is implemented, with its liveness |
| `utilities` | MCUtilityCalls | messages, encrypted vetKeys, IBE ciphertexts, VRF outputs: accepted exactly when made by the library; `getVetkey` returns the vetKey its canister grants and no other, signatures verify; the table multiplies |
| `owner_listed`, `client_identity`, `old_messages` | | violations: section 6 |

**Bounds, and why they are enough.**

* `rust_keys`: three users and two keys of one name with different owners: an
  owner, a manager and a third are the most that one rule of the code speaks of.
  Two rights, one that reads and one that does all, as only `Managers` is told
  from the others here. `FewShares` stops at three entries in total; TLC still
  checks the first state beyond.
* `motoko_keys`: two keys of one owner, because the arrays are per user and per
  key and an error of position needs two entries in an array. `FewShares` leaves
  one key shared with up to two users and the other with one.
* `rust_maps`: two users and two maps of one of them, `<<7>>` and `<<7, 0>>`, a
  third name that is too long, one key and one too long: blobs of two bytes have
  each relation of the 32 (shorter, filled with zeros, full, too long). One
  value: no code looks into it. Both forms start. `Bounded` does not continue from
  states in which a manager has given the owner rights to both of his maps; these
  are checked. The key in the maps is the empty one, with which a scan begins, and of the two maps one
  comes directly after the other. Two domain separators, which are symmetric
  (they are only compared, and nothing orders them); one key name.
* `motoko_maps`: two keys in a map, since removal from the index depends on the
  order. The Rust side scans in the order of the listing of keys and names.
  `Bounded` does not continue from states in which a user besides the
  owner manages a map, or the second map has two keys; these are checked.
* `client_calls`: two tasks, since each hazard of the client is a race of one
  call with one other or with a change from outside; one map with one key, two
  users who both log in, both setups. The calls are `getValue`: the others take
  the same steps to the key and the cache, and `client_places` runs them all.
* `client_places`: one task and no race; all six methods, two maps of one name
  and two keys in each, so that map and key can each be mistaken and a listing
  has two values. `TwoValues` limits the values in the canister. The keys of a
  map are symmetric (nothing orders them); no property of this run is temporal.
* `rust_canister`: two slots, two key ids whose bytes run together without the
  length byte, a name that is too long, a key name that vetKD does not know, and
  two domain separators, so that an upgrade or reinstallation can change it.
* `motoko_canister`: two slots, one key, its owner and another user, a key name
  that vetKD does not know, two separators. Its messages to itself make more steps of a call.
* `utilities`: sizes of headers, nonces and tags in the order they have in the
  code (header shorter than nonce); messages of zero and one byte, and every
  prefix of one joined to every suffix of another; bytes of three bits, groups
  of order seven, *all* strings of up to four bytes and those of five that begin
  with the header; scalars of 15 bits, which like the 255 of the code leave one
  bit of the last byte unused, around every power of two, for all seven widths;
  two networks that have two key names in common and each one of its own; every
  reply of the vetKD system, the same with a byte too many, and a failed call.
  For `getVetkey` owners and names whose bytes run together without the length
  byte, and a name that is too long (`KeyNameSize` is 1 here, 32 in the code).

Deadlock is checked in each run: all components accept further calls. The
largest run is `client_places`, with 0.9 million states; `rust_canister` has 0.36
million, `utilities` 0.19, `motoko_canister` 76 thousand, `rust_maps` 31 thousand
up to symmetry and `motoko_maps` 6 thousand. Each ends within three minutes on two
workers.

## 4. Fairness

Only two modules state it, each for what its environment guarantees.

* `EncryptedMapsClient`: `WF_vars(TaskStep(t))` for each task. A call that was
  started goes on: a promise settles, and the agent answers or throws.
  `RequestFails` is among the steps of a task, so nothing assumes that a request
  succeeds. `CallsSettle` allows for a reload, after which no call is left.
  Nothing is fair about the user, about other users, about `ClearCache` or
  `Reload`.
* `KeyManagerCanister(Mo)`: `WF_vars(Handle(s))`. The Internet Computer delivers
  the messages it accepted and answers each call, with a rejection if nothing
  else. Callers and operators of the canister have no fairness.

## 5. The proofs

Eight modules; every invariant that the runs check is proved in one of them, and
so is every action property and the safety of every refinement. The constants
are arbitrary: any number of users, maps, keys and concurrent calls, any type `T`
of rights, any size of a blob, a group of any prime order. TLC checked each
statement, and each strengthening, on the small instances first.

**KeyManagerProofs**, about the Rust key manager.

* `TypeCorrect`. The type invariant is inductive. The replies are part of it, as
  the later proofs need to know that a refused call says so.
* `MapsAgree`. `IndexesAgree` with `TypeOK` is inductive: each action changes
  the two maps at one pair or not at all.
* `FirstShare`, `AccessFromManager`. Action properties, from the lemma
  `EntryChange`: an entry changes only in an accepted update that names it, and
  whose caller passed the guard in the state before.
* `SameListings`. From `MapsAgree`: with it the set a listing walks over and the
  entries that the guards read are the same.
* `RefinesKeySharing`. `Answered` shows what the mapping is under `TypeOK`;
  `MatrixStep` that a change of one entry changes one entry of the matrix, or
  none when it is the owner's; then one step for each action.

**EncryptedMapsCanisterProofs**, its first half about the Rust maps with the key
manager they contain. `RightsStep` sums up what the key manager's actions do to
its two maps, so that no proof here looks into them again. `ScanOfMap`, `KeysOfMap`
and `OwnedMaps` are the lemmas about scans: nothing that is stored lies before
the start of a scan and is wanted, and nothing unwanted lies between. They need
of the orders only that nothing comes before itself or before the empty blob;
that the wanted entries lie together is the order of the three parts of a key.
`TypeCorrect` and `MapsAgree` are inductive. `WritersWrite` follows from the
guards, from which places `Stored` and `Cleared` touch, and from the scan, which
finds every key that a clearing has to remove. `CompleteOverview` follows from `TypeOK` in
each state: a map in the list of accessible ones is one whose reading succeeds.
`OverviewLists` needs `MapsAgree` as well.

Its second half is about the canister. `BlobRoundTrip` is the fact about bytes: what
fits comes back as it was, whatever zeros it ends in. From it `MapNamed`: what
is asked for and what the library looks up name each other. The inductive
invariant `CInv` adds to types and agreement of the maps that object and cell
hold the installed key name and separator and that `linked` is in step with the values. The library's
actions keep it by the lemmas above, with requests of any bytes around them.
`CanisterTypeCorrect`, `LinkedInStep`, `CanisterOverviews`, `RequestsReach` and
`ListedOpen` follow.

**KeyManagerCanisterProofs**. `AnswersFitRights` says something of finished
calls only, so that it is not inductive. `IInv` says of each call under way what
will make its answer right: while it is sent, `could` and `lacked` record the
present right; from the check on, that it passed; while it waits, that its
request names the installed key and the input of its key id; when replied, that
the reply is to that request. `DeliveredFits` says the same of what was
delivered, and `VetKdInputInjective` turns it into "one key id, one key; two,
two". `RequestsNameInstalled` gives `ServesInstalledKey`.

**KeyManagerCanisterMoProofs**. `RefinesRust`: each step of the Motoko canister
is one of the Rust canister or a message to itself, which the mapping does not
show. `IInv` says how deep a refusal is and that a returning reply is the one
to the request. It is the safety part of `ImplementsRust`, whose liveness only
the run checks.

**EncryptedMapsClientProofs**. `IInv` has four parts. `StoreFits`: a stored
ciphertext was made for the place in its text, *wherever it lies now*.
`CacheFits`: a handle is cached for its own map, and in a database of its own
identity for the user who derived it. `TasksFit` (`Fits` for each call): the
handle of a call is for the map it wants, values to decrypt and texts already
shown are of maps the user could read, and nothing is lost between them:
`did` is what is shown, what is at hand and what is to do. `PageFits` is the
rest. `TextsInPlace`, `TextsToReaders`, `WholeReturned`, `DatabasesKeptApart` and
`TypeCorrect` follow; there is one lemma for each action.

`VetKdInputInjective`, in KeyManagerCanisterProofs: two key ids have the same
input only if they are equal, for names of any length, because a principal has
at most 29 bytes and its length fits into the byte in front. Without that byte
`DeliveredKeysFit` is violated (the mutant of its run).

**KeyManagerMoProofs**. What a loop over an array leaves is a recursion over its
length. The library's induction rules cannot be used here, so that `RunExists`
and `KeptFacts` argue by the *least* position at which a claim would fail
(`LeastNat`, from well-foundedness of `<`): `Kept` has the elements of the
array that are to be kept, and each once if the array has. `EntryPut`,
`EntryTaken` and their like say what an update does to one array. `IInv` says
that no array has two entries for one key or one user, and that what `find`
returns from a user's array and the users in a key's array tell the same. The
last part is what makes a removal right: the code removes from both arrays
without looking. `PutStep` and `TakeStep` keep it. `NothingTwice` follows, and
`RefinesRust`: find, guards and updates are those of KeyManager on the pairs that
the arrays stand for. `AnswersAgree` adds the listings, which the Motoko code
collects in other loops.

**EncryptedMapsMoProofs** takes all that from KeyManagerMoProofs by an instance
(`KMP`), with the actions on rights shown to be its actions. `IndexInv` is the
part of `IInv` about the index: it has the keys with a value, each once, and no
map without keys. `IndexStep` reduces insertion, removal and clearing to one map;
removal leaves the map out when nothing is kept, as the code does. From it come
`IndexInStep`, `RefinesRust` (the values that removal of a map reports are those
that the index leads to) and `AnswersAgree` (listings walk over the index here
and scan the B-tree there: `RustScanOfMap`, `RustKeysOfMap` and `RustOwnedMaps`
say of the instance what `ScanOfMap` and its like say of the Rust module).

**UtilityCallsProofs**. Each utility is a calculation, so that the work is in the
lemmas and no invariant needs another.

* Numbers modulo *n* (`SumMod`, `ProductMod`), and from them the laws of the
  group (`PlusLaws`, `TimesLaws`, `Cancel`). That the order is prime is an
  assumption of the model, as of the code, but no proof needs it: the pairing is
  only ever compared at the generator.
* Bytes: what is cut out of a string that was put together (`SliceIs`,
  `PartsJoin`); a point is read back from its form, and from no other bytes.
* `OnlyVetKeysComeOut`: the two checks by pairings admit just those bytes whose
  first points have one exponent and whose third is the vetKey blinded with it.
  `VetKeysArrive`
  needs that the vetKD system and the library derive the same key
  (`SystemDerives`): one adds offsets to a secret, the other points to a public
  key, and they hash the bytes grouped in different ways. The rest of it is one
  lemma for each call: `ClientGets` goes through what the client can be given
  and finds that only the granted key under a verification key with the same
  vetKey comes through. `SignaturesAreValid` and
  `OutputsAreProofs` use it again.
* `EncryptionsAreExact`: masking twice with the same bytes is no masking, the
  serialized form is read back, and what passes the re-encryption check was
  encrypted in this way: decryption looks for the scalar of the found
  seed and message, so that a ciphertext is either the encryption of what it
  gives or refused.
* `MessagesAreSealed`: a byte of a ciphertext says where it comes from, and
  cutting and joining makes no new bytes (`SplicedBytes`). A tag that opens
  therefore came with its text under this key, nonce and data, and the header in
  front tells the two formats apart, for all sizes.
* `TableIsRight`: entry *j* of row *i* is the point times *(j + 1) 2^(w i)*,
  `WindowBits` reads bits *o* to *o + w* of the scalar, be they in one byte, in
  two or at the end, and after *i* windows a sum is that of the lower *w i* bits.
  The table and the sums are recursive; as above, the least index at which they
  would differ from this gives a contradiction.

**Hypotheses.** The trait lets `T` be anything, so that some theorems assume of
it what they need. `Managers \subseteq Readers` (`AccessFromManager`): otherwise
a manager who cannot read could grant himself reading. `Rights \subseteq
Readers` (`SameListings`, `RefinesKeySharing`, `CompleteOverview`,
`OverviewLists`, `CanisterOverviews`, `ListedOpen`, both `AnswersAgree`): a
right that does not allow reading is stored, but answered as none, and the
listings panic on it (the `expect` says "always some access rights"). `Writers
\subseteq Readers` (the client): otherwise a write shows the value it replaced
to who cannot read. The enum of the canisters satisfies all three. `NamesFit`
(`RefinesRust`): names of keys fit into a `Blob<32>`, because the Motoko
canister accepts longer ones, which the Rust one refuses.

Two hypotheses of UtilityCallsProofs speak of infinitely many values, so that TLC
cannot evaluate them as assumptions of a module. `HashesHaveValues` says of the
hash functions that they yield scalars and bytes where they should, and nothing
else: the theorems hold for functions that collide and that everyone can
predict. `PowersMultiply` is the recursion that defines `^` for the
bases 2 and 256; the provers know `^` by name only.

The other assumptions are the named `ASSUME`s, which TLC evaluates in the runs:
`KeyIdAssumption`, `RightsAssumption`, `PrincipalBytesAssumption`,
`KeyNameAssumption`, `BlobAssumption`, `NamesAssumption`,
`InstallNameAssumption` (of the Rust key manager canister only), `OrderAssumption`,
`KeyNameSizeAssumption`, `AskedAssumption`, `UserAssumption`, `SetupAssumption`,
`ValueAssumption` and `NothingAssumption` (the value for "nothing" is no value),
`SizesAssumption`, `VetKdAssumption` (the order is prime and a byte can hold a
scalar; XOR is its own inverse), `TableAssumption`, `MessagesAssumption`,
`ArgumentsAssumption`, `TableArguments` and `NetworksAssumption`.

## 6. Findings

Each is a run that must find its property violated.

* `owner_listed`. `set_user_rights` refuses the owner only when the caller is
  the owner too. A manager can name the owner, who is then in the list of users
  of his own map, which is documented to leave him out, and has the map among
  those shared with him. His rights are not affected: the guards look at
  ownership first (`ImplementsKeySharing`).
* `client_identity`. A derivation that is under way when the cache is cleared
  for the next identity stores its key material afterwards. The documentation
  says that clearing prevents one identity's key material from being served to
  another. The canister still guards the ciphertexts: `ShowsOnlyToReaders`
  holds.
* `old_messages`. Messages of the format before 0.5.0 are refused as too short
  when their text has fewer bytes than the new header, eight. The change log
  says that old messages can be decrypted.

## 7. Limits

*Only model-checked.*

* Liveness and fairness: `CallsSettle`, `CallsAnswered` and the liveness part of
  `ImplementsRust` in `motoko_canister`. The provers have no ENABLED.
* The violations of section 6, each a behaviour that TLC finds.

*Abstractions.* The key manager's own two listings, range scans that start at the
least principal, are given by what they yield; the scans of the encrypted maps
are modelled as scans. Lists are sets, except for the Motoko
arrays; that the owner's
map comes twice in his overview after the first finding is not visible. Names
are values without bytes, except in VetKdInput and the modules of the canisters,
where the size limit of the Rust code is. Cryptography is ideal: a ciphertext
opens under one key and data, hashes of the derivations do not collide where
messages are concerned, and a vetKey is a function of the request. In `VetKd`,
by contrast, the hashes are small functions that do collide, and the properties
hold all the same. The Rust code refuses the identity as a public key itself;
the TypeScript code leaves this to its pairing library, and only the former is
modelled.

An observation on `compute_vrf` that is not a run. Its documentation
(`utils/mod.rs`, at the function) speaks of errors of an unsupported curve and of
the call; the code turns every error into `InvalidReply`. And it takes the main
network's key for a name it knows, on whatever network: on PocketIC with `key_1`
or `test_key_1` its check of the output fails, always. `OutputsVerify` says what
holds: nothing comes out that does not verify, and on the main network, or under
a name that is not hardcoded, it comes out exactly when the calls were answered.

*Not modelled*, with the reason.

* The client's methods that pass a call on and convert the reply (names of maps,
  rights of users; all of the KeyManager client's but `getVetkey` and the call it
  makes for the verification key): no state of
  the client is involved, and the canister's side is modelled.
* Reinstallation of the encrypted maps canister: it empties the stable memory and
  is an installation again; for the key manager canister, where it matters which
  keys were delivered before, it is an action.
* The endpoints of the Motoko encrypted maps canisters: they pass names of any
  size on, so that EncryptedMapsMo is their model; their life cycle is that of
  `KeyManagerCanisterMo`.
* What a second tab does to the IndexedDB database of the same identity beyond
  what a second task does: the database serves both in the same way.
* Arithmetic of the curve, hashing, AES-GCM, Candid, stable structures: libraries.
* The generators of random test data, the TypeScript wrapper types of identities
  (`IbeIdentity`), benchmarks, generated declarations, build files and examples:
  no logic of the running library.

## 8. Plan

Done, in this order: rights and key managers with the abstract matrix and its
proofs; encrypted maps; the client; asynchronous calls and the life cycle of the
canisters; the bytes of key ids; messages, vetKeys and the table; then the
endpoints of the encrypted maps canister in both forms, the client's listings,
verification key, databases and reloads, the vetKD system on the other side of
the utilities; the proofs of the Rust components, the canister of the key
manager, its refinement by the Motoko one, and the client; then those of the
Motoko components and of the utilities.

What would come next:

1. the contract `Opens` of the client derived from `DerivedKeyMaterial`: that
   `decrypt_message` gives the text of a place only under the key and data of
   that place, as a theorem that cites `MessagesAreSealed`'s lemmas;
2. a statement of the Motoko and Rust encrypted maps *canisters* against each
   other, on the names that both accept;
3. the liveness of the client and the canister, beyond the provers as they are.
