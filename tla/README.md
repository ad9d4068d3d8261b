# emvault-pkcs11: a TLA+ verification project

emvault-pkcs11 signs Bitcoin and Elements transactions with keys that never
leave a PKCS#11 token.  This directory holds TLA+ models of its own logic, the
TLC runs that check them and the TLAPS proofs about them.  Paths such as
`src/policy.rs` are relative to the repository's root.

Nothing here models the mathematics of secp256k1 or of BIP-32: a key is the
root it comes from and its path from there, a public key and a fingerprint are
named by the key they belong to, a signature is the key that made it.  What is modelled is the control: which PKCS#11 call follows which, what
each handler does when one fails, what other sessions and threads can do in
between, and what the token is left with.

## 1. Inventory

| Component | State it keeps | Operations | Modelled by |
|---|---|---|---|
| `MinimalHsmPolicy` (`src/policy.rs`) | three optional limits | `check_against_psbt` | `PolicyCheck` |
| Policy and sig-rate persistence (`src/policy.rs`) | two `CKO_DATA` objects per label on the token | `load_policy`, `save_policy`, `load_sigrate`, `save_sigrate`, `check_and_record_sigrate` | `SignerPolicy`, abstractly `PolicyLedger` |
| `Pkcs11Signer` calls (`src/signer.rs`, `src/elements.rs`) | one mutex around one session, shared by clones | `sign_transaction`, `sign_pset`, `policy`, `set_policy`, `health_check` | `SignerPolicy` |
| Input loop (`src/signer.rs`, `src/elements.rs`) | the transaction's signature maps, derived session keys | P2WSH loop, `sign_taproot_input`, `derive_path` and cleanup | `InputSigning` |
| Key ceremony (`src/signer.rs`, `src/backend/mod.rs`, `src/key_ops.rs`) | key objects of the token | `derive_from_seed`, `derive_master_key`, `derive_path`, `load`, `find_key_by_label`, `delete_key` | `KeyCeremony` |
| `Fleet` (`src/fleet.rs`) | the list of members | `from_env`, `validate`, `build_signers`, `build_member` | `FleetEnv`, `KeyCeremony` |
| `Pkcs11Session` (`src/session.rs`) | an open session, the login of the process | `open`, slot resolution, drop | `KeyCeremony` |
| EC point codec, `read_xpub`, `master_fingerprint` (`src/key_ops.rs`, `src/backend/mod.rs`) | none | DER OCTET STRING encode and decode, child numbers, the attributes of a key | `EcPoint`, `Bip32Attributes` |
| `NetworkPatchedSigner` (`src/signer.rs`) | an xpub with another network | `new`, `xpub` | `Bip32Attributes`, `Wrap` of `KeyCeremony` |
| Low-S normalisation (`src/ecdsa.rs`) | none | `normalize_s` on a token's signature | partly: its failure, in `InputSigning` |
| Errors, `lib.rs` | none | conversions and re-exports | not modelled |

**How they interact.**  A `Fleet` opens a `Pkcs11Session` per member and turns
it into a `Pkcs11Signer` by ceremony or by load.  A signing call locks the
signer's mutex, loads the policy from the token, (for `sign_transaction`)
compares it with the transaction, signs input by input, and finally compares
and records the rate.  Every object lives on the token, which other sessions of
the same process or of another one use at the same time; the mutex covers one
session only.

**What is hard.**  No PKCS#11 sequence is a transaction: replacing an object is
a find, some destroys and a create, and another session, an error or the end of
the process may come between any two.  The rate counter is read, compared and
written in separate calls.  Threads share a mutex that a panic poisons.
A fleet that fails half way drops sessions while other threads depend on the
same login, and every retry of a ceremony leaves another master key.  Derived keys
have to be destroyed on every path.  Tokens differ in the bytes they return for
one and the same public key.  Time comes from a clock that may be set.

**What makes each component correct.**

- Persistence: seen from one session the label behaves like an atomic policy
  and an append-only ledger that respects the ceiling; entries are not lost
  within the hour; replacing does not pile up objects.
- Calls: the session is used by the holder of the mutex only; the holder
  returns; a poisoned signer never reaches its session; whatever is signed is
  signed under the policy in force.
- Input loop: a signature is stored under the key that made it; inputs are
  signed in order, none is passed over; other cosigners' signatures stay; the
  federation key survives; of derived keys only intermediates are left.
- Ceremony and fleet: the signers are the cosigners that the environment names,
  each on its token; no seed object is left; a signer holds the key of its
  member; the login lasts as long as the session; a deletion is complete;
  cosigners have distinct keys; a loaded signer is bound to the one key of its
  label.
- Attributes: whatever form a token gives a point in, the xpub read from it is
  the key's, with the child number that was asked for, hardened or not.

The complete list of hazards, each at its line, is `hazards` in
`PROJECT.json`.

## 2. Modules

| Module | What it is |
|---|---|
| `PolicyCheck` | pure operators: the limit with its u64 sum, the whitelist with its network, in the code's order |
| `SignerPolicy` | policy and counter objects, mutex, the five calls, failures, crashes, clock |
| `PolicyLedger` | what `policy.rs` promises: replace in one step, record in one step |
| `MCSignerPolicy` | the transactions, policies and thread assignments of the runs |
| `SignerPolicyProofs` | theorems about the types and the mutex of `SignerPolicy` |
| `SignerRecordProofs` | the theorem about its records |
| `SignerCounterProofs` | the theorems about its stored counter and its refusals |
| `SignerObjectProofs` | the theorems about its objects on the token and the policy it signs under |
| `SignerLedgerProofs` | that it keeps its entries and implements `PolicyLedger` |
| `InputSigning`, `MCInputSigning` | the input loops of several cosigners over one transaction |
| `InputSigningProofs` | theorems about its types, its order, its keys and its signatures |
| `EcPoint` | pure operators: the DER codec of `CKA_EC_POINT`, byte by byte |
| `EcPointProofs` | what the decoder makes of wrapped and of raw points |
| `Bip32Attributes` | pure operators: child numbers, `read_xpub`, `master_fingerprint`, the patched network |
| `FleetEnv` | pure operators: environment variables to the members of a fleet |
| `KeyCeremony`, `MCKeyCeremony` | building fleets, loading and deleting keys, sessions and login |
| `KeyCeremonyProofs` | theorems about its types, logins, seeds, keys, descriptors, fleets, loads and deletions |

`Bip32Attributes` extends `EcPoint`, `FleetEnv` extends `Bip32Attributes`, and
`KeyCeremony` extends `FleetEnv`: the ceremony is where the pure parts are run.

### PolicyCheck and SignerPolicy

`policyObj` and `sigrateObj` are the token's objects by handle, `lock` and
`poisoned` are the `Mutex` of each signer, `pc`, `call`, `frame` and `result`
are the stack of each thread.  A step is one PKCS#11 call together with the
computation up to the next one; `find_objects`, `get_attributes`,
`destroy_object` and `create_object` of the four load and save functions each
have an action:

| Code | Actions |
|---|---|
| `lock()` of the mutex, poisoned or not | `Acquire`, `AcquirePoisoned` |
| `health_check` | `HealthCheck` |
| `load_policy`, `policy` | `FindPolicy`, `ReadPolicy`, `ReturnPolicy` |
| `check_against_psbt` under the mutex | `CheckPsbt` (a panic poisons) |
| one input of the loop | `SignInput`, `SignFails`, `SignDone` |
| `load_sigrate` | `FindSigrate`, `ReadSigrate` |
| `prune`, `count >= max`, `record` | `CheckSigrate` |
| `save_sigrate` | `FindOldSigrate`, `DestroyOldSigrate`, `CreateSigrate` |
| `save_policy` | `FindOldPolicy`, `DestroyOldPolicy`, `CreatePolicy` |
| a process dies and restarts | `Crash` |
| `SystemTime` | `Tick`, `ClockStepsBack` |

The code's counter is a list of timestamps.  The model's entry also carries the
call that made it, which tells entries of the same second apart (the code keeps
duplicates, a set would not), and the ceiling it was admitted under, which only
properties read.  `log` and `produced` are history variables: the entries that
were saved, and the signatures that were put in a transaction.

`PolicyLedger` is the abstract specification.  The refinement maps `policy` to
`PolicyInForce`: the object on the token, except that between the last destroy
and the create of `save_policy` it is the policy being saved.  The mapping
needs a single session, a `create_object` that succeeds, no crash within a save
and a clock that is not set back; the violation runs drop some of these and show
what is lost.

### InputSigning

One transaction, several cosigners, calls one after another (each holds its
mutex throughout).  `SignInput` of `SignerPolicy` stands for one round of this
loop.  `MatchInput` is the search by fingerprint with the early errors,
`DeriveChild` one `C_DeriveKey`, `SignEcdsa`/`FinishEcdsa` the signature, the
cleanup and the storing in the code's order, `PrepareTaproot`, `SignLeaf` and
`FinishTaproot` are `sign_taproot_input`.  An input's origin is found by its
fingerprint and only the length of the federation path is used, as in the code.  A call that
fails before its first input (policy, `extract_tx` of `sign_pset`) touches nothing of this
state and is in `SignerPolicy` only.

### EcPoint, Bip32Attributes and FleetEnv

Fallible operators return `Ok(value)` or `Err(kind)`, as the code's `Result`.
`Decode` and `Encode` work on sequences of byte numbers.  `Bip32Attributes` knows
a finite set of public keys (`Points`) with their two SEC1 forms; a token
presents a point wrapped, compressed or raw and uncompressed, and `ParseEcPoint` accepts
what the code accepts.  A raw uncompressed point starts with the byte that is
also the DER tag, so the decoder takes it for DER and refuses or cuts it: `annex` is
such a token, and a ceremony there fails.  A child number goes to the token as the four bytes of
`ToLeBytes` and comes back through `FromLeBytes`.

`FleetEnv` reads each member's variables in the code's order and reports the
first error.  A text that is only compared is a model value; the hex of a seed
is a sequence of character classes, because `decode_hex` slices the text by
bytes: it takes a plus sign for granted and panics in the middle of a character
(`PairValue`).  A vendor's registrar is a verdict on the member.

### KeyCeremony

Threads of one application build fleets: `Build` is `from_env`, `validate` and
the start of `build_signers`; `ResolveSlot`, `OpenSession` and `Login` are
`Pkcs11Session::open`; `CreateSeed`, `DeriveMaster`, `DestroySeed`,
`ReadMaster`, `FingerprintMaster`, `DeriveChild` and `FinishDerive` are
`derive_from_seed` through the blanket backend; `FindKey`, `ReadKey` and
`FingerprintKey` are `load`; `CallDelete`, `FindPriv`, `FindPub`, `DestroyKey`
and `DestroyDone` are `delete_key`; `Wrap` is the caller's `NetworkPatchedSigner::new`;
`CloseSession` and `EndBuild` are the drops.

- `task` is a history variable: the environment a fleet was read from.  Only
  properties read it.
- An object records whether it was `provisioned` before the program ran and
  which of its attributes are `spoiled` (missing or of the wrong length).
- A handle without an object has `NoObject`, a record like the objects', so that every
  value of `objs` has a class.
- A label is a tuple `<<label, suffix>>`, because its concatenation is what the
  `reload` finding is about.
- An empty seed and a seed of zeros are one buffer (`SeedBuf`), which the token
  takes for its slot's own seed, as `src/backend/mod.rs:365` says of the dev shim;
  the token's side of it is external.
- Also external: dropping a session closes it but does not finalise the library
  (other sessions of the process stay usable), the login goes with the last
  session of the token, and a handle the token frees is not given out again while
  anybody holds it.  A new object takes the least free handle: handles are
  opaque to the program, so their choice does not matter.

## 3. Runs

Passing runs:

| Run | Question | Bounds |
|---|---|---|
| `clones` | Do clones of one signer see an atomic policy and ledger, whatever PKCS#11 call fails (except create)? | 2 threads, 3 calls, 3 seconds of clock, window 1 |
| `sessions` | What still holds for two sessions, with crashes and a clock that steps back: of the objects, the records, the counter that a call writes under its own ceiling, a refusal? | 2 sessions, 4 handles, 3 calls, ceilings 1 and 2, 1 crash |
| `calls` | Is a poisoned signer dead, and does every holder return? All five calls, every kind of verdict | 2 threads, 2 calls, 1 crash |
| `inputs` | Are the loops right over each kind of input? | 2 cosigners, 7 transactions of up to 3 inputs, 3 calls |
| `ceremony` | Is what two threads get from their environments what these ask for, and do they disturb each other when they build, load and delete? | 3 tokens, one of each point form, 20 environments of which 14 are refused, 2 builds, 7 handles, 1 crash; threads are symmetric |

Runs that find a statement of the documentation violated (each is a finding of
`PROJECT.json`, with the quotation):

| Run | What TLC shows |
|---|---|
| `rate_after_signing` | the call that the ceiling refuses has already signed |
| `two_sessions` | two sessions are both recorded under a ceiling of one |
| `crash_in_save` | a process that dies between destroy and create leaves the label permissive |
| `pset_unchecked` | `sign_pset` never compares limit and whitelist |
| `same_master` | two members on one slot with different paths have one fingerprint; one signs for the other's key |
| `reload` | the label a ceremony stores under is not the one `load` looks for |
| `aliased_fleet` | one token by label and by slot id passes `validate` as two cosigners |

**Why the bounds are enough.**  Two threads or sessions are what it takes for
an interleaving, and no action involves three.  Three calls allow a `set_policy`
around a signing call, or three calls against a ceiling of two; the clock's
three values put entries inside, at the edge of and outside a window of one
second (the code's 3600 occurs only as the constant `Window`).  `U64Max` is 4,
so that both a limit and an overflow of the sum are reachable.  The handles are as
many as objects can be live or held at once (`ceremony` has fewer, so that a full
token is reached too).  The transactions contain each early return of the
loops: missing script, missing previous output, bad sighash, short path,
no backend signer, key-path origin.  In the run `inputs` no two cosigners share
a fingerprint; `same_master` is what happens when they do; the federation
path of one cosigner is a prefix of the other's, so that what is cut off is of different
lengths.  The 14 refused
environments of `ceremony` are wrong in one thing each, one for every way in
which `from_env` fails; the others have a gap in their indices, a slot given twice,
an own seed, a seed of zeros, the shim's form of no seed, a provisioned key with and without
readable attributes and with a second one under its label, a member whose
token cannot be read, a cosigner named twice, a seed that is too short, and a slot that does not
exist.

**Two observations the runs rest on.**  `OnlyIntermediatesLeft` states exactly
what is left of a signed input: all the intermediate keys of its path, for
`/change/index` the one of `/change`, until the session closes.  The cleanup
at `src/signer.rs:669`, "destroy session-only child handle" in the overview of
`README.md:178`, is about the last key only.  And what the rate properties
count: `RateCeiling`, `CounterBounded` and `NoFalseRefusal` are about entries, one for each call, and
compare them as `check_and_record_sigrate` does and as `src/policy.rs:299` says, "at or above" the
ceiling.  The module's overview and the field's documentation
(`src/policy.rs:17-18`, `:44-45`) say something else, "more than" the ceiling, and of signatures:
by them a call with exactly the ceiling in the hour would be admitted, where the code
refuses it (`count >= max`, `src/policy.rs:315`), and a call that follows one of many inputs
could be refused, where the code counts that one as one entry (`src/policy.rs:320`).  The
documentation disagrees with itself on the first point, so no run states either side as what the
program promises; `NoFalseRefusal` passes because its bound is that of the code.

**Fairness.**  `FairSpec` of `SignerPolicy` assumes weak fairness of each
thread's `Step`: a thread inside a call keeps running and every PKCS#11 call
returns.  Nothing is assumed of callers, crashes or the clock, nor that the
mutex is fair: `HolderReturns` is about the thread that has it.  `InputSigning` has weak
fairness of `Work`, for the same reason.  `KeyCeremony` states safety only.

**Deadlock** is checked in all runs; `Finished` stutters when the bounds are
used up and every thread is idle, so a thread that could not go on would be reported.

## 4. Proofs

Every property of a passing run is a theorem, except the two about liveness.  The
theorems hold for any values of the constants that the assumptions allow, of
any size, and under the hypotheses named with them.

`SignerPolicyProofs`, `SignerRecordProofs`, `SignerCounterProofs` and
`SignerObjectProofs`: any threads, signers, policies, transactions, handles and
failures, any bounds, with crashes and a clock that steps back, from
`ConstantsAssumption`:

| Theorem | Statement |
|---|---|
| `TypeCorrect` | `Spec => []TypeOK` |
| `SessionSafe` | `Spec => []SessionIsLocked`: a session is used by the holder of its mutex only, and no finished call leaves it locked |
| `PoisonSafe` | `Spec => []PoisonedIsDead`: after a panic no call reaches the session |
| `EntriesMatch` | `Spec => []EntriesMatchSignatures`: an entry stands for a call that signed, and a call that signed under a ceiling and returned Ok has its entry |
| `CounterSafe` | `Spec => CounterBounded`: a call that writes the counter leaves its own entry in it and no more entries than the ceiling that call loaded |
| `RefusalJustified` | `Spec => NoFalseRefusal`: a call is refused for its rate only if as many recorded calls as its ceiling lie within the hour (calls, and at the ceiling: see the observations of section 3) |
| `ObjectsSafe` | `Spec => []ObjectsPerSession`: there are never more objects of a label than signers on it (there is a thread; finitely many signers and handles) |
| `SignedUnderPolicy` | `OneSession` implies `Spec => []SignedUnderPolicyInForce` |

`SignerLedgerProofs`: the same, and `Undisturbed`:

| Theorem | Statement |
|---|---|
| `EntriesKept` | `Spec => []NoEntryLost`: outside a save the counter has every entry that still counts |
| `RateKept` | `Spec => RateCeiling`: the hour that ends with a new entry has at most as many as the ceiling it was admitted under |
| `LedgerImplemented` | `Spec => ImplementsLedger`: `SignerPolicy` implements `PolicyLedger` |

`InputSigningProofs`: any transactions, identities, failures and number of calls,
from `InputSigningAssumption`, and the last two under the hypotheses named:

| Theorem | Statement |
|---|---|
| `LoopTyped` | `Spec => []TypeOK`: also, no derivation goes beyond the path of the origin it follows |
| `InputsSignedInOrder` | `Spec => []SignedInOrder` |
| `OnlyIntermediatesStay` | `Spec => []OnlyIntermediatesLeft` |
| `FederationKeySafe` | `Spec => []FederationKeyKept` |
| `StoredUnderItsKeySafe` | `OriginsTruthful` implies `Spec => []StoredUnderItsKey` |
| `OthersSignaturesSafe` | `OriginsTruthful` and `DistinctRoots` imply `Spec => OthersSignaturesKept` |

`KeyCeremonyProofs`: any threads, environments, deletions, tokens, handles,
failures and crashes, from `KeyCeremonyAssumption` and the assumptions of the modules it
extends, and the last four under the hypotheses named:

| Theorem | Statement |
|---|---|
| `CeremonyTyped` | `Spec => []TypeOK` |
| `LoginSafe` | `Spec => []LoggedInWhileOpen` |
| `SeedSafe` | `Spec => []SeedsReaped` |
| `LoadedSafe` | `Spec => []LoadedOfOneKey` |
| `DeletesAll` | `Spec => []DeleteRemovesAll` |
| `KeysHeld` | `PointsOfKeys` and `PointsToldApart` imply `Spec => []SignerHoldsItsKey` |
| `DescriptorsTrue` | the same imply `Spec => []XpubAsRequested` |
| `FleetAsConfigured` | the same imply `Spec => []FleetFollowsEnvironment` |
| `CosignersDiffer` | with `OnlyDerived` and `OneNamePerRoot` besides, `Spec => []DistinctCosigners` |

`EcPointProofs`: about the codec, for every sequence of bytes:

| Theorem | Statement |
|---|---|
| `DecodeEncode` | decoding what was encoded gives the content back, up to 65535 bytes, across the three forms of the header |
| `RawCompressed` | raw bytes that do not start with the tag are returned as they are |
| `RawUncompressedNeverItself` | raw bytes that start with the tag never are |

### The hypotheses

- `OneSession`: the label is used through one signer, by any number of clones.
  `two_sessions` is the counterexample without it.  `Undisturbed` adds what
  the header of `PolicyLedger` names: `create_object` does not fail and the process
  does not die, or a save is cut in two (`crash_in_save`); the clock is not set
  back, or an entry is younger than one that follows it.  All other failures
  stay.
- Finite sets of handles and signers: `Cardinality` means nothing otherwise, and a
  handle is a `CK_ULONG`.
- `OriginsTruthful`: an origin with a cosigner's fingerprint is of a key of that cosigner,
  on a path that begins with its federation path.  `same_master` violates
  exactly that, the transactions of `inputs` satisfy it.
- `PointsOfKeys`: every key on a path that is asked for has a point; of the keys that
  BIP-32 derives all but one in 2^127 have.
- `PointsToldApart`: a token that hands out raw uncompressed points has no key whose
  point, cut by `der_decode_octet_string_lenient`, is the compressed point of another key.
  The code does not ensure it: about one point in 2^16 can be cut to something
  that parses, and the key that is then read is not the key on the token.  A token that wraps or
  compresses its points satisfies it as it is.  `MCKeyCeremony` assumes both, so that TLC finds
  them true of the points of `ceremony`.
- `OneNamePerRoot`: within a fleet no token has two names, and no two tokens the same seed.
  It is what `validate` takes for granted: it compares names, not tokens, and no seeds at
  all.  `aliased_fleet` is the counterexample; two members on different tokens with one
  `_KEY` seed and one path are another.  `OnlyDerived`: of a loaded key the
  environment only has the label, which `validate` does not compare.
- The assumptions on constants are those of the program's types: an environment's variables
  are text, a path is one of child numbers below 2^31, a compressed point has 33 bytes and starts with 2
  or 3.  TLC evaluates each on the instance of a run.

### The arguments

**Types and mutex of `SignerPolicy`.**  `TypeOK` is not inductive: `save_policy`
writes the argument of the call to the token, and `save_sigrate` writes an entry with the
ceiling of the loaded policy, so both must be known to be there.  `TypeInv` adds that
a thread that is in `save_policy` was called with a policy and that one that is
recording has a ceiling.  `SessionIsLocked` and `PoisonedIsDead` hold each other up:
`CheckPsbt` poisons and releases in one step, and only the holder may do so; the
invariant is their conjunction on top of `TypeInv`.  The control flow is factored out:
`StepControl` says of any step of a thread that it moves within its call, acquires or
returns, and the mutex argument needs only that.  `StepToken` does the same for the objects.

**Records and counter.**  `EntriesMatchSignatures` speaks of calls that are over.  `RecordInv`
carries it through the call: before the inputs nothing is signed, whoever has signed has
its signature in a transaction, and only a call that has signed gets to the
counter.  Nothing in the argument depends on what other sessions do to the objects, which
is why it holds with any number of sessions.  `CounterBounded` is about objects
that any session may replace between any two steps of another.  `CounterInv` therefore
says of each stage only what no other session can undo: a saved counter consists of
entries that were saved (they are in `log`, which only grows); a loaded one consists of saved
entries; the one being saved has the call's own entry besides, and the comparison before `record`
keeps it within the ceiling of that call (`Bounded`).  `CounterBounded` is then a matter of the one
step that writes: what it writes is what its call bounded, whatever the ceilings of other
entries were.  The clock plays
no part: pruning only takes away.  `RefusalJustified` follows, since what was loaded,
pruned and counted is a subset of the log.

**Objects.**  `ObjectsPerSession` counts, and an invariant about counting alone does not
carry: who deletes what matters.  `ObjectInv` says that the objects can be *owned*: there is an
assignment of a session to each object, no session owns two, and whoever is in the middle of
a save has whatever it owns still on its list to destroy.  A destroy, by whomever, only takes
objects away; a create comes when the list is empty, so its session owns nothing and takes the
new object; a panic or a crash leaves what is there.  The bound is then the number of sessions.

**One session.**  `LoadedInv` adds that from the load to the end of the call the loaded
policy is the one on the token.  It rests on `OneObject` (one object and one owner: a find has
found everything) and on `StepsAlone` (only the holder of the mutex is anywhere but at the
door), so that no other thread comes between.

**The ledger.**  `LedgerInv` states where each entry of the last hour is: on the token, or, while
the counter is being replaced, in the frame of the thread that replaces it; and that the
entry that is to be saved is the latest and has room among those of its hour.  `NoEntryLost` is
its first half, `RateCeiling` its second at the step that adds the entry.  For the
refinement `NumbersInv` adds that a call's number is its own and is not in the log yet,
so that the step that records adds exactly one entry to the ledger, and `SaversInv` that what
a save of the policy has found and not destroyed is still there, so that no destroy fails on the
way and each but the last leaves the policy as it is.
`LedgerStarts` and `LedgerSteps` map the initial states and each action: the last destroy of
`save_policy` (or, with nothing to destroy, its find) sets the policy, `CreateSigrate`
records, everything else stutters.

**Signatures.**  `SignaturesInv` follows the derivation: the key at hand is at the path's
first `Ancestry(who) + depth` segments (`SigningOK`), which makes it the key of the origin
when the loop signs.  A signature can be replaced only in a slot that names a key of the
signing cosigner, hence `DistinctRoots` for `OthersSignaturesKept`.

**Order and leftovers of the loop.**  `LoopInv` says that the origin at hand is the input's, is
the cosigner's and is as long as the code has checked; that the depth is within it; and that
what is stored is of this call up to this input.  `SignedInOrder` needs `LeavesInv`, that
of a taproot input the leaves done so far are signed in their own slots.
`OnlyIntermediatesLeft` needs `ObjectsInv`: at the input the objects of the call are exactly those at
depth 1 up to the depth reached, each once, and none was refused yet.

**Logins and seeds.**  `LoginInv` adds to `LoggedInWhileOpen` that a builder at work has the session of
its member open: without that a login could outlive the last session.  Most steps are
`QuietStep`s, for which one lemma is enough.  `SeedInv` says of each seed object
that is not refused which one it is: the one in its builder's frame, so that the
cleanup finds it, whatever else is created and destroyed on the token.

**Types of the ceremony.**  `BuildInv` follows the build: the fleet is one that was read from
an environment or a deletion, the signers are as many as the members that are behind
it, and each of these has its session open (`FleetOwn`, `OpenFor`).  `TypeInv` adds the frame (`FrameOwn`)
and the objects.  `WhereFrom` and `WhereTo` say of any step of a builder which object of the token
it may add or remove, so that each later argument looks at the few steps that concern it.
`NewIsFree` rests on `MinLeast`, that a set of naturals has a least element.

**Load and deletion.**  `LoadInv` says of the key that `load` found, from the find on and for
as long as its signer is in use, that it is the one key of its label, if it is still there, and
that what was read of it is what would be read of it now.  Nothing comes to
a handle that is held (`OldOrNew`), an object changes nothing but whether it was refused, and
nothing new takes the label (`HeldKept`): for the proof the invariant speaks of every object of that name,
which the doubled suffix of a master's name keeps apart; `LoadedOfOneKey` itself is about the provisioned
ones.  `DeleteInv` says that what is left of a label has been found, since nothing of that name
comes anew, and that an object that is found is removed or the call fails.

**Keys.**  `KeyInv` has three parts for each builder.  `PathOwn`: the key at hand is on the token and is the
one at the first `depth` segments of the member's path, below the member's root.  `SignersOwn`: so is
the key of each signer, and what was read of it is what was asked for.  `AimOwn`: what a builder will destroy is
a seed or a provisioned key.  `KeyKept` concludes that a key that a builder holds stays, whatever
others do: sessions that close are not its own, and deletions aim at none of its
keys.  (That `delete_key` never meets a derived key is
the other side of `reload`.)  What a token says of its key comes back as it was sent:
`ChildNumberBack` for every child number of 31 bits with its hardened bit, `PointRead` for the three
forms of a point, from the theorems of `EcPointProofs`, and `KeyRead` for all the
attributes together.  `FleetAsConfigured` compares the result with the environment through `SignerOfFleet`, the key with what
`_KEY` spells through `SeedSpelled` and `KeyInitRead` (a seed with a plus sign among its digits
is decoded, and nothing is said of it),
and `CosignersDiffer` with what `validate` compared: `WordsApart` says that two paths that reach
the token as the same bytes are the same path.

**Only model-checked.**  `HolderReturns` and `CallEnds`: they rest on fairness, for which the prover has no
rule.  The violation runs, which are counterexamples.  Whether a provisioned key is what its label says only its operator knows: `LoadedOfOneKey` is about which
object it is.

## 5. Not modelled

- `error.rs` and `lib.rs`: conversions and re-exports.  The kind of an error is
  kept where a caller can tell it apart.  `Pkcs11Config` (`config.rs`) is plain
  data: its slot selector is the `slot` of a member.
- Backends that implement `HsmBackend` directly: the repository has none but
  the blanket one and its test doubles.
- JSON of the two objects, low-S normalisation and the sighash: a step either
  succeeds or fails with an error, which the models allow for any input.

What is modelled but has no property, because the documentation and the code
differ in a way no single run states, or the code does not decide it:

- `decode_hex` panics where its signature promises `InvalidConfig`
  (`src/fleet.rs:344`).  The model has the panic as the result of the build
  (`ceremony` reaches it), so an error that is always returned is not a
  property it has.
- `load` takes the fingerprint of the object it found for the master's
  (`src/signer.rs:186`), while `src/backend/mod.rs:230` speaks of the master
  fingerprint.  They are the same when the key that was provisioned is itself
  a master, which only the token's operator knows.
- a master left by a ceremony that failed is never found by `load`, and neither is that of one
  that succeeded (`reload`).  No property says the first, since under the documented label
  it would not hold.
- `delete_key` leaves the policy, the counter and the masters of ceremonies on
  the token; `src/key_ops.rs:104` says both "every EmVault object" of the label and the two
  key objects only.

## 6. Plan

Done: all the modules of section 2, and the theorems of section 4.  Left, in
this order:

1. `CosignersDiffer` for fleets that load keys as well: the keys provisioned under
   the labels that are asked for take the place of the derived ones, and what `load` reads has to be
   followed to them, for a token whose attributes may be missing.
2. What remains of the ledger without `Undisturbed`: for one session with crashes and
   a clock that steps back, what a crash can take away from the record and what it
   cannot.
3. Pure operators: that `Prune` and `CheckAgainstPsbt` agree with their reference definitions for
   every clock and every sum, and that `FromEnv` reports the first error.
