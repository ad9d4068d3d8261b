---------------------------- MODULE InputSigning ----------------------------
(***************************************************************************)
(* The input loop of sign_transaction and sign_pset, and sign_taproot_input*)
(* (src/signer.rs, src/elements.rs), with the derivation of child keys     *)
(* inside the token (src/backend/mod.rs).  Several cosigners sign the same *)
(* transaction one after the other, each with its own session, and any of  *)
(* them may be called again.  A call holds its signer's mutex throughout,  *)
(* so nothing else acts on the transaction or on the session meanwhile.    *)
(*                                                                         *)
(* A key is its root and its path from there.  A signature is the key that *)
(* made it and the slot of the input's map it was stored under: the public *)
(* key the transaction names, and for taproot the leaf.                    *)
(***************************************************************************)
EXTENDS Integers, Sequences, FiniteSets

CONSTANTS
    Cosigner,
    Identity,   \* cosigner -> [root, fingerprint, path, segwit, taproot]: its
                \* federation key, and which signers its backend provides
    Psbts,      \* the transactions: sequences of inputs
    Ops,        \* {"sign_transaction", "sign_pset"}
    Fallible,   \* the PKCS#11 functions that may fail
    NoLeaf,     \* the slot of a P2WSH signature has no leaf
    MaxCalls

ASSUME InputSigningAssumption ==
    /\ \A c \in Cosigner : /\ Identity[c].path \in Seq(Nat)
                           /\ {Identity[c].segwit, Identity[c].taproot} \subseteq BOOLEAN
    /\ \A psbt \in Psbts : psbt \in Seq({psbt[i] : i \in DOMAIN psbt})
    /\ \A psbt \in Psbts : \A i \in DOMAIN psbt :
         \A o \in psbt[i].bip32_derivation \cup psbt[i].tap_key_origins : o.path \in Seq(Nat)
    /\ Ops \subseteq {"sign_transaction", "sign_pset"}
    /\ Fallible \subseteq {"derive", "sign", "destroy"}
    /\ MaxCalls \in Nat

VARIABLES
    tx,       \* the inputs of the transaction
    sigs,     \* partial_sigs and tap_script_sigs of all the inputs
    who, op,  \* the cosigner of the last call, and which call it is
    pc, idx,  \* where the call stands, at which input
    origin,   \* the key origin of that input that was taken for ours
    key, depth,   \* the key of the signing handle, and how often it was derived
    leaves,   \* the leaves still to be signed
    live,     \* cosigner -> the private key objects of its session
    refused,  \* history: the objects the token would not destroy
    result,   \* how the last call ended
    calls

vars == <<tx, sigs, who, op, pc, idx, origin, key, depth, leaves, live,
          refused, result, calls>>

\* An object is named by the call, the input and the derivation that made it;
\* depth 0 is the federation key itself.
Handle(d)        == [call |-> calls, input |-> idx, depth |-> d]
FederationHandle == [call |-> 0, input |-> 0, depth |-> 0]

FederationKey(c) == [root |-> Identity[c].root, path |-> Identity[c].path]

\* sign_pset looks at the P2WSH fields only.
IsTaproot(i) == op = "sign_transaction" /\ tx[i].taproot

Origins(i) == IF IsTaproot(i) THEN tx[i].tap_key_origins ELSE tx[i].bip32_derivation

\* Mutant: any origin of the input is taken for ours.
Ours_Any(c, i) == Origins(i)

Ours(c, i) == {o \in Origins(i) : o.fingerprint = Identity[c].fingerprint}

\* A taproot origin without leaves is a key-path origin: there is nothing to sign.
ToSign(c, i) == {o \in Ours(c, i) : IsTaproot(i) => o.leaves # {}}

\* Mutant: the path is taken to be relative to the federation key.
Relative_Whole(c, path) == path

\* Only the length of the federation path is used, never its segments.
Relative(c, path) == SubSeq(path, Len(Identity[c].path) + 1, Len(path))

TooShort(c, path) == Len(path) < Len(Identity[c].path)

-----------------------------------------------------------------------------
Return(how) == /\ pc' = "idle"
               /\ result' = how

\* What the token calls and checks below leave alone.
CallUnchanged == UNCHANGED <<tx, who, op, calls>>

ObjectsUnchanged == UNCHANGED <<live, refused>>

\* A cosigner is asked to sign the transaction.  A call that fails before its
\* first input (its policy is not read or refuses; sign_pset cannot extract the
\* transaction) touches nothing of this and is in SignerPolicy.
Call ==
    /\ pc = "idle" /\ calls < MaxCalls
    /\ calls' = calls + 1
    /\ who' \in Cosigner /\ op' \in Ops
    /\ idx' = 1 /\ pc' = "input" /\ result' = "running"
    /\ UNCHANGED <<tx, sigs, origin, key, depth, leaves, live, refused>>

NextInput == /\ pc = "input"
             /\ idx <= Len(tx)
             /\ Ours(who, idx) = {} \/ \E o \in Ours(who, idx) : o \notin ToSign(who, idx)
             /\ idx' = idx + 1
             /\ CallUnchanged
             /\ UNCHANGED <<sigs, pc, origin, key, depth, leaves, live, refused, result>>

AllInputsDone == /\ pc = "input"
                 /\ idx > Len(tx)
                 /\ Return("ok")
                 /\ CallUnchanged
                 /\ UNCHANGED <<sigs, idx, origin, key, depth, leaves, live, refused>>

\* What is checked before anything is derived.  A PSET's sighash type that is
\* not an ECDSA one counts as ALL; a PSBT's is an error.
Acceptable(i, o) ==
    /\ ~TooShort(who, o.path)
    /\ IF IsTaproot(i) THEN Identity[who].taproot
       ELSE /\ tx[i].witness_script /\ tx[i].witness_utxo
            /\ op = "sign_transaction" => tx[i].sighash_ok

\* The maps are ordered by public key, so the first of our origins is any of them.
MatchInput ==
    /\ pc = "input"
    /\ idx <= Len(tx)
    /\ \E o \in ToSign(who, idx) :
         \/ /\ Acceptable(idx, o)
            /\ origin' = o /\ key' = FederationKey(who) /\ depth' = 0
            /\ pc' = "derive"
            /\ UNCHANGED result
         \/ /\ ~Acceptable(idx, o)
            /\ Return("error")
            /\ UNCHANGED <<origin, key, depth>>
    /\ CallUnchanged
    /\ UNCHANGED <<sigs, idx, leaves, live, refused>>

-----------------------------------------------------------------------------
(* derive_path: one C_DeriveKey per segment                                *)

Segments == Relative(who, origin.path)

Derived == depth = Len(Segments)

\* Each derivation makes a session object and nothing destroys the ones before
\* the last.
DeriveChild ==
    /\ pc = "derive" /\ ~Derived
    /\ \/ /\ depth' = depth + 1
          /\ key' = [root |-> key.root, path |-> Append(key.path, Segments[depth + 1])]
          /\ live' = [live EXCEPT ![who] = @ \cup {Handle(depth + 1)}]
          /\ UNCHANGED <<pc, result>>
       \/ /\ "derive" \in Fallible
          /\ Return("error")
          /\ UNCHANGED <<depth, key, live>>
    /\ CallUnchanged
    /\ UNCHANGED <<sigs, idx, origin, leaves, refused>>

\* The object the input was signed with is destroyed, unless it is the
\* federation key; an error of destroy_object is ignored.
\* Mutants: the federation key is destroyed with the others; nothing is.
DestroySigningKey_Always ==
    /\ live' = [live EXCEPT ![who] = @ \ {IF depth = 0 THEN FederationHandle ELSE Handle(depth)}]
    /\ UNCHANGED refused
DestroySigningKey_Never == ObjectsUnchanged

DestroySigningKey ==
    \/ /\ live' = [live EXCEPT ![who] = @ \ (IF depth = 0 THEN {} ELSE {Handle(depth)})]
       /\ UNCHANGED refused
    \/ /\ "destroy" \in Fallible /\ depth > 0
       /\ refused' = refused \cup {Handle(depth)}
       /\ UNCHANGED live

\* Mutant: the signature is kept under the key that made it.
Slot_Made(leaf) == [key |-> FederationKey(who), leaf |-> leaf]

Slot(leaf) == [key |-> origin.key, leaf |-> leaf]

\* Inserting in the map replaces what the slot held.
StoreSignature(leaf) ==
    sigs' = {s \in sigs : ~(s.input = idx /\ s.slot = Slot(leaf))}
              \cup {[input |-> idx, slot |-> Slot(leaf), key |-> key,
                     by |-> who, call |-> calls]}

-----------------------------------------------------------------------------
(* P2WSH                                                                   *)

\* C_Sign with CKM_ECDSA, or no SegWit signer at all.  The outcome is looked
\* at only after the cleanup.
SignEcdsa ==
    /\ pc = "derive" /\ Derived /\ ~IsTaproot(idx)
    /\ \/ Identity[who].segwit /\ pc' = "signed"
       \/ (~Identity[who].segwit \/ "sign" \in Fallible) /\ pc' = "not_signed"
    /\ CallUnchanged
    /\ UNCHANGED <<sigs, idx, origin, key, depth, leaves, live, refused, result>>

\* Mutants: an input that could not be signed is skipped, or tried again.
SignFailed_Skip  == idx' = idx + 1 /\ pc' = "input" /\ UNCHANGED result
SignFailed_Retry == pc' = "derive" /\ UNCHANGED <<idx, result>>

SignFailed == Return("error") /\ UNCHANGED idx

FinishEcdsa ==
    /\ \/ /\ pc = "signed"
          /\ StoreSignature(NoLeaf)
          /\ idx' = idx + 1 /\ pc' = "input"
          /\ UNCHANGED result
       \/ /\ pc = "not_signed"
          /\ SignFailed
          /\ UNCHANGED sigs
    /\ DestroySigningKey
    /\ CallUnchanged
    /\ UNCHANGED <<origin, key, depth, leaves>>

-----------------------------------------------------------------------------
(* Taproot script path                                                     *)

\* The sighash needs every previous output and a valid type.  Both are checked
\* after the derivation, and an error leaves the derived keys behind.
PrepareTaproot ==
    /\ pc = "derive" /\ Derived /\ IsTaproot(idx)
    /\ \/ /\ tx[idx].sighash_ok /\ \A i \in DOMAIN tx : tx[i].witness_utxo
          /\ leaves' = origin.leaves /\ pc' = "leaf"
          /\ UNCHANGED result
       \/ /\ ~(tx[idx].sighash_ok /\ \A i \in DOMAIN tx : tx[i].witness_utxo)
          /\ Return("error")
          /\ UNCHANGED leaves
    /\ CallUnchanged
    /\ UNCHANGED <<sigs, idx, origin, key, depth, live, refused>>

SignLeaf ==
    /\ pc = "leaf"
    /\ \E leaf \in leaves :
         \/ /\ StoreSignature(leaf)
            /\ leaves' = leaves \ {leaf}
            /\ UNCHANGED <<pc, result>>
         \/ /\ "sign" \in Fallible
            /\ Return("error")
            /\ UNCHANGED <<sigs, leaves>>
    /\ CallUnchanged
    /\ UNCHANGED <<idx, origin, key, depth, live, refused>>

FinishTaproot ==
    /\ pc = "leaf" /\ leaves = {}
    /\ DestroySigningKey
    /\ idx' = idx + 1 /\ pc' = "input"
    /\ CallUnchanged
    /\ UNCHANGED <<sigs, origin, key, depth, leaves, result>>

-----------------------------------------------------------------------------
Init ==
    /\ tx \in Psbts
    /\ sigs = {} /\ refused = {} /\ live = [c \in Cosigner |-> {FederationHandle}]
    /\ who \in Cosigner /\ op \in Ops
    /\ pc = "idle" /\ idx = 1 /\ result = "none" /\ calls = 0
    /\ key = FederationKey(who) /\ depth = 0 /\ leaves = {}
    /\ origin = [key |-> key, fingerprint |-> Identity[who].fingerprint,
                 path |-> Identity[who].path, leaves |-> {}]

Work == \/ NextInput \/ AllInputsDone \/ MatchInput \/ DeriveChild
        \/ SignEcdsa \/ FinishEcdsa
        \/ PrepareTaproot \/ SignLeaf \/ FinishTaproot

Finished == pc = "idle" /\ calls = MaxCalls /\ UNCHANGED vars

Next == Call \/ Work \/ Finished

\* A call that runs goes on running.
Spec == Init /\ [][Next]_vars /\ WF_vars(Work)

-----------------------------------------------------------------------------
(* Properties                                                              *)

\* Where a call works on one input.
AtInput == {"derive", "signed", "not_signed", "leaf"}

\* Every variable holds a value of its kind, and a derivation goes no further
\* than the path it follows.
TypeOK ==
    /\ \A s \in sigs : /\ s.input \in DOMAIN tx
                       /\ s.by \in Cosigner /\ s.call \in 1 .. calls
                       /\ DOMAIN s.key = {"root", "path"}
    /\ who \in Cosigner /\ op \in Ops
    /\ pc \in {"idle", "input"} \cup AtInput
    /\ idx \in 1 .. Len(tx) + 1
    /\ pc \in AtInput => depth \in 0 .. Len(origin.path) - Len(Identity[who].path)
    /\ result \in {"none", "running", "ok", "error"}
    /\ calls \in 0 .. MaxCalls

\* A signature that is stored under a public key was made by that key: the
\* segments stripped from the path are those of the federation key, and the
\* key found by its fingerprint is ours.  It holds when no two cosigners share
\* a fingerprint; the code compares nothing else.
StoredUnderItsKey == \A s \in sigs : s.key = s.slot.key

\* A call never takes away or replaces what another cosigner stored.
OthersSignaturesKept == [][\A s \in sigs \ sigs' : s.by = who]_vars

\* Has input i a signature of cosigner c for one of its origins, on every leaf?
SignedBy(c, i) ==
    \E o \in ToSign(c, i) :
        \A leaf \in IF IsTaproot(i) THEN o.leaves ELSE {NoLeaf} :
            \E s \in sigs : s.input = i /\ s.slot = [key |-> o.key, leaf |-> leaf]

\* Inputs are signed in order and none is passed over: whatever is behind the
\* loop is signed if it is ours, whatever is ahead is untouched by this call.
\* So a call that returns Ok has signed all that is ours, and one that fails
\* leaves the signatures of exactly the inputs before the failure (and, in a
\* taproot input, of the leaves before it).
SignedInOrder ==
    /\ calls > 0 => \A i \in 1 .. idx - 1 : Ours(who, i) = ToSign(who, i) /\ Ours(who, i) # {}
                                              => SignedBy(who, i)
    /\ \A s \in sigs : s.call = calls => s.input <= idx

\* The federation key outlives every call, although it takes the place of the
\* derived key when an input is signed by it directly.
FederationKeyKept == \A c \in Cosigner : FederationHandle \in live[c]

\* What is left on the token of an input that this call has signed: the
\* intermediate keys of its path, each one once, and not the key that signed,
\* unless the token refused to destroy it.
LeftAt(i) == {h.depth : h \in {g \in live[who] \ refused : g.call = calls /\ g.input = i}}

OnlyIntermediatesLeft ==
    calls > 0 => \A i \in 1 .. idx - 1 :
        Ours(who, i) = ToSign(who, i) /\ Ours(who, i) # {}
          => \E o \in ToSign(who, i) : LeftAt(i) = 1 .. Len(Relative(who, o.path)) - 1

\* Every call ends, whatever the transaction and whatever fails.
CallEnds == pc # "idle" ~> pc = "idle"

=============================================================================
