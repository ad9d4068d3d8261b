------------------------- MODULE InputSigningProofs -------------------------
(***************************************************************************)
(* What holds of the input loops for any cosigners, transactions and       *)
(* failures: types; the federation key survives; inputs are signed in      *)
(* order and none is passed over; of the derived keys only intermediates   *)
(* stay on the token; and, of transactions whose key origins are true,     *)
(* every signature is stored under the key that made it, and no cosigner   *)
(* takes away another's.                                                   *)
(***************************************************************************)
EXTENDS InputSigning, SequenceTheorems, TLAPS

\* What the steps do to the objects of the sessions.
FederationInv == /\ who \in Cosigner
                 /\ depth \in Nat
                 /\ live = [c \in Cosigner |-> live[c]]
                 /\ FederationKeyKept

LEMMA FederationInit == Init => FederationInv
  BY DEF Init, FederationInv, FederationKeyKept

\* A step that adds derived keys, or removes one, leaves the federation keys.
LEMMA KeepsFederation ==
  ASSUME FederationInv, who' \in Cosigner, depth' \in Nat, NEW kept,
         live' = [live EXCEPT ![who] = kept], FederationHandle \in kept
  PROVE  FederationInv'
  BY DEF FederationInv, FederationKeyKept, FederationHandle

LEMMA DestroyKeepsFederation ==
  ASSUME FederationInv, DestroySigningKey, UNCHANGED <<who, depth>>
  PROVE  FederationInv'
<1>1. CASE live' = [live EXCEPT ![who] = @ \ (IF depth = 0 THEN {} ELSE {Handle(depth)})]
  <2> DEFINE gone == IF depth = 0 THEN {} ELSE {Handle(depth)}
  <2>1. FederationHandle \notin gone
    BY DEF FederationInv, FederationHandle, Handle
  <2>2. FederationHandle \in live[who] \ gone
    BY <2>1 DEF FederationInv, FederationKeyKept
  <2>3. live' = [live EXCEPT ![who] = live[who] \ gone]
    BY <1>1
  <2> QED
    BY <2>2, <2>3, KeepsFederation DEF FederationInv
<1>2. CASE UNCHANGED live
  BY <1>2 DEF FederationInv, FederationKeyKept, FederationHandle
<1> QED
  BY <1>1, <1>2 DEF DestroySigningKey

LEMMA FederationStep == FederationInv /\ [Next]_vars => FederationInv'
<1> SUFFICES ASSUME FederationInv, [Next]_vars PROVE FederationInv'
  OBVIOUS
<1>1. CASE UNCHANGED <<who, depth, live>>
  BY <1>1 DEF FederationInv, FederationKeyKept, FederationHandle
<1>2. CASE Call
  BY <1>2 DEF Call, FederationInv, FederationKeyKept, FederationHandle
<1>3. CASE MatchInput
  BY <1>3 DEF MatchInput, CallUnchanged, FederationInv, FederationKeyKept, FederationHandle
<1>4. CASE DeriveChild
  <2>1. CASE live' = [live EXCEPT ![who] = @ \cup {Handle(depth + 1)}]
    <3>1. FederationHandle \in live[who] \cup {Handle(depth + 1)}
      BY DEF FederationInv, FederationKeyKept
    <3>2. who' \in Cosigner /\ depth' \in Nat
      BY <1>4 DEF DeriveChild, CallUnchanged, FederationInv
    <3>3. live' = [live EXCEPT ![who] = live[who] \cup {Handle(depth + 1)}]
      BY <2>1
    <3> QED
      BY <3>1, <3>2, <3>3, KeepsFederation
  <2>2. CASE UNCHANGED <<who, depth, live>>
    BY <1>1, <2>2
  <2> QED
    BY <1>4, <2>1, <2>2 DEF DeriveChild, CallUnchanged
<1>5. CASE FinishEcdsa
  BY <1>5, DestroyKeepsFederation DEF FinishEcdsa, CallUnchanged
<1>6. CASE FinishTaproot
  BY <1>6, DestroyKeepsFederation DEF FinishTaproot, CallUnchanged
<1>7. CASE NextInput \/ AllInputsDone \/ SignEcdsa \/ PrepareTaproot \/ SignLeaf
  BY <1>1, <1>7 DEF NextInput, AllInputsDone, SignEcdsa, PrepareTaproot, SignLeaf,
                    CallUnchanged
<1>8. CASE Finished \/ UNCHANGED vars
  BY <1>1, <1>8 DEF Finished, vars
<1> QED
  BY <1>2, <1>3, <1>4, <1>5, <1>6, <1>7, <1>8 DEF Next, Work

\* No call destroys a federation key, although an input whose path ends at it
\* is signed by it in the place of a derived key.
THEOREM FederationKeySafe == Spec => []FederationKeyKept
<1>1. FederationInv => FederationKeyKept
  BY DEF FederationInv
<1> QED
  BY FederationInit, FederationStep, <1>1, PTL DEF Spec

-----------------------------------------------------------------------------
(* Which key made a signature                                              *)

Ancestry(c) == Len(Identity[c].path)

\* An origin of the transactions that carries a cosigner's fingerprint is of a
\* key of that cosigner: the path leads to the key, and if it is long enough
\* to be used, by way of the federation key.
OriginsTruthful ==
    \A psbt \in Psbts : \A i \in DOMAIN psbt :
      \A o \in psbt[i].bip32_derivation \cup psbt[i].tap_key_origins : \A c \in Cosigner :
        o.fingerprint = Identity[c].fingerprint =>
          /\ o.key = [root |-> Identity[c].root, path |-> o.path]
          /\ Ancestry(c) <= Len(o.path) => SubSeq(o.path, 1, Ancestry(c)) = Identity[c].path

\* No two cosigners have their keys from one seed.
DistinctRoots == \A c, d \in Cosigner : Identity[c].root = Identity[d].root => c = d

\* While an input is being signed, the key at hand is on the way from the
\* federation key to the key the origin names, and has arrived when it signs.
SigningOK ==
    /\ origin.path \in Seq(Nat) /\ Ancestry(who) <= Len(origin.path)
    /\ origin.key = [root |-> Identity[who].root, path |-> origin.path]
    /\ depth \in 0 .. Len(origin.path) - Ancestry(who)
    /\ key = [root |-> Identity[who].root,
              path |-> SubSeq(origin.path, 1, Ancestry(who) + depth)]
    /\ pc # "derive" => depth = Len(origin.path) - Ancestry(who)

SignatureOK(s) == /\ s.by \in Cosigner
                  /\ s.key = s.slot.key
                  /\ s.slot.key.root = Identity[s.by].root

SignaturesInv == /\ tx \in Psbts /\ who \in Cosigner /\ idx \in Nat \ {0}
                 /\ pc \in {"derive", "signed", "not_signed", "leaf"} => SigningOK
                 /\ \A s \in sigs : SignatureOK(s)

\* What is left of a path when its first n segments are dropped.
LEMMA Dropped ==
  ASSUME NEW path \in Seq(Nat), NEW n \in Nat, n <= Len(path)
  PROVE  /\ Len(SubSeq(path, n + 1, Len(path))) = Len(path) - n
         /\ \A d \in 1 .. Len(path) - n : SubSeq(path, n + 1, Len(path))[d] = path[n + d]
  OBVIOUS

\* A path that is taken one segment further.
LEMMA OneFurther ==
  ASSUME NEW path \in Seq(Nat), NEW m \in Nat, m < Len(path)
  PROVE  Append(SubSeq(path, 1, m), path[m + 1]) = SubSeq(path, 1, m + 1)
<1> DEFINE a == Append(SubSeq(path, 1, m), path[m + 1])
           b == SubSeq(path, 1, m + 1)
<1>1. SubSeq(path, 1, m) \in Seq(Nat) /\ Len(SubSeq(path, 1, m)) = m
  OBVIOUS
<1>2. a \in Seq(Nat) /\ Len(a) = m + 1
  BY <1>1
<1>3. b \in Seq(Nat) /\ Len(b) = m + 1
  OBVIOUS
<1>4. ASSUME NEW i \in 1 .. m + 1 PROVE a[i] = b[i]
  BY <1>1
<1> QED
  BY <1>2, <1>3, <1>4, SeqEqual

\* The signing key has arrived: it is the one the origin names.
LEMMA Arrived ==
  ASSUME SigningOK, depth = Len(origin.path) - Ancestry(who), Ancestry(who) \in Nat
  PROVE  key = origin.key
<1> DEFINE path == origin.path
<1>1. path \in Seq(Nat) /\ Len(path) \in Nat
  BY DEF SigningOK
<1>2. Ancestry(who) + depth = Len(path)
  BY <1>1
<1>3. SubSeq(path, 1, Len(path)) = path
  BY <1>1
<1>4. key = [root |-> Identity[who].root, path |-> SubSeq(path, 1, Ancestry(who) + depth)]
  BY DEF SigningOK
<1>5. key = [root |-> Identity[who].root, path |-> path]
  BY <1>2, <1>3, <1>4
<1> QED
  BY <1>5 DEF SigningOK

\* Storing a signature keeps the others in order; it takes one away only where
\* the slot names a key of the cosigner that signs.
LEMMA StoreOK ==
  ASSUME SignaturesInv, SigningOK, key = origin.key,
         NEW leaf, StoreSignature(leaf)
  PROVE  /\ \A s \in sigs' : SignatureOK(s)
         /\ \A s \in sigs \ sigs' : s.slot.key.root = Identity[who].root
<1> DEFINE new == [input |-> idx, slot |-> Slot(leaf), key |-> key, by |-> who,
                   call |-> calls]
<1>1. SignatureOK(new)
  <2>1. new.by = who /\ new.key = key /\ new.slot = Slot(leaf)
    OBVIOUS
  <2>2. Slot(leaf).key = origin.key
    BY DEF Slot
  <2>3. origin.key.root = Identity[who].root
    BY DEF SigningOK
  <2> QED
    BY <2>1, <2>2, <2>3 DEF SignatureOK, SignaturesInv
<1>2. sigs' = {s \in sigs : ~(s.input = idx /\ s.slot = Slot(leaf))} \cup {new}
  BY DEF StoreSignature
<1>3. \A s \in sigs' : SignatureOK(s)
  BY <1>1, <1>2 DEF SignaturesInv
<1>4. ASSUME NEW s \in sigs \ sigs' PROVE s.slot.key.root = Identity[who].root
  <2>1. s.slot = Slot(leaf)
    BY <1>2
  <2> QED
    BY <2>1 DEF Slot, SigningOK
<1> QED
  BY <1>3, <1>4

\* What a step has to show that neither stores nor starts to sign.
LEMMA OnlyMoves ==
  ASSUME SignaturesInv, tx' = tx, who' \in Cosigner, idx' \in Nat \ {0}, sigs' = sigs,
         pc' \notin {"derive", "signed", "not_signed", "leaf"}
  PROVE  SignaturesInv'
  BY DEF SignaturesInv, SignatureOK

\* The cosigner's path is a sequence, and the transaction too.
LEMMA Lengths ==
  ASSUME tx \in Psbts, who \in Cosigner
  PROVE  /\ Ancestry(who) \in Nat /\ Identity[who].path \in Seq(Nat)
         /\ Len(tx) \in Nat /\ DOMAIN tx = 1 .. Len(tx)
<1>1. Identity[who].path \in Seq(Nat)
  BY InputSigningAssumption
<1>2. tx \in Seq({tx[i] : i \in DOMAIN tx})
  BY InputSigningAssumption
<1> QED
  BY <1>1, <1>2 DEF Ancestry

LEMMA Shapes ==
  ASSUME SignaturesInv
  PROVE  /\ Ancestry(who) \in Nat /\ Identity[who].path \in Seq(Nat)
         /\ Len(tx) \in Nat /\ DOMAIN tx = 1 .. Len(tx)
  BY Lengths DEF SignaturesInv

LEMMA SignaturesInit == Init => SignaturesInv
  BY DEF Init, SignaturesInv

LEMMA MatchOK ==
  ASSUME OriginsTruthful, SignaturesInv, MatchInput
  PROVE  SignaturesInv'
<1>1. PICK o \in ToSign(who, idx) :
         \/ /\ Acceptable(idx, o)
            /\ origin' = o /\ key' = FederationKey(who) /\ depth' = 0
            /\ pc' = "derive"
         \/ pc' = "idle"
  BY DEF MatchInput, Return
<1>2. UNCHANGED <<tx, who, idx, sigs>>
  BY DEF MatchInput, CallUnchanged
<1>3. CASE pc' = "idle"
  BY <1>2, <1>3, OnlyMoves DEF SignaturesInv
<1>4. CASE /\ Acceptable(idx, o)
           /\ origin' = o /\ key' = FederationKey(who) /\ depth' = 0
           /\ pc' = "derive"
  <2>1. idx \in DOMAIN tx
    BY Shapes DEF MatchInput, SignaturesInv
  <2>2. /\ o \in tx[idx].bip32_derivation \cup tx[idx].tap_key_origins
        /\ o.fingerprint = Identity[who].fingerprint
    BY <1>1 DEF ToSign, Ours, Origins
  <2>3. /\ o.path \in Seq(Nat)
        /\ o.key = [root |-> Identity[who].root, path |-> o.path]
        /\ Ancestry(who) <= Len(o.path) => SubSeq(o.path, 1, Ancestry(who)) = Identity[who].path
    <3>1. o.path \in Seq(Nat)
      BY <2>1, <2>2, InputSigningAssumption DEF SignaturesInv
    <3> QED
      BY <2>1, <2>2, <3>1 DEF OriginsTruthful, SignaturesInv
  <2>4. Ancestry(who) <= Len(o.path)
    BY <1>4, <2>3, Shapes DEF Acceptable, TooShort, Ancestry
  <2>5. /\ Ancestry(who)' = Ancestry(who) /\ Ancestry(who) \in Nat
        /\ Ancestry(who) + 0 = Ancestry(who)
        /\ Len(o.path) \in Nat
    BY <1>2, <2>3, Shapes DEF Ancestry
  <2>6. key' = [root |-> Identity[who].root, path |-> SubSeq(o.path, 1, Ancestry(who))]
    BY <1>4, <2>3, <2>4 DEF FederationKey
  <2>7. 0 \in 0 .. Len(o.path) - Ancestry(who)
    BY <2>4, <2>5
  <2>8. SigningOK'
    BY <1>2, <1>4, <2>3, <2>4, <2>5, <2>6, <2>7 DEF SigningOK
  <2> QED
    BY <1>2, <2>8 DEF SignaturesInv, SignatureOK
<1> QED
  BY <1>1, <1>3, <1>4

LEMMA DeriveOK ==
  ASSUME SignaturesInv, DeriveChild
  PROVE  SignaturesInv'
<1>1. UNCHANGED <<tx, who, idx, sigs, origin>>
  BY DEF DeriveChild, CallUnchanged
<1>2. CASE pc' = "idle"
  BY <1>1, <1>2, OnlyMoves DEF SignaturesInv
<1>3. CASE /\ depth' = depth + 1 /\ pc' = pc
           /\ key' = [root |-> key.root, path |-> Append(key.path, Segments[depth + 1])]
  <2> DEFINE n == Ancestry(who)
  <2>1. SigningOK /\ n \in Nat /\ pc = "derive"
    BY Shapes DEF DeriveChild, SignaturesInv
  <2>2. /\ Len(Segments) = Len(origin.path) - n
        /\ \A d \in 1 .. Len(origin.path) - n : Segments[d] = origin.path[n + d]
    BY <2>1, Dropped DEF Segments, Relative, SigningOK, Ancestry
  <2>3. /\ depth \in Nat /\ depth < Len(origin.path) - n /\ depth + 1 \in 1 .. Len(origin.path) - n
        /\ Len(origin.path) \in Nat /\ n + (depth + 1) = (n + depth) + 1
    <3>1. origin.path \in Seq(Nat) /\ depth \in 0 .. Len(origin.path) - n
      BY <2>1 DEF SigningOK
    <3>2. Len(origin.path) \in Nat /\ depth \in Nat /\ depth <= Len(origin.path) - n
      BY <2>1, <3>1
    <3>3. depth # Len(origin.path) - n
      BY <2>2 DEF DeriveChild, Derived
    <3> HIDE DEF n
    <3> QED
      BY <2>1, <3>2, <3>3
  <2>4. Segments[depth + 1] = origin.path[(n + depth) + 1]
    BY <2>2, <2>3
  <2>5. key.path = SubSeq(origin.path, 1, n + depth) /\ key.root = Identity[who].root
    BY <2>1 DEF SigningOK
  <2>6. Append(SubSeq(origin.path, 1, n + depth), origin.path[(n + depth) + 1])
          = SubSeq(origin.path, 1, (n + depth) + 1)
    <3>1. origin.path \in Seq(Nat) /\ n + depth \in Nat /\ n + depth < Len(origin.path)
      BY <2>1, <2>3 DEF SigningOK
    <3> QED
      BY <3>1, OneFurther
  <2>7. key' = [root |-> Identity[who].root, path |-> SubSeq(origin.path, 1, n + (depth + 1))]
    BY <1>3, <2>3, <2>4, <2>5, <2>6
  <2>8. Ancestry(who)' = Ancestry(who)
    BY <1>1 DEF Ancestry
  <2>9. SigningOK'
    <3>1. origin' = origin /\ who' = who /\ pc' = "derive" /\ depth' = depth + 1
      BY <1>1, <1>3, <2>1
    <3>2. depth + 1 \in 0 .. Len(origin.path) - n
      BY <2>3
    <3>3. key' = [root |-> Identity[who'].root,
                  path |-> SubSeq(origin'.path, 1, Ancestry(who)' + depth')]
      BY <2>7, <2>8, <3>1
    <3> QED
      BY <2>1, <2>8, <3>1, <3>2, <3>3 DEF SigningOK
  <2> QED
    BY <1>1, <2>9 DEF SignaturesInv, SignatureOK
<1> QED
  BY <1>2, <1>3 DEF DeriveChild, Return

\* Who signs has arrived.
LEMMA DerivedHasArrived ==
  ASSUME SignaturesInv, pc = "derive", Derived
  PROVE  SigningOK /\ depth = Len(origin.path) - Ancestry(who)
<1>1. SigningOK /\ Ancestry(who) \in Nat
  BY Shapes DEF SignaturesInv
<1>2. Len(Segments) = Len(origin.path) - Ancestry(who)
  BY <1>1, Dropped DEF Segments, Relative, SigningOK, Ancestry
<1> QED
  BY <1>1, <1>2 DEF Derived

LEMMA SignaturesStep ==
  ASSUME OriginsTruthful, SignaturesInv, [Next]_vars
  PROVE  /\ SignaturesInv'
         /\ \A s \in sigs \ sigs' : s.slot.key.root = Identity[who].root
<1>1. CASE Call
  <2>1. who' \in Cosigner /\ pc' = "input" /\ idx' = 1 /\ UNCHANGED <<tx, sigs>>
    BY <1>1 DEF Call
  <2> QED
    BY <2>1, OnlyMoves
<1>2. CASE NextInput \/ AllInputsDone
  <2>1. /\ pc' \in {"input", "idle"} /\ UNCHANGED <<tx, who, sigs>>
        /\ idx' \in Nat \ {0}
    BY <1>2 DEF NextInput, AllInputsDone, Return, CallUnchanged, SignaturesInv
  <2> QED
    BY <2>1, OnlyMoves DEF SignaturesInv
<1>3. CASE MatchInput
  <2>1. sigs' = sigs
    BY <1>3 DEF MatchInput
  <2> QED
    BY <1>3, <2>1, MatchOK
<1>4. CASE DeriveChild
  <2>1. sigs' = sigs
    BY <1>4 DEF DeriveChild
  <2> QED
    BY <1>4, <2>1, DeriveOK
<1>5. CASE SignEcdsa
  <2>1. /\ UNCHANGED <<tx, who, idx, sigs, origin, key, depth>>
        /\ pc = "derive" /\ Derived
    BY <1>5 DEF SignEcdsa, CallUnchanged
  <2>2. SigningOK /\ depth = Len(origin.path) - Ancestry(who)
    BY <2>1, DerivedHasArrived
  <2>3. SigningOK'
    BY <2>1, <2>2 DEF SigningOK, Ancestry
  <2> QED
    BY <2>1, <2>3 DEF SignaturesInv, SignatureOK
<1>6. CASE FinishEcdsa
  <2>1. UNCHANGED <<tx, who>>
    BY <1>6 DEF FinishEcdsa, CallUnchanged
  <2>2. CASE pc = "signed" /\ StoreSignature(NoLeaf) /\ idx' = idx + 1 /\ pc' = "input"
    <3>1. SigningOK /\ key = origin.key
      BY <2>2, Arrived, Shapes DEF SignaturesInv, SigningOK
    <3>2. /\ \A s \in sigs' : SignatureOK(s)
          /\ \A s \in sigs \ sigs' : s.slot.key.root = Identity[who].root
      BY <2>2, <3>1, StoreOK
    <3>3. \A s \in sigs' : SignatureOK(s)'
      BY <3>2 DEF SignatureOK
    <3> QED
      BY <2>1, <2>2, <3>2, <3>3 DEF SignaturesInv
  <2>3. CASE pc' = "idle" /\ UNCHANGED <<idx, sigs>>
    BY <2>1, <2>3, OnlyMoves DEF SignaturesInv
  <2> QED
    BY <1>6, <2>2, <2>3 DEF FinishEcdsa, SignFailed, Return
<1>7. CASE PrepareTaproot
  <2>1. /\ UNCHANGED <<tx, who, idx, sigs, origin, key, depth>>
        /\ pc = "derive" /\ Derived /\ pc' \in {"leaf", "idle"}
    BY <1>7 DEF PrepareTaproot, CallUnchanged, Return
  <2>2. SigningOK /\ depth = Len(origin.path) - Ancestry(who)
    BY <2>1, DerivedHasArrived
  <2>3. SigningOK'
    BY <2>1, <2>2 DEF SigningOK, Ancestry
  <2> QED
    BY <2>1, <2>3 DEF SignaturesInv, SignatureOK
<1>8. CASE SignLeaf
  <2>1. pc = "leaf" /\ UNCHANGED <<tx, who, idx, origin, key, depth>>
    BY <1>8 DEF SignLeaf, CallUnchanged
  <2>2. SigningOK /\ key = origin.key
    BY <2>1, Arrived, Shapes DEF SignaturesInv, SigningOK
  <2>3. CASE pc' = pc /\ \E leaf \in leaves : StoreSignature(leaf)
    <3>1. /\ \A s \in sigs' : SignatureOK(s)
          /\ \A s \in sigs \ sigs' : s.slot.key.root = Identity[who].root
      BY <2>2, <2>3, StoreOK
    <3>2. \A s \in sigs' : SignatureOK(s)'
      BY <3>1 DEF SignatureOK
    <3>3. SigningOK'
      BY <2>1, <2>2, <2>3 DEF SigningOK, Ancestry
    <3> QED
      BY <2>1, <3>1, <3>2, <3>3 DEF SignaturesInv
  <2>4. CASE pc' = "idle" /\ sigs' = sigs
    BY <2>1, <2>4, OnlyMoves DEF SignaturesInv
  <2> QED
    BY <1>8, <2>3, <2>4 DEF SignLeaf, Return
<1>9. CASE FinishTaproot
  <2>1. /\ pc' = "input" /\ idx' = idx + 1 /\ UNCHANGED <<tx, who, sigs>>
    BY <1>9 DEF FinishTaproot, CallUnchanged
  <2> QED
    BY <2>1, OnlyMoves DEF SignaturesInv
<1>10. CASE Finished \/ UNCHANGED vars
  <2>1. UNCHANGED vars
    BY <1>10 DEF Finished
  <2> QED
    BY <2>1 DEF vars, SignaturesInv, SignatureOK, SigningOK, Ancestry
<1> QED
  BY <1>1, <1>2, <1>3, <1>4, <1>5, <1>6, <1>7, <1>8, <1>9, <1>10 DEF Next, Work

\* Where the origins are true, a signature that is stored under a public key was
\* made by that key, although the code compares no more than a fingerprint and
\* a length: for any paths, cosigners and failures.
THEOREM StoredUnderItsKeySafe ==
  ASSUME OriginsTruthful
  PROVE  Spec => []StoredUnderItsKey
<1>1. Init => SignaturesInv
  BY SignaturesInit
<1>2. SignaturesInv /\ [Next]_vars => SignaturesInv'
  BY SignaturesStep
<1>3. SignaturesInv => StoredUnderItsKey
  BY DEF SignaturesInv, SignatureOK, StoredUnderItsKey
<1> QED
  BY <1>1, <1>2, <1>3, PTL DEF Spec

\* If besides no two cosigners have a seed in common, none of them ever takes
\* away or replaces a signature of another.
THEOREM OthersSignaturesSafe ==
  ASSUME OriginsTruthful, DistinctRoots
  PROVE  Spec => OthersSignaturesKept
<1>1. Init => SignaturesInv
  BY SignaturesInit
<1>2. SignaturesInv /\ [Next]_vars => SignaturesInv'
  BY SignaturesStep
<1>3. ASSUME SignaturesInv, [Next]_vars
      PROVE  \A s \in sigs \ sigs' : s.by = who
  <2> SUFFICES ASSUME NEW s \in sigs \ sigs' PROVE s.by = who
    OBVIOUS
  <2>1. s.slot.key.root = Identity[who].root
    BY <1>3, SignaturesStep
  <2>2. s.by \in Cosigner /\ s.slot.key.root = Identity[s.by].root /\ who \in Cosigner
    BY <1>3 DEF SignaturesInv, SignatureOK
  <2> QED
    BY <2>1, <2>2 DEF DistinctRoots
<1> QED
  BY <1>1, <1>2, <1>3, PTL DEF Spec, OthersSignaturesKept

-----------------------------------------------------------------------------
(* The loop over the inputs                                                *)

\* A call at an input works with one of its origins, and has made of the path
\* what depth says; it signs when the path is at its end.
InputOK ==
    /\ idx \in DOMAIN tx /\ origin \in ToSign(who, idx)
    /\ origin.path \in Seq(Nat) /\ Ancestry(who) <= Len(origin.path)
    /\ depth \in 0 .. Len(Segments)
    /\ pc # "derive" => Derived
    /\ pc \in {"signed", "not_signed"} => ~IsTaproot(idx)
    /\ pc = "leaf" => IsTaproot(idx)

StoredOK(s) == /\ s.input \in DOMAIN tx
               /\ s.by \in Cosigner /\ s.call \in 1 .. calls
               /\ DOMAIN s.key = {"root", "path"}

LoopInv ==
    /\ tx \in Psbts /\ who \in Cosigner /\ op \in Ops
    /\ pc \in {"idle", "input"} \cup AtInput
    /\ idx \in 1 .. Len(tx) + 1
    /\ result \in {"none", "running", "ok", "error"}
    /\ calls \in 0 .. MaxCalls
    /\ pc # "idle" => calls > 0
    /\ DOMAIN key = {"root", "path"}
    /\ \A s \in sigs : StoredOK(s)
    /\ pc \in AtInput => InputOK

\* The leaves behind the call have their signatures, in their own slots.
LeavesInv == pc = "leaf" =>
    \A leaf \in origin.leaves \ leaves : \E s \in sigs : s.input = idx /\ s.slot = Slot(leaf)

\* The objects of a session are of its calls so far; of the last call they are
\* of the inputs up to idx, and at idx they are the keys of the path so far.
\* The token has refused none of them before the end of the input.
ObjectsInv ==
    /\ live \in [Cosigner -> SUBSET [call : 0 .. calls, input : Nat, depth : Nat]]
    /\ refused \subseteq [call : 0 .. calls, input : Nat, depth : Nat]
    /\ calls > 0 => \A g \in live[who] \cup refused : g.call = calls => g.input <= idx
    /\ pc = "input" => \A g \in live[who] \cup refused : g.call = calls => g.input # idx
    /\ pc \in AtInput => /\ LeftAt(idx) = 1 .. depth
                         /\ \A g \in refused : g.call = calls => g.input # idx

LEMMA LoopInit == Init => LoopInv
<1> SUFFICES ASSUME Init PROVE LoopInv
  OBVIOUS
<1>1. tx \in Psbts /\ who \in Cosigner
  BY DEF Init
<1>2. 1 \in 1 .. Len(tx) + 1
  BY <1>1, Lengths
<1>3. DOMAIN key = {"root", "path"}
  BY DEF Init, FederationKey
<1>4. 0 \in 0 .. MaxCalls
  BY InputSigningAssumption
<1> QED
  BY <1>1, <1>2, <1>3, <1>4 DEF Init, LoopInv, AtInput

\* Of an input that is being signed, what the steps of the call leave alone.
LEMMA SameInput ==
  ASSUME UNCHANGED <<tx, who, op, origin>>, NEW i
  PROVE  /\ Ours(who, i)' = Ours(who, i)
         /\ ToSign(who, i)' = ToSign(who, i)
         /\ IsTaproot(i)' = IsTaproot(i)
         /\ Segments' = Segments /\ Ancestry(who)' = Ancestry(who)
  BY DEF Ours, ToSign, Origins, IsTaproot, Segments, Relative, Ancestry

\* A path has as many segments to derive as it is longer than the federation path.
LEMMA SegmentCount ==
  ASSUME tx \in Psbts, who \in Cosigner,
         origin.path \in Seq(Nat), Ancestry(who) <= Len(origin.path)
  PROVE  /\ Len(Segments) = Len(origin.path) - Ancestry(who)
         /\ Len(Segments) \in Nat
<1>1. Ancestry(who) \in Nat /\ Len(origin.path) \in Nat
  BY Lengths
<1>2. Len(Segments) = Len(origin.path) - Ancestry(who)
  BY <1>1, Dropped DEF Segments, Relative, Ancestry
<1> QED
  BY <1>1, <1>2

\* What is stored is of the call and the input at hand.
LEMMA StoredTypes ==
  ASSUME LoopInv, pc \in AtInput, NEW leaf, StoreSignature(leaf), UNCHANGED <<tx, calls>>
  PROVE  \A s \in sigs' : StoredOK(s)'
<1>1. calls \in 1 .. calls /\ idx \in DOMAIN tx
  BY DEF LoopInv, InputOK, AtInput
<1>2. ASSUME NEW s, s = [input |-> idx, slot |-> Slot(leaf), key |-> key, by |-> who,
                         call |-> calls]
      PROVE  StoredOK(s)'
  BY <1>1, <1>2 DEF LoopInv, StoredOK
<1>3. ASSUME NEW s \in sigs PROVE StoredOK(s)'
  BY DEF LoopInv, StoredOK
<1> QED
  BY <1>2, <1>3 DEF StoreSignature

\* Every step keeps the loop in order.
LEMMA LoopStep == LoopInv /\ [Next]_vars => LoopInv'
<1> SUFFICES ASSUME LoopInv, [Next]_vars PROVE LoopInv'
  OBVIOUS
<1>0. /\ idx \in 1 .. Len(tx) + 1 /\ Len(tx) \in Nat /\ DOMAIN tx = 1 .. Len(tx)
      /\ calls \in 0 .. MaxCalls /\ MaxCalls \in Nat
      /\ \A s \in sigs : StoredOK(s)
  BY Lengths, InputSigningAssumption DEF LoopInv
\* A step of the call that leaves the transaction.
<1>q. ASSUME UNCHANGED <<tx, who, op, calls>>, pc # "idle",
             idx' \in 1 .. Len(tx) + 1, pc' \in {"idle", "input"} \cup AtInput,
             result' \in {"none", "running", "ok", "error"},
             DOMAIN key' = {"root", "path"},
             \A s \in sigs' : StoredOK(s)',
             pc' \in AtInput => InputOK'
      PROVE  LoopInv'
  BY <1>q DEF LoopInv
<1>k. ASSUME UNCHANGED <<sigs, tx, calls>> PROVE \A s \in sigs' : StoredOK(s)'
  BY <1>0, <1>k DEF StoredOK
<1>1. CASE Call
  <2>1. /\ calls' = calls + 1 /\ calls < MaxCalls /\ idx' = 1
        /\ UNCHANGED <<tx, sigs, key>>
        /\ who' \in Cosigner /\ op' \in Ops /\ pc' = "input" /\ result' = "running"
    BY <1>1 DEF Call
  <2>2. /\ calls' \in 0 .. MaxCalls /\ calls' > 0 /\ 1 .. calls \subseteq 1 .. calls'
        /\ 1 \in 1 .. Len(tx) + 1
    BY <1>0, <2>1
  <2>3. \A s \in sigs' : StoredOK(s)'
    BY <1>0, <2>1, <2>2 DEF StoredOK
  <2> QED
    BY <2>1, <2>2, <2>3 DEF LoopInv, AtInput
<1>2. CASE NextInput
  <2>1. /\ UNCHANGED <<tx, who, op, calls, sigs, pc, key, result>>
        /\ pc = "input" /\ idx' = idx + 1 /\ idx <= Len(tx)
    BY <1>2 DEF NextInput, CallUnchanged
  <2>2. idx' \in 1 .. Len(tx) + 1
    BY <1>0, <2>1
  <2> QED
    BY <1>k, <1>q, <2>1, <2>2 DEF LoopInv, AtInput
<1>3. CASE AllInputsDone
  BY <1>3, <1>k, <1>q DEF AllInputsDone, CallUnchanged, Return, LoopInv, AtInput
<1>4. CASE MatchInput
  <2>1. PICK o \in ToSign(who, idx) :
           \/ /\ Acceptable(idx, o)
              /\ origin' = o /\ key' = FederationKey(who) /\ depth' = 0
              /\ pc' = "derive"
              /\ UNCHANGED result
           \/ /\ Return("error")
              /\ UNCHANGED <<origin, key, depth>>
    BY <1>4 DEF MatchInput
  <2>2. /\ UNCHANGED <<tx, who, op, calls, sigs, idx>>
        /\ pc = "input" /\ idx \in DOMAIN tx
    BY <1>0, <1>4 DEF MatchInput, CallUnchanged
  <2>3. CASE Return("error") /\ UNCHANGED <<origin, key, depth>>
    BY <1>k, <1>q, <2>2, <2>3 DEF Return, LoopInv, AtInput
  <2>4. CASE /\ Acceptable(idx, o)
             /\ origin' = o /\ key' = FederationKey(who) /\ depth' = 0
             /\ pc' = "derive"
             /\ UNCHANGED result
    <3>1. o \in tx[idx].bip32_derivation \cup tx[idx].tap_key_origins
      BY <2>1 DEF ToSign, Ours, Origins
    <3>2. o.path \in Seq(Nat)
      BY <2>2, <3>1, InputSigningAssumption DEF LoopInv
    <3>3. Ancestry(who) \in Nat /\ Len(o.path) \in Nat
      BY <3>2, Lengths DEF LoopInv
    <3>4. Ancestry(who) <= Len(o.path)
      BY <2>4, <3>3 DEF Acceptable, TooShort, Ancestry
    <3>5. Len(Relative(who, o.path)) \in Nat
      BY <3>2, <3>3, <3>4, Dropped DEF Relative, Ancestry
    <3>6. /\ ToSign(who, idx)' = ToSign(who, idx)
          /\ Ancestry(who)' = Ancestry(who)
          /\ Segments' = Relative(who, o.path)
      BY <2>2, <2>4 DEF ToSign, Ours, Origins, IsTaproot, Segments, Relative, Ancestry
    <3>7. 0 \in 0 .. Len(Segments')
      BY <3>5, <3>6
    <3>8. InputOK'
      BY <2>1, <2>2, <2>4, <3>2, <3>4, <3>6, <3>7 DEF InputOK
    <3>9. DOMAIN key' = {"root", "path"}
      BY <2>4 DEF FederationKey
    <3> QED
      BY <1>k, <1>q, <2>2, <2>4, <3>8, <3>9 DEF LoopInv, AtInput
  <2> QED
    BY <2>1, <2>3, <2>4
\* From here on the call is at an input.
<1>a. ASSUME pc \in AtInput
      PROVE  InputOK /\ Len(Segments) \in Nat /\ depth \in Nat /\ depth <= Len(Segments)
             /\ idx \in 1 .. Len(tx) /\ idx + 1 \in 1 .. Len(tx) + 1 /\ pc # "idle"
  <2>1. InputOK
    BY <1>a DEF LoopInv
  <2>2. Len(Segments) \in Nat
    BY <2>1, SegmentCount DEF LoopInv, InputOK
  <2> QED
    BY <1>0, <1>a, <2>1, <2>2 DEF InputOK, AtInput
<1>5. CASE DeriveChild
  <2>1. /\ UNCHANGED <<tx, who, op, calls, sigs, idx, origin>>
        /\ pc = "derive" /\ ~Derived
    BY <1>5 DEF DeriveChild, CallUnchanged
  <2>2. InputOK /\ depth \in Nat /\ Len(Segments) \in Nat /\ depth <= Len(Segments)
    BY <1>a, <2>1 DEF AtInput
  <2>3. CASE /\ depth' = depth + 1 /\ UNCHANGED <<pc, result>>
             /\ key' = [root |-> key.root, path |-> Append(key.path, Segments[depth + 1])]
    <3>1. depth + 1 \in 0 .. Len(Segments)
      BY <2>1, <2>2 DEF Derived
    <3>2. Segments' = Segments /\ Ancestry(who)' = Ancestry(who)
          /\ ToSign(who, idx)' = ToSign(who, idx)
      BY <2>1, SameInput DEF ToSign, Ours, Origins, IsTaproot
    <3>3. InputOK'
      BY <2>1, <2>2, <2>3, <3>1, <3>2 DEF InputOK
    <3>4. DOMAIN key' = {"root", "path"}
      BY <2>3
    <3> QED
      BY <1>0, <1>k, <1>q, <2>1, <2>3, <3>3, <3>4 DEF LoopInv, AtInput
  <2>4. CASE Return("error") /\ UNCHANGED key
    BY <1>0, <1>k, <1>q, <2>1, <2>4 DEF Return, LoopInv, AtInput
  <2> QED
    BY <1>5, <2>3, <2>4 DEF DeriveChild
\* A step that stays at the input with the key it has derived.
<1>s. ASSUME UNCHANGED <<tx, who, op, calls, idx, origin, key, depth>>, pc \in AtInput, Derived,
             pc' \in AtInput \ {"derive"}, result' = result,
             pc' \in {"signed", "not_signed"} => ~IsTaproot(idx),
             pc' = "leaf" => IsTaproot(idx),
             \A s \in sigs' : StoredOK(s)'
      PROVE  LoopInv'
  <2>1. InputOK
    BY <1>a, <1>s
  <2>2. Segments' = Segments /\ Ancestry(who)' = Ancestry(who) /\ Derived'
        /\ ToSign(who, idx)' = ToSign(who, idx) /\ IsTaproot(idx)' = IsTaproot(idx)
    BY <1>s DEF ToSign, Ours, Origins, IsTaproot, Segments, Relative, Ancestry, Derived
  <2>3. InputOK'
    BY <1>s, <2>1, <2>2 DEF InputOK
  <2> QED
    BY <1>0, <1>a, <1>q, <1>s, <2>3 DEF LoopInv
<1>6. CASE SignEcdsa
  BY <1>6, <1>k, <1>s DEF SignEcdsa, CallUnchanged, AtInput
<1>7. CASE FinishEcdsa
  <2>1. UNCHANGED <<tx, who, op, calls, key>> /\ pc \in {"signed", "not_signed"}
    BY <1>7 DEF FinishEcdsa, CallUnchanged
  <2>2. CASE StoreSignature(NoLeaf) /\ idx' = idx + 1 /\ pc' = "input" /\ UNCHANGED result
    <3>1. \A s \in sigs' : StoredOK(s)'
      BY <2>1, <2>2, StoredTypes DEF AtInput
    <3> QED
      BY <1>a, <1>q, <2>1, <2>2, <3>1 DEF LoopInv, AtInput
  <2>3. CASE Return("error") /\ UNCHANGED <<idx, sigs>>
    BY <1>0, <1>k, <1>q, <2>1, <2>3 DEF Return, LoopInv, AtInput
  <2> QED
    BY <1>7, <2>2, <2>3 DEF FinishEcdsa, SignFailed
<1>8. CASE PrepareTaproot
  <2>1. CASE pc' = "leaf" /\ UNCHANGED result
    BY <1>8, <1>k, <1>s, <2>1 DEF PrepareTaproot, CallUnchanged, AtInput
  <2>2. CASE Return("error")
    BY <1>0, <1>8, <1>k, <1>q, <2>2 DEF PrepareTaproot, CallUnchanged, Return, LoopInv, AtInput
  <2> QED
    BY <1>8, <2>1, <2>2 DEF PrepareTaproot
<1>9. CASE SignLeaf
  <2>1. UNCHANGED <<tx, who, op, calls, idx, origin, key, depth>> /\ pc = "leaf"
    BY <1>9 DEF SignLeaf, CallUnchanged
  <2>2. InputOK /\ Derived /\ IsTaproot(idx)
    BY <1>a, <2>1 DEF InputOK, AtInput
  <2>3. CASE /\ \E leaf \in leaves : StoreSignature(leaf)
             /\ UNCHANGED <<pc, result>>
    <3>1. \A s \in sigs' : StoredOK(s)'
      BY <2>1, <2>3, StoredTypes DEF AtInput
    <3> QED
      BY <1>s, <2>1, <2>2, <2>3, <3>1 DEF AtInput
  <2>4. CASE Return("error") /\ UNCHANGED sigs
    BY <1>0, <1>k, <1>q, <2>1, <2>4 DEF Return, LoopInv, AtInput
  <2> QED
    BY <1>9, <2>3, <2>4 DEF SignLeaf
<1>10. CASE FinishTaproot
  <2>1. /\ UNCHANGED <<tx, who, op, calls, key, sigs, result>> /\ pc = "leaf"
        /\ idx' = idx + 1 /\ pc' = "input"
    BY <1>10 DEF FinishTaproot, CallUnchanged
  <2> QED
    BY <1>a, <1>k, <1>q, <2>1 DEF LoopInv, AtInput
<1>11. CASE Finished \/ UNCHANGED vars
  <2>1. UNCHANGED vars
    BY <1>11 DEF Finished
  <2> QED
    BY <2>1 DEF vars, LoopInv, StoredOK, InputOK, ToSign, Ours, Origins, IsTaproot, Segments,
                Relative, Ancestry, Derived
<1> QED
  BY <1>1, <1>2, <1>3, <1>4, <1>5, <1>6, <1>7, <1>8, <1>9, <1>10, <1>11 DEF Next, Work

\* The loop is in order in every reachable state.
LEMMA Looping == Spec => []LoopInv
  BY LoopInit, LoopStep, PTL DEF Spec

\* Every variable holds a value of its kind, and no derivation goes beyond the
\* path of the origin it follows: for any paths, lengths and failures.
THEOREM LoopTyped == Spec => []TypeOK
<1>1. LoopInv => TypeOK
  <2> SUFFICES ASSUME LoopInv PROVE TypeOK
    OBVIOUS
  <2>1. ASSUME pc \in AtInput PROVE depth \in 0 .. Len(origin.path) - Len(Identity[who].path)
    <3>1. InputOK
      BY <2>1 DEF LoopInv
    <3>2. Len(Segments) = Len(origin.path) - Ancestry(who)
      BY <3>1, SegmentCount DEF LoopInv, InputOK
    <3> QED
      BY <3>1, <3>2 DEF InputOK, Ancestry
  <2> QED
    BY <2>1 DEF LoopInv, StoredOK, TypeOK
<1> QED
  BY <1>1, Looping, PTL

-----------------------------------------------------------------------------
(* What is behind the loop is signed                                       *)

\* An input that is behind the loop, and is ours, is signed.
Behind(i) == Ours(who, i) = ToSign(who, i) /\ Ours(who, i) # {} => SignedBy(who, i)

OrderInv == SignedInOrder /\ LeavesInv

\* What is signed stays signed while no signature of the input goes.
LEMMA StaysBehind ==
  ASSUME UNCHANGED <<tx, op, who>>, NEW i, Behind(i),
         \A s \in sigs : s.input = i => s \in sigs'
  PROVE  Behind(i)'
<1>1. /\ Ours(who, i)' = Ours(who, i) /\ ToSign(who, i)' = ToSign(who, i)
      /\ IsTaproot(i)' = IsTaproot(i)
  BY DEF Ours, ToSign, Origins, IsTaproot
<1>2. ASSUME SignedBy(who, i) PROVE SignedBy(who, i)'
  <2>1. PICK o \in ToSign(who, i) :
          \A leaf \in IF IsTaproot(i) THEN o.leaves ELSE {NoLeaf} :
            \E s \in sigs : s.input = i /\ s.slot = [key |-> o.key, leaf |-> leaf]
    BY <1>2 DEF SignedBy
  <2>2. \A leaf \in IF IsTaproot(i) THEN o.leaves ELSE {NoLeaf} :
            \E s \in sigs' : s.input = i /\ s.slot = [key |-> o.key, leaf |-> leaf]
    BY <2>1
  <2> QED
    BY <1>1, <2>1, <2>2 DEF SignedBy
<1> QED
  BY <1>1, <1>2 DEF Behind

\* The signature that is stored is in its slot; only that slot of that input
\* has lost what it held.
LEMMA StoreFills ==
  ASSUME NEW leaf, StoreSignature(leaf)
  PROVE  /\ \E s \in sigs' : s.input = idx /\ s.slot = Slot(leaf)
         /\ \A s \in sigs' \ sigs : s.input = idx
         /\ \A s \in sigs \ sigs' : s.input = idx /\ s.slot = Slot(leaf)
<1> DEFINE new == [input |-> idx, slot |-> Slot(leaf), key |-> key, by |-> who, call |-> calls]
<1>1. sigs' = {s \in sigs : ~(s.input = idx /\ s.slot = Slot(leaf))} \cup {new}
  BY DEF StoreSignature
<1>2. new.input = idx /\ new.slot = Slot(leaf)
  OBVIOUS
<1> HIDE DEF new
<1> QED
  BY <1>1, <1>2

\* When all its slots are filled, the input at hand is signed.
LEMMA SignsInput ==
  ASSUME UNCHANGED <<tx, op, who, origin>>, origin \in ToSign(who, idx), NEW i, i = idx,
         \A leaf \in IF IsTaproot(idx) THEN origin.leaves ELSE {NoLeaf} :
            \E s \in sigs' : s.input = idx /\ s.slot = Slot(leaf)
  PROVE  Behind(i)'
<1>1. ToSign(who, i)' = ToSign(who, i) /\ IsTaproot(i)' = IsTaproot(i)
  BY DEF Ours, ToSign, Origins, IsTaproot
<1>2. \A leaf \in IF IsTaproot(i) THEN origin.leaves ELSE {NoLeaf} :
         \E s \in sigs' : s.input = i /\ s.slot = [key |-> origin.key, leaf |-> leaf]
  BY DEF Slot
<1> QED
  BY <1>1, <1>2 DEF Behind, SignedBy

LEMMA OrderStep == LoopInv /\ OrderInv /\ [Next]_vars => OrderInv'
<1> SUFFICES ASSUME LoopInv, OrderInv, [Next]_vars PROVE OrderInv'
  OBVIOUS
<1>0. /\ idx \in 1 .. Len(tx) + 1 /\ Len(tx) \in Nat /\ DOMAIN tx = 1 .. Len(tx)
      /\ calls \in Nat /\ idx \in Nat /\ idx <= idx + 1
      /\ \A s \in sigs : s.input \in Nat /\ s.call \in 1 .. calls
      /\ \A s \in sigs : s.call = calls => s.input <= idx
      /\ calls > 0 => \A i \in 1 .. idx - 1 : Behind(i)
  BY Lengths, InputSigningAssumption DEF LoopInv, StoredOK, OrderInv, SignedInOrder, Behind
\* A step of the call adds to the input at hand, and goes on when it is done.
<1>q. ASSUME UNCHANGED <<tx, op, who, calls>>, pc # "idle",
             \A s \in sigs' \ sigs : s.input = idx,
             \A s \in sigs \ sigs' : s.input = idx,
             \/ idx' = idx
             \/ idx' = idx + 1 /\ \A i : i = idx => Behind(i)'
      PROVE  SignedInOrder'
  <2>1. ASSUME NEW i \in 1 .. idx' - 1 PROVE Behind(i)'
    <3>1. CASE i = idx
      BY <1>0, <1>q, <2>1, <3>1
    <3>2. CASE i # idx
      <4>1. i \in 1 .. idx - 1 /\ calls > 0
        BY <1>0, <1>q, <2>1, <3>2 DEF LoopInv
      <4>2. Behind(i)
        BY <1>0, <4>1
      <4>3. \A s \in sigs : s.input = i => s \in sigs'
        BY <1>q, <3>2
      <4> QED
        BY <1>q, <4>2, <4>3, StaysBehind
    <3> QED
      BY <3>1, <3>2
  <2>2. ASSUME NEW s \in sigs', s.call = calls PROVE s.input <= idx'
    <3>1. s.input <= idx /\ s.input \in Nat
      BY <1>0, <1>q, <2>2
    <3> QED
      BY <1>0, <1>q, <3>1
  <2> QED
    BY <1>q, <2>1, <2>2 DEF SignedInOrder, Behind
<1>p. ASSUME pc \in AtInput PROVE InputOK
  BY <1>p DEF LoopInv
<1>1. CASE Call
  <2>1. calls' = calls + 1 /\ idx' = 1 /\ UNCHANGED sigs /\ pc' = "input"
    BY <1>1 DEF Call
  <2>2. \A s \in sigs' : s.call # calls'
    BY <1>0, <2>1
  <2>3. 1 .. idx' - 1 = {}
    BY <2>1
  <2> QED
    BY <2>1, <2>2, <2>3 DEF OrderInv, SignedInOrder, LeavesInv
<1>2. CASE NextInput
  <2>1. /\ UNCHANGED <<tx, op, who, calls, sigs, pc>> /\ pc = "input" /\ idx' = idx + 1
        /\ Ours(who, idx) = {} \/ \E o \in Ours(who, idx) : o \notin ToSign(who, idx)
    BY <1>2 DEF NextInput, CallUnchanged
  <2>2. ASSUME NEW i, i = idx PROVE Behind(i)'
    <3>1. Ours(who, i)' = Ours(who, i) /\ ToSign(who, i)' = ToSign(who, i)
      BY <2>1 DEF Ours, ToSign, Origins, IsTaproot
    <3> QED
      BY <2>1, <2>2, <3>1 DEF Behind
  <2> QED
    BY <1>q, <2>1, <2>2 DEF OrderInv, LeavesInv
\* A step that stores nothing and stays at its input.
<1>s. ASSUME UNCHANGED <<tx, op, who, calls, sigs, idx>>, pc # "idle", LeavesInv'
      PROVE  OrderInv'
  BY <1>q, <1>s DEF OrderInv
<1>3. CASE AllInputsDone \/ MatchInput \/ DeriveChild \/ SignEcdsa
  <2>1. /\ UNCHANGED <<tx, op, who, calls, sigs, idx>> /\ pc \in {"input", "derive"}
        /\ pc' # "leaf"
    BY <1>3 DEF AllInputsDone, MatchInput, DeriveChild, SignEcdsa, CallUnchanged, Return
  <2> QED
    BY <1>s, <2>1 DEF LeavesInv
<1>4. CASE PrepareTaproot
  <2>1. /\ UNCHANGED <<tx, op, who, calls, sigs, idx, origin>> /\ pc = "derive"
        /\ pc' = "leaf" => leaves' = origin.leaves
    BY <1>4 DEF PrepareTaproot, CallUnchanged, Return
  <2>2. LeavesInv'
    BY <2>1 DEF LeavesInv
  <2> QED
    BY <1>s, <2>1, <2>2
<1>5. CASE FinishEcdsa
  <2>1. /\ UNCHANGED <<tx, op, who, calls, origin>> /\ pc \in {"signed", "not_signed"}
        /\ pc' # "leaf"
    BY <1>5 DEF FinishEcdsa, CallUnchanged, SignFailed, Return
  <2>2. origin \in ToSign(who, idx) /\ ~IsTaproot(idx)
    BY <1>p, <2>1 DEF InputOK, AtInput
  <2>3. CASE StoreSignature(NoLeaf) /\ idx' = idx + 1
    <3>1. \A i : i = idx => Behind(i)'
      BY <2>1, <2>2, <2>3, StoreFills, SignsInput
    <3>2. SignedInOrder'
      BY <1>q, <2>1, <2>3, <3>1, StoreFills
    <3> QED
      BY <2>1, <3>2 DEF OrderInv, LeavesInv
  <2>4. CASE UNCHANGED <<idx, sigs>>
    BY <1>s, <2>1, <2>4 DEF LeavesInv
  <2> QED
    BY <1>5, <2>3, <2>4 DEF FinishEcdsa, SignFailed
<1>6. CASE SignLeaf
  <2>1. UNCHANGED <<tx, op, who, calls, origin, idx>> /\ pc = "leaf"
    BY <1>6 DEF SignLeaf, CallUnchanged
  <2>2. CASE UNCHANGED <<sigs, leaves>>
    <3>1. LeavesInv'
      BY <2>1, <2>2 DEF OrderInv, LeavesInv, Slot
    <3> QED
      BY <1>s, <2>1, <2>2, <3>1
  <2>3. CASE \E leaf \in leaves : StoreSignature(leaf) /\ leaves' = leaves \ {leaf}
    <3>1. PICK leaf \in leaves : StoreSignature(leaf) /\ leaves' = leaves \ {leaf}
      BY <2>3
    <3>2. SignedInOrder'
      BY <1>q, <2>1, <3>1, StoreFills
    <3>3. ASSUME NEW other \in origin.leaves \ leaves'
          PROVE  \E s \in sigs' : s.input = idx /\ s.slot = Slot(other)
      <4>1. CASE other = leaf
        BY <3>1, <4>1, StoreFills
      <4>2. CASE other # leaf
        <5>1. PICK s \in sigs : s.input = idx /\ s.slot = Slot(other)
          BY <2>1, <3>1, <3>3, <4>2 DEF OrderInv, LeavesInv
        <5>2. Slot(other) # Slot(leaf)
          BY <4>2 DEF Slot
        <5>3. s \in sigs'
          BY <3>1, <5>1, <5>2, StoreFills
        <5> QED
          BY <5>1, <5>3
      <4> QED
        BY <4>1, <4>2
    <3>4. LeavesInv'
      BY <2>1, <3>3 DEF LeavesInv, Slot
    <3> QED
      BY <3>2, <3>4 DEF OrderInv
  <2> QED
    BY <1>6, <2>2, <2>3 DEF SignLeaf
<1>7. CASE FinishTaproot
  <2>1. /\ UNCHANGED <<tx, op, who, calls, origin, sigs>> /\ pc = "leaf" /\ leaves = {}
        /\ pc' = "input" /\ idx' = idx + 1
    BY <1>7 DEF FinishTaproot, CallUnchanged
  <2>2. origin \in ToSign(who, idx) /\ IsTaproot(idx)
    BY <1>p, <2>1 DEF InputOK, AtInput
  <2>3. \A leaf \in origin.leaves : \E s \in sigs' : s.input = idx /\ s.slot = Slot(leaf)
    BY <2>1 DEF OrderInv, LeavesInv
  <2>4. \A i : i = idx => Behind(i)'
    BY <2>1, <2>2, <2>3, SignsInput
  <2> QED
    BY <1>q, <2>1, <2>4 DEF OrderInv, LeavesInv
<1>8. CASE Finished \/ UNCHANGED vars
  <2>1. UNCHANGED vars
    BY <1>8 DEF Finished
  <2>2. \A i : Behind(i) => Behind(i)'
    BY <2>1, StaysBehind DEF vars
  <2>3. SignedInOrder'
    BY <1>0, <2>1, <2>2 DEF vars, SignedInOrder, Behind
  <2> QED
    BY <2>1, <2>3 DEF vars, OrderInv, LeavesInv, Slot
<1> QED
  BY <1>1, <1>2, <1>3, <1>4, <1>5, <1>6, <1>7, <1>8 DEF Next, Work

\* Whatever is behind the loop of a call and is the cosigner's is signed, on
\* every leaf, and nothing ahead of it is touched by that call: for any number
\* of inputs, origins, leaves and calls, and whatever fails.
THEOREM InputsSignedInOrder == Spec => []SignedInOrder
<1>1. Init => OrderInv
  BY DEF Init, OrderInv, SignedInOrder, LeavesInv
<1>2. OrderInv => SignedInOrder
  BY DEF OrderInv
<1> QED
  BY <1>1, <1>2, OrderStep, Looping, PTL DEF Spec

-----------------------------------------------------------------------------
(* What an input leaves on the token                                       *)

\* Of an input behind the loop that is ours, the intermediate keys are left.
LeftBehind(i) == Ours(who, i) = ToSign(who, i) /\ Ours(who, i) # {}
                   => \E o \in ToSign(who, i) : LeftAt(i) = 1 .. Len(Relative(who, o.path)) - 1

LeftInv == ObjectsInv /\ OnlyIntermediatesLeft

\* What is left of an input stays while its objects do.
LEMMA StaysLeft ==
  ASSUME UNCHANGED <<tx, op, who>>, NEW i, LeftAt(i)' = LeftAt(i), LeftBehind(i)
  PROVE  LeftBehind(i)'
<1>1. Ours(who, i)' = Ours(who, i) /\ ToSign(who, i)' = ToSign(who, i)
  BY DEF Ours, ToSign, Origins, IsTaproot
<1>2. \A o : Relative(who, o.path)' = Relative(who, o.path)
  BY DEF Relative
<1> QED
  BY <1>1, <1>2 DEF LeftBehind

\* The cleanup takes the key that signed from what the input leaves, or counts
\* it as refused, and takes nothing from the other inputs.
LEMMA DestroyLeaves ==
  ASSUME LoopInv, ObjectsInv, pc \in AtInput, DestroySigningKey, UNCHANGED <<who, calls>>,
         depth \in Nat
  PROVE  /\ live' \in [Cosigner -> SUBSET [call : 0 .. calls, input : Nat, depth : Nat]]
         /\ refused' \subseteq [call : 0 .. calls, input : Nat, depth : Nat]
         /\ \A g \in live'[who] \cup refused' : g.call = calls => g.input <= idx
         /\ \A i : i = idx => LeftAt(i)' = 1 .. depth - 1
         /\ \A i : i # idx => LeftAt(i)' = LeftAt(i)
<1> DEFINE Objects == [call : 0 .. calls, input : Nat, depth : Nat]
           gone == IF depth = 0 THEN {} ELSE {Handle(depth)}
<1>0. /\ calls \in Nat /\ calls > 0 /\ idx \in Nat /\ who \in Cosigner
      /\ live \in [Cosigner -> SUBSET Objects] /\ refused \subseteq Objects
      /\ live[who] \subseteq Objects
      /\ \A g \in live[who] \cup refused : g.call = calls => g.input <= idx
      /\ LeftAt(idx) = 1 .. depth
      /\ \A g \in refused : g.call = calls => g.input # idx
  BY Lengths, InputSigningAssumption DEF LoopInv, ObjectsInv, AtInput
<1>1. /\ Handle(depth) \in Objects
      /\ Handle(depth).call = calls /\ Handle(depth).input = idx /\ Handle(depth).depth = depth
      /\ \A g \in Objects : g.call = calls /\ g.input = idx /\ g.depth = depth
                              => g = Handle(depth)
  BY <1>0 DEF Handle
\* Either way gone is what the input has less.
<1>2. live'[who] \ refused' = (live[who] \ refused) \ gone
  <2>1. CASE /\ live' = [live EXCEPT ![who] = @ \ gone]
             /\ UNCHANGED refused
    BY <1>0, <2>1
  <2>2. CASE /\ depth > 0 /\ refused' = refused \cup {Handle(depth)} /\ UNCHANGED live
    BY <2>2
  <2> QED
    BY <2>1, <2>2 DEF DestroySigningKey
<1>3. /\ live' \in [Cosigner -> SUBSET Objects] /\ refused' \subseteq Objects
      /\ live'[who] \subseteq live[who] /\ refused' \subseteq refused \cup {Handle(depth)}
  <2> HIDE DEF Objects
  <2>1. CASE /\ live' = [live EXCEPT ![who] = @ \ gone]
             /\ UNCHANGED refused
    BY <1>0, <2>1
  <2>2. CASE /\ depth > 0 /\ refused' = refused \cup {Handle(depth)} /\ UNCHANGED live
    BY <1>0, <1>1, <2>2
  <2> QED
    BY <2>1, <2>2 DEF DestroySigningKey
<1>4. \A g \in live'[who] \cup refused' : g.call = calls => g.input <= idx
  BY <1>0, <1>1, <1>3
<1>5. ASSUME NEW i, i # idx PROVE LeftAt(i)' = LeftAt(i)
  <2>1. \A g : g.input = i => g \notin gone
    BY <1>1, <1>5
  <2>2. {g \in live'[who] \ refused' : g.call = calls /\ g.input = i}
          = {g \in live[who] \ refused : g.call = calls /\ g.input = i}
    BY <1>2, <2>1
  <2> QED
    BY <2>2 DEF LeftAt
<1>6. ASSUME NEW i, i = idx PROVE LeftAt(i)' = 1 .. depth - 1
  <2> DEFINE At   == {g \in live[who] \ refused : g.call = calls /\ g.input = i}
             Then == {g \in live'[who] \ refused' : g.call = calls /\ g.input = i}
  <2>1. Then = At \ gone /\ {h.depth : h \in At} = 1 .. depth
    BY <1>0, <1>2, <1>6 DEF LeftAt
  <2>2. ASSUME NEW g \in At PROVE g \in gone <=> g.depth = depth
    <3>1. g \in Objects /\ g.call = calls /\ g.input = idx
      BY <1>0, <1>6, <2>2
    <3>2. g.depth \in 1 .. depth
      BY <2>1, <2>2
    <3> HIDE DEF Objects, At
    <3> QED
      BY <1>1, <3>1, <3>2
  <2> HIDE DEF At, gone
  <2>3. {h.depth : h \in At \ gone} = {h.depth : h \in At} \ {depth}
    BY <2>2
  <2>4. (1 .. depth) \ {depth} = 1 .. depth - 1
    OBVIOUS
  <2>5. {h.depth : h \in Then} = 1 .. depth - 1
    BY <2>1, <2>3, <2>4
  <2> QED
    BY <2>5 DEF LeftAt
<1> QED
  BY <1>3, <1>4, <1>5, <1>6

LEMMA LeftInit == Init => LeftInv
<1> SUFFICES ASSUME Init PROVE LeftInv
  OBVIOUS
<1>1. FederationHandle \in [call : 0 .. calls, input : Nat, depth : Nat]
  BY DEF Init, FederationHandle
<1>2. live \in [Cosigner -> SUBSET [call : 0 .. calls, input : Nat, depth : Nat]]
  BY <1>1 DEF Init
<1> QED
  BY <1>2 DEF Init, LeftInv, ObjectsInv, OnlyIntermediatesLeft, AtInput

LEMMA LeftStep == LoopInv /\ LeftInv /\ [Next]_vars => LeftInv'
<1> DEFINE Objects(n) == [call : 0 .. n, input : Nat, depth : Nat]
<1> SUFFICES ASSUME LoopInv, LeftInv, [Next]_vars PROVE LeftInv'
  OBVIOUS
<1>0. /\ calls \in Nat /\ idx \in Nat /\ idx > 0 /\ who \in Cosigner
      /\ live \in [Cosigner -> SUBSET Objects(calls)] /\ refused \subseteq Objects(calls)
      /\ \A g \in live[who] \cup refused : g \in Objects(calls)
      /\ calls > 0 => \A g \in live[who] \cup refused : g.call = calls => g.input <= idx
      /\ calls > 0 => \A i \in 1 .. idx - 1 : LeftBehind(i)
      /\ pc # "idle" => calls > 0
  <2>1. /\ calls \in Nat /\ idx \in Nat /\ idx > 0 /\ who \in Cosigner
        /\ pc # "idle" => calls > 0
    BY Lengths, InputSigningAssumption DEF LoopInv
  <2>2. /\ live \in [Cosigner -> SUBSET Objects(calls)] /\ refused \subseteq Objects(calls)
        /\ calls > 0 => \A g \in live[who] \cup refused : g.call = calls => g.input <= idx
    BY DEF LeftInv, ObjectsInv
  <2>3. \A g \in live[who] \cup refused : g \in Objects(calls)
    <3> HIDE DEF Objects
    <3> QED
      BY <2>1, <2>2
  <2>4. calls > 0 => \A i \in 1 .. idx - 1 : LeftBehind(i)
    BY DEF LeftInv, OnlyIntermediatesLeft, LeftBehind
  <2> QED
    BY <2>1, <2>2, <2>3, <2>4
<1>p. ASSUME pc \in AtInput
      PROVE  /\ depth \in Nat /\ LeftAt(idx) = 1 .. depth
             /\ \A g \in refused : g.call = calls => g.input # idx
             /\ origin \in ToSign(who, idx)
  BY <1>p, SegmentCount DEF LoopInv, InputOK, LeftInv, ObjectsInv
\* A step of the call that stays at the input.
<1>q. ASSUME UNCHANGED <<tx, op, who, calls, idx>>, pc # "idle",
             \A i : i # idx => LeftAt(i)' = LeftAt(i)
      PROVE  OnlyIntermediatesLeft'
  <2>1. ASSUME NEW i \in 1 .. idx - 1 PROVE LeftBehind(i)'
    <3>1. i # idx /\ LeftBehind(i)
      BY <1>0, <1>q, <2>1
    <3> QED
      BY <1>q, <3>1, StaysLeft
  <2> QED
    BY <1>q, <2>1 DEF OnlyIntermediatesLeft, LeftBehind
\* A step of the call that goes on to the next input.
<1>n. ASSUME UNCHANGED <<tx, op, who, calls>>, pc # "idle", idx' = idx + 1, pc' = "input",
             live' \in [Cosigner -> SUBSET Objects(calls)], refused' \subseteq Objects(calls),
             \A g \in live'[who] \cup refused' : g.call = calls => g.input <= idx,
             \A i : i # idx => LeftAt(i)' = LeftAt(i),
             \A i : i = idx => LeftBehind(i)'
      PROVE  LeftInv'
  <2>1. ASSUME NEW i \in 1 .. idx' - 1 PROVE LeftBehind(i)'
    <3>1. CASE i = idx
      BY <1>n, <3>1
    <3>2. CASE i # idx
      <4>1. i \in 1 .. idx - 1
        BY <1>0, <1>n, <2>1, <3>2
      <4>2. LeftBehind(i)
        BY <1>0, <1>n, <4>1
      <4> QED
        BY <1>n, <3>2, <4>2, StaysLeft
    <3> QED
      BY <3>1, <3>2
  <2>2. ASSUME NEW g \in live'[who] \cup refused', g.call = calls
        PROVE  g.input <= idx' /\ g.input # idx'
    <3>1. g.input \in Nat /\ g.input <= idx
      BY <1>0, <1>n, <2>2
    <3> QED
      BY <1>0, <1>n, <3>1
  <2>3. ObjectsInv'
    BY <1>0, <1>n, <2>2 DEF ObjectsInv, AtInput
  <2> QED
    BY <1>n, <2>1, <2>3 DEF LeftInv, OnlyIntermediatesLeft, LeftBehind
\* A step that makes and destroys nothing, at its input.
<1>s. ASSUME UNCHANGED <<tx, op, who, calls, idx, live, refused>>, pc # "idle",
             pc' # "input",
             pc' \in AtInput => pc \in AtInput /\ depth' = depth
      PROVE  LeftInv'
  <2>1. \A i : LeftAt(i)' = LeftAt(i)
    BY <1>s DEF LeftAt
  <2>2. ObjectsInv'
    BY <1>0, <1>p, <1>s, <2>1 DEF ObjectsInv
  <2> QED
    BY <1>q, <1>s, <2>1, <2>2 DEF LeftInv
<1>1. CASE Call
  <2>1. /\ calls' = calls + 1 /\ idx' = 1 /\ UNCHANGED <<live, refused>> /\ pc' = "input"
        /\ who' \in Cosigner
    BY <1>1 DEF Call
  <2>2. Objects(calls) \subseteq Objects(calls')
    <3>1. 0 .. calls \subseteq 0 .. calls'
      BY <1>0, <2>1
    <3> QED
      BY <3>1
  <2>3. \A g \in Objects(calls) : g.call # calls'
    BY <1>0, <2>1
  <2> HIDE DEF Objects
  <2>4. live' \in [Cosigner -> SUBSET Objects(calls')] /\ refused' \subseteq Objects(calls')
    BY <1>0, <2>1, <2>2
  <2>5. \A g \in live'[who'] \cup refused' : g.call # calls'
    BY <1>0, <2>1, <2>3
  <2>6. ObjectsInv'
    BY <2>1, <2>4, <2>5 DEF ObjectsInv, AtInput, Objects
  <2>7. 1 .. idx' - 1 = {}
    BY <2>1
  <2> QED
    BY <2>6, <2>7 DEF LeftInv, OnlyIntermediatesLeft
<1>2. CASE NextInput
  <2>1. /\ UNCHANGED <<tx, op, who, calls, live, refused, pc>> /\ pc = "input" /\ idx' = idx + 1
        /\ Ours(who, idx) = {} \/ \E o \in Ours(who, idx) : o \notin ToSign(who, idx)
    BY <1>2 DEF NextInput, CallUnchanged
  <2>2. ASSUME NEW i, i = idx PROVE LeftBehind(i)'
    <3>1. Ours(who, i)' = Ours(who, i) /\ ToSign(who, i)' = ToSign(who, i)
      BY <2>1 DEF Ours, ToSign, Origins, IsTaproot
    <3> QED
      BY <2>1, <2>2, <3>1 DEF LeftBehind
  <2>3. \A i : LeftAt(i)' = LeftAt(i)
    BY <2>1 DEF LeftAt
  <2> QED
    BY <1>0, <1>n, <2>1, <2>2, <2>3
<1>3. CASE AllInputsDone
  <2>1. /\ UNCHANGED <<tx, op, who, calls, idx, live, refused>> /\ pc = "input" /\ pc' = "idle"
    BY <1>3 DEF AllInputsDone, CallUnchanged, Return
  <2> QED
    BY <1>s, <2>1 DEF AtInput
<1>4. CASE MatchInput
  <2>1. /\ UNCHANGED <<tx, op, who, calls, idx, live, refused>> /\ pc = "input"
        /\ pc' = "idle" \/ (pc' = "derive" /\ depth' = 0)
    BY <1>4 DEF MatchInput, CallUnchanged, Return
  <2>2. CASE pc' = "idle"
    BY <1>s, <2>1, <2>2 DEF AtInput
  <2>3. CASE pc' = "derive" /\ depth' = 0
    <3>1. \A g \in live[who] \cup refused : g.call = calls => g.input # idx
      BY <2>1 DEF LeftInv, ObjectsInv
    <3>2. \A i : LeftAt(i)' = LeftAt(i)
      BY <2>1 DEF LeftAt
    <3>3. LeftAt(idx) = {}
      BY <3>1 DEF LeftAt
    <3>4. LeftAt(idx)' = 1 .. depth'
      BY <2>1, <2>3, <3>3 DEF LeftAt
    <3>5. ObjectsInv'
      BY <1>0, <2>1, <2>3, <3>1, <3>4 DEF ObjectsInv
    <3> QED
      BY <1>q, <2>1, <3>2, <3>5 DEF LeftInv
  <2> QED
    BY <2>1, <2>2, <2>3
<1>5. CASE DeriveChild
  <2>1. /\ UNCHANGED <<tx, op, who, calls, idx, refused>> /\ pc = "derive"
    BY <1>5 DEF DeriveChild, CallUnchanged
  <2>2. CASE /\ depth' = depth + 1 /\ UNCHANGED pc
             /\ live' = [live EXCEPT ![who] = @ \cup {Handle(depth + 1)}]
    <3> DEFINE At == {g \in live[who] \ refused : g.call = calls /\ g.input = idx}
               h  == Handle(depth + 1)
    <3>1. /\ depth \in Nat /\ {g.depth : g \in At} = 1 .. depth
          /\ \A g \in refused : g.call = calls => g.input # idx
      BY <1>p, <2>1 DEF AtInput, LeftAt
    <3>2. h \in Objects(calls) /\ h.call = calls /\ h.input = idx /\ h.depth = depth + 1
      BY <1>0, <3>1 DEF Handle
    <3>3. h \notin refused
      BY <3>1, <3>2
    <3> HIDE DEF h, Objects
    <3>4. /\ live' \in [Cosigner -> SUBSET Objects(calls)]
          /\ live'[who] = live[who] \cup {h}
      BY <1>0, <2>2, <3>2 DEF h
    <3>5. {g \in live'[who] \ refused : g.call = calls /\ g.input = idx} = At \cup {h}
      BY <3>2, <3>3, <3>4
    <3>6. \A i : i # idx => LeftAt(i)' = LeftAt(i)
      <4>1. ASSUME NEW i, i # idx
            PROVE  {g \in live'[who] \ refused : g.call = calls /\ g.input = i}
                     = {g \in live[who] \ refused : g.call = calls /\ g.input = i}
        BY <3>2, <3>4, <4>1
      <4> QED
        BY <2>1, <4>1 DEF LeftAt
    <3>7. LeftAt(idx)' = 1 .. depth'
      <4> HIDE DEF At
      <4>1. {g.depth : g \in At \cup {h}} = {g.depth : g \in At} \cup {depth + 1}
        BY <3>2
      <4>2. (1 .. depth) \cup {depth + 1} = 1 .. depth + 1
        BY <3>1
      <4> QED
        BY <2>1, <2>2, <3>1, <3>5, <4>1, <4>2 DEF LeftAt
    <3>8. \A g \in live'[who] \cup refused' : g.call = calls => g.input <= idx
      BY <1>0, <2>1, <3>2, <3>4
    <3>9. ObjectsInv'
      BY <1>0, <2>1, <2>2, <3>1, <3>4, <3>7, <3>8 DEF ObjectsInv, Objects
    <3> QED
      BY <1>q, <2>1, <3>6, <3>9 DEF LeftInv
  <2>3. CASE Return("error") /\ UNCHANGED <<depth, live>>
    BY <1>s, <2>1, <2>3 DEF Return, AtInput
  <2> QED
    BY <1>5, <2>2, <2>3 DEF DeriveChild
<1>6. CASE SignEcdsa \/ PrepareTaproot \/ SignLeaf
  <2>1. /\ UNCHANGED <<tx, op, who, calls, idx, live, refused, depth>>
        /\ pc \in AtInput /\ pc # "idle" /\ pc' # "input"
    BY <1>6 DEF SignEcdsa, PrepareTaproot, SignLeaf, CallUnchanged, Return, AtInput
  <2> QED
    BY <1>s, <2>1
<1>7. CASE FinishEcdsa \/ FinishTaproot
  <2>1. /\ UNCHANGED <<tx, op, who, calls>> /\ pc \in AtInput /\ pc # "idle"
        /\ DestroySigningKey
        /\ \/ idx' = idx + 1 /\ pc' = "input" /\ pc # "derive"
           \/ idx' = idx /\ pc' = "idle"
    BY <1>7 DEF FinishEcdsa, FinishTaproot, CallUnchanged, SignFailed, Return, AtInput
  <2>2. /\ live' \in [Cosigner -> SUBSET Objects(calls)] /\ refused' \subseteq Objects(calls)
        /\ \A g \in live'[who] \cup refused' : g.call = calls => g.input <= idx
        /\ \A i : i = idx => LeftAt(i)' = 1 .. depth - 1
        /\ \A i : i # idx => LeftAt(i)' = LeftAt(i)
    BY <1>p, <2>1, DestroyLeaves DEF LeftInv
  <2>3. CASE idx' = idx + 1 /\ pc' = "input" /\ pc # "derive"
    <3>1. origin \in ToSign(who, idx) /\ depth = Len(Relative(who, origin.path))
      BY <2>1, <2>3 DEF LoopInv, InputOK, Derived, Segments
    <3>2. ASSUME NEW i, i = idx PROVE LeftBehind(i)'
      <4>1. /\ ToSign(who, i)' = ToSign(who, i)
            /\ \A o : Relative(who, o.path)' = Relative(who, o.path)
        BY <2>1 DEF Ours, ToSign, Origins, IsTaproot, Relative
      <4> QED
        BY <2>2, <3>1, <3>2, <4>1 DEF LeftBehind
    <3> HIDE DEF Objects
    <3> QED
      BY <1>n, <2>1, <2>2, <2>3, <3>2
  <2>4. CASE idx' = idx /\ pc' = "idle"
    <3>1. ObjectsInv'
      BY <2>1, <2>2, <2>4 DEF ObjectsInv, AtInput
    <3> QED
      BY <1>q, <2>1, <2>2, <2>4, <3>1 DEF LeftInv
  <2> QED
    BY <2>1, <2>3, <2>4
<1>8. CASE Finished \/ UNCHANGED vars
  <2>1. UNCHANGED vars
    BY <1>8 DEF Finished
  <2>2. \A i : LeftAt(i)' = LeftAt(i)
    BY <2>1 DEF vars, LeftAt
  <2>3. \A i : LeftBehind(i) => LeftBehind(i)'
    BY <2>1, <2>2, StaysLeft DEF vars
  <2>4. OnlyIntermediatesLeft'
    BY <1>0, <2>1, <2>3 DEF vars, OnlyIntermediatesLeft, LeftBehind
  <2>5. ObjectsInv'
    BY <2>1, <2>2 DEF vars, LeftInv, ObjectsInv, LeftAt
  <2> QED
    BY <2>4, <2>5 DEF LeftInv
<1> QED
  BY <1>1, <1>2, <1>3, <1>4, <1>5, <1>6, <1>7, <1>8 DEF Next, Work

\* An input that a call has signed leaves the intermediate keys of its path on
\* the token, each once, and the key that signed only if the token would not
\* destroy it: for any path lengths, calls and failures.
THEOREM OnlyIntermediatesStay == Spec => []OnlyIntermediatesLeft
<1>1. LeftInv => OnlyIntermediatesLeft
  BY DEF LeftInv
<1> QED
  BY <1>1, LeftInit, LeftStep, Looping, PTL DEF Spec

=============================================================================
