--------------------------- MODULE Bip32Attributes ---------------------------
(***************************************************************************)
(* How an extended public key is read from the attributes of a key object, *)
(* and how a child number travels to the token and back                    *)
(* (src/backend/mod.rs), and the network a signer's xpub is given          *)
(* (src/signer.rs).                                                        *)
(*                                                                         *)
(* A key is its root and the child numbers that lead to it, in the bytes   *)
(* the token was given.  A public key and a fingerprint are identified with*)
(* the key they are of; Points has the SEC1 forms of the public keys.      *)
(***************************************************************************)
EXTENDS EcPoint

CONSTANTS
    Points,                     \* [key, compressed, uncompressed]: bytes, for every key
    Missing,                    \* an attribute the token did not return
    Garbled                     \* an attribute, or a text, of the wrong length or form

\* ChildNumber: an index below 2^31 and whether it is hardened.
Child(index, hardened) == [index |-> index, hardened |-> hardened]
MaxIndex               == 2147483647
ChildNumber            == [index : 0 .. MaxIndex, hardened : BOOLEAN]

\* u32::to_le_bytes of index, with the high bit set when hardened.
ToLeBytes(child) ==
    <<child.index % 256, (child.index \div 256) % 256, (child.index \div 65536) % 256,
      (child.index \div 16777216) + (IF child.hardened THEN 128 ELSE 0)>>

\* Mutant: the high bit is cut off with the index's other bits.
FromLeBytes_Normal(b) ==
    Child(b[1] + 256 * b[2] + 65536 * b[3] + 16777216 * (b[4] % 128), FALSE)

FromLeBytes(b) ==
    Child(b[1] + 256 * b[2] + 65536 * b[3] + 16777216 * (b[4] % 128), b[4] >= 128)

\* The two SEC1 forms of every public key.
Sec1 == {[key |-> p.key, form |-> "compressed", bytes |-> p.compressed] : p \in Points}
          \cup {[key |-> p.key, form |-> "uncompressed", bytes |-> p.uncompressed] : p \in Points}

\* Their lengths and first bytes, by which they differ; no two points share one.
ASSUME PointsAssumption ==
    /\ \A p \in Points :
         /\ p.compressed \in Seq(Byte) /\ Len(p.compressed) = 33 /\ p.compressed[1] \in {2, 3}
         /\ p.uncompressed \in Seq(Byte) /\ Len(p.uncompressed) = 65 /\ p.uncompressed[1] = 4
    /\ \A p, q \in Points :
         (p.key = q.key \/ p.compressed = q.compressed \/ p.uncompressed = q.uncompressed) => p = q

\* PublicKey::from_slice: either form of a point on the curve.
FromSlice(bytes) ==
    LET read == {s \in Sec1 : s.bytes = bytes}
    IN  IF read = {} THEN Err("MetadataError") ELSE Ok((CHOOSE s \in read : TRUE).key)

ParseEcPoint(bytes) ==
    IF Decode(bytes).ok THEN FromSlice(Decode(bytes).value) ELSE Err("MetadataError")

\* What a token returns for the public point of a key.
Presented(form, key) ==
    LET bytes(f) == (CHOOSE s \in Sec1 : s.key = key /\ s.form = f).bytes
    IN  IF form = "wrapped" THEN Encode(bytes("uncompressed")) ELSE bytes(form)

Parent(key) == [key EXCEPT !.path = SubSeq(@, 1, Len(@) - 1)]

\* get_attributes of a key object; spoiled gives the attributes that are not
\* as they should be.  Chain code and parent fingerprint are opaque.
Attributes(form, key, spoiled) ==
    LET whole == [ec_point    |-> Presented(form, key),
                  chain_code  |-> key,
                  depth       |-> <<Len(key.path)>>,
                  parent_fp   |-> IF key.path = <<>> THEN "none" ELSE Parent(key),
                  child_index |-> IF key.path = <<>> THEN <<0, 0, 0, 0>>
                                                     ELSE key.path[Len(key.path)]]
    IN  [a \in DOMAIN whole |-> IF a \in DOMAIN spoiled THEN spoiled[a] ELSE whole[a]]

\* All five attributes have to be there and to have their lengths; of the
\* depth only the first byte counts.
WellFormed(attrs) ==
    /\ \A a \in DOMAIN attrs : attrs[a] # Missing
    /\ ParseEcPoint(attrs.ec_point).ok
    /\ attrs.chain_code # Garbled
    /\ attrs.depth # <<>>
    /\ attrs.parent_fp # Garbled
    /\ Len(attrs.child_index) = 4

\* The token knows no network: every xpub is read as a mainnet one.
ReadXpub(attrs) ==
    IF ~WellFormed(attrs) THEN Err("MetadataError")
    ELSE Ok([network            |-> "Main",
             depth              |-> attrs.depth[1],
             parent_fingerprint |-> attrs.parent_fp,
             child_number       |-> FromLeBytes(attrs.child_index),
             public_key         |-> ParseEcPoint(attrs.ec_point).value,
             chain_code         |-> attrs.chain_code])

\* The hash of the object's own key, whatever its depth.
MasterFingerprint(attrs) ==
    IF attrs.ec_point = Missing THEN Err("MetadataError")
    ELSE ParseEcPoint(attrs.ec_point)

NetworkKind(network) == IF network = "bitcoin" THEN "Main" ELSE "Test"

\* NetworkPatchedSigner::new
PatchXpubNetwork(xpub, network) == [xpub EXCEPT !.network = NetworkKind(network)]

=============================================================================
