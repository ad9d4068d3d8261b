---------------------------- MODULE MCKeyCeremony ----------------------------
(***************************************************************************)
(* Three tokens, two of them named by their labels, one of these also by   *)
(* its slot id, and a handful of environments for KeyCeremony.  Seeds are  *)
(* of two bytes, and the public key of a key is 32 bytes that tell its     *)
(* root and its path.                                                      *)
(***************************************************************************)
EXTENDS KeyCeremony, SequencesExt, TLC

CONSTANTS b1, b2, east, west, annex, nowhere, lib, pin, dev, acme, shy,
          eastSeed, westSeed, annexSeed, old, vault

H(index) == Child(index, TRUE)
N(index) == Child(index, FALSE)

MCTokenOf   == (<<lib, <<"label", east>>>> :> east) @@ (<<lib, <<"label", west>>>> :> west)
                 @@ (<<lib, <<"label", annex>>>> :> annex) @@ (<<lib, <<"slot_id", 1>>>> :> east)
                 @@ (<<lib, <<"label", nowhere>>>> :> None)
MCSlotSeed  == (east :> eastSeed) @@ (west :> westSeed) @@ (annex :> annexSeed)
MCPointForm == (east :> "compressed") @@ (west :> "wrapped") @@ (annex :> "uncompressed")

-----------------------------------------------------------------------------
(* The public keys: the roots are numbered, the first byte of all is above *)
(* 127, and the bytes of the path's words follow.                          *)

OwnSeed == <<7, 200>>
Roots   == <<eastSeed, westSeed, annexSeed, old, OwnSeed>>
Paths   == {<<>>, <<N(4)>>, <<N(4), H(260)>>, <<H(260)>>, <<H(5)>>}
Keys    == {Key(Roots[r], Words(p)) : r \in DOMAIN Roots, p \in Paths}

X(key) == LET r     == CHOOSE n \in DOMAIN Roots : Roots[n] = key.root
              bytes == FlattenSeq(key.path)
          IN  [k \in 1 .. 32 |-> CASE k = 1 -> 199 + r
                                   [] k = 2 -> Len(key.path)
                                   [] k \in 3 .. 2 + Len(bytes) -> bytes[k - 2]
                                   [] OTHER -> 33]

MCPoints == {[key |-> key, compressed |-> <<2>> \o X(key),
              uncompressed |-> <<4>> \o X(key) \o [k \in 1 .. 32 |-> 99]] : key \in Keys}

-----------------------------------------------------------------------------
(* The environments                                                        *)

\* The seed 0x07c8, one of zeros, and one that is a byte short.
Own   == [form |-> "seed", hex |-> <<0, 7, 12, 8>>]
Zero  == [form |-> "seed", hex |-> <<0, 0, 0, 0>>]
Stub  == [form |-> "seed", hex |-> <<0, 7>>]
Shim  == [form |-> "shim"]

V(slot, path, label, key) ==
    [VENDOR |-> dev, LABEL |-> label, LIB |-> lib, SLOT |-> slot, SLOT_ID |-> Unset,
     PIN |-> pin, PATH |-> path, KEY |-> key]

Derive(slot, path) == V(slot, path, vault, Unset)
Load(slot)         == V(slot, <<H(5)>>, old, [form |-> "load"])
ById(v)            == [v EXCEPT !.SLOT = Blank, !.SLOT_ID = 1]

E(network, member) == [network |-> network, member |-> member]

\* The second member is on west, although the slot id is east's; the fourth
\* is after a gap.
TwoTokens  == E("mainnet", <<ById(V(east, <<N(4), H(260)>>, vault, Own)),
                             [Derive(west, <<>>) EXCEPT !.SLOT_ID = 1],
                             [Derive(east, <<>>) EXCEPT !.VENDOR = Blank],
                             Derive(east, <<>>)>>)
WithLoaded == E(Blank, <<V(west, <<>>, old, Zero), Load(west)>>)
HalfGood   == E("regtest", <<V(east, <<>>, vault, Shim), Derive(annex, <<>>)>>)
Degenerate == E(Unset, <<Derive(east, <<>>), Derive(west, <<>>), Derive(east, <<>>)>>)
Short      == E(Unset, <<V(east, <<>>, vault, Stub)>>)
Nowhere    == E(Unset, <<Derive(nowhere, <<>>)>>)

\* One variable at a time that from_env does not accept.
Wrong(field, text) == E(Unset, <<[Derive(east, <<>>) EXCEPT ![field] = text]>>)
Seed(hex)          == Wrong("KEY", [form |-> "seed", hex |-> hex])

Refused == <<E("litecoin", <<Derive(east, <<>>)>>), E(Unset, <<>>),
             Wrong("PIN", Unset), Wrong("LABEL", Blank), Wrong("PATH", Garbled),
             Wrong("SLOT", Unset), E(Unset, <<[Derive(Blank, <<>>) EXCEPT !.SLOT_ID = Garbled]>>),
             Wrong("KEY", [form |-> "file"]), Wrong("VENDOR", acme), Wrong("VENDOR", shy),
             Seed(<<0>>), Seed(<<Other, 1>>), Seed(<<Lead, Trail>>), Seed(<<1, Lead, Trail, 1>>)>>

CeremonyEnvs == Refused \o <<TwoTokens, WithLoaded, HalfGood, Degenerate, Short, Nowhere>>

\* One token named twice, and the label of a key that a ceremony derived.
AliasEnvs  == <<E(Unset, <<Derive(east, <<N(4)>>), ById(Derive(east, <<N(4)>>))>>)>>
ReloadEnvs == <<E(Unset, <<Derive(east, <<N(4)>>)>>),
                E(Unset, <<V(east, <<N(4)>>, vault, [form |-> "load"])>>)>>

DeleteOld == [d \in {0} |-> [vendor |-> dev, lib |-> lib, slot |-> <<"label", west>>, label |-> old,
               path |-> <<>>, network |-> "testnet", init |-> "delete", seed |-> <<>>]]
NoDeletion == <<>>

\* What the theorems about keys assume holds of these.
ASSUME MCKeys == PointsOfKeys /\ PointsToldApart

-----------------------------------------------------------------------------
Obj(class, name, key) == [class |-> class, name |-> name, key |-> key, owner |-> None,
                          token |-> west, refused |-> FALSE, provisioned |-> TRUE,
                          spoiled |-> <<>>]
OldKey == Obj("priv", <<old, "priv">>, Key(old, Words(<<H(5)>>)))
OldPub == Obj("pub", <<old, "pub">>, None)
NoMeta == [OldKey EXCEPT !.spoiled = [child_index |-> Missing]]

CeremonyProvisioned == {<<OldKey, OldPub>>, <<OldKey, NoMeta>>}
NothingProvisioned  == {<<>>}

\* The threads are interchangeable.
Threads == Permutations({b1, b2})

=============================================================================
