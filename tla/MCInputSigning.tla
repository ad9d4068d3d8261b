--------------------------- MODULE MCInputSigning ---------------------------
(***************************************************************************)
(* Two cosigners and a handful of transactions for InputSigning.  Their    *)
(* federation paths have one and two segments; an input extends them by    *)
(* none, one or two (the usual /change/index).                             *)
(***************************************************************************)
EXTENDS InputSigning

CONSTANTS alice, bob, la, lb

Federation(c) == IF c = alice THEN <<7>> ELSE <<7, 3>>
Ident(c, segwit, taproot) == [root |-> c, fingerprint |-> c, path |-> Federation(c),
                              segwit |-> segwit, taproot |-> taproot]

\* The backend of bob has no Schnorr signer.
Identities == [c \in {alice, bob} |-> Ident(c, TRUE, c = alice)]

Origin(c, path, ls) == [key |-> [root |-> c, path |-> path], fingerprint |-> c,
                        path |-> path, leaves |-> ls]
Child(c, rest, ls)  == Origin(c, Federation(c) \o rest, ls)

Input == [taproot |-> FALSE, bip32_derivation |-> {}, tap_key_origins |-> {},
          witness_script |-> TRUE, witness_utxo |-> TRUE, sighash_ok |-> TRUE]

Wsh(rest) == [Input EXCEPT !.bip32_derivation = {Child(c, rest, {}) : c \in {alice, bob}}]
Tap(rest, ls) == [Input EXCEPT !.taproot = TRUE,
                               !.tap_key_origins = {Child(alice, rest, ls)}]
OnlyBob == [Input EXCEPT !.bip32_derivation = {Child(bob, <<0>>, {})}]

Deep    == Wsh(<<0, 5>>)
Direct  == Wsh(<<>>)
Short   == [Input EXCEPT !.bip32_derivation = {Origin(c, <<>>, {}) : c \in {alice, bob}}]
NoUtxo  == [OnlyBob EXCEPT !.witness_utxo = FALSE]
BadHash == [Deep EXCEPT !.sighash_ok = FALSE]
TapBad  == [Tap(<<1>>, {la}) EXCEPT !.sighash_ok = FALSE]
TapBoth == [Tap(<<1>>, {la}) EXCEPT !.tap_key_origins = {Child(bob, <<>>, {lb}),
                                                       Child(alice, <<>>, {})}]

\* Two members of a fleet on one token slot, told apart by their paths only:
\* they have the root, and so the fingerprint, in common.
FederationOf(c) == IF c = alice THEN <<7>> ELSE <<8>>
SharedIdentities == [c \in {alice, bob} |->
    [Ident(alice, TRUE, TRUE) EXCEPT !.path = FederationOf(c)]]
SharedWsh == [Input EXCEPT !.bip32_derivation =
                 {Origin(alice, Append(FederationOf(c), 0), {}) : c \in {alice, bob}}]
SharedPsbts == {<<SharedWsh>>}

MCPsbts == {<<Deep, Direct>>, <<Direct, OnlyBob, Tap(<<0>>, {la, lb})>>,
            <<Tap(<<>>, {la}), NoUtxo>>, <<Deep, BadHash>>, <<OnlyBob, Short>>,
            <<Deep, TapBad>>, <<OnlyBob, TapBoth>>}

=============================================================================
