--------------------------- MODULE MCSignerPolicy ---------------------------
(***************************************************************************)
(* Small instances of SignerPolicy for TLC: the transactions, policies and *)
(* assignments of threads to signers the configurations choose from.       *)
(***************************************************************************)
EXTENDS SignerPolicy, TLC

CONSTANTS t1, t2, s1, s2, h1, h2, h3, h4, here, elsewhere, vault, stranger

\* Clones of one signer, or a signer per thread.
Clones   == [t \in {t1, t2} |-> s1]
Sessions == t1 :> s1 @@ t2 :> s2

Out(v, s) == [value |-> v, script |-> s]

\* In these instances U64Max is 4 and the limit of Tight is 2.
Small    == [output |-> <<Out(1, vault), Out(1, vault)>>, ours |-> 1]
TwoIns   == [output |-> <<Out(2, vault)>>,                ours |-> 2]
Foreign  == [output |-> <<Out(1, vault)>>,                ours |-> 0]
Large    == [output |-> <<Out(3, vault)>>,                ours |-> 1]
Astray   == [output |-> <<Out(1, stranger)>>,             ours |-> 1]
Overflow == [output |-> <<Out(3, vault), Out(2, vault)>>, ours |-> 1]

Pol(limit, max, list) == [per_transaction_limit   |-> limit,
                          max_signatures_per_hour |-> max,
                          destination_whitelist   |-> list]

Tight     == Pol(2, 1, None)
Wide      == Pol(None, 2, {[network |-> here, script |-> vault]})
WrongNet  == Pol(None, None, {[network |-> elsewhere, script |-> vault]})

CloneTxs        == {Small, Overflow}
ClonePolicies   == {Tight, Wide}
CloneInit       == {Tight}

SessionTxs      == {Small}
SessionPolicies == {Tight, Wide}
SessionInit     == {Tight}

CallTxs         == {TwoIns, Foreign, Large, Astray, Overflow}
CallPolicies    == {Tight, Wide, WrongNet}
CallInit        == {Tight, Wide, WrongNet, Absent}

=============================================================================
