---------------------------- MODULE PolicyCheck ----------------------------
(***************************************************************************)
(* MinimalHsmPolicy and its stateless check against a transaction          *)
(* (src/policy.rs).  A transaction is a record whose field "output" is the *)
(* sequence of its outputs, each an amount and a script; a whitelist       *)
(* address is a network and the script it pays to.  A policy field that is *)
(* unset in the code (Option::None) is None here.                          *)
(***************************************************************************)
EXTENDS Integers, Sequences, FiniteSets

LOCAL INSTANCE SequencesExt

CONSTANTS None,    \* Option::None
          U64Max   \* the largest Amount: amounts are u64 satoshis

\* MinimalHsmPolicy::permissive: no constraint at all.
Permissive == [per_transaction_limit   |-> None,
               max_signatures_per_hour |-> None,
               destination_whitelist   |-> None]

\* Amount + Amount panics on overflow; U64Max + 1 stands for the panic, and
\* nothing is added after it.
AddAmount(a, b) == IF a + b > U64Max THEN U64Max + 1 ELSE a + b

TotalOut(tx) == FoldLeft(LAMBDA a, o : AddAmount(a, o.value), 0, tx.output)

\* The per-transaction limit comes first; the sum is taken only when it is set.
LimitVerdict(p, tx) ==
    IF p.per_transaction_limit = None THEN "ok"
    ELSE IF TotalOut(tx) > U64Max THEN "panic"
    ELSE IF TotalOut(tx) > p.per_transaction_limit THEN "PolicyViolation"
    ELSE "ok"

\* Every whitelist address must bind to the signer's network before any
\* output is compared with it.
WhitelistVerdict(p, tx, network) ==
    IF p.destination_whitelist = None THEN "ok"
    ELSE IF \E a \in p.destination_whitelist : a.network # network THEN "Bitcoin"
    ELSE IF \E i \in DOMAIN tx.output :
               tx.output[i].script \notin {a.script : a \in p.destination_whitelist}
         THEN "PolicyViolation"
    ELSE "ok"

CheckAgainstPsbt(p, tx, network) ==
    IF LimitVerdict(p, tx) # "ok" THEN LimitVerdict(p, tx)
    ELSE WhitelistVerdict(p, tx, network)

=============================================================================
