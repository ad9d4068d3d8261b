---------------------------- MODULE PolicyLedger ----------------------------
(***************************************************************************)
(* What policy.rs promises of a key label: one policy in force, replaced   *)
(* in one step, and a ledger of rate entries to which a call is added only *)
(* if the hour that ends with it has room under that policy.  SignerPolicy *)
(* implements it as long as one session uses the label, create_object does *)
(* not fail, no process dies in a save and the clock is not set back.      *)
(***************************************************************************)
EXTENDS Integers, FiniteSets

CONSTANTS None,           \* a ceiling that is not set
          Policies,       \* the policies set_policy is called with
          InitPolicies,   \* the policies that may be in force at the start
          Window,         \* the trailing hour
          Ids             \* the calls that may be recorded

VARIABLES now, policy, log

ledgerVars == <<now, policy, log>>

Init == /\ now = 0
        /\ policy \in InitPolicies
        /\ log = {}

\* set_policy: the new policy is in force at once.
Replace == /\ policy' \in Policies
           /\ UNCHANGED <<now, log>>

\* check_and_record_sigrate: the entry bears a second that is not before any
\* entry's and not in the future, and its hour is below the ceiling.
Record(id, at) ==
    LET max == policy.max_signatures_per_hour
    IN  /\ max # None
        /\ at <= now
        /\ \A e \in log : e.at <= at /\ e.id # id
        /\ Cardinality({e \in log : e.at + Window >= at}) < max
        /\ log' = log \cup {[id |-> id, at |-> at, max |-> max]}
        /\ UNCHANGED <<now, policy>>

Tick == /\ now' = now + 1
        /\ UNCHANGED <<policy, log>>

Next == \/ Replace
        \/ \E id \in Ids, at \in 0 .. now : Record(id, at)
        \/ Tick

Spec == Init /\ [][Next]_ledgerVars

=============================================================================
