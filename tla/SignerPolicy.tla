---------------------------- MODULE SignerPolicy ----------------------------
(***************************************************************************)
(* The policy and the signature-rate counter of one key label, kept on the *)
(* token as two CKO_DATA objects, and the calls of Pkcs11Signer that read, *)
(* check and replace them (src/policy.rs, src/signer.rs, src/elements.rs). *)
(*                                                                         *)
(* A signer is one mutex around one PKCS#11 session; the threads of a      *)
(* signer are the holders of its clones.  Two signers are two sessions on  *)
(* the same token and label, in one process or in two.  Every PKCS#11 call *)
(* on the objects is one step, because another session may act between two *)
(* of them; what a thread does between two PKCS#11 calls joins the next.   *)
(* The signing of one input is one step: InputSigning opens it up.         *)
(***************************************************************************)
EXTENDS PolicyCheck

CONSTANTS
    Thread, Signer, SignerOf,   \* SignerOf[t]: the signer thread t has a clone of
    Network,                    \* the network of the signers
    Policies,                   \* the policies set_policy is called with
    InitPolicies,               \* the policy objects the token may start with, or Absent
    Txs,                        \* [output, ours]: ours is how many inputs are ours to sign
    Handle,                     \* object handles of the token
    Absent,                     \* the content of a handle without an object
    NoThread,                   \* a free mutex
    Window,                     \* the trailing hour: 3600 in the code
    Ops,                        \* the calls in use, a subset of the five names below
    Fallible,                   \* the PKCS#11 functions that may fail
    MaxCalls, MaxTime, MaxCrashes,   \* bounds of the model
    ClockMayStepBack            \* whether the system clock may be set back

SignOps  == {"sign_transaction", "sign_pset"}
AllOps   == SignOps \cup {"policy", "set_policy", "health_check"}
P11Calls == {"info", "find", "read", "destroy", "create", "sign"}

\* A whitelist is a set of addresses, so the policies of the model are records
\* whose whitelist is opaque here: only PolicyCheck opens it.
IsPolicy(p) == /\ DOMAIN p = DOMAIN Permissive
               /\ p.max_signatures_per_hour \in Nat \cup {None}

ASSUME ConstantsAssumption ==
    /\ SignerOf \in [Thread -> Signer]
    /\ NoThread \notin Thread
    /\ None \notin Nat
    /\ \A p \in Policies : IsPolicy(p) /\ p # Absent
    /\ InitPolicies \subseteq Policies \cup {Absent}
    /\ Permissive # Absent
    /\ Absent \notin [timestamps : SUBSET [id : Nat, at : Nat, max : Nat]]
    /\ \A tx \in Txs : tx.ours \in Nat
    /\ Window \in Nat
    /\ Ops \subseteq AllOps
    /\ Fallible \subseteq P11Calls
    /\ MaxCalls \in Nat /\ MaxTime \in Nat /\ MaxCrashes \in Nat
    /\ ClockMayStepBack \in BOOLEAN

VARIABLES
    now,          \* the system clock, in seconds
    policyObj,    \* handle -> content of an object labelled emvault.v1.{label}.policy
    sigrateObj,   \* handle -> content of an object labelled emvault.v1.{label}.sigrate
    lock,         \* signer -> the thread that holds its mutex
    poisoned,     \* signer -> whether a thread panicked while holding its mutex
    pc,           \* thread -> where its call stands
    call,         \* thread -> its last call and arguments
    frame,        \* thread -> the locals of the call
    result,       \* thread -> how its last call ended
    calls,        \* number of calls made so far
    crashes,      \* number of process crashes so far
    log,          \* history: the rate entries that were saved
    produced      \* history: the signatures that were put in a transaction

vars == <<now, policyObj, sigrateObj, lock, poisoned, pc, call, frame, result,
          calls, crashes, log, produced>>

(***************************************************************************)
(* The code keeps one timestamp per entry of the counter.  id (the call    *)
(* that made the entry) tells entries of the same second apart, and max    *)
(* (the ceiling it was admitted under) is read by the properties only.     *)
(***************************************************************************)
Entry == [id : Nat, at : Nat, max : Nat]

SigRateCounter == [timestamps : SUBSET Entry]

AnyPolicy == Policies \cup {Permissive}

Requests ==
    [op : Ops \cap SignOps, tx : Txs, arg : {None}]
      \cup [op : Ops \cap {"set_policy"}, tx : {None}, arg : Policies]
      \cup [op : Ops \cap {"policy", "health_check"}, tx : {None}, arg : {None}]

EmptyFrame == [policy |-> Permissive, handle |-> None, todo |-> {},
               counter |-> {}, stamp |-> 0, signed |-> 0]

Live(obj) == {h \in Handle : obj[h] # Absent}

\* A handle the token has not given out; it reuses none a session still holds.
FreeHandles == {h \in Handle :
                  /\ policyObj[h] = Absent
                  /\ sigrateObj[h] = Absent
                  /\ \A t \in Thread : h # frame[t].handle /\ h \notin frame[t].todo}

Max(t) == frame[t].policy.max_signatures_per_hour

\* Mutant: the entry is given the cutoff in place of the time.
EntryAt_Cutoff(t, at) == [id |-> call[t].id, at |-> at - Window, max |-> Max(t)]

EntryAt(t, at) == [id |-> call[t].id, at |-> at, max |-> Max(t)]

-----------------------------------------------------------------------------
Goto(t, label) == /\ pc' = [pc EXCEPT ![t] = label]
                  /\ UNCHANGED <<lock, result>>

\* The call ends and its mutex guard is dropped.  The policy it loaded and the
\* number of inputs it signed stay readable for the properties.
Return(t, how) ==
    /\ pc' = [pc EXCEPT ![t] = "idle"]
    /\ lock' = [lock EXCEPT ![SignerOf[t]] = NoThread]
    /\ result' = [result EXCEPT ![t] = how]
    /\ frame' = [frame EXCEPT ![t] = [EmptyFrame EXCEPT !.policy = frame[t].policy,
                                                        !.signed = frame[t].signed]]

Fail(t, function) == /\ function \in Fallible
                     /\ Return(t, "Pkcs11")

TokenUnchanged  == UNCHANGED <<policyObj, sigrateObj, log>>
EnvUnchanged    == UNCHANGED <<now, calls, crashes, call>>
OthersUnchanged == UNCHANGED <<poisoned, produced>> /\ TokenUnchanged /\ EnvUnchanged

-----------------------------------------------------------------------------
(* Calls and the mutex                                                     *)

\* A thread calls a method of its clone.
Begin(t) ==
    /\ pc[t] = "idle"
    /\ calls < MaxCalls
    /\ calls' = calls + 1
    /\ \E r \in Requests :
         call' = [call EXCEPT ![t] = [op |-> r.op, tx |-> r.tx, arg |-> r.arg, id |-> calls + 1]]
    /\ frame' = [frame EXCEPT ![t] = EmptyFrame]
    /\ Goto(t, "lock")
    /\ UNCHANGED <<now, crashes, poisoned, produced>>
    /\ TokenUnchanged

FirstLabel(op) == CASE op = "set_policy"   -> "find_old_policy"
                    [] op = "health_check" -> "token_info"
                    [] OTHER               -> "find_policy"

\* Mutants: a lock that readers share; a poisoned lock that is taken anyway.
MayEnter_Shared(t)       == ~poisoned[SignerOf[t]]
MayEnter_IgnorePoison(t) == lock[SignerOf[t]] = NoThread

MayEnter(t) == lock[SignerOf[t]] = NoThread /\ ~poisoned[SignerOf[t]]

Acquire(t) ==
    /\ pc[t] = "lock"
    /\ MayEnter(t)
    /\ lock' = [lock EXCEPT ![SignerOf[t]] = t]
    /\ pc' = [pc EXCEPT ![t] = FirstLabel(call[t].op)]
    /\ UNCHANGED <<frame, result>>
    /\ OthersUnchanged

\* sign_transaction, sign_pset and health_check turn a poisoned mutex into an
\* error; policy and set_policy call expect on it and panic.
AcquirePoisoned(t) ==
    /\ pc[t] = "lock"
    /\ lock[SignerOf[t]] = NoThread
    /\ poisoned[SignerOf[t]]
    /\ Return(t, IF call[t].op \in {"policy", "set_policy"} THEN "panic" ELSE "poisoned")
    /\ OthersUnchanged

HealthCheck(t) ==
    /\ pc[t] = "token_info"
    /\ Return(t, "ok") \/ Fail(t, "info")
    /\ OthersUnchanged

-----------------------------------------------------------------------------
(* load_policy and check_against_psbt                                      *)

\* Mutant: sign_transaction goes straight to its inputs.
AfterLoad_NoCheck(op) == IF op = "policy" THEN "return_policy" ELSE "sign"

AfterLoad(op) == CASE op = "policy"           -> "return_policy"
                   [] op = "sign_transaction" -> "check"
                   [] op = "sign_pset"        -> "sign"

\* No object means the permissive policy; of several, whichever comes first.
FindPolicy(t) ==
    /\ pc[t] = "find_policy"
    /\ \/ /\ Live(policyObj) = {}
          /\ frame' = [frame EXCEPT ![t].policy = Permissive]
          /\ Goto(t, AfterLoad(call[t].op))
       \/ /\ \E h \in Live(policyObj) : frame' = [frame EXCEPT ![t].handle = h]
          /\ Goto(t, "read_policy")
       \/ Fail(t, "find")
    /\ OthersUnchanged

\* The object may have been destroyed by another session since it was found.
ReadPolicy(t) ==
    /\ pc[t] = "read_policy"
    /\ \/ /\ policyObj[frame[t].handle] # Absent
          /\ frame' = [frame EXCEPT ![t].policy = policyObj[frame[t].handle],
                                    ![t].handle = None]
          /\ Goto(t, AfterLoad(call[t].op))
       \/ /\ policyObj[frame[t].handle] = Absent
          /\ Return(t, "Pkcs11")
       \/ Fail(t, "read")
    /\ OthersUnchanged

ReturnPolicy(t) ==
    /\ pc[t] = "return_policy"
    /\ Return(t, "ok")
    /\ OthersUnchanged

\* Only sign_transaction checks the transaction.  A panic unwinds through the
\* mutex guard: the mutex is released and stays poisoned.
CheckPsbt(t) ==
    /\ pc[t] = "check"
    /\ LET verdict == CheckAgainstPsbt(frame[t].policy, call[t].tx, Network)
       IN  /\ IF verdict = "ok" THEN Goto(t, "sign") /\ UNCHANGED frame
                                ELSE Return(t, verdict)
           /\ poisoned' = [poisoned EXCEPT ![SignerOf[t]] = @ \/ verdict = "panic"]
    /\ UNCHANGED produced
    /\ TokenUnchanged /\ EnvUnchanged

-----------------------------------------------------------------------------
(* The input loop of sign_transaction and sign_pset                        *)

\* One more of our inputs is signed and its signature put in the transaction.
SignInput(t) ==
    /\ pc[t] = "sign"
    /\ frame[t].signed < call[t].tx.ours
    /\ frame' = [frame EXCEPT ![t].signed = @ + 1]
    /\ produced' = produced \cup {[call |-> call[t].id, input |-> frame[t].signed + 1]}
    /\ UNCHANGED <<pc, lock, result, poisoned>>
    /\ TokenUnchanged /\ EnvUnchanged

\* An input is malformed, or its derivation or signing fails: the call ends at
\* once.  What it signed before stays signed, and is not recorded.
SignFails(t) ==
    /\ pc[t] = "sign"
    /\ Fail(t, "sign")
    /\ OthersUnchanged

\* Mutant: only sign_transaction is recorded.
NeedsRecord_NoPset(t) == /\ frame[t].signed > 0 /\ Max(t) # None
                         /\ call[t].op = "sign_transaction"

\* A call that signed nothing, or that has no ceiling, is not recorded.
NeedsRecord(t) == frame[t].signed > 0 /\ Max(t) # None

\* The rate is checked after the loop, once for the whole call.
SignDone(t) ==
    /\ pc[t] = "sign"
    /\ frame[t].signed = call[t].tx.ours
    /\ \/ NeedsRecord(t) /\ Goto(t, "find_sigrate") /\ UNCHANGED frame
       \/ ~NeedsRecord(t) /\ Return(t, "ok")
    /\ OthersUnchanged

-----------------------------------------------------------------------------
(* check_and_record_sigrate: load_sigrate, prune, compare, save_sigrate    *)

FindSigrate(t) ==
    /\ pc[t] = "find_sigrate"
    /\ \/ /\ Live(sigrateObj) = {}
          /\ frame' = [frame EXCEPT ![t].counter = {}]
          /\ Goto(t, "check_sigrate")
       \/ /\ \E h \in Live(sigrateObj) : frame' = [frame EXCEPT ![t].handle = h]
          /\ Goto(t, "read_sigrate")
       \/ Fail(t, "find")
    /\ OthersUnchanged

ReadSigrate(t) ==
    /\ pc[t] = "read_sigrate"
    /\ \/ /\ sigrateObj[frame[t].handle] # Absent
          /\ frame' = [frame EXCEPT ![t].counter = sigrateObj[frame[t].handle].timestamps,
                                    ![t].handle = None]
          /\ Goto(t, "check_sigrate")
       \/ /\ sigrateObj[frame[t].handle] = Absent
          /\ Return(t, "Pkcs11")
       \/ Fail(t, "read")
    /\ OthersUnchanged

\* Mutant: an entry exactly as old as the window is dropped.
Prune_Strict(counter, at) == {e \in counter : e.at + Window > at}

\* Mutant: nothing is ever dropped.
Prune_Never(counter, at) == counter

\* cutoff = now.saturating_sub(3600); retain t >= cutoff
Prune(counter, at) == {e \in counter : e.at + Window >= at}

\* Mutant: one entry too many.
AtCeiling_OffByOne(t, kept) == Cardinality(kept) > Max(t)

AtCeiling(t, kept) == Cardinality(kept) >= Max(t)

\* The clock is read here; the entry keeps this reading however long the save
\* takes.  A call refused here has nothing to save.
CheckSigrate(t) ==
    /\ pc[t] = "check_sigrate"
    /\ LET kept == Prune(frame[t].counter, now)
       IN  \/ /\ AtCeiling(t, kept)
              /\ Return(t, "RateViolation")
           \/ /\ ~AtCeiling(t, kept)
              /\ frame' = [frame EXCEPT ![t].stamp = now,
                                        ![t].counter = kept \cup {EntryAt(t, now)}]
              /\ Goto(t, "find_old_sigrate")
    /\ OthersUnchanged

\* Mutant: the old objects are left in place.
OldObjects_Kept(obj) == {}

\* save_* destroys every object of the label before it creates one.
OldObjects(obj) == Live(obj)

FindOldSigrate(t) ==
    /\ pc[t] = "find_old_sigrate"
    /\ \/ /\ frame' = [frame EXCEPT ![t].todo = OldObjects(sigrateObj)]
          /\ Goto(t, "save_sigrate")
       \/ Fail(t, "find")
    /\ OthersUnchanged

\* Destroying an object another session destroyed first is an error.
DestroyOldSigrate(t) ==
    /\ pc[t] = "save_sigrate"
    /\ \E h \in frame[t].todo :
         \/ /\ sigrateObj[h] # Absent
            /\ sigrateObj' = [sigrateObj EXCEPT ![h] = Absent]
            /\ frame' = [frame EXCEPT ![t].todo = @ \ {h}]
            /\ UNCHANGED <<pc, lock, result>>
         \/ /\ sigrateObj[h] = Absent \/ "destroy" \in Fallible
            /\ Return(t, "Pkcs11")
            /\ UNCHANGED sigrateObj
    /\ UNCHANGED <<policyObj, log, poisoned, produced>>
    /\ EnvUnchanged

\* Mutants: an error of create_object is dropped; the save is tried again.
CreateFails_Dropped(t) == "create" \in Fallible /\ Return(t, "ok")
CreateFails_Retry(t) ==
    /\ "create" \in Fallible
    /\ Goto(t, IF call[t].op = "set_policy" THEN "find_old_policy" ELSE "find_old_sigrate")
    /\ UNCHANGED frame

CreateFails(t) == Fail(t, "create")

CreateSigrate(t) ==
    /\ pc[t] = "save_sigrate"
    /\ frame[t].todo = {}
    /\ \/ /\ \E h \in FreeHandles :
               sigrateObj' = [sigrateObj EXCEPT ![h] = [timestamps |-> frame[t].counter]]
          /\ log' = log \cup {EntryAt(t, frame[t].stamp)}
          /\ Return(t, "ok")
       \/ /\ CreateFails(t)
          /\ UNCHANGED <<sigrateObj, log>>
    /\ UNCHANGED <<policyObj, poisoned, produced>>
    /\ EnvUnchanged

-----------------------------------------------------------------------------
(* save_policy                                                             *)

FindOldPolicy(t) ==
    /\ pc[t] = "find_old_policy"
    /\ \/ /\ frame' = [frame EXCEPT ![t].todo = OldObjects(policyObj)]
          /\ Goto(t, "save_policy")
       \/ Fail(t, "find")
    /\ OthersUnchanged

DestroyOldPolicy(t) ==
    /\ pc[t] = "save_policy"
    /\ \E h \in frame[t].todo :
         \/ /\ policyObj[h] # Absent
            /\ policyObj' = [policyObj EXCEPT ![h] = Absent]
            /\ frame' = [frame EXCEPT ![t].todo = @ \ {h}]
            /\ UNCHANGED <<pc, lock, result>>
         \/ /\ policyObj[h] = Absent \/ "destroy" \in Fallible
            /\ Return(t, "Pkcs11")
            /\ UNCHANGED policyObj
    /\ UNCHANGED <<sigrateObj, log, poisoned, produced>>
    /\ EnvUnchanged

CreatePolicy(t) ==
    /\ pc[t] = "save_policy"
    /\ frame[t].todo = {}
    /\ \/ /\ \E h \in FreeHandles :
               policyObj' = [policyObj EXCEPT ![h] = call[t].arg]
          /\ Return(t, "ok")
       \/ /\ CreateFails(t)
          /\ UNCHANGED policyObj
    /\ UNCHANGED <<sigrateObj, log, poisoned, produced>>
    /\ EnvUnchanged

-----------------------------------------------------------------------------
(* The process of a signer, and the clock                                  *)

\* The process of signer s dies and is started again: its calls are gone, its
\* mutex is a new one.  The token keeps its objects.
Crash(s) ==
    /\ crashes < MaxCrashes
    /\ crashes' = crashes + 1
    /\ LET dead == {t \in Thread : SignerOf[t] = s /\ pc[t] # "idle"}
       IN  /\ dead # {}
           /\ pc'     = [t \in Thread |-> IF t \in dead THEN "idle" ELSE pc[t]]
           /\ result' = [t \in Thread |-> IF t \in dead THEN "crashed" ELSE result[t]]
           /\ frame'  = [t \in Thread |-> IF t \in dead THEN EmptyFrame ELSE frame[t]]
    /\ lock'     = [lock EXCEPT ![s] = NoThread]
    /\ poisoned' = [poisoned EXCEPT ![s] = FALSE]
    /\ UNCHANGED <<now, call, calls, produced>>
    /\ TokenUnchanged

Tick ==
    /\ now < MaxTime
    /\ now' = now + 1
    /\ UNCHANGED <<policyObj, sigrateObj, lock, poisoned, pc, call, frame, result,
                   calls, crashes, log, produced>>

\* SystemTime is not monotonic.
ClockStepsBack ==
    /\ ClockMayStepBack
    /\ \E n \in 0 .. now - 1 : now' = n
    /\ UNCHANGED <<policyObj, sigrateObj, lock, poisoned, pc, call, frame, result,
                   calls, crashes, log, produced>>

\* All the calls of the model were made and have returned.
Finished ==
    /\ calls = MaxCalls
    /\ \A t \in Thread : pc[t] = "idle"
    /\ UNCHANGED vars

-----------------------------------------------------------------------------
Init ==
    /\ now = 0
    /\ \E h \in Handle, p \in InitPolicies :
         policyObj = [g \in Handle |-> IF g = h THEN p ELSE Absent]
    /\ sigrateObj = [h \in Handle |-> Absent]
    /\ lock = [s \in Signer |-> NoThread]
    /\ poisoned = [s \in Signer |-> FALSE]
    /\ pc = [t \in Thread |-> "idle"]
    /\ call = [t \in Thread |-> [op |-> "health_check", tx |-> None, arg |-> None, id |-> 0]]
    /\ frame = [t \in Thread |-> EmptyFrame]
    /\ result = [t \in Thread |-> "ok"]
    /\ calls = 0 /\ crashes = 0
    /\ log = {} /\ produced = {}

\* What a thread that is inside a call does next.
Step(t) ==
    \/ Acquire(t) \/ AcquirePoisoned(t) \/ HealthCheck(t)
    \/ FindPolicy(t) \/ ReadPolicy(t) \/ ReturnPolicy(t) \/ CheckPsbt(t)
    \/ SignInput(t) \/ SignFails(t) \/ SignDone(t)
    \/ FindSigrate(t) \/ ReadSigrate(t) \/ CheckSigrate(t)
    \/ FindOldSigrate(t) \/ DestroyOldSigrate(t) \/ CreateSigrate(t)
    \/ FindOldPolicy(t) \/ DestroyOldPolicy(t) \/ CreatePolicy(t)

Next ==
    \/ \E t \in Thread : Begin(t) \/ Step(t)
    \/ \E s \in Signer : Crash(s)
    \/ Tick
    \/ ClockStepsBack
    \/ Finished

Spec == Init /\ [][Next]_vars

\* A thread inside a call keeps running, and each PKCS#11 call returns.
\* Nothing makes a caller call again, a process die or the clock advance.
FairSpec == Spec /\ \A t \in Thread : WF_vars(Step(t))

-----------------------------------------------------------------------------
(* Properties                                                              *)

Labels == {"idle", "lock", "token_info", "find_policy", "read_policy", "return_policy",
           "check", "sign", "find_sigrate", "read_sigrate", "check_sigrate",
           "find_old_sigrate", "save_sigrate", "find_old_policy", "save_policy"}

\* Every variable holds a value of its kind: the types of the Rust state.
TypeOK ==
    /\ now \in Nat
    /\ policyObj \in [Handle -> Policies \cup {Absent}]
    /\ sigrateObj \in [Handle -> SigRateCounter \cup {Absent}]
    /\ lock \in [Signer -> Thread \cup {NoThread}]
    /\ poisoned \in [Signer -> BOOLEAN]
    /\ pc \in [Thread -> Labels]
    /\ call \in [Thread -> [op : AllOps, tx : Txs \cup {None},
                            arg : Policies \cup {None}, id : Nat]]
    /\ frame \in [Thread -> [policy : AnyPolicy, handle : Handle \cup {None},
                             todo : SUBSET Handle, counter : SUBSET Entry,
                             stamp : Nat, signed : Nat]]
    /\ calls \in Nat /\ crashes \in Nat
    /\ log \subseteq Entry
    /\ produced \subseteq [call : Nat, input : Nat]

InSession(t) == pc[t] \notin {"idle", "lock"}

\* The session of a signer is used by the thread that holds its mutex and by
\* no other, and the mutex is never left locked by a call that is over
\* (signer.rs: the guard is held across the whole flow, cryptoki::Session is
\* not Sync).
SessionIsLocked == \A t \in Thread : InSession(t) <=> lock[SignerOf[t]] = t

\* A panic under the mutex (the u64 sum of check_against_psbt) takes the
\* signer out of service: no later call of any clone reaches the session.
PoisonedIsDead == \A s \in Signer : poisoned[s] => lock[s] = NoThread

\* Replacing an object leaves no more of them behind than there are sessions,
\* whatever the saves of different sessions do to each other, and whatever
\* fails or crashes between destroy_object and create_object.
ObjectsPerSession ==
    /\ Cardinality(Live(policyObj)) <= Cardinality(Signer)
    /\ Cardinality(Live(sigrateObj)) <= Cardinality(Signer)

Saving(t) == pc[t] = "save_policy" /\ frame[t].todo = {}

\* The policy the token is bound to.  While the only session is between the
\* destroy and the create of save_policy this is the policy it is saving.
PolicyInForce ==
    IF \E t \in Thread : Saving(t) THEN call[CHOOSE t \in Thread : Saving(t)].arg
    ELSE IF Live(policyObj) = {} THEN Permissive
    ELSE policyObj[CHOOSE h \in Live(policyObj) : TRUE]

Signing(t) == pc[t] \in {"sign", "find_sigrate", "read_sigrate", "check_sigrate",
                         "find_old_sigrate", "save_sigrate"}

\* From the first signature of a call to the save of its rate entry, the
\* policy the call loaded is the one in force, and a transaction signed by
\* sign_transaction passes it: set_policy of another clone cannot come between.
SignedUnderPolicyInForce ==
    \A t \in Thread : Signing(t) =>
        /\ frame[t].policy = PolicyInForce
        /\ call[t].op = "sign_transaction" =>
             CheckAgainstPsbt(PolicyInForce, call[t].tx, Network) = "ok"

\* What a save of the counter may write: when an entry is added, the entries
\* of the hour that ends with it number at most the ceiling it was admitted
\* under (check_and_record_sigrate refuses at count >= max).  An entry stands
\* for a call, however many signatures the call made.
RateCeiling ==
    [][\A e \in log' \ log :
          Cardinality({f \in log' : f.at + Window >= e.at}) <= e.max]_vars

\* No entry younger than the window is lost: outside a save, the counter on
\* the token still has every entry the next check has to count.
NoEntryLost ==
    (\A t \in Thread : pc[t] # "save_sigrate") =>
        \A e \in log : e.at + Window >= now =>
            \E h \in Live(sigrateObj) : e \in sigrateObj[h].timestamps

\* An entry stands for a call that put a signature in a transaction, and a
\* call that signed under a ceiling and returned Ok has its entry.
EntriesMatchSignatures ==
    /\ \A e \in log : \E p \in produced : p.call = e.id
    /\ \A t \in Thread :
         (pc[t] = "idle" /\ result[t] = "ok" /\ frame[t].signed > 0 /\ Max(t) # None)
           => \E e \in log : e.id = call[t].id

\* A call that writes the counter object leaves no more entries in it than the
\* ceiling of the policy that call loaded, and its own entry is among them,
\* however the calls of several sessions interleave, whatever ceilings the
\* entries of others were admitted under, and wherever the system clock is set
\* (check_and_record_sigrate prunes and compares before it records).
CounterBounded ==
    [][\A h \in Handle : sigrateObj'[h] \notin {sigrateObj[h], Absent} =>
          \E t \in Thread :
             /\ pc[t] = "save_sigrate" /\ pc'[t] = "idle"
             /\ \E e \in sigrateObj'[h].timestamps : e.id = call[t].id
             /\ Cardinality(sigrateObj'[h].timestamps) <= Max(t)]_vars

\* A call is refused for its rate only when as many calls as its ceiling allows
\* are on record with a time not before the start of the hour: what a failed
\* save, another session or a correction of the clock leaves behind never
\* counts.  The bound is the one of check_and_record_sigrate, "at or above"
\* (policy.rs:299), in entries of calls.  policy.rs:17-18 and :44-45 promise
\* otherwise: a refusal only at "more than" the ceiling, of signatures.  The code
\* does not keep that, and this property does not claim it.
NoFalseRefusal ==
    [][\A t \in Thread :
          pc[t] = "check_sigrate" /\ pc'[t] = "idle" /\ result'[t] = "RateViolation"
            => Cardinality({e \in log : e.at + Window >= now}) >= Max(t)]_vars

\* The label behaves like a ledger that is read and replaced in one step
\* (policy.rs: "updated atomically", "Atomically check-and-update").
Ledger == INSTANCE PolicyLedger
            WITH policy <- PolicyInForce, Ids <- 1 .. MaxCalls,
                 InitPolicies <- {IF p = Absent THEN Permissive ELSE p : p \in InitPolicies}

ImplementsLedger == Ledger!Spec

\* Whoever holds the mutex returns and lets go of it.
HolderReturns == \A t \in Thread : lock[SignerOf[t]] = t ~> lock[SignerOf[t]] # t

-----------------------------------------------------------------------------
(* What the documentation says of the program                              *)

\* policy.rs: the policy's checks are "evaluated before the HSM signs any
\* input": a call the policy refuses has signed nothing.
RefusedCallSignsNothing ==
    \A t \in Thread : pc[t] = "idle" /\ result[t] \in {"PolicyViolation", "RateViolation"}
        => frame[t].signed = 0

\* The same sentence for both signing calls: whatever was signed passes the
\* per-transaction limit and the whitelist of the policy that was loaded.
SignedPassesPolicy ==
    \A t \in Thread : Signing(t) /\ frame[t].signed > 0 =>
        CheckAgainstPsbt(frame[t].policy, call[t].tx, Network) = "ok"

\* policy.rs: "Atomically check-and-update the sig-rate counter": of the calls
\* that were recorded, no hour ever holds more than the largest ceiling.
RecordedWithinCeiling ==
    \A e \in log : \E g \in log :
        Cardinality({f \in log : f.at <= e.at /\ f.at + Window >= e.at}) <= g.max

\* policy.rs: policy and counter are "updated atomically": on a token that
\* starts with a policy object, no call ever signs under a policy other than
\* one that was put there.
PolicyNeverLapses ==
    Absent \notin InitPolicies =>
        \A t \in Thread : Signing(t) => frame[t].policy \in Policies

=============================================================================
