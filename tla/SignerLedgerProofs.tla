------------------------- MODULE SignerLedgerProofs -------------------------
(***************************************************************************)
(* One session, undisturbed: no entry of the last hour is lost, no hour    *)
(* exceeds the ceiling its last entry was admitted under, and SignerPolicy *)
(* implements PolicyLedger, for every value of the constants but the four  *)
(* that PolicyLedger names.                                                *)
(***************************************************************************)
EXTENDS SignerObjectProofs, SignerCounterProofs

\* What the promise of an atomic update rests on: one session, a create_object
\* that does not fail, no process that dies, a clock that is not set back.
Undisturbed == /\ OneSession
               /\ "create" \notin Fallible
               /\ MaxCrashes = 0
               /\ ClockMayStepBack = FALSE

Young(e, at) == e.at + Window >= at

\* The hour that a call which is saving its entry was admitted under.
HourOf(t) == {e \in log : Young(e, frame[t].stamp)}

\* Between the destroy of the old counter and the create of the new one.
Replacing(t) == pc[t] = "save_sigrate" /\ frame[t].todo = {}

StoredCounter == \A e \in log : Young(e, now) =>
                   \E h \in Live(sigrateObj) : e \in sigrateObj[h].timestamps

\* A counter that was loaded has every entry that still counts; one that is to
\* be saved has besides the entry of its call, which is the latest and has room.
KeptOK(t) ==
    /\ pc[t] = "check_sigrate" => \A e \in log : Young(e, now) => e \in frame[t].counter
    /\ pc[t] \in SaveLabels =>
         /\ frame[t].stamp <= now
         /\ \A e \in log : e.at <= frame[t].stamp
         /\ HourOf(t) \subseteq frame[t].counter
         /\ EntryAt(t, frame[t].stamp) \in frame[t].counter
         /\ Cardinality(HourOf(t)) < Max(t)
    /\ pc[t] = "save_sigrate" => frame[t].todo \subseteq Live(sigrateObj)

LedgerInv == /\ \A e \in log : e.at <= now
             /\ (\A t \in Thread : ~Replacing(t)) => StoredCounter
             /\ \A t \in Thread : KeptOK(t)

\* What the steps of one session rest on.
SessionInv == TypeInv /\ MutexInv /\ ObjectInv /\ LoadedInv /\ CounterInv

-----------------------------------------------------------------------------
(* The entries that count are kept                                         *)

\* In one session a step only has to show its own part.
LEMMA OwnLedger ==
  ASSUME OneSession, SessionInv, NEW t \in Thread, Step(t),
         \A e \in log' : e.at <= now,
         ~Replacing(t)' => StoredCounter',
         KeptOK(t)'
  PROVE  LedgerInv'
<1>1. UNCHANGED now
  BY StepOthers DEF SessionInv
<1>2. ASSUME NEW u \in Thread, u # t PROVE KeptOK(u)'
  BY <1>2, StepsAlone DEF SessionInv, InSession, KeptOK, SaveLabels
<1> QED
  BY <1>1, <1>2 DEF LedgerInv

\* A step that goes where no counter is held, and touches none.
LEMMA ElsewhereLedger ==
  ASSUME OneSession, SessionInv, LedgerInv, NEW t \in Thread, Step(t),
         ~Replacing(t), pc'[t] \notin CounterLabels, UNCHANGED <<sigrateObj, log>>
  PROVE  LedgerInv'
<1>1. UNCHANGED now
  BY StepOthers DEF SessionInv
<1>2. KeptOK(t)'
  BY DEF KeptOK, CounterLabels, SaveLabels
<1>3. StoredCounter
  BY StepsAlone DEF LedgerInv, SessionInv, Replacing, InSession
<1>4. StoredCounter'
  BY <1>1, <1>3 DEF StoredCounter, Live, Young
<1> QED
  BY <1>2, <1>4, OwnLedger DEF LedgerInv

\* While a thread that is not replacing the counter takes a step, the token has
\* every entry that counts.
LEMMA TokenHasThem ==
  ASSUME OneSession, SessionInv, LedgerInv, NEW t \in Thread, Step(t), ~Replacing(t)
  PROVE  StoredCounter
  BY StepsAlone DEF LedgerInv, SessionInv, Replacing, InSession

\* The steps of a thread at the counter keep the entries that count.
LEMMA StepLedger ==
  ASSUME Undisturbed, SessionInv, LedgerInv, NEW t \in Thread, Step(t)
  PROVE  LedgerInv'
<1> DEFINE f == frame[t]
<1>0. /\ pc \in [Thread -> Labels] /\ frame \in [Thread -> FrameType] /\ f \in FrameType
      /\ log \subseteq Entry /\ now \in Nat /\ OneSession /\ TypeInv
      /\ sigrateObj \in [Handle -> SigRateCounter \cup {Absent}]
      /\ UNCHANGED <<now, call>>
  BY StepOthers DEF SessionInv, TypeInv, TypeOK, FrameType, Undisturbed
<1>e. ASSUME ~Replacing(t), pc'[t] \notin CounterLabels, UNCHANGED <<sigrateObj, log>>
      PROVE  LedgerInv'
  BY <1>0, <1>e, ElsewhereLedger
<1>i. "idle" \notin CounterLabels
  BY DEF CounterLabels, SaveLabels
\* A step that leaves the token alone.
<1>m. ASSUME UNCHANGED <<sigrateObj, log>>, ~Replacing(t), KeptOK(t)'
      PROVE  LedgerInv'
  <2>1. StoredCounter'
    BY <1>0, <1>m, TokenHasThem DEF StoredCounter, Live, Young
  <2> QED
    BY <1>0, <1>m, <2>1, OwnLedger DEF LedgerInv
<1>1. CASE FindSigrate(t)
  <2>1. UNCHANGED <<sigrateObj, log>> /\ ~Replacing(t)
    BY <1>1 DEF FindSigrate, OthersUnchanged, TokenUnchanged, Replacing
  <2>2. CASE pc'[t] = "check_sigrate"
    <3>1. Live(sigrateObj) = {}
      BY <1>0, <1>1, <2>2 DEF FindSigrate, Goto, Fail, Return
    <3>2. \A e \in log : ~Young(e, now)
      BY <1>0, <2>1, <3>1, TokenHasThem DEF StoredCounter
    <3>3. KeptOK(t)'
      BY <1>0, <2>1, <2>2, <3>2 DEF KeptOK, SaveLabels, Young
    <3> QED
      BY <1>m, <2>1, <3>3
  <2>3. CASE pc'[t] # "check_sigrate"
    <3>1. pc'[t] \notin CounterLabels
      BY <1>0, <1>1, <2>3, StepLabels DEF CounterLabels, SaveLabels
    <3> QED
      BY <1>e, <2>1, <3>1
  <2> QED
    BY <2>2, <2>3
<1>2. CASE ReadSigrate(t)
  <2>1. UNCHANGED <<sigrateObj, log>> /\ ~Replacing(t)
    BY <1>2 DEF ReadSigrate, OthersUnchanged, TokenUnchanged, Replacing
  <2>2. CASE pc'[t] = "check_sigrate"
    <3>1. /\ sigrateObj[f.handle] # Absent
          /\ frame' = [frame EXCEPT ![t].counter = sigrateObj[f.handle].timestamps,
                                    ![t].handle = None]
      BY <1>0, <1>2, <2>2 DEF ReadSigrate, Fail, Return
    <3>2. f.handle \in Live(sigrateObj)
      BY <1>0, <1>2, <3>1 DEF ReadSigrate, TypeInv, PlaceOK, Live
    <3>3. frame'[t].counter = sigrateObj[f.handle].timestamps
      BY <1>0, <3>1 DEF FrameType
    <3>4. \A h \in Live(sigrateObj) : h = f.handle
      BY <1>0, <3>2, OneObject DEF SessionInv
    <3>5. \A e \in log : Young(e, now) => e \in frame'[t].counter
      BY <1>0, <2>1, <3>3, <3>4, TokenHasThem DEF StoredCounter
    <3>6. KeptOK(t)'
      BY <1>0, <2>1, <2>2, <3>5 DEF KeptOK, SaveLabels, Young
    <3> QED
      BY <1>m, <2>1, <3>6
  <2>3. CASE pc'[t] # "check_sigrate"
    <3>1. pc'[t] \notin CounterLabels
      BY <1>0, <1>2, <2>3, StepLabels DEF CounterLabels, SaveLabels
    <3> QED
      BY <1>e, <2>1, <3>1
  <2> QED
    BY <2>2, <2>3
<1>3. CASE CheckSigrate(t)
  <2> DEFINE kept == Prune(f.counter, now)
             g    == [f EXCEPT !.stamp = now, !.counter = kept \cup {EntryAt(t, now)}]
  <2>1. UNCHANGED <<sigrateObj, log>> /\ ~Replacing(t) /\ pc[t] = "check_sigrate"
    BY <1>3 DEF CheckSigrate, OthersUnchanged, TokenUnchanged, Replacing
  <2>2. CASE pc'[t] = "find_old_sigrate"
    <3>1. ~AtCeiling(t, kept) /\ frame' = [frame EXCEPT ![t] = g]
      BY <1>0, <1>3, <2>2 DEF CheckSigrate, Return
    <3>2. /\ frame'[t].stamp = now /\ frame'[t].policy = f.policy
          /\ frame'[t].counter = kept \cup {EntryAt(t, now)}
      BY <1>0, <3>1 DEF FrameType
    <3>3. EntryAt(t, frame[t].stamp)' = EntryAt(t, now) /\ Max(t)' = Max(t)
      BY <1>0, <3>2 DEF EntryAt, Max
    <3>4. HourOf(t)' = {e \in log : Young(e, now)}
      BY <2>1, <3>2 DEF HourOf, Young
    <3>5. {e \in log : Young(e, now)} \subseteq kept
      BY <2>1 DEF LedgerInv, KeptOK, Prune, Young
    <3>6. Cardinality({e \in log : Young(e, now)}) < Max(t)
      <4>1. kept \subseteq log
        BY <2>1 DEF SessionInv, CounterInv, CounterOK, Prune
      <4>2. IsFiniteSet(kept)
        BY <4>1, FS_Subset DEF SessionInv, CounterInv
      <4>3. /\ IsFiniteSet({e \in log : Young(e, now)})
            /\ Cardinality({e \in log : Young(e, now)}) <= Cardinality(kept)
        BY <3>5, <4>2, FS_Subset
      <4>4. Max(t) \in Nat
        BY <1>0, <2>1, CeilingType DEF TypeInv, PlaceOK, Max, FrameType, SigrateLabels
      <4> HIDE DEF kept
      <4>5. /\ Cardinality({e \in log : Young(e, now)}) \in Nat
            /\ Cardinality(kept) \in Nat
        BY <4>2, <4>3, FS_CardinalityType
      <4> QED
        BY <3>1, <4>3, <4>4, <4>5 DEF AtCeiling
    <3>7. KeptOK(t)'
      <4>1. \A e \in log' : e.at <= frame'[t].stamp
        BY <2>1, <3>2 DEF LedgerInv
      <4>2. HourOf(t)' \subseteq frame'[t].counter
        BY <3>2, <3>4, <3>5
      <4>3. frame'[t].stamp <= now'
        BY <1>0, <3>2
      <4>4. EntryAt(t, frame[t].stamp)' \in frame'[t].counter
        BY <3>2, <3>3
      <4>5. Cardinality(HourOf(t))' < Max(t)'
        BY <3>3, <3>4, <3>6
      <4> QED
        BY <2>2, <4>1, <4>2, <4>3, <4>4, <4>5 DEF KeptOK
    <3> QED
      BY <1>m, <2>1, <3>7
  <2>3. CASE pc'[t] # "find_old_sigrate"
    BY <1>0, <1>3, <1>e, <1>i, <2>1, <2>3, StepLabels
  <2> QED
    BY <2>2, <2>3
<1>4. CASE FindOldSigrate(t)
  <2>1. UNCHANGED <<sigrateObj, log>> /\ ~Replacing(t) /\ pc[t] = "find_old_sigrate"
    BY <1>4 DEF FindOldSigrate, OthersUnchanged, TokenUnchanged, Replacing
  <2>2. CASE pc'[t] = "save_sigrate"
    <3>1. frame' = [frame EXCEPT ![t].todo = Live(sigrateObj)]
      BY <1>0, <1>4, <2>2 DEF FindOldSigrate, OldObjects, Fail, Return
    <3>2. /\ frame'[t].stamp = f.stamp /\ frame'[t].policy = f.policy
          /\ frame'[t].counter = f.counter /\ frame'[t].todo = Live(sigrateObj)
      BY <1>0, <3>1 DEF FrameType
    <3>3. /\ EntryAt(t, frame[t].stamp)' = EntryAt(t, f.stamp)
          /\ Max(t)' = Max(t) /\ HourOf(t)' = HourOf(t)
      BY <1>0, <2>1, <3>2 DEF EntryAt, Max, HourOf, Young
    <3>4. KeptOK(t)
      BY DEF LedgerInv
    <3>5. Live(sigrateObj)' = Live(sigrateObj)
      BY <2>1 DEF Live
    <3>6. KeptOK(t)'
      BY <1>0, <2>1, <2>2, <3>2, <3>3, <3>4, <3>5 DEF KeptOK, SaveLabels
    <3> QED
      BY <1>m, <2>1, <3>6
  <2>3. CASE pc'[t] # "save_sigrate"
    BY <1>0, <1>4, <1>e, <1>i, <2>1, <2>3, StepLabels
  <2> QED
    BY <2>2, <2>3
<1>5. CASE DestroyOldSigrate(t)
  <2>1. UNCHANGED log /\ pc[t] = "save_sigrate"
    BY <1>5 DEF DestroyOldSigrate
  <2>2. PICK h \in f.todo :
          \/ /\ sigrateObj' = [sigrateObj EXCEPT ![h] = Absent]
             /\ frame' = [frame EXCEPT ![t].todo = @ \ {h}]
             /\ UNCHANGED pc
          \/ Return(t, "Pkcs11") /\ UNCHANGED sigrateObj
    BY <1>5 DEF DestroyOldSigrate
  <2>3. ~Replacing(t)
    BY <2>2 DEF Replacing
  <2>4. CASE Return(t, "Pkcs11") /\ UNCHANGED sigrateObj
    <3>1. pc'[t] = "idle"
      BY <1>0, <2>4 DEF Return
    <3> QED
      BY <1>e, <1>i, <2>1, <2>3, <2>4, <3>1
  <2>5. CASE /\ sigrateObj' = [sigrateObj EXCEPT ![h] = Absent]
             /\ frame' = [frame EXCEPT ![t].todo = @ \ {h}]
             /\ UNCHANGED pc
    <3>1. KeptOK(t) /\ f.todo \subseteq Live(sigrateObj)
      BY <2>1 DEF LedgerInv, KeptOK
    <3>2. f.todo = {h} /\ Live(sigrateObj) = {h}
      BY <1>0, <2>1, <3>1, OneObject DEF SessionInv
    <3>3. /\ frame'[t].stamp = f.stamp /\ frame'[t].policy = f.policy
          /\ frame'[t].counter = f.counter /\ frame'[t].todo = {}
      BY <1>0, <2>5, <3>2 DEF FrameType
    <3>4. /\ EntryAt(t, frame[t].stamp)' = EntryAt(t, f.stamp)
          /\ Max(t)' = Max(t) /\ HourOf(t)' = HourOf(t)
      BY <1>0, <2>1, <3>3 DEF EntryAt, Max, HourOf, Young
    <3>5. KeptOK(t)'
      BY <1>0, <2>1, <2>5, <3>1, <3>3, <3>4 DEF KeptOK, SaveLabels
    <3>6. Replacing(t)'
      BY <2>1, <2>5, <3>3 DEF Replacing
    <3> QED
      BY <1>0, <2>1, <3>5, <3>6, OwnLedger DEF LedgerInv
  <2> QED
    BY <2>2, <2>4, <2>5
<1>6. CASE CreateSigrate(t)
  <2>1. pc[t] = "save_sigrate" /\ KeptOK(t)
    BY <1>6 DEF CreateSigrate, LedgerInv
  <2>2. PICK h \in FreeHandles :
          /\ sigrateObj' = [sigrateObj EXCEPT ![h] = [timestamps |-> f.counter]]
          /\ log' = log \cup {EntryAt(t, f.stamp)}
    BY <1>6 DEF CreateSigrate, CreateFails, Fail, Undisturbed
  <2>3. /\ EntryAt(t, f.stamp).at = f.stamp
        /\ EntryAt(t, f.stamp) \in f.counter
        /\ f.stamp <= now
        /\ \A e \in log : Young(e, f.stamp) => e \in f.counter
    BY <2>1 DEF EntryAt, KeptOK, SaveLabels, HourOf
  <2>4. f.stamp \in Nat /\ \A e \in log : e.at \in Nat
    BY <1>0 DEF FrameType, Entry
  <2>5. \A e \in log' : e.at <= now
    BY <2>2, <2>3 DEF LedgerInv
  <2>6. \A e \in log : Young(e, now) => Young(e, f.stamp)
    <3>1. Window \in Nat
      BY ConstantsAssumption
    <3>2. ASSUME NEW at \in Nat, at + Window >= now PROVE at + Window >= f.stamp
      BY <1>0, <2>3, <2>4, <3>1, <3>2
    <3> QED
      BY <2>4, <3>2 DEF Young
  <2>7. \A e \in log' : Young(e, now) => e \in f.counter
    BY <2>2, <2>3, <2>6
  <2>8. h \in Live(sigrateObj)' /\ sigrateObj'[h].timestamps = f.counter
    <3>1. [timestamps |-> f.counter] # Absent
      BY <1>0, ConstantsAssumption DEF FrameType, Entry
    <3> QED
      BY <1>0, <2>2, <3>1 DEF FreeHandles, Live
  <2>9. StoredCounter'
    BY <1>0, <2>7, <2>8 DEF StoredCounter, Young
  <2>10. KeptOK(t)'
    BY <1>6, StepLabels, <1>0 DEF KeptOK, SaveLabels
  <2> QED
    BY <1>0, <2>5, <2>9, <2>10, OwnLedger
<1>7. CASE /\ ~FindSigrate(t) /\ ~ReadSigrate(t) /\ ~CheckSigrate(t) /\ ~FindOldSigrate(t)
           /\ ~DestroyOldSigrate(t) /\ ~CreateSigrate(t)
  <2>1. UNCHANGED <<sigrateObj, log>>
    BY <1>7, SigrateObjectKept
  <2>2. pc'[t] \notin CounterLabels
    BY <1>0, <1>7, StepLabels DEF Step, CounterLabels, SaveLabels
  <2>3. pc[t] # "save_sigrate"
    BY <1>7 DEF Step, Acquire, AcquirePoisoned, HealthCheck, FindPolicy, ReadPolicy,
                ReturnPolicy, CheckPsbt, SignInput, SignFails, SignDone, FindOldPolicy,
                DestroyOldPolicy, CreatePolicy
  <2> QED
    BY <1>e, <2>1, <2>2, <2>3 DEF Replacing
<1> QED
  BY <1>1, <1>2, <1>3, <1>4, <1>5, <1>6, <1>7

\* Entries only ever get older, and a new call holds no counter.
LEMMA NextLedger ==
  ASSUME Undisturbed
  PROVE  SessionInv /\ LedgerInv /\ [Next]_vars => LedgerInv'
<1> SUFFICES ASSUME SessionInv, LedgerInv, [Next]_vars PROVE LedgerInv'
  OBVIOUS
<1>0. /\ pc \in [Thread -> Labels] /\ frame \in [Thread -> FrameType]
      /\ call \in [Thread -> CallType] /\ now \in Nat /\ crashes \in Nat
      /\ log \subseteq Entry /\ Window \in Nat
  BY ConstantsAssumption DEF SessionInv, TypeInv, TypeOK, FrameType, CallType
<1>q. ASSUME UNCHANGED <<sigrateObj, log>>, now' \in Nat, now <= now',
             \A u \in Thread :
               \/ pc'[u] = "lock" /\ ~Replacing(u)
               \/ pc'[u] = pc[u] /\ frame'[u] = frame[u] /\ call'[u] = call[u]
      PROVE  LedgerInv'
  <2>1. \A e \in log : e.at \in Nat /\ e.at <= now
    BY <1>0 DEF LedgerInv, Entry
  <2>2. \A e \in log' : e.at <= now'
    <3>1. ASSUME NEW at \in Nat, at <= now PROVE at <= now'
      BY <1>0, <1>q, <3>1
    <3> QED
      BY <1>q, <2>1, <3>1
  <2>3. \A e \in log : Young(e, now') => Young(e, now)
    <3>1. ASSUME NEW at \in Nat, at + Window >= now' PROVE at + Window >= now
      BY <1>0, <1>q, <3>1
    <3> QED
      BY <2>1, <3>1 DEF Young
  <2>4. (\A u \in Thread : ~Replacing(u)') => StoredCounter'
    <3>1. Live(sigrateObj)' = Live(sigrateObj)
      BY <1>q DEF Live
    <3>2. \A u \in Thread : Replacing(u) => Replacing(u)'
      BY <1>q DEF Replacing
    <3>3. StoredCounter => StoredCounter'
      BY <1>q, <2>3, <3>1 DEF StoredCounter, Young
    <3> QED
      BY <3>2, <3>3 DEF LedgerInv
  <2>5. ASSUME NEW u \in Thread PROVE KeptOK(u)'
    <3>1. CASE pc'[u] = "lock"
      BY <3>1 DEF KeptOK, SaveLabels
    <3>2. CASE pc'[u] = pc[u] /\ frame'[u] = frame[u] /\ call'[u] = call[u]
      <4>1. /\ HourOf(u)' = HourOf(u) /\ Max(u)' = Max(u)
            /\ EntryAt(u, frame[u].stamp)' = EntryAt(u, frame[u].stamp)
            /\ Live(sigrateObj)' = Live(sigrateObj)
        BY <1>q, <3>2 DEF HourOf, Young, Max, EntryAt, Live
      <4>2. frame[u].stamp \in Nat
        BY <1>0 DEF FrameType
      <4>3. frame[u].stamp <= now => frame[u].stamp <= now'
        BY <1>0, <1>q, <4>2
      <4>4. KeptOK(u)
        BY DEF LedgerInv
      <4>5. \A e \in log' : Young(e, now)' => Young(e, now)
        BY <1>q, <2>3 DEF Young
      <4> QED
        BY <1>q, <3>2, <4>1, <4>3, <4>4, <4>5 DEF KeptOK
    <3> QED
      BY <1>q, <3>1, <3>2
  <2> QED
    BY <2>2, <2>4, <2>5 DEF LedgerInv
<1>1. ASSUME NEW t \in Thread, Begin(t) PROVE LedgerInv'
  <2>1. UNCHANGED <<sigrateObj, log, now>> /\ ~Replacing(t)
    BY <1>1 DEF Begin, TokenUnchanged, Replacing
  <2>2. /\ pc'[t] = "lock"
        /\ \A u \in Thread \ {t} : pc'[u] = pc[u] /\ frame'[u] = frame[u] /\ call'[u] = call[u]
    BY <1>0, <1>1 DEF Begin, Goto
  <2> QED
    BY <1>0, <1>q, <2>1, <2>2
<1>2. ASSUME NEW t \in Thread, Step(t) PROVE LedgerInv'
  BY <1>2, StepLedger
<1>3. ASSUME NEW s \in Signer, Crash(s) PROVE FALSE
  BY <1>0, <1>3 DEF Crash, Undisturbed
<1>4. ASSUME ClockStepsBack PROVE FALSE
  BY <1>4 DEF ClockStepsBack, Undisturbed
<1>5. CASE UNCHANGED <<sigrateObj, log, pc, frame, call>> /\ now' \in {now, now + 1}
  BY <1>0, <1>5, <1>q
<1> QED
  BY <1>1, <1>2, <1>3, <1>4, <1>5 DEF Next, Tick, Finished, vars

\* In one session, what its steps rest on in every reachable state.
LEMMA InSessionInv == ASSUME OneSession PROVE Spec => []SessionInv
<1>1. Thread # {}
  BY DEF OneSession
<1>2. Spec => []ObjectInv
  BY <1>1, Objects
<1>3. Spec => []LoadedInv
  BY Loaded
<1>4. TypeInv /\ MutexInv /\ ObjectInv /\ LoadedInv /\ CounterInv => SessionInv
  BY DEF SessionInv
<1> QED
  BY <1>2, <1>3, <1>4, Typed, Mutex, Counters, PTL

\* The entries that count are kept in every reachable state.
LEMMA LedgerKept == ASSUME Undisturbed PROVE Spec => []LedgerInv
<1>1. Init => LedgerInv
  BY DEF Init, LedgerInv, StoredCounter, KeptOK, SaveLabels
<1>2. Spec => []SessionInv
  BY InSessionInv DEF Undisturbed
<1> QED
  BY <1>1, <1>2, NextLedger, PTL DEF Spec

\* No entry younger than the window is lost: outside a save the counter on the
\* token has every entry the next check has to count, for any number of clones,
\* calls and policies, and whatever else than create_object fails.
THEOREM EntriesKept == ASSUME Undisturbed PROVE Spec => []NoEntryLost
<1>1. LedgerInv => NoEntryLost
  BY DEF LedgerInv, NoEntryLost, StoredCounter, Replacing, Young
<1> QED
  BY <1>1, LedgerKept, PTL

-----------------------------------------------------------------------------
(* What a step adds to the record                                          *)

\* Only the end of save_sigrate writes in the record.
LEMMA RecordedBy ==
  ASSUME Undisturbed, SessionInv, [Next]_vars, log' # log
  PROVE  \E t \in Thread : /\ CreateSigrate(t) /\ pc[t] = "save_sigrate"
                          /\ log' = log \cup {EntryAt(t, frame[t].stamp)}
<1>1. ASSUME NEW t \in Thread, Step(t)
      PROVE  \E u \in Thread : /\ CreateSigrate(u) /\ pc[u] = "save_sigrate"
                              /\ log' = log \cup {EntryAt(u, frame[u].stamp)}
  <2>1. CreateSigrate(t)
    <3>1. ~DestroyOldSigrate(t)
      BY DEF DestroyOldSigrate
    <3> QED
      BY <1>1, <3>1, SigrateObjectKept
  <2>2. pc[t] = "save_sigrate" /\ log' = log \cup {EntryAt(t, frame[t].stamp)}
    BY <2>1 DEF CreateSigrate, CreateFails, Fail, Undisturbed
  <2> QED
    BY <2>1, <2>2
<1>2. ASSUME NEW t \in Thread, Begin(t) PROVE UNCHANGED log
  BY <1>2 DEF Begin, TokenUnchanged
<1>3. ASSUME NEW s \in Signer, Crash(s) PROVE UNCHANGED log
  BY <1>3 DEF Crash, TokenUnchanged
<1> QED
  BY <1>1, <1>2, <1>3 DEF Next, Tick, ClockStepsBack, Finished, vars

\* What the saving call knows of the hour its entry ends.
LEMMA RoomLeft ==
  ASSUME SessionInv, LedgerInv, NEW t \in Thread, pc[t] = "save_sigrate"
  PROVE  /\ IsFiniteSet(HourOf(t)) /\ Cardinality(HourOf(t)) \in Nat
         /\ Max(t) \in Nat /\ Cardinality(HourOf(t)) < Max(t)
<1>1. HourOf(t) \subseteq log
  BY DEF HourOf
<1>2. IsFiniteSet(HourOf(t))
  BY <1>1, FS_Subset DEF SessionInv, CounterInv
<1>3. Cardinality(HourOf(t)) \in Nat
  BY <1>2, FS_CardinalityType
<1>4. Max(t) \in Nat
  BY CeilingType DEF SessionInv, TypeInv, TypeOK, PlaceOK, Max, SigrateLabels
<1> QED
  BY <1>2, <1>3, <1>4 DEF LedgerInv, KeptOK, SaveLabels

\* When an entry is added, the entries of the hour that ends with it number at
\* most the ceiling it was admitted under, for any number of clones, calls and
\* policies.
THEOREM RateKept == ASSUME Undisturbed PROVE Spec => RateCeiling
<1>1. ASSUME SessionInv, LedgerInv, [Next]_vars, NEW e \in log' \ log
      PROVE  Cardinality({f \in log' : f.at + Window >= e.at}) <= e.max
  <2>1. PICK t \in Thread : /\ pc[t] = "save_sigrate"
                            /\ log' = log \cup {EntryAt(t, frame[t].stamp)}
    BY <1>1, RecordedBy
  <2>2. e = EntryAt(t, frame[t].stamp) /\ e.at = frame[t].stamp /\ e.max = Max(t)
    BY <2>1 DEF EntryAt
  <2> DEFINE hour == {f \in log' : f.at + Window >= e.at}
  <2>3. hour \subseteq HourOf(t) \cup {e}
    BY <2>1, <2>2 DEF HourOf, Young
  <2>4. /\ IsFiniteSet(HourOf(t)) /\ Cardinality(HourOf(t)) \in Nat
        /\ Max(t) \in Nat /\ Cardinality(HourOf(t)) < Max(t)
    BY <1>1, <2>1, RoomLeft
  <2>5. /\ IsFiniteSet(HourOf(t) \cup {e})
        /\ Cardinality(HourOf(t) \cup {e}) \in {Cardinality(HourOf(t)), Cardinality(HourOf(t)) + 1}
    BY <2>4, FS_AddElement
  <2>6. IsFiniteSet(hour) /\ Cardinality(hour) <= Cardinality(HourOf(t) \cup {e})
    BY <2>3, <2>5, FS_Subset
  <2>7. Cardinality(hour) \in Nat
    BY <2>6, FS_CardinalityType
  <2> HIDE DEF hour
  <2>8. Cardinality(hour) <= Max(t)
    BY <2>4, <2>5, <2>6, <2>7
  <2> QED
    BY <2>2, <2>8 DEF hour
<1>2. SessionInv /\ LedgerInv /\ [Next]_vars =>
        [\A e \in log' \ log :
            Cardinality({f \in log' : f.at + Window >= e.at}) <= e.max]_vars
  BY <1>1
<1>3. Spec => []SessionInv
  BY InSessionInv DEF Undisturbed
<1> QED
  BY <1>2, <1>3, LedgerKept, PTL DEF Spec, RateCeiling

-----------------------------------------------------------------------------
(* The numbers of the calls                                                *)

\* A call that is under way has a number of its own, and no entry yet.
NumberOK(t) == pc[t] # "idle" =>
    /\ call[t].id \in 1 .. calls
    /\ \A e \in log : e.id # call[t].id
    /\ \A u \in Thread \ {t} : pc[u] # "idle" => call[u].id # call[t].id

NumbersInv == /\ calls \in 0 .. MaxCalls
              /\ \A e \in log : e.id \in 1 .. calls
              /\ \A t \in Thread : NumberOK(t)

\* Every step keeps the numbers: a new call takes the next one, and the call
\* that writes its entry is over.
LEMMA NextNumbers ==
  ASSUME Undisturbed
  PROVE  SessionInv /\ NumbersInv /\ [Next]_vars => NumbersInv'
<1> SUFFICES ASSUME SessionInv, NumbersInv, [Next]_vars PROVE NumbersInv'
  OBVIOUS
<1>0. /\ pc \in [Thread -> Labels] /\ call \in [Thread -> CallType] /\ calls \in 0 .. MaxCalls
      /\ MaxCalls \in Nat /\ crashes \in Nat /\ TypeInv
  BY ConstantsAssumption DEF SessionInv, TypeInv, TypeOK, CallType, NumbersInv
\* A step that begins no call and writes nothing.
<1>q. ASSUME UNCHANGED <<calls, log, call>>,
             \A u \in Thread : pc'[u] # "idle" => pc[u] # "idle"
      PROVE  NumbersInv'
  BY <1>q DEF NumbersInv, NumberOK
<1>1. ASSUME NEW t \in Thread, Begin(t) PROVE NumbersInv'
  <2>1. calls < MaxCalls /\ calls' = calls + 1 /\ UNCHANGED log
    BY <1>1 DEF Begin, TokenUnchanged
  <2>2. call'[t].id = calls + 1
    BY <1>0, <1>1 DEF Begin
  <2>3. \A u \in Thread \ {t} : pc'[u] = pc[u] /\ call'[u] = call[u]
    BY <1>0, <1>1 DEF Begin, Goto
  <2>4. calls' \in 0 .. MaxCalls /\ calls + 1 \in 1 .. calls' /\ calls + 1 \notin 1 .. calls
        /\ 1 .. calls \subseteq 1 .. calls'
    BY <1>0, <2>1
  <2>5. ASSUME NEW u \in Thread PROVE NumberOK(u)'
    <3>1. CASE u = t
      BY <2>1, <2>2, <2>3, <2>4, <3>1 DEF NumbersInv, NumberOK
    <3>2. CASE u # t
      BY <2>1, <2>2, <2>3, <2>4, <3>2 DEF NumbersInv, NumberOK
    <3> QED
      BY <3>1, <3>2
  <2>6. \A e \in log' : e.id \in 1 .. calls'
    BY <2>1, <2>4 DEF NumbersInv
  <2> QED
    BY <2>4, <2>5, <2>6 DEF NumbersInv
<1>2. ASSUME NEW t \in Thread, Step(t) PROVE NumbersInv'
  <2>1. /\ UNCHANGED <<calls, call>>
        /\ \A u \in Thread \ {t} : pc'[u] = pc[u]
    BY <1>0, <1>2, StepOthers
  <2>2. pc[t] # "idle"
    BY <1>2 DEF Step, Acquire, AcquirePoisoned, HealthCheck, FindPolicy, ReadPolicy,
                ReturnPolicy, CheckPsbt, SignInput, SignFails, SignDone, FindSigrate,
                ReadSigrate, CheckSigrate, FindOldSigrate, DestroyOldSigrate,
                CreateSigrate, FindOldPolicy, DestroyOldPolicy, CreatePolicy
  <2>3. CASE UNCHANGED log
    BY <1>q, <2>1, <2>2, <2>3
  <2>4. CASE ~UNCHANGED log
    <3>1. PICK s \in Thread : /\ CreateSigrate(s) /\ pc[s] = "save_sigrate"
                              /\ log' = log \cup {EntryAt(s, frame[s].stamp)}
      BY <2>4, RecordedBy
    <3>2. pc'[s] = "idle"
      BY <1>0, <3>1, StepLabels
    <3>3. EntryAt(s, frame[s].stamp).id = call[s].id /\ call[s].id \in 1 .. calls
      BY <3>1 DEF EntryAt, NumbersInv, NumberOK
    <3>4. \A e \in log' : e.id \in 1 .. calls'
      BY <2>1, <3>1, <3>3 DEF NumbersInv
    <3>5. ASSUME NEW u \in Thread, pc'[u] # "idle" PROVE NumberOK(u)'
      <4>1. u # s /\ pc[u] # "idle"
        BY <2>1, <2>2, <3>2, <3>5
      <4>2. call[u].id # call[s].id
        BY <3>1, <4>1 DEF NumbersInv, NumberOK
      <4>3. NumberOK(u)
        BY DEF NumbersInv
      <4>4. \A e \in log' : e.id # call[u].id
        BY <3>1, <3>3, <4>1, <4>2, <4>3 DEF NumberOK
      <4> QED
        BY <2>1, <2>2, <4>1, <4>3, <4>4 DEF NumberOK
    <3> QED
      BY <1>0, <2>1, <3>4, <3>5 DEF NumbersInv, NumberOK
  <2> QED
    BY <2>3, <2>4
<1>3. ASSUME NEW s \in Signer, Crash(s) PROVE FALSE
  BY <1>0, <1>3 DEF Crash, Undisturbed
<1>4. CASE UNCHANGED <<calls, log, call, pc>>
  BY <1>4, <1>q
<1> QED
  BY <1>1, <1>2, <1>3, <1>4 DEF Next, Tick, ClockStepsBack, Finished, vars

\* The numbers of every reachable state.
LEMMA Numbers == ASSUME Undisturbed PROVE Spec => []NumbersInv
<1>1. Init => NumbersInv
  BY ConstantsAssumption DEF Init, NumbersInv, NumberOK
<1>2. Spec => []SessionInv
  BY InSessionInv DEF Undisturbed
<1> QED
  BY <1>1, <1>2, NextNumbers, PTL DEF Spec

-----------------------------------------------------------------------------
(* The policy in force                                                     *)

\* A session that is replacing the policy has found only objects that are there.
SaversInv == \A t \in Thread :
               pc[t] = "save_policy" => frame[t].todo \subseteq Live(policyObj)

\* Every step of the session keeps that.
LEMMA NextSavers ==
  ASSUME Undisturbed
  PROVE  SessionInv /\ SaversInv /\ [Next]_vars => SaversInv'
<1> SUFFICES ASSUME SessionInv, SaversInv, [Next]_vars PROVE SaversInv'
  OBVIOUS
<1>0. /\ pc \in [Thread -> Labels] /\ frame \in [Thread -> FrameType] /\ crashes \in Nat
      /\ policyObj \in [Handle -> Policies \cup {Absent}] /\ MaxCrashes \in Nat
      /\ TypeInv /\ OneSession
  BY ConstantsAssumption DEF SessionInv, TypeInv, TypeOK, FrameType, Undisturbed
<1>q. ASSUME UNCHANGED policyObj,
             \A u \in Thread : \/ pc'[u] # "save_policy"
                               \/ pc'[u] = pc[u] /\ frame'[u] = frame[u]
      PROVE  SaversInv'
  <2>1. Live(policyObj)' = Live(policyObj)
    BY <1>q DEF Live
  <2> QED
    BY <1>q, <2>1 DEF SaversInv
<1>1. ASSUME NEW t \in Thread, Begin(t) PROVE SaversInv'
  <2>1. UNCHANGED policyObj
    BY <1>1 DEF Begin, TokenUnchanged
  <2>2. /\ pc'[t] = "lock"
        /\ \A u \in Thread \ {t} : pc'[u] = pc[u] /\ frame'[u] = frame[u]
    BY <1>0, <1>1 DEF Begin, Goto
  <2> QED
    BY <1>q, <2>1, <2>2
<1>2. ASSUME NEW t \in Thread, Step(t) PROVE SaversInv'
  <2>1. \A u \in Thread \ {t} : pc'[u] # "save_policy"
    BY <1>0, <1>2, StepsAlone DEF SessionInv, InSession
  <2>2. ASSUME pc'[t] = "save_policy" PROVE frame'[t].todo \subseteq Live(policyObj)'
    <3>1. FindOldPolicy(t) \/ DestroyOldPolicy(t)
      BY <1>0, <1>2, <2>2, StepLabels DEF Step
    <3>2. ASSUME NEW how, Return(t, how) PROVE FALSE
      BY <1>0, <2>2, <3>2 DEF Return
    <3>3. CASE FindOldPolicy(t)
      <4>1. UNCHANGED policyObj /\ frame' = [frame EXCEPT ![t].todo = Live(policyObj)]
        BY <3>2, <3>3 DEF FindOldPolicy, OldObjects, Fail, OthersUnchanged, TokenUnchanged
      <4>2. frame'[t].todo = Live(policyObj)
        BY <1>0, <4>1 DEF FrameType
      <4> QED
        BY <4>1, <4>2 DEF Live
    <3>4. CASE DestroyOldPolicy(t)
      <4>1. PICK h \in frame[t].todo : /\ policyObj' = [policyObj EXCEPT ![h] = Absent]
                                       /\ frame' = [frame EXCEPT ![t].todo = @ \ {h}]
        BY <3>2, <3>4 DEF DestroyOldPolicy
      <4>2. frame[t].todo \subseteq Live(policyObj)
        BY <3>4 DEF DestroyOldPolicy, SaversInv
      <4>3. frame'[t].todo = frame[t].todo \ {h}
        BY <1>0, <4>1 DEF FrameType
      <4>4. Live(policyObj)' = Live(policyObj) \ {h}
        BY <1>0, <4>1 DEF Live
      <4> QED
        BY <4>2, <4>3, <4>4
    <3> QED
      BY <3>1, <3>3, <3>4
  <2> QED
    BY <2>1, <2>2 DEF SaversInv
<1>3. ASSUME NEW s \in Signer, Crash(s) PROVE FALSE
  BY <1>0, <1>3 DEF Crash, Undisturbed
<1>4. CASE UNCHANGED <<policyObj, pc, frame>>
  BY <1>4, <1>q
<1> QED
  BY <1>1, <1>2, <1>3, <1>4 DEF Next, Tick, ClockStepsBack, Finished, vars

\* What the savers hold in every reachable state.
LEMMA Savers == ASSUME Undisturbed PROVE Spec => []SaversInv
<1>1. Init => SaversInv
  BY DEF Init, SaversInv
<1>2. Spec => []SessionInv
  BY InSessionInv DEF Undisturbed
<1> QED
  BY <1>1, <1>2, NextSavers, PTL DEF Spec

\* The policy in force is the argument of the one call that is saving it.
LEMMA ForcedBySaver ==
  ASSUME NEW t \in Thread, Saving(t), \A u \in Thread \ {t} : ~Saving(u)
  PROVE  PolicyInForce = call[t].arg
<1>1. (CHOOSE u \in Thread : Saving(u)) = t
  OBVIOUS
<1> QED
  BY <1>1 DEF PolicyInForce

\* The same of the state a step leads to.
LEMMA ForcedBySaverNext ==
  ASSUME NEW t \in Thread, Saving(t)', \A u \in Thread \ {t} : ~Saving(u)'
  PROVE  PolicyInForce' = call'[t].arg
<1>1. (CHOOSE u \in Thread : Saving(u)') = t
  OBVIOUS
<1> QED
  BY <1>1 DEF PolicyInForce

\* Without such a call it is the policy on the token.
LEMMA ForcedByToken ==
  /\ (\A t \in Thread : ~Saving(t)) => PolicyInForce = StoredPolicy
  /\ (\A t \in Thread : ~Saving(t)') => PolicyInForce' = StoredPolicy'
  BY DEF PolicyInForce, StoredPolicy

\* A step that touches neither the object nor a call that is saving a policy.
LEMMA ForcedKept ==
  ASSUME OneSession, MutexInv, UNCHANGED policyObj,
         \A u \in Thread : Saving(u)' <=> Saving(u),
         \A u \in Thread : Saving(u) => call'[u] = call[u]
  PROVE  UNCHANGED PolicyInForce
<1>1. CASE \E t \in Thread : Saving(t)
  <2>1. PICK t \in Thread : Saving(t)
    BY <1>1
  <2>2. \A u \in Thread \ {t} : ~Saving(u)
    BY <2>1, OneInside DEF Saving, InSession
  <2>3. PolicyInForce = call[t].arg
    BY <2>1, <2>2, ForcedBySaver
  <2>4. PolicyInForce' = call'[t].arg
    BY <2>1, <2>2, ForcedBySaverNext
  <2> QED
    BY <2>1, <2>3, <2>4
<1>2. CASE \A t \in Thread : ~Saving(t)
  <2>1. Live(policyObj)' = Live(policyObj)
    BY DEF Live
  <2>2. StoredPolicy' = StoredPolicy
    BY <2>1 DEF StoredPolicy
  <2> QED
    BY <1>2, <2>2, ForcedByToken
<1> QED
  BY <1>1, <1>2

\* A step of a thread leaves the policy in force, or puts one of Policies in
\* its place and records nothing.
LEMMA StepForces ==
  ASSUME Undisturbed, SessionInv, SaversInv, NEW t \in Thread, Step(t)
  PROVE  \/ UNCHANGED PolicyInForce
         \/ PolicyInForce' \in Policies /\ UNCHANGED <<now, log>>
<1> DEFINE f == frame[t]
<1>0. /\ pc \in [Thread -> Labels] /\ frame \in [Thread -> FrameType] /\ f \in FrameType
      /\ policyObj \in [Handle -> Policies \cup {Absent}]
      /\ TypeInv /\ MutexInv /\ OneSession
      /\ UNCHANGED <<now, call>>
  BY StepOthers DEF SessionInv, TypeInv, TypeOK, FrameType, Undisturbed
<1>o. \A u \in Thread \ {t} : ~Saving(u) /\ ~Saving(u)'
  BY <1>0, StepsAlone DEF Saving, InSession
\* Where the step begins or ends a save.
<1>u. ~Saving(t) => PolicyInForce = StoredPolicy
  BY <1>o, ForcedByToken
<1>p. ~Saving(t)' => PolicyInForce' = StoredPolicy'
  BY <1>o, ForcedByToken
<1>q. ASSUME UNCHANGED policyObj, Saving(t)' <=> Saving(t) PROVE UNCHANGED PolicyInForce
  BY <1>0, <1>o, <1>q, ForcedKept
<1>s. ASSUME pc[t] \in {"find_old_policy", "save_policy"}, Saving(t)'
      PROVE  PolicyInForce' \in Policies
  <2>1. PolicyInForce' = call[t].arg
    BY <1>0, <1>o, <1>s, ForcedBySaverNext
  <2> QED
    BY <1>0, <1>s, <2>1 DEF TypeInv, PlaceOK
<1>r. ASSUME NEW how, Return(t, how) PROVE ~Saving(t)'
  BY <1>0, <1>r DEF Return, Saving
<1>1. CASE FindOldPolicy(t)
  <2>1. pc[t] = "find_old_policy" /\ UNCHANGED <<policyObj, log>>
    BY <1>1 DEF FindOldPolicy, OthersUnchanged, TokenUnchanged
  <2>2. CASE Saving(t)'
    BY <1>0, <1>s, <2>1, <2>2
  <2>3. CASE ~Saving(t)'
    BY <1>q, <2>1, <2>3 DEF Saving
  <2> QED
    BY <2>2, <2>3
<1>2. CASE DestroyOldPolicy(t)
  <2>1. pc[t] = "save_policy" /\ UNCHANGED log /\ ~Saving(t)
    BY <1>2 DEF DestroyOldPolicy, Saving
  <2>2. CASE Return(t, "Pkcs11") /\ UNCHANGED policyObj
    BY <1>q, <1>r, <2>1, <2>2
  <2>3. CASE ~(Return(t, "Pkcs11") /\ UNCHANGED policyObj)
    <3>1. PICK h \in f.todo : UNCHANGED pc /\ frame' = [frame EXCEPT ![t].todo = @ \ {h}]
      BY <1>2, <2>3 DEF DestroyOldPolicy
    <3>2. f.todo \subseteq Live(policyObj) /\ \A j, k \in Live(policyObj) : j = k
      BY <1>0, <2>1, OneObject DEF SessionInv, SaversInv
    <3>3. frame'[t].todo = {}
      BY <1>0, <3>1, <3>2 DEF FrameType
    <3> QED
      BY <1>0, <1>s, <2>1, <3>1, <3>3 DEF Saving
  <2> QED
    BY <2>2, <2>3
<1>3. CASE CreatePolicy(t)
  <2>1. Saving(t)
    BY <1>3 DEF CreatePolicy, Saving
  <2>2. PICK h \in FreeHandles : policyObj' = [policyObj EXCEPT ![h] = call[t].arg]
    BY <1>3 DEF CreatePolicy, CreateFails, Fail, Undisturbed
  <2>3. Live(policyObj) = {}
    BY <1>0, <2>1, OneObject DEF SessionInv, Saving
  <2>4. call[t].arg \in Policies /\ call[t].arg # Absent
    BY <1>0, <2>1, ConstantsAssumption DEF TypeInv, PlaceOK, Saving
  <2>5. h \in Handle
    BY <2>2 DEF FreeHandles
  <2>6. Live(policyObj)' = {h} /\ policyObj'[h] = call[t].arg
    BY <1>0, <2>2, <2>3, <2>4, <2>5 DEF Live
  <2>7. StoredPolicy' = call[t].arg
    BY <2>6 DEF StoredPolicy
  <2>8. ~Saving(t)'
    BY <1>0, <1>3, StepLabels DEF Saving
  <2>9. PolicyInForce = call[t].arg
    BY <1>o, <2>1, ForcedBySaver
  <2> QED
    BY <1>p, <2>7, <2>8, <2>9
<1>4. CASE ~FindOldPolicy(t) /\ ~DestroyOldPolicy(t) /\ ~CreatePolicy(t)
  <2>1. UNCHANGED policyObj
    BY <1>4, PolicyObjectKept
  <2>2. pc[t] # "save_policy"
    BY <1>4 DEF Step, Acquire, AcquirePoisoned, HealthCheck, FindPolicy, ReadPolicy,
                ReturnPolicy, CheckPsbt, SignInput, SignFails, SignDone, FindSigrate,
                ReadSigrate, CheckSigrate, FindOldSigrate, DestroyOldSigrate, CreateSigrate
  <2>3. pc'[t] # "save_policy"
    BY <1>0, <1>4, StepLabels DEF Step
  <2> QED
    BY <1>q, <2>1, <2>2, <2>3 DEF Saving
<1> QED
  BY <1>1, <1>2, <1>3, <1>4

-----------------------------------------------------------------------------
(* The ledger                                                              *)

\* The ledger counts as the calls do.
LEMMA SameCount == ASSUME NEW S PROVE Ledger!Cardinality(S) = Cardinality(S)
  BY DEF Ledger!Cardinality, Cardinality

\* The step that writes an entry is the step Record of the ledger.
LEMMA Recorded ==
  ASSUME Undisturbed, SessionInv, LedgerInv, NumbersInv, [Next]_vars, log' # log,
         UNCHANGED <<now, PolicyInForce>>
  PROVE  \E id \in 1 .. MaxCalls, at \in 0 .. now : Ledger!Record(id, at)
<1>1. PICK t \in Thread : /\ pc[t] = "save_sigrate"
                          /\ log' = log \cup {EntryAt(t, frame[t].stamp)}
  BY RecordedBy
<1> DEFINE at == frame[t].stamp
           id == call[t].id
<1>0. at \in Nat /\ now \in Nat /\ calls \in Nat /\ MaxCalls \in Nat
  BY ConstantsAssumption DEF SessionInv, TypeInv, TypeOK
<1>2. id \in 1 .. MaxCalls
  BY <1>0, <1>1 DEF NumbersInv, NumberOK
<1>3. at \in 0 .. now /\ at <= now
  BY <1>0, <1>1 DEF LedgerInv, KeptOK, SaveLabels
<1>4. \A e \in log : e.at <= at /\ e.id # id
  BY <1>1 DEF LedgerInv, KeptOK, SaveLabels, NumbersInv, NumberOK
<1>5. frame[t].policy = PolicyInForce
  <2>1. Signing(t) /\ pc[t] \in LoadedLabels
    BY <1>1 DEF Signing, LoadedLabels, SigrateLabels
  <2> QED
    BY <2>1, NobodySaves DEF SessionInv, LoadedInv, Undisturbed
<1>6. Max(t) = PolicyInForce.max_signatures_per_hour
  BY <1>5 DEF Max
<1>7. Max(t) # None
  BY <1>1 DEF SessionInv, TypeInv, PlaceOK, SigrateLabels
<1>8. Ledger!Cardinality({e \in log : e.at + Window >= at}) < Max(t)
  BY <1>1, RoomLeft, SameCount DEF HourOf, Young
<1>9. log' = log \cup {[id |-> id, at |-> at, max |-> Max(t)]}
  BY <1>1 DEF EntryAt
<1>10. Ledger!Record(id, at)
  BY <1>3, <1>4, <1>6, <1>7, <1>8, <1>9 DEF Ledger!Record
<1> HIDE DEF at, id
<1> QED
  BY <1>2, <1>3, <1>10

\* Every step of the calls is a step of the ledger, or one it does not see.
LEMMA LedgerSteps ==
  ASSUME Undisturbed
  PROVE  SessionInv /\ LedgerInv /\ NumbersInv /\ SaversInv /\ [Next]_vars
           => [Ledger!Next]_(Ledger!ledgerVars)
<1> SUFFICES ASSUME SessionInv, LedgerInv, NumbersInv, SaversInv, [Next]_vars
             PROVE  [Ledger!Next]_(Ledger!ledgerVars)
  OBVIOUS
<1>0. /\ pc \in [Thread -> Labels] /\ call \in [Thread -> CallType]
      /\ TypeInv /\ MutexInv /\ OneSession /\ crashes \in Nat /\ MaxCrashes \in Nat
  BY ConstantsAssumption DEF SessionInv, TypeInv, TypeOK, CallType, Undisturbed
<1>s. ASSUME UNCHANGED <<now, PolicyInForce>> PROVE [Ledger!Next]_(Ledger!ledgerVars)
  <2>1. CASE UNCHANGED log
    BY <1>s, <2>1 DEF Ledger!ledgerVars
  <2>2. CASE log' # log
    BY <1>s, <2>2, Recorded DEF Ledger!Next
  <2> QED
    BY <2>1, <2>2
<1>1. ASSUME NEW t \in Thread, Begin(t) PROVE [Ledger!Next]_(Ledger!ledgerVars)
  <2>1. UNCHANGED <<now, policyObj>> /\ pc[t] = "idle"
    BY <1>1 DEF Begin, TokenUnchanged
  <2>2. /\ pc'[t] = "lock"
        /\ \A u \in Thread \ {t} : pc'[u] = pc[u] /\ frame'[u] = frame[u] /\ call'[u] = call[u]
    BY <1>0, <1>1 DEF Begin, Goto, SessionInv, TypeInv, TypeOK
  <2>3. \A u \in Thread : /\ Saving(u)' <=> Saving(u)
                          /\ Saving(u) => call'[u] = call[u]
    BY <2>1, <2>2 DEF Saving
  <2>4. UNCHANGED PolicyInForce
    BY <1>0, <2>1, <2>3, ForcedKept
  <2> QED
    BY <1>s, <2>1, <2>4
<1>2. ASSUME NEW t \in Thread, Step(t) PROVE [Ledger!Next]_(Ledger!ledgerVars)
  <2>1. UNCHANGED now
    BY <1>0, <1>2, StepOthers
  <2>2. CASE UNCHANGED PolicyInForce
    BY <1>s, <2>1, <2>2
  <2>3. CASE PolicyInForce' \in Policies /\ UNCHANGED <<now, log>>
    BY <2>3 DEF Ledger!Next, Ledger!Replace
  <2> QED
    BY <1>2, <2>2, <2>3, StepForces
<1>3. ASSUME NEW s \in Signer, Crash(s) PROVE FALSE
  BY <1>0, <1>3 DEF Crash, Undisturbed
<1>4. CASE UNCHANGED <<policyObj, pc, frame, call, log>> /\ now' \in {now, now + 1}
  <2>1. \A u \in Thread : Saving(u)' <=> Saving(u)
    BY <1>4 DEF Saving
  <2>2. UNCHANGED PolicyInForce
    BY <1>0, <1>4, <2>1, ForcedKept
  <2>3. CASE UNCHANGED now
    BY <1>s, <2>2, <2>3
  <2>4. CASE now' = now + 1
    BY <1>4, <2>2, <2>4 DEF Ledger!Next, Ledger!Tick
  <2> QED
    BY <1>4, <2>3, <2>4
<1>5. ASSUME ClockStepsBack PROVE FALSE
  BY <1>5 DEF ClockStepsBack, Undisturbed
<1> QED
  BY <1>1, <1>2, <1>3, <1>4, <1>5 DEF Next, Tick, Finished, vars

\* The label starts as a ledger does.
LEMMA LedgerStarts == Init => Ledger!Init
<1> SUFFICES ASSUME Init PROVE Ledger!Init
  OBVIOUS
<1>1. PICK h \in Handle, p \in InitPolicies :
        policyObj = [g \in Handle |-> IF g = h THEN p ELSE Absent]
  BY DEF Init
<1>2. \A t \in Thread : ~Saving(t)
  BY DEF Init, Saving
<1>3. PolicyInForce = StoredPolicy
  BY <1>2, ForcedByToken
<1>4. StoredPolicy = IF p = Absent THEN Permissive ELSE p
  <2>1. CASE p = Absent
    BY <1>1, <2>1 DEF Live, StoredPolicy
  <2>2. CASE p # Absent
    <3>1. Live(policyObj) = {h} /\ policyObj[h] = p
      BY <1>1, <2>2 DEF Live
    <3> QED
      BY <2>2, <3>1 DEF StoredPolicy
  <2> QED
    BY <2>1, <2>2
<1> QED
  BY <1>3, <1>4 DEF Init, Ledger!Init

\* One session implements the ledger: for any number of clones, calls and
\* policies a label is a policy replaced in one step and a record to which an
\* entry is added only within the ceiling in force.
THEOREM LedgerImplemented == ASSUME Undisturbed PROVE Spec => ImplementsLedger
<1>1. Spec => []SessionInv
  BY InSessionInv DEF Undisturbed
<1> QED
  BY <1>1, LedgerStarts, LedgerSteps, LedgerKept, Numbers, Savers, PTL
  DEF Spec, ImplementsLedger, Ledger!Spec

=============================================================================
