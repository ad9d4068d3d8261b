------------------------ MODULE SignerCounterProofs ------------------------
(***************************************************************************)
(* What the counter object of SignerPolicy may hold, for every value of    *)
(* the constants: the theorem that a call is refused for its rate only on  *)
(* the strength of recorded calls, and the theorem that the counter never  *)
(* exceeds the ceiling of the call that wrote it.                          *)
(***************************************************************************)
EXTENDS SignerPolicyProofs, FiniteSetTheorems

\* Where the locals of a call hold a counter that a later step uses.
SaveLabels    == {"find_old_sigrate", "save_sigrate"}
CounterLabels == SaveLabels \cup {"check_sigrate"}

\* The counter has the entry e of the call that wrote it, and no more entries
\* than the ceiling of that call.
Bounded(counter, e) == e \in counter /\ Cardinality(counter) <= e.max

\* A counter that was saved holds saved entries only.
SavedOK(object) == object.timestamps \subseteq log

\* A counter that was loaded holds saved entries; one that is to be saved has
\* the entry of its call besides, and is within the ceiling of its call.
CounterOK(t) ==
    /\ pc[t] = "check_sigrate" => frame[t].counter \subseteq log
    /\ pc[t] \in SaveLabels =>
         /\ frame[t].counter \subseteq log \cup {EntryAt(t, frame[t].stamp)}
         /\ Bounded(frame[t].counter, EntryAt(t, frame[t].stamp))

CounterInv == /\ IsFiniteSet(log)
              /\ \A h \in Live(sigrateObj) : SavedOK(sigrateObj[h])
              /\ \A t \in Thread : CounterOK(t)

-----------------------------------------------------------------------------
(* What a step of one thread has to show                                   *)

\* A step of one thread only has to show its own part; the histories grow.
LEMMA OwnCounter ==
  ASSUME CounterInv, NEW t \in Thread, CounterOK(t)',
         \A u \in Thread \ {t} : /\ pc'[u] = pc[u] /\ frame'[u] = frame[u]
                                 /\ call'[u] = call[u],
         log \subseteq log', IsFiniteSet(log'),
         \A h \in Live(sigrateObj)' : SavedOK(sigrateObj[h])'
  PROVE  CounterInv'
<1>1. ASSUME NEW u \in Thread PROVE CounterOK(u)'
  <2>1. CASE u = t
    BY <2>1
  <2>2. CASE u # t
    <3>1. EntryAt(u, frame[u].stamp)' = EntryAt(u, frame[u].stamp)
      BY <2>2 DEF EntryAt, Max
    <3> QED
      BY <2>2, <3>1 DEF CounterInv, CounterOK
  <2> QED
    BY <2>1, <2>2
<1> QED
  BY <1>1 DEF CounterInv

\* A step that leaves the counter object alone and goes where no counter is held.
LEMMA ElsewhereCounter ==
  ASSUME CounterInv, NEW t \in Thread, pc'[t] \notin CounterLabels,
         \A u \in Thread \ {t} : /\ pc'[u] = pc[u] /\ frame'[u] = frame[u]
                                 /\ call'[u] = call[u],
         UNCHANGED <<sigrateObj, log>>
  PROVE  CounterInv'
<1>1. CounterOK(t)'
  BY DEF CounterOK, CounterLabels, SaveLabels
<1>2. \A h \in Live(sigrateObj)' : SavedOK(sigrateObj[h])'
  BY DEF CounterInv, SavedOK, Live
<1> QED
  BY <1>1, <1>2, OwnCounter DEF CounterInv

\* A call that returns holds no counter any more.
LEMMA ReturnCounter ==
  ASSUME TypeInv, CounterInv, NEW t \in Thread, NEW how, Return(t, how),
         UNCHANGED <<call, sigrateObj, log>>
  PROVE  CounterInv'
<1>1. /\ pc'[t] = "idle"
      /\ \A u \in Thread \ {t} : pc'[u] = pc[u] /\ frame'[u] = frame[u]
  BY DEF Return, TypeInv, TypeOK
<1> QED
  BY <1>1, ElsewhereCounter DEF CounterLabels, SaveLabels

\* A step with a new frame, that leaves the counter object alone.
LEMMA MoveCounter ==
  ASSUME TypeInv, CounterInv, NEW t \in Thread, NEW label, NEW f,
         pc' = [pc EXCEPT ![t] = label], frame' = [frame EXCEPT ![t] = f],
         UNCHANGED <<call, sigrateObj, log>>,
         label = "check_sigrate" => f.counter \subseteq log,
         label \in SaveLabels =>
           LET e == [id |-> call[t].id, at |-> f.stamp,
                     max |-> f.policy.max_signatures_per_hour]
           IN  f.counter \subseteq log \cup {e} /\ Bounded(f.counter, e)
  PROVE  CounterInv'
<1>1. /\ pc'[t] = label /\ frame'[t] = f
      /\ \A u \in Thread \ {t} : pc'[u] = pc[u] /\ frame'[u] = frame[u]
  BY DEF TypeInv, TypeOK
<1>2. CounterOK(t)'
  BY <1>1 DEF CounterOK, EntryAt, Max
<1>3. \A h \in Live(sigrateObj)' : SavedOK(sigrateObj[h])'
  BY DEF CounterInv, SavedOK, Live
<1> QED
  BY <1>1, <1>2, <1>3, OwnCounter DEF CounterInv

\* Below its ceiling, a call may add one entry.
LEMMA RecordBounded ==
  ASSUME NEW kept, IsFiniteSet(kept), NEW e, e.max \in Nat, Cardinality(kept) < e.max
  PROVE  Bounded(kept \cup {e}, e)
<1>1. Cardinality(kept) \in Nat
  BY FS_CardinalityType
<1>2. Cardinality(kept \cup {e}) =
        IF e \in kept THEN Cardinality(kept) ELSE Cardinality(kept) + 1
  BY FS_AddElement
<1>3. IsFiniteSet(kept \cup {e})
  BY FS_AddElement
<1>4. Cardinality(kept \cup {e}) \in Nat
  BY <1>3, FS_CardinalityType
<1>5. Cardinality(kept \cup {e}) <= e.max
  BY <1>1, <1>2, <1>4
<1> QED
  BY <1>5 DEF Bounded

-----------------------------------------------------------------------------
(* The steps                                                               *)

\* The steps of a thread keep the counters.
LEMMA StepCounter ==
  ASSUME TypeInv, CounterInv, NEW t \in Thread, Step(t)
  PROVE  CounterInv'
<1> DEFINE f == frame[t]
<1>0. /\ pc \in [Thread -> Labels] /\ frame \in [Thread -> FrameType] /\ f \in FrameType
      /\ call[t] \in CallType /\ log \subseteq Entry /\ now \in Nat
  BY DEF TypeInv, TypeOK, FrameType, CallType
<1>u. OthersUnchanged => UNCHANGED <<call, sigrateObj, log>>
  BY DEF OthersUnchanged, EnvUnchanged, TokenUnchanged
<1>r. ASSUME NEW how, Return(t, how), UNCHANGED <<call, sigrateObj, log>>
      PROVE  CounterInv'
  BY <1>r, ReturnCounter
<1>l. ASSUME NEW function, Fail(t, function), UNCHANGED <<call, sigrateObj, log>>
      PROVE  CounterInv'
  BY <1>r, <1>l DEF Fail
\* A step to a place where no counter is held.
<1>e. ASSUME NEW label, label \notin CounterLabels, pc' = [pc EXCEPT ![t] = label],
             \A u \in Thread \ {t} : frame'[u] = frame[u],
             UNCHANGED <<call, sigrateObj, log>>
      PROVE  CounterInv'
  <2>1. pc'[t] = label /\ \A u \in Thread \ {t} : pc'[u] = pc[u]
    BY <1>0, <1>e
  <2> QED
    BY <1>e, <2>1, ElsewhereCounter
<1>1. CASE Acquire(t)
  <2>1. FirstLabel(call[t].op) \notin CounterLabels
    BY DEF FirstLabel, CounterLabels, SaveLabels
  <2> QED
    BY <1>1, <1>e, <1>u, <2>1 DEF Acquire
<1>2. CASE AcquirePoisoned(t)
  BY <1>2, <1>r, <1>u DEF AcquirePoisoned
<1>3. CASE HealthCheck(t)
  BY <1>3, <1>r, <1>l, <1>u DEF HealthCheck
<1>4. CASE FindPolicy(t)
  <2>1. AfterLoad(call[t].op) \notin CounterLabels /\ "read_policy" \notin CounterLabels
    BY <1>4, AfterLoadPlace DEF FindPolicy, TypeInv, PlaceOK, CounterLabels, SaveLabels
  <2>2. ASSUME NEW label, label \notin CounterLabels, Goto(t, label), OthersUnchanged,
               NEW g, frame' = [frame EXCEPT ![t] = g]
        PROVE  CounterInv'
    BY <1>0, <1>e, <1>u, <2>2 DEF Goto
  <2> QED
    BY <1>4, <1>l, <1>u, <2>1, <2>2 DEF FindPolicy
<1>5. CASE ReadPolicy(t)
  <2>1. AfterLoad(call[t].op) \notin CounterLabels
    BY <1>5, AfterLoadPlace DEF ReadPolicy, TypeInv, PlaceOK, CounterLabels, SaveLabels
  <2>2. \A u \in Thread \ {t} : frame'[u] = frame[u]
    BY <1>0, <1>5 DEF ReadPolicy, Return, Fail
  <2> QED
    BY <1>5, <1>e, <1>r, <1>l, <1>u, <2>1, <2>2 DEF ReadPolicy, Goto
<1>6. CASE ReturnPolicy(t)
  BY <1>6, <1>r, <1>u DEF ReturnPolicy
<1>7. CASE CheckPsbt(t)
  <2>1. UNCHANGED <<call, sigrateObj, log>> /\ "sign" \notin CounterLabels
    BY <1>7 DEF CheckPsbt, EnvUnchanged, TokenUnchanged, CounterLabels, SaveLabels
  <2> QED
    BY <1>7, <1>e, <1>r, <2>1 DEF CheckPsbt, Goto
<1>8. CASE SignInput(t)
  <2>1. /\ UNCHANGED <<call, sigrateObj, log, pc>>
        /\ pc'[t] \notin CounterLabels
        /\ \A u \in Thread \ {t} : frame'[u] = frame[u]
    BY <1>0, <1>8 DEF SignInput, EnvUnchanged, TokenUnchanged, CounterLabels, SaveLabels
  <2> QED
    BY <2>1, ElsewhereCounter
<1>9. CASE SignFails(t)
  BY <1>9, <1>l, <1>u DEF SignFails
<1>10. CASE SignDone(t)
  <2>1. "find_sigrate" \notin CounterLabels
    BY DEF CounterLabels, SaveLabels
  <2> QED
    BY <1>10, <1>e, <1>r, <1>u, <2>1 DEF SignDone, Goto
<1>11. CASE FindSigrate(t)
  <2>1. ASSUME frame' = [frame EXCEPT ![t] = [f EXCEPT !.counter = {}]],
               Goto(t, "check_sigrate"), OthersUnchanged
        PROVE  CounterInv'
    <3>1. [f EXCEPT !.counter = {}].counter = {}
      BY <1>0 DEF FrameType
    <3> QED
      BY <1>u, <2>1, <3>1, MoveCounter DEF Goto, SaveLabels
  <2>2. ASSUME NEW h, Goto(t, "read_sigrate"), OthersUnchanged,
               frame' = [frame EXCEPT ![t] = [f EXCEPT !.handle = h]]
        PROVE  CounterInv'
    BY <1>0, <1>e, <1>u, <2>2 DEF Goto, CounterLabels, SaveLabels
  <2> QED
    BY <1>11, <1>l, <1>u, <2>1, <2>2 DEF FindSigrate
<1>12. CASE ReadSigrate(t)
  <2> DEFINE g == [f EXCEPT !.counter = sigrateObj[f.handle].timestamps, !.handle = None]
  <2>1. ASSUME sigrateObj[f.handle] # Absent, frame' = [frame EXCEPT ![t] = g],
               Goto(t, "check_sigrate"), OthersUnchanged
        PROVE  CounterInv'
    <3>1. f.handle \in Live(sigrateObj)
      BY <1>12, <2>1 DEF ReadSigrate, TypeInv, PlaceOK, Live
    <3>2. g.counter \subseteq log
      BY <1>0, <3>1 DEF CounterInv, SavedOK, FrameType
    <3> QED
      BY <1>u, <2>1, <3>2, MoveCounter DEF Goto, SaveLabels
  <2> QED
    BY <1>12, <1>r, <1>l, <1>u, <2>1 DEF ReadSigrate
<1>13. CASE CheckSigrate(t)
  <2> DEFINE kept == Prune(f.counter, now)
             g    == [f EXCEPT !.stamp = now, !.counter = kept \cup {EntryAt(t, now)}]
  <2>1. ASSUME ~AtCeiling(t, kept), frame' = [frame EXCEPT ![t] = g],
               Goto(t, "find_old_sigrate"), OthersUnchanged
        PROVE  CounterInv'
    <3>1. Max(t) \in Nat
      BY <1>0, <1>13, CeilingType
      DEF TypeInv, PlaceOK, Max, FrameType, CheckSigrate, SigrateLabels
    <3>2. f.counter \subseteq log
      BY <1>13 DEF CounterInv, CounterOK, CheckSigrate
    <3>3. kept \subseteq log
      BY <3>2 DEF Prune
    <3>4. IsFiniteSet(kept)
      BY <3>3, FS_Subset DEF CounterInv
    <3>5. Cardinality(kept) \in Nat
      BY <3>4, FS_CardinalityType
    <3>6. Cardinality(kept) < Max(t)
      BY <2>1, <3>1, <3>5 DEF AtCeiling
    <3>7. EntryAt(t, now).max = Max(t)
      BY DEF EntryAt
    <3>8. Bounded(kept \cup {EntryAt(t, now)}, EntryAt(t, now))
      BY <3>1, <3>4, <3>6, <3>7, RecordBounded
    <3>9. /\ g.counter = kept \cup {EntryAt(t, now)}
          /\ g.stamp = now /\ g.policy = f.policy
      BY <1>0 DEF FrameType
    <3>10. [id |-> call[t].id, at |-> g.stamp,
            max |-> g.policy.max_signatures_per_hour] = EntryAt(t, now)
      BY <3>9 DEF EntryAt, Max
    <3> HIDE DEF g
    <3> QED
      BY <1>u, <2>1, <3>3, <3>8, <3>9, <3>10, MoveCounter DEF Goto, SaveLabels
  <2> QED
    BY <1>13, <1>r, <1>u, <2>1 DEF CheckSigrate
<1>14. CASE FindOldSigrate(t)
  <2> DEFINE g == [f EXCEPT !.todo = OldObjects(sigrateObj)]
  <2>1. ASSUME frame' = [frame EXCEPT ![t] = g], Goto(t, "save_sigrate"), OthersUnchanged
        PROVE  CounterInv'
    <3>1. g.counter = f.counter /\ g.stamp = f.stamp /\ g.policy = f.policy
      BY <1>0 DEF FrameType
    <3>2. /\ f.counter \subseteq log \cup {EntryAt(t, f.stamp)}
          /\ Bounded(f.counter, EntryAt(t, f.stamp))
      BY <1>14 DEF FindOldSigrate, CounterInv, CounterOK, SaveLabels
    <3> HIDE DEF g
    <3> QED
      BY <1>u, <2>1, <3>1, <3>2, MoveCounter DEF Goto, SaveLabels, EntryAt, Max
  <2> QED
    BY <1>14, <1>l, <1>u, <2>1 DEF FindOldSigrate
<1>15. CASE DestroyOldSigrate(t)
  <2>1. UNCHANGED <<call, log>> /\ pc[t] = "save_sigrate"
    BY <1>15 DEF DestroyOldSigrate, EnvUnchanged
  <2>2. ASSUME NEW h \in f.todo, sigrateObj' = [sigrateObj EXCEPT ![h] = Absent],
               frame' = [frame EXCEPT ![t].todo = @ \ {h}], UNCHANGED pc
        PROVE  CounterInv'
    <3>1. /\ frame'[t].counter = f.counter /\ frame'[t].stamp = f.stamp
          /\ frame'[t].policy = f.policy
          /\ \A u \in Thread \ {t} : frame'[u] = frame[u]
      BY <1>0, <2>2 DEF FrameType
    <3>2. CounterOK(t)
      BY DEF CounterInv
    <3>3. CounterOK(t)'
      BY <2>1, <2>2, <3>1, <3>2 DEF CounterOK, SaveLabels, EntryAt, Max
    <3>4. \A k \in Live(sigrateObj)' : k \in Live(sigrateObj) /\ sigrateObj'[k] = sigrateObj[k]
      BY <2>2 DEF Live, TypeInv, TypeOK
    <3>5. \A k \in Live(sigrateObj)' : SavedOK(sigrateObj[k])'
      BY <2>1, <3>4 DEF CounterInv, SavedOK
    <3> QED
      BY <2>1, <2>2, <3>1, <3>3, <3>5, OwnCounter DEF CounterInv
  <2> QED
    BY <1>15, <1>r, <2>1, <2>2 DEF DestroyOldSigrate
<1>16. CASE CreateSigrate(t)
  <2>1. UNCHANGED call /\ pc[t] = "save_sigrate"
    BY <1>16 DEF CreateSigrate, EnvUnchanged
  <2>2. ASSUME NEW h \in FreeHandles,
               sigrateObj' = [sigrateObj EXCEPT ![h] = [timestamps |-> f.counter]],
               log' = log \cup {EntryAt(t, f.stamp)}, Return(t, "ok")
        PROVE  CounterInv'
    <3>1. f.counter \subseteq log'
      BY <2>1, <2>2 DEF CounterInv, CounterOK, SaveLabels
    <3>2. ASSUME NEW k \in Live(sigrateObj)' PROVE SavedOK(sigrateObj[k])'
      <4>1. CASE k = h
        BY <2>2, <3>1, <4>1 DEF SavedOK, FreeHandles, TypeInv, TypeOK
      <4>2. CASE k # h
        BY <2>2, <4>2 DEF CounterInv, SavedOK, Live, TypeInv, TypeOK
      <4> QED
        BY <4>1, <4>2
    <3>3. IsFiniteSet(log')
      BY <2>2, FS_AddElement DEF CounterInv
    <3>4. /\ pc'[t] = "idle"
          /\ \A u \in Thread \ {t} : pc'[u] = pc[u] /\ frame'[u] = frame[u]
      BY <1>0, <2>2 DEF Return
    <3>5. CounterOK(t)'
      BY <3>4 DEF CounterOK, SaveLabels
    <3> QED
      BY <2>1, <2>2, <3>2, <3>3, <3>4, <3>5, OwnCounter
  <2>3. ASSUME CreateFails(t), UNCHANGED <<sigrateObj, log>> PROVE CounterInv'
    BY <1>l, <2>1, <2>3 DEF CreateFails
  <2> QED
    BY <1>16, <2>2, <2>3 DEF CreateSigrate
<1>17. CASE FindOldPolicy(t)
  <2>1. \A u \in Thread \ {t} : frame'[u] = frame[u]
    BY <1>0, <1>17 DEF FindOldPolicy, Return, Fail
  <2>2. "save_policy" \notin CounterLabels
    BY DEF CounterLabels, SaveLabels
  <2> QED
    BY <1>17, <1>e, <1>l, <1>u, <2>1, <2>2 DEF FindOldPolicy, Goto
<1>18. CASE DestroyOldPolicy(t)
  <2>1. UNCHANGED <<call, sigrateObj, log>> /\ pc[t] \notin CounterLabels
    BY <1>18 DEF DestroyOldPolicy, EnvUnchanged, CounterLabels, SaveLabels
  <2>2. \A u \in Thread \ {t} : frame'[u] = frame[u]
    BY <1>0, <1>18 DEF DestroyOldPolicy, Return
  <2>3. CASE UNCHANGED pc
    BY <2>1, <2>2, <2>3, ElsewhereCounter
  <2> QED
    BY <1>18, <1>r, <2>1, <2>3 DEF DestroyOldPolicy
<1>19. CASE CreatePolicy(t)
  <2>1. UNCHANGED <<call, sigrateObj, log>>
    BY <1>19 DEF CreatePolicy, EnvUnchanged
  <2> QED
    BY <1>19, <1>r, <1>l, <2>1 DEF CreatePolicy, CreateFails
<1> QED
  BY <1>1, <1>2, <1>3, <1>4, <1>5, <1>6, <1>7, <1>8, <1>9, <1>10, <1>11, <1>12, <1>13,
     <1>14, <1>15, <1>16, <1>17, <1>18, <1>19 DEF Step

\* The counters are kept by every step: a new call holds none, a crash drops
\* the ones in the locals, and the clock has no part in it.
LEMMA NextCounter == TypeInv /\ CounterInv /\ [Next]_vars => CounterInv'
<1> SUFFICES ASSUME TypeInv, CounterInv, [Next]_vars PROVE CounterInv'
  OBVIOUS
<1>0. pc \in [Thread -> Labels] /\ frame \in [Thread -> FrameType]
      /\ call \in [Thread -> CallType]
  BY DEF TypeInv, TypeOK, FrameType, CallType
<1>1. ASSUME NEW t \in Thread, Begin(t) PROVE CounterInv'
  <2>1. UNCHANGED <<sigrateObj, log>>
    BY <1>1 DEF Begin, TokenUnchanged
  <2>2. /\ pc'[t] = "lock"
        /\ \A u \in Thread \ {t} : pc'[u] = pc[u] /\ frame'[u] = frame[u] /\ call'[u] = call[u]
    BY <1>0, <1>1 DEF Begin, Goto
  <2> QED
    BY <2>1, <2>2, ElsewhereCounter DEF CounterLabels, SaveLabels
<1>2. ASSUME NEW t \in Thread, Step(t) PROVE CounterInv'
  BY <1>2, StepCounter
<1>3. ASSUME NEW s \in Signer, Crash(s) PROVE CounterInv'
  <2>1. UNCHANGED <<call, sigrateObj, log>>
    BY <1>3 DEF Crash, TokenUnchanged
  <2>2. ASSUME NEW t \in Thread PROVE CounterOK(t)'
    <3>1. \/ pc'[t] = "idle"
          \/ pc'[t] = pc[t] /\ frame'[t] = frame[t]
      BY <1>3 DEF Crash
    <3> QED
      BY <2>1, <3>1 DEF CounterInv, CounterOK, SaveLabels, EntryAt, Max
  <2> QED
    BY <2>1, <2>2 DEF CounterInv, SavedOK, Live
<1>4. CASE UNCHANGED <<pc, call, frame, sigrateObj, log>>
  BY <1>4 DEF CounterInv, CounterOK, SaveLabels, EntryAt, Max, SavedOK, Live
<1> QED
  BY <1>1, <1>2, <1>3, <1>4 DEF Next, Tick, ClockStepsBack, Finished, vars

\* The counters of every reachable state.
LEMMA Counters == Spec => []CounterInv
<1>1. Init => CounterInv
  BY FS_EmptySet DEF Init, CounterInv, CounterOK, SaveLabels, Live
<1> QED
  BY <1>1, NextCounter, Typed, PTL DEF Spec

-----------------------------------------------------------------------------
(* The theorems                                                            *)

\* A step of one thread moves no other.
LEMMA StepMovesOne ==
  ASSUME TypeInv, NEW t \in Thread, NEW u \in Thread, u # t, Step(u)
  PROVE  pc'[t] = pc[t]
<1>0. pc \in [Thread -> Labels]
  BY DEF TypeInv, TypeOK
<1>1. ASSUME NEW label, Goto(u, label) PROVE pc'[t] = pc[t]
  BY <1>0, <1>1 DEF Goto
<1>2. ASSUME NEW how, Return(u, how) PROVE pc'[t] = pc[t]
  BY <1>0, <1>2 DEF Return
<1>3. ASSUME NEW function, Fail(u, function) PROVE pc'[t] = pc[t]
  BY <1>2, <1>3 DEF Fail
<1>4. ASSUME Acquire(u) PROVE pc'[t] = pc[t]
  BY <1>0, <1>4 DEF Acquire
<1>5. ASSUME \/ AcquirePoisoned(u) \/ HealthCheck(u) \/ FindPolicy(u) \/ ReadPolicy(u)
             \/ ReturnPolicy(u)
      PROVE  pc'[t] = pc[t]
  BY <1>1, <1>2, <1>3, <1>5
  DEF AcquirePoisoned, HealthCheck, FindPolicy, ReadPolicy, ReturnPolicy
<1>6. ASSUME CheckPsbt(u) \/ SignInput(u) \/ SignFails(u) \/ SignDone(u) PROVE pc'[t] = pc[t]
  BY <1>1, <1>2, <1>3, <1>6 DEF CheckPsbt, SignInput, SignFails, SignDone
<1>7. ASSUME FindSigrate(u) \/ ReadSigrate(u) \/ CheckSigrate(u) PROVE pc'[t] = pc[t]
  BY <1>1, <1>2, <1>3, <1>7 DEF FindSigrate, ReadSigrate, CheckSigrate
<1>8. ASSUME \/ FindOldSigrate(u) \/ DestroyOldSigrate(u) \/ CreateSigrate(u)
             \/ FindOldPolicy(u) \/ DestroyOldPolicy(u) \/ CreatePolicy(u)
      PROVE  pc'[t] = pc[t]
  BY <1>1, <1>2, <1>3, <1>8
  DEF FindOldSigrate, DestroyOldSigrate, CreateSigrate,
      FindOldPolicy, DestroyOldPolicy, CreatePolicy, CreateFails
<1> QED
  BY <1>4, <1>5, <1>6, <1>7, <1>8 DEF Step

\* A thread that is at the check makes the check.
LEMMA StepAtCheck ==
  ASSUME NEW t \in Thread, pc[t] = "check_sigrate", Step(t)
  PROVE  CheckSigrate(t)
  BY DEF Step, Acquire, AcquirePoisoned, HealthCheck, FindPolicy, ReadPolicy, ReturnPolicy,
         CheckPsbt, SignInput, SignFails, SignDone, FindSigrate, ReadSigrate,
         FindOldSigrate, DestroyOldSigrate, CreateSigrate, FindOldPolicy,
         DestroyOldPolicy, CreatePolicy

\* No step but the create of save_sigrate puts anything in the counter object.
LEMMA OnlyCreateWrites ==
  ASSUME TypeInv, [Next]_vars, NEW h \in Handle, sigrateObj'[h] \notin {sigrateObj[h], Absent}
  PROVE  \E t \in Thread : CreateSigrate(t) /\ UNCHANGED call
<1>0. sigrateObj \in [Handle -> SigRateCounter \cup {Absent}]
  BY DEF TypeInv, TypeOK
<1>1. ASSUME NEW t \in Thread, Step(t), ~CreateSigrate(t) PROVE FALSE
  <2>1. CASE DestroyOldSigrate(t)
    BY <1>0, <2>1 DEF DestroyOldSigrate
  <2>2. CASE UNCHANGED sigrateObj
    BY <2>2
  <2>3. \/ DestroyOldSigrate(t)
        \/ UNCHANGED sigrateObj
    BY <1>1 DEF Step, Acquire, AcquirePoisoned, HealthCheck, FindPolicy, ReadPolicy,
         ReturnPolicy, CheckPsbt, SignInput, SignFails, SignDone, FindSigrate,
         ReadSigrate, CheckSigrate, FindOldSigrate, FindOldPolicy, DestroyOldPolicy,
         CreatePolicy, OthersUnchanged, TokenUnchanged
  <2> QED
    BY <2>1, <2>2, <2>3
<1>2. ASSUME NEW t \in Thread, Begin(t) PROVE FALSE
  BY <1>2 DEF Begin, TokenUnchanged
<1>3. ASSUME NEW s \in Signer, Crash(s) PROVE FALSE
  BY <1>3 DEF Crash, TokenUnchanged
<1>4. ~UNCHANGED sigrateObj
  OBVIOUS
<1>5. \E t \in Thread : CreateSigrate(t)
  BY <1>1, <1>2, <1>3, <1>4 DEF Next, Tick, ClockStepsBack, Finished, vars
<1> QED
  BY <1>5 DEF CreateSigrate, EnvUnchanged

\* A call that writes the counter object leaves no more entries in it than its
\* own ceiling, its own entry among them: with any number of sessions that save
\* over each other, whatever fails or crashes, and wherever the clock is set.
THEOREM CounterSafe == Spec => CounterBounded
<1>1. ASSUME TypeInv, CounterInv, [Next]_vars,
             NEW h \in Handle, sigrateObj'[h] \notin {sigrateObj[h], Absent}
      PROVE  \E t \in Thread :
                /\ pc[t] = "save_sigrate" /\ pc'[t] = "idle"
                /\ \E e \in sigrateObj'[h].timestamps : e.id = call[t].id
                /\ Cardinality(sigrateObj'[h].timestamps) <= Max(t)
  <2>1. PICK t \in Thread : CreateSigrate(t)
    BY <1>1, OnlyCreateWrites
  <2> DEFINE e == EntryAt(t, frame[t].stamp)
  <2>2. pc[t] = "save_sigrate" /\ ~UNCHANGED sigrateObj
    BY <1>1, <2>1 DEF CreateSigrate
  <2>3. PICK g \in FreeHandles :
          sigrateObj' = [sigrateObj EXCEPT ![g] = [timestamps |-> frame[t].counter]]
    BY <2>1, <2>2 DEF CreateSigrate
  <2>4. pc'[t] = "idle"
    BY <1>1, <2>1, <2>2 DEF CreateSigrate, Return, TypeInv, TypeOK
  <2>5. sigrateObj'[h].timestamps = frame[t].counter
    BY <1>1, <2>3 DEF TypeInv, TypeOK, FreeHandles
  <2>6. Bounded(frame[t].counter, e)
    BY <1>1, <2>2 DEF CounterInv, CounterOK, SaveLabels
  <2>7. e.id = call[t].id /\ e.max = Max(t)
    BY DEF EntryAt
  <2> QED
    BY <2>2, <2>4, <2>5, <2>6, <2>7 DEF Bounded
<1>2. TypeInv /\ CounterInv /\ [Next]_vars =>
        [\A h \in Handle : sigrateObj'[h] \notin {sigrateObj[h], Absent} =>
            \E t \in Thread :
               /\ pc[t] = "save_sigrate" /\ pc'[t] = "idle"
               /\ \E e \in sigrateObj'[h].timestamps : e.id = call[t].id
               /\ Cardinality(sigrateObj'[h].timestamps) <= Max(t)]_vars
  BY <1>1
<1> QED
  BY <1>2, Typed, Counters, PTL DEF Spec, CounterBounded

\* A call is refused for its rate only if its ceiling of recorded calls is not
\* before the start of the hour: a save that failed half way or was lost to
\* another session takes entries away and never adds one.
THEOREM RefusalJustified == Spec => NoFalseRefusal
<1>1. ASSUME TypeInv, CounterInv, [Next]_vars, NEW t \in Thread,
             pc[t] = "check_sigrate", pc'[t] = "idle", result'[t] = "RateViolation"
      PROVE  Cardinality({e \in log : e.at + Window >= now}) >= Max(t)
  <2> DEFINE kept    == Prune(frame[t].counter, now)
             counted == {e \in log : e.at + Window >= now}
  <2>0. pc \in [Thread -> Labels]
    BY <1>1 DEF TypeInv, TypeOK
  <2>1. Step(t)
    <3>1. ASSUME NEW u \in Thread, Begin(u) PROVE pc'[t] # "idle"
      BY <1>1, <2>0, <3>1 DEF Begin, Goto
    <3>2. ASSUME NEW u \in Thread, u # t, Step(u) PROVE pc'[t] # "idle"
      BY <1>1, <3>2, StepMovesOne
    <3>3. ASSUME NEW s \in Signer, Crash(s)
          PROVE  result'[t] = "crashed" \/ pc'[t] = pc[t]
      BY <3>3 DEF Crash
    <3>4. CASE UNCHANGED pc
      BY <1>1, <3>4
    <3> QED
      BY <1>1, <3>1, <3>2, <3>3, <3>4 DEF Next, vars, Tick, ClockStepsBack, Finished
  <2>2. AtCeiling(t, kept)
    <3>1. CheckSigrate(t)
      BY <1>1, <2>1, StepAtCheck
    <3>2. ~Goto(t, "find_old_sigrate")
      BY <1>1, <2>0 DEF Goto
    <3> QED
      BY <3>1, <3>2 DEF CheckSigrate
  <2>3. kept \subseteq counted
    BY <1>1 DEF Prune, CounterInv, CounterOK
  <2>4. IsFiniteSet(counted)
    BY <1>1, FS_Subset DEF CounterInv
  <2>5. Cardinality(kept) <= Cardinality(counted) /\ IsFiniteSet(kept)
    BY <2>3, <2>4, FS_Subset
  <2>6. Cardinality(kept) \in Nat /\ Cardinality(counted) \in Nat
    BY <2>4, <2>5, FS_CardinalityType
  <2>7. Max(t) \in Nat
    BY <1>1, CeilingType DEF TypeInv, TypeOK, PlaceOK, Max, SigrateLabels
  <2> QED
    BY <2>2, <2>5, <2>6, <2>7 DEF AtCeiling
<1>2. TypeInv /\ CounterInv /\ [Next]_vars =>
        [\A t \in Thread :
            pc[t] = "check_sigrate" /\ pc'[t] = "idle" /\ result'[t] = "RateViolation"
              => Cardinality({e \in log : e.at + Window >= now}) >= Max(t)]_vars
  BY <1>1
<1> QED
  BY <1>2, Typed, Counters, PTL DEF Spec, NoFalseRefusal

=============================================================================
