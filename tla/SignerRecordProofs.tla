------------------------- MODULE SignerRecordProofs -------------------------
(***************************************************************************)
(* What the records of SignerPolicy say of the signatures: the theorem     *)
(* that entries and signatures match, for every value of the constants.    *)
(***************************************************************************)
EXTENDS SignerPolicyProofs

\* Where a call has signed nothing yet.
EarlyLabels == Labels \ ({"idle", "sign"} \cup SigrateLabels)

HasSignature(id) == \E p \in produced : p.call = id
HasEntry(id)     == \E e \in log : e.id = id

\* A call that has signed has its signatures in a transaction; only a call
\* that has signed gets as far as the counter; and one that returned Ok and
\* needed an entry has it.
RecordOK(t) ==
    /\ pc[t] \in EarlyLabels => frame[t].signed = 0
    /\ pc[t] \in SigrateLabels => frame[t].signed > 0
    /\ (pc[t] \in {"sign"} \cup SigrateLabels /\ frame[t].signed > 0)
         => HasSignature(call[t].id)
    /\ (pc[t] = "idle" /\ result[t] = "ok" /\ frame[t].signed > 0 /\ Max(t) # None)
         => HasEntry(call[t].id)

RecordInv == /\ \A e \in log : HasSignature(e.id)
             /\ \A t \in Thread : RecordOK(t)
             /\ result = [t \in Thread |-> result[t]]

\* Nothing is ever taken out of the histories.
Grows == log \subseteq log' /\ produced \subseteq produced'

-----------------------------------------------------------------------------
(* What a step of one thread has to show                                   *)

\* A step of one thread only has to show its own part.
LEMMA OwnRecord ==
  ASSUME RecordInv, NEW t \in Thread, Grows, RecordOK(t)',
         \A u \in Thread \ {t} : /\ pc'[u] = pc[u] /\ frame'[u] = frame[u]
                                 /\ result'[u] = result[u] /\ call'[u] = call[u],
         \A e \in log' \ log : HasSignature(e.id)',
         result' = [u \in Thread |-> result'[u]]
  PROVE  RecordInv'
<1>1. ASSUME NEW u \in Thread PROVE RecordOK(u)'
  <2>1. CASE u = t
    BY <2>1
  <2>2. CASE u # t
    BY <2>2 DEF RecordInv, RecordOK, Grows, HasSignature, HasEntry, Max
  <2> QED
    BY <2>1, <2>2
<1>2. \A e \in log' : HasSignature(e.id)'
  BY DEF RecordInv, Grows, HasSignature
<1> QED
  BY <1>1, <1>2 DEF RecordInv

\* A call that returns: not with Ok, or with nothing to record, or recorded.
LEMMA ReturnRecord ==
  ASSUME TypeInv, RecordInv, NEW t \in Thread, NEW how, Return(t, how), UNCHANGED call, Grows,
         \A e \in log' \ log : HasSignature(e.id)',
         \/ how # "ok" \/ frame[t].signed = 0 \/ Max(t) = None
         \/ HasEntry(call[t].id)'
  PROVE  RecordInv'
<1>0. /\ pc \in [Thread -> Labels] /\ frame \in [Thread -> FrameType]
      /\ result = [u \in Thread |-> result[u]]
  BY DEF TypeInv, TypeOK, FrameType, RecordInv
<1>1. /\ pc'[t] = "idle" /\ result'[t] = how
      /\ frame'[t] = [EmptyFrame EXCEPT !.policy = frame[t].policy, !.signed = frame[t].signed]
      /\ \A u \in Thread \ {t} : /\ pc'[u] = pc[u] /\ frame'[u] = frame[u]
                                 /\ result'[u] = result[u]
      /\ result' = [u \in Thread |-> result'[u]]
  BY <1>0 DEF Return
<1>2. frame'[t].policy = frame[t].policy /\ frame'[t].signed = frame[t].signed
  BY <1>1 DEF EmptyFrame
<1>3. RecordOK(t)'
  BY <1>1, <1>2 DEF RecordOK, EarlyLabels, SigrateLabels, Max
<1> QED
  BY <1>1, <1>3, OwnRecord

\* A call that fails, wherever it stands.
LEMMA FailRecord ==
  ASSUME TypeInv, RecordInv, NEW t \in Thread, NEW function, Fail(t, function),
         UNCHANGED <<call, log, produced>>
  PROVE  RecordInv'
<1>1. Return(t, "Pkcs11") /\ Grows
  BY DEF Fail, Grows
<1> QED
  BY <1>1, ReturnRecord

\* A step inside a call that signs nothing, from before the inputs to anywhere
\* before their end, or from one place at the counter to another.
LEMMA MoveRecord ==
  ASSUME TypeInv, RecordInv, NEW t \in Thread, NEW label, pc' = [pc EXCEPT ![t] = label],
         UNCHANGED <<call, log, produced, result>>,
         \/ pc[t] \in EarlyLabels /\ label \in EarlyLabels \cup {"sign"}
         \/ pc[t] \in SigrateLabels /\ label \in SigrateLabels
         \/ pc[t] = "sign" /\ label \in SigrateLabels /\ frame[t].signed > 0,
         frame'[t].signed = frame[t].signed,
         \A u \in Thread \ {t} : frame'[u] = frame[u]
  PROVE  RecordInv'
<1>0. /\ pc \in [Thread -> Labels] /\ frame[t].signed \in Nat
      /\ result = [u \in Thread |-> result[u]]
  BY DEF TypeInv, TypeOK, RecordInv
<1>1. pc'[t] = label /\ \A u \in Thread \ {t} : pc'[u] = pc[u]
  BY <1>0
<1>2. RecordOK(t)'
  <2>1. RecordOK(t)
    BY DEF RecordInv
  <2>2. HasSignature(call[t].id)' <=> HasSignature(call[t].id)
    BY DEF HasSignature
  <2>3. CASE pc[t] \in EarlyLabels /\ label \in EarlyLabels \cup {"sign"}
    BY <1>0, <1>1, <2>1, <2>3 DEF RecordOK, EarlyLabels, SigrateLabels
  <2>4. CASE pc[t] \in {"sign"} \cup SigrateLabels /\ label \in SigrateLabels /\ frame[t].signed > 0
    BY <1>0, <1>1, <2>1, <2>2, <2>4 DEF RecordOK, EarlyLabels, SigrateLabels
  <2> QED
    BY <2>1, <2>3, <2>4 DEF RecordOK
<1>3. Grows
  BY DEF Grows
<1> QED
  BY <1>0, <1>1, <1>2, <1>3, OwnRecord

-----------------------------------------------------------------------------
(* The steps                                                               *)

\* The steps of a thread keep the records.
LEMMA StepRecord ==
  ASSUME TypeInv, RecordInv, NEW t \in Thread, Step(t)
  PROVE  RecordInv'
<1> DEFINE f == frame[t]
<1>0. /\ pc \in [Thread -> Labels] /\ frame \in [Thread -> FrameType] /\ f \in FrameType
      /\ call[t] \in CallType /\ f.signed \in Nat
  BY DEF TypeInv, TypeOK, FrameType, CallType
<1>u. OthersUnchanged => UNCHANGED <<call, log, produced>>
  BY DEF OthersUnchanged, EnvUnchanged, TokenUnchanged
<1>n. UNCHANGED <<log, produced>> => Grows /\ \A e \in log' \ log : HasSignature(e.id)'
  BY DEF Grows
<1>e. pc[t] \in EarlyLabels => f.signed = 0
  BY DEF RecordInv, RecordOK
\* A step that returns an error, or Ok without a signature.
<1>r. ASSUME NEW how, Return(t, how), UNCHANGED <<call, log, produced>>,
             how # "ok" \/ pc[t] \in EarlyLabels
      PROVE  RecordInv'
  BY <1>n, <1>e, <1>r, ReturnRecord
<1>l. ASSUME NEW function, Fail(t, function), UNCHANGED <<call, log, produced>>
      PROVE  RecordInv'
  BY <1>l, FailRecord
\* A step that moves on with a new frame.
<1>m. ASSUME NEW label, Goto(t, label), UNCHANGED <<call, log, produced>>,
             NEW g \in FrameType, frame' = [frame EXCEPT ![t] = g], g.signed = f.signed,
             \/ pc[t] \in EarlyLabels /\ label \in EarlyLabels \cup {"sign"}
             \/ pc[t] \in SigrateLabels /\ label \in SigrateLabels
             \/ pc[t] = "sign" /\ label \in SigrateLabels /\ f.signed > 0
      PROVE  RecordInv'
  <2>1. frame'[t].signed = f.signed /\ \A u \in Thread \ {t} : frame'[u] = frame[u]
    BY <1>0, <1>m
  <2> QED
    BY <1>m, <2>1, MoveRecord DEF Goto
\* A step that stays where it is, with a new frame.
<1>s. ASSUME UNCHANGED <<pc, lock, result, call, log, produced>>,
             NEW g \in FrameType, frame' = [frame EXCEPT ![t] = g], g.signed = f.signed,
             pc[t] \in EarlyLabels \cup SigrateLabels
      PROVE  RecordInv'
  <2>1. pc' = [pc EXCEPT ![t] = pc[t]]
    BY <1>0, <1>s
  <2>2. Goto(t, pc[t])
    BY <1>s, <2>1 DEF Goto
  <2> QED
    BY <1>m, <1>s, <2>2
<1>a. ASSUME call[t].op \in SignOps \cup {"policy"}
      PROVE  AfterLoad(call[t].op) \in EarlyLabels \cup {"sign"}
  BY <1>a, AfterLoadPlace DEF EarlyLabels, Labels, SigrateLabels
<1>1. CASE Acquire(t)
  <2> DEFINE label == FirstLabel(call[t].op)
  <2>1. /\ pc[t] \in EarlyLabels /\ label \in EarlyLabels
        /\ pc' = [pc EXCEPT ![t] = label]
        /\ UNCHANGED <<frame, result>>
    BY <1>1 DEF Acquire, FirstLabel, EarlyLabels, Labels, SigrateLabels
  <2> HIDE DEF label
  <2> QED
    BY <1>1, <1>u, <2>1, MoveRecord DEF Acquire
<1>2. CASE AcquirePoisoned(t)
  BY <1>2, <1>r, <1>u DEF AcquirePoisoned
<1>3. CASE HealthCheck(t)
  BY <1>3, <1>r, <1>l, <1>u DEF HealthCheck, EarlyLabels, Labels, SigrateLabels
<1>4. CASE FindPolicy(t)
  <2>1. call[t].op \in SignOps \cup {"policy"} /\ pc[t] \in EarlyLabels
    BY <1>4 DEF FindPolicy, TypeInv, PlaceOK, EarlyLabels, Labels, SigrateLabels
  <2>2. ASSUME frame' = [frame EXCEPT ![t] = [f EXCEPT !.policy = Permissive]],
               Goto(t, AfterLoad(call[t].op)), OthersUnchanged
        PROVE  RecordInv'
    <3>1. [f EXCEPT !.policy = Permissive] \in FrameType
          /\ [f EXCEPT !.policy = Permissive].signed = f.signed
      BY <1>0 DEF FrameType, AnyPolicy
    <3> QED
      BY <1>a, <1>m, <1>u, <2>1, <2>2, <3>1
  <2>3. ASSUME NEW h \in Live(policyObj), Goto(t, "read_policy"), OthersUnchanged,
               frame' = [frame EXCEPT ![t] = [f EXCEPT !.handle = h]]
        PROVE  RecordInv'
    <3>1. [f EXCEPT !.handle = h] \in FrameType /\ [f EXCEPT !.handle = h].signed = f.signed
      BY <1>0, <2>3 DEF FrameType, Live
    <3>2. "read_policy" \in EarlyLabels
      BY DEF EarlyLabels, Labels, SigrateLabels
    <3> QED
      BY <1>m, <1>u, <2>1, <2>3, <3>1, <3>2
  <2> QED
    BY <1>4, <1>l, <1>u, <2>2, <2>3 DEF FindPolicy
<1>5. CASE ReadPolicy(t)
  <2> DEFINE g == [f EXCEPT !.policy = policyObj[f.handle], !.handle = None]
  <2>1. /\ call[t].op \in SignOps \cup {"policy"} /\ f.handle \in Handle
        /\ pc[t] \in EarlyLabels
    BY <1>5 DEF ReadPolicy, TypeInv, PlaceOK, EarlyLabels, Labels, SigrateLabels
  <2>2. ASSUME policyObj[f.handle] # Absent, frame' = [frame EXCEPT ![t] = g],
               Goto(t, AfterLoad(call[t].op)), OthersUnchanged
        PROVE  RecordInv'
    <3>1. policyObj[f.handle] \in AnyPolicy
      BY <2>1, <2>2 DEF TypeInv, TypeOK, AnyPolicy
    <3>2. g \in FrameType /\ g.signed = f.signed
      BY <1>0, <3>1 DEF FrameType
    <3> QED
      BY <1>a, <1>m, <1>u, <2>1, <2>2, <3>2
  <2> QED
    BY <1>5, <1>r, <1>l, <1>u, <2>2 DEF ReadPolicy
<1>6. CASE ReturnPolicy(t)
  BY <1>6, <1>r, <1>u DEF ReturnPolicy, EarlyLabels, Labels, SigrateLabels
<1>7. CASE CheckPsbt(t)
  <2> DEFINE verdict == CheckAgainstPsbt(f.policy, call[t].tx, Network)
  <2>1. UNCHANGED <<call, log, produced>> /\ pc[t] \in EarlyLabels
    BY <1>7 DEF CheckPsbt, EnvUnchanged, TokenUnchanged, EarlyLabels, Labels, SigrateLabels
  <2>2. CASE verdict = "ok"
    <3>1. Goto(t, "sign") /\ frame' = frame
      BY <1>7, <2>2 DEF CheckPsbt
    <3>2. frame' = [frame EXCEPT ![t] = f]
      BY <1>0, <3>1
    <3> QED
      BY <1>0, <1>m, <2>1, <3>1, <3>2
  <2>3. CASE verdict # "ok"
    BY <1>7, <1>r, <2>1, <2>3 DEF CheckPsbt
  <2> QED
    BY <2>2, <2>3
<1>8. CASE SignInput(t)
  <2>1. /\ UNCHANGED <<pc, result, call, log>>
        /\ frame' = [frame EXCEPT ![t].signed = @ + 1]
        /\ produced' = produced \cup {[call |-> call[t].id, input |-> f.signed + 1]}
        /\ pc[t] = "sign"
    BY <1>8 DEF SignInput, EnvUnchanged, TokenUnchanged
  <2>2. HasSignature(call[t].id)'
    <3> DEFINE p == [call |-> call[t].id, input |-> f.signed + 1]
    <3>1. p \in produced' /\ p.call = call'[t].id
      BY <2>1
    <3> QED
      BY <3>1 DEF HasSignature
  <2>3. RecordOK(t)'
    BY <2>1, <2>2 DEF RecordOK, EarlyLabels, SigrateLabels
  <2>4. Grows
    BY <2>1 DEF Grows
  <2>5. \A u \in Thread \ {t} : frame'[u] = frame[u]
    BY <1>0, <2>1
  <2> QED
    BY <2>1, <2>3, <2>4, <2>5, OwnRecord DEF RecordInv
<1>9. CASE SignFails(t)
  BY <1>9, <1>l, <1>u DEF SignFails
<1>10. CASE SignDone(t)
  <2>1. UNCHANGED <<call, log, produced>> /\ pc[t] = "sign"
    BY <1>10, <1>u DEF SignDone
  <2>2. ASSUME NeedsRecord(t), Goto(t, "find_sigrate"), UNCHANGED frame
        PROVE  RecordInv'
    <3>1. frame' = [frame EXCEPT ![t] = f]
      BY <1>0, <2>2
    <3>2. f.signed > 0 /\ "find_sigrate" \in SigrateLabels
      BY <2>2 DEF NeedsRecord, SigrateLabels
    <3> QED
      BY <1>0, <1>m, <2>1, <2>2, <3>1, <3>2
  <2>3. ASSUME ~NeedsRecord(t), Return(t, "ok") PROVE RecordInv'
    <3>1. f.signed = 0 \/ Max(t) = None
      BY <1>0, <2>3 DEF NeedsRecord
    <3> QED
      BY <1>n, <2>1, <2>3, <3>1, ReturnRecord
  <2> QED
    BY <1>10, <2>2, <2>3 DEF SignDone
<1>11. CASE FindSigrate(t)
  <2>1. pc[t] \in SigrateLabels /\ {"read_sigrate", "check_sigrate"} \subseteq SigrateLabels
    BY <1>11 DEF FindSigrate, SigrateLabels
  <2>2. ASSUME frame' = [frame EXCEPT ![t] = [f EXCEPT !.counter = {}]],
               Goto(t, "check_sigrate"), OthersUnchanged
        PROVE  RecordInv'
    <3>1. [f EXCEPT !.counter = {}] \in FrameType /\ [f EXCEPT !.counter = {}].signed = f.signed
      BY <1>0 DEF FrameType
    <3> QED
      BY <1>m, <1>u, <2>1, <2>2, <3>1
  <2>3. ASSUME NEW h \in Live(sigrateObj), Goto(t, "read_sigrate"), OthersUnchanged,
               frame' = [frame EXCEPT ![t] = [f EXCEPT !.handle = h]]
        PROVE  RecordInv'
    <3>1. [f EXCEPT !.handle = h] \in FrameType /\ [f EXCEPT !.handle = h].signed = f.signed
      BY <1>0, <2>3 DEF FrameType, Live
    <3> QED
      BY <1>m, <1>u, <2>1, <2>3, <3>1
  <2> QED
    BY <1>11, <1>l, <1>u, <2>2, <2>3 DEF FindSigrate
<1>12. CASE ReadSigrate(t)
  <2> DEFINE g == [f EXCEPT !.counter = sigrateObj[f.handle].timestamps, !.handle = None]
  <2>1. /\ pc[t] \in SigrateLabels /\ "check_sigrate" \in SigrateLabels
        /\ f.handle \in Handle
    BY <1>12 DEF ReadSigrate, SigrateLabels, TypeInv, PlaceOK
  <2>2. ASSUME sigrateObj[f.handle] # Absent, frame' = [frame EXCEPT ![t] = g],
               Goto(t, "check_sigrate"), OthersUnchanged
        PROVE  RecordInv'
    <3>1. sigrateObj[f.handle].timestamps \in SUBSET Entry
      BY <2>1, <2>2 DEF TypeInv, TypeOK, SigRateCounter
    <3>2. g \in FrameType /\ g.signed = f.signed
      BY <1>0, <3>1 DEF FrameType
    <3> QED
      BY <1>m, <1>u, <2>1, <2>2, <3>2
  <2> QED
    BY <1>12, <1>r, <1>l, <1>u, <2>2 DEF ReadSigrate
<1>13. CASE CheckSigrate(t)
  <2> DEFINE c == Prune(f.counter, now) \cup {EntryAt(t, now)}
             g == [f EXCEPT !.stamp = now, !.counter = c]
  <2>1. pc[t] \in SigrateLabels /\ "find_old_sigrate" \in SigrateLabels
    BY <1>13 DEF CheckSigrate, SigrateLabels
  <2>2. ASSUME frame' = [frame EXCEPT ![t] = g], Goto(t, "find_old_sigrate"), OthersUnchanged
        PROVE  RecordInv'
    <3>1. Max(t) \in Nat
      BY <1>0, <2>1, CeilingType DEF TypeInv, PlaceOK, Max, FrameType
    <3>2. now \in Nat /\ EntryAt(t, now) \in Entry
      BY <1>0, <3>1 DEF TypeInv, TypeOK, EntryAt, Entry, CallType
    <3>3. g \in FrameType /\ g.signed = f.signed
      BY <1>0, <3>2 DEF FrameType, Prune
    <3> QED
      BY <1>m, <1>u, <2>1, <2>2, <3>3
  <2> QED
    BY <1>13, <1>r, <1>u, <2>2 DEF CheckSigrate
<1>14. CASE FindOldSigrate(t)
  <2> DEFINE g == [f EXCEPT !.todo = OldObjects(sigrateObj)]
  <2>1. pc[t] \in SigrateLabels /\ "save_sigrate" \in SigrateLabels
    BY <1>14 DEF FindOldSigrate, SigrateLabels
  <2>2. g \in FrameType /\ g.signed = f.signed
    BY <1>0 DEF FrameType, OldObjects, Live
  <2> QED
    BY <1>14, <1>m, <1>l, <1>u, <2>1, <2>2 DEF FindOldSigrate
<1>15. CASE DestroyOldSigrate(t)
  <2>1. UNCHANGED <<call, log, produced>> /\ pc[t] \in SigrateLabels
    BY <1>15 DEF DestroyOldSigrate, EnvUnchanged, SigrateLabels
  <2>2. ASSUME NEW h \in f.todo PROVE [f EXCEPT !.todo = @ \ {h}] \in FrameType
                                      /\ [f EXCEPT !.todo = @ \ {h}].signed = f.signed
    BY <1>0 DEF FrameType
  <2> QED
    BY <1>15, <1>r, <1>s, <2>1, <2>2 DEF DestroyOldSigrate
<1>16. CASE CreateSigrate(t)
  <2>1. UNCHANGED <<call, produced>>
    BY <1>16 DEF CreateSigrate, EnvUnchanged
  <2>2. ASSUME log' = log \cup {EntryAt(t, f.stamp)}, Return(t, "ok") PROVE RecordInv'
    <3>1. RecordOK(t) /\ pc[t] \in SigrateLabels
      BY <1>16 DEF RecordInv, CreateSigrate, SigrateLabels
    <3>2. HasSignature(call[t].id)
      BY <3>1 DEF RecordOK
    <3>3. EntryAt(t, f.stamp).id = call[t].id
      BY DEF EntryAt
    <3>4. \A e \in log' \ log : HasSignature(e.id)'
      BY <2>1, <2>2, <3>2, <3>3 DEF HasSignature
    <3>5. HasEntry(call[t].id)'
      BY <2>1, <2>2, <3>3 DEF HasEntry
    <3>6. Grows
      BY <2>1, <2>2 DEF Grows
    <3> QED
      BY <2>1, <2>2, <3>4, <3>5, <3>6, ReturnRecord
  <2>3. ASSUME CreateFails(t), UNCHANGED log PROVE RecordInv'
    BY <1>l, <2>1, <2>3 DEF CreateFails
  <2> QED
    BY <1>16, <2>2, <2>3 DEF CreateSigrate
<1>17. CASE FindOldPolicy(t)
  <2> DEFINE g == [f EXCEPT !.todo = OldObjects(policyObj)]
  <2>1. pc[t] \in EarlyLabels /\ "save_policy" \in EarlyLabels
    BY <1>17 DEF FindOldPolicy, EarlyLabels, Labels, SigrateLabels
  <2>2. g \in FrameType /\ g.signed = f.signed
    BY <1>0 DEF FrameType, OldObjects, Live
  <2> QED
    BY <1>17, <1>m, <1>l, <1>u, <2>1, <2>2 DEF FindOldPolicy
<1>18. CASE DestroyOldPolicy(t)
  <2>1. UNCHANGED <<call, log, produced>> /\ pc[t] \in EarlyLabels
    BY <1>18 DEF DestroyOldPolicy, EnvUnchanged, EarlyLabels, Labels, SigrateLabels
  <2>2. ASSUME NEW h \in f.todo PROVE [f EXCEPT !.todo = @ \ {h}] \in FrameType
                                      /\ [f EXCEPT !.todo = @ \ {h}].signed = f.signed
    BY <1>0 DEF FrameType
  <2> QED
    BY <1>18, <1>r, <1>s, <2>1, <2>2 DEF DestroyOldPolicy
<1>19. CASE CreatePolicy(t)
  <2>1. UNCHANGED <<call, log, produced>> /\ pc[t] \in EarlyLabels
    BY <1>19 DEF CreatePolicy, EnvUnchanged, EarlyLabels, Labels, SigrateLabels
  <2> QED
    BY <1>19, <1>r, <1>l, <2>1 DEF CreatePolicy, CreateFails
<1> QED
  BY <1>1, <1>2, <1>3, <1>4, <1>5, <1>6, <1>7, <1>8, <1>9, <1>10, <1>11, <1>12, <1>13,
     <1>14, <1>15, <1>16, <1>17, <1>18, <1>19 DEF Step

\* The records are kept by every step: a new call starts with nothing signed,
\* and a crash ends calls without calling them Ok.
LEMMA NextRecord == TypeInv /\ RecordInv /\ [Next]_vars => RecordInv'
<1> SUFFICES ASSUME TypeInv, RecordInv, [Next]_vars PROVE RecordInv'
  OBVIOUS
<1>0. pc \in [Thread -> Labels] /\ frame \in [Thread -> FrameType]
      /\ call \in [Thread -> CallType]
  BY DEF TypeInv, TypeOK, FrameType, CallType
<1>1. ASSUME NEW t \in Thread, Begin(t) PROVE RecordInv'
  <2>1. UNCHANGED <<log, produced, result>>
    BY <1>1 DEF Begin, Goto, TokenUnchanged
  <2>2. /\ pc'[t] = "lock" /\ frame'[t] = EmptyFrame
        /\ \A u \in Thread \ {t} : pc'[u] = pc[u] /\ frame'[u] = frame[u] /\ call'[u] = call[u]
    BY <1>0, <1>1 DEF Begin, Goto
  <2>3. frame'[t].signed = 0
    BY <2>2 DEF EmptyFrame
  <2>4. RecordOK(t)'
    BY <2>2, <2>3 DEF RecordOK, SigrateLabels
  <2> QED
    BY <2>1, <2>2, <2>4, OwnRecord DEF RecordInv, Grows
<1>2. ASSUME NEW t \in Thread, Step(t) PROVE RecordInv'
  BY <1>2, StepRecord
<1>3. ASSUME NEW s \in Signer, Crash(s) PROVE RecordInv'
  <2>1. UNCHANGED <<call, log, produced>> /\ result' = [t \in Thread |-> result'[t]]
    BY <1>3 DEF Crash, TokenUnchanged
  <2>2. ASSUME NEW t \in Thread PROVE RecordOK(t)'
    <3>1. \/ pc'[t] = "idle" /\ result'[t] = "crashed"
          \/ pc'[t] = pc[t] /\ result'[t] = result[t] /\ frame'[t] = frame[t]
      BY <1>3 DEF Crash
    <3> QED
      BY <2>1, <3>1 DEF RecordInv, RecordOK, EarlyLabels, SigrateLabels, HasSignature, HasEntry, Max
  <2> QED
    BY <2>1, <2>2 DEF RecordInv, HasSignature
<1>4. CASE UNCHANGED <<pc, call, frame, result, log, produced>>
  BY <1>4 DEF RecordInv, RecordOK, HasSignature, HasEntry, Max
<1> QED
  BY <1>1, <1>2, <1>3, <1>4 DEF Next, Tick, ClockStepsBack, Finished, vars

\* An entry of the counter stands for a call that signed, and a call that
\* signed under a ceiling and returned Ok has its entry: with any number of
\* sessions, whatever fails, crashes or sets the clock.
THEOREM EntriesMatch == Spec => []EntriesMatchSignatures
<1>1. Init => RecordInv
  BY DEF Init, RecordInv, RecordOK, EarlyLabels, SigrateLabels, EmptyFrame
<1>2. TypeInv /\ RecordInv /\ [Next]_vars => RecordInv'
  BY NextRecord
<1>3. RecordInv => EntriesMatchSignatures
  BY DEF RecordInv, RecordOK, EntriesMatchSignatures, HasSignature, HasEntry
<1> QED
  BY <1>1, <1>2, <1>3, Typed, PTL DEF Spec

=============================================================================
