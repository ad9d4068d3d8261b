------------------------- MODULE SignerObjectProofs -------------------------
(***************************************************************************)
(* The objects a label leaves on the token and the policy a call signs     *)
(* under, for every value of the constants of SignerPolicy: the theorem    *)
(* that there are never more objects than sessions, and the theorem that   *)
(* with one session no policy comes between a load and its signatures.     *)
(***************************************************************************)
EXTENDS SignerPolicyProofs, FiniteSetTheorems

\* The sessions the label is used through.
SessionsInUse == {SignerOf[t] : t \in Thread}

\* Where a call works under the policy it loaded.
LoadedLabels == {"check", "sign"} \cup SigrateLabels

-----------------------------------------------------------------------------
(* Where a step of one thread may lead, and what it leaves alone           *)

\* A step of one thread leaves the others, their calls and the clock alone.
LEMMA StepOthers ==
  ASSUME TypeInv, NEW t \in Thread, Step(t)
  PROVE  /\ UNCHANGED <<now, calls, crashes, call>>
         /\ \A u \in Thread \ {t} : pc'[u] = pc[u] /\ frame'[u] = frame[u]
<1>0. pc \in [Thread -> Labels] /\ frame \in [Thread -> FrameType]
  BY DEF TypeInv, TypeOK, FrameType
<1> DEFINE Others == \A u \in Thread \ {t} : pc'[u] = pc[u] /\ frame'[u] = frame[u]
<1>1. ASSUME NEW how, Return(t, how) PROVE Others
  BY <1>0, <1>1 DEF Return
<1>2. ASSUME NEW function, Fail(t, function) PROVE Others
  BY <1>1, <1>2 DEF Fail
<1>3. ASSUME NEW label, NEW f, Goto(t, label), frame' = [frame EXCEPT ![t] = f] PROVE Others
  BY <1>0, <1>3 DEF Goto
<1>4. ASSUME NEW label, Goto(t, label), UNCHANGED frame PROVE Others
  BY <1>0, <1>4 DEF Goto
<1> HIDE DEF Others
<1>5. CASE AcquirePoisoned(t) \/ HealthCheck(t) \/ ReturnPolicy(t) \/ SignFails(t)
  BY <1>1, <1>2, <1>5
  DEF AcquirePoisoned, HealthCheck, ReturnPolicy, SignFails, OthersUnchanged, EnvUnchanged,
      Others
<1>6. CASE Acquire(t)
  <2>1. Others
    BY <1>0, <1>6 DEF Acquire, Others
  <2> QED
    BY <1>6, <2>1 DEF Acquire, OthersUnchanged, EnvUnchanged, Others
<1>7. CASE FindPolicy(t) \/ ReadPolicy(t)
  BY <1>1, <1>2, <1>3, <1>7 DEF FindPolicy, ReadPolicy, OthersUnchanged, EnvUnchanged, Others
<1>8. CASE CheckPsbt(t) \/ SignDone(t)
  <2>1. /\ UNCHANGED <<now, calls, crashes, call>>
        /\ (\E how : Return(t, how)) \/ (\E label : Goto(t, label) /\ UNCHANGED frame)
    BY <1>8 DEF CheckPsbt, SignDone, OthersUnchanged, EnvUnchanged
  <2> QED
    BY <1>1, <1>4, <2>1 DEF Others
<1>9. CASE SignInput(t)
  BY <1>0, <1>9 DEF SignInput, EnvUnchanged, Others
<1>10. CASE FindSigrate(t) \/ ReadSigrate(t) \/ CheckSigrate(t)
  BY <1>1, <1>2, <1>3, <1>10
  DEF FindSigrate, ReadSigrate, CheckSigrate, OthersUnchanged, EnvUnchanged, Others
<1>11. CASE FindOldSigrate(t) \/ FindOldPolicy(t)
  BY <1>2, <1>3, <1>11 DEF FindOldSigrate, FindOldPolicy, OthersUnchanged, EnvUnchanged, Others
<1>12. CASE DestroyOldSigrate(t) \/ DestroyOldPolicy(t)
  <2>1. CASE \E how : Return(t, how)
    BY <1>1, <1>12, <2>1 DEF DestroyOldSigrate, DestroyOldPolicy, EnvUnchanged, Others
  <2>2. CASE UNCHANGED pc /\ \E f : frame' = [frame EXCEPT ![t] = f]
    BY <1>0, <1>12, <2>2 DEF DestroyOldSigrate, DestroyOldPolicy, EnvUnchanged, Others
  <2> QED
    BY <1>12, <2>1, <2>2 DEF DestroyOldSigrate, DestroyOldPolicy
<1>13. CASE CreateSigrate(t) \/ CreatePolicy(t)
  BY <1>1, <1>2, <1>13 DEF CreateSigrate, CreatePolicy, CreateFails, EnvUnchanged, Others
<1> QED
  BY <1>5, <1>6, <1>7, <1>8, <1>9, <1>10, <1>11, <1>12, <1>13 DEF Step

\* Where each step leads: back to idle, or to one of the named places.
LEMMA StepLabels ==
  ASSUME TypeInv, NEW t \in Thread
  PROVE  /\ Acquire(t) => pc'[t] \in {"find_old_policy", "token_info", "find_policy"}
         /\ FindPolicy(t) =>
              pc'[t] \in {"idle", "read_policy", "return_policy", "check", "sign"}
         /\ ReadPolicy(t) => pc'[t] \in {"idle", "return_policy", "check", "sign"}
         /\ CheckPsbt(t) => pc'[t] \in {"idle", "sign"}
         /\ SignInput(t) => pc'[t] = "sign"
         /\ SignDone(t) => pc'[t] \in {"idle", "find_sigrate"}
         /\ FindSigrate(t) => pc'[t] \in {"idle", "read_sigrate", "check_sigrate"}
         /\ ReadSigrate(t) => pc'[t] \in {"idle", "check_sigrate"}
         /\ CheckSigrate(t) => pc'[t] \in {"idle", "find_old_sigrate"}
         /\ FindOldSigrate(t) => pc'[t] \in {"idle", "save_sigrate"}
         /\ DestroyOldSigrate(t) => pc'[t] \in {"idle", "save_sigrate"}
         /\ FindOldPolicy(t) => pc'[t] \in {"idle", "save_policy"}
         /\ DestroyOldPolicy(t) => pc'[t] \in {"idle", "save_policy"}
         /\ (\/ AcquirePoisoned(t) \/ HealthCheck(t) \/ ReturnPolicy(t) \/ SignFails(t)
             \/ CreateSigrate(t) \/ CreatePolicy(t)) => pc'[t] = "idle"
<1>0. pc \in [Thread -> Labels]
  BY DEF TypeInv, TypeOK
<1>1. ASSUME NEW how, Return(t, how) PROVE pc'[t] = "idle"
  BY <1>0, <1>1 DEF Return
<1>2. ASSUME NEW function, Fail(t, function) PROVE pc'[t] = "idle"
  BY <1>1, <1>2 DEF Fail
<1>3. ASSUME NEW label, Goto(t, label) PROVE pc'[t] = label
  BY <1>0, <1>3 DEF Goto
<1>4. ASSUME pc[t] \in {"find_policy", "read_policy"}
      PROVE  AfterLoad(call[t].op) \in {"return_policy", "check", "sign"}
  BY <1>4, AfterLoadPlace DEF TypeInv, PlaceOK
<1>5. Acquire(t) => pc'[t] \in {"find_old_policy", "token_info", "find_policy"}
  BY <1>0 DEF Acquire, FirstLabel
<1>6. FindPolicy(t) => pc'[t] \in {"idle", "read_policy", "return_policy", "check", "sign"}
  BY <1>2, <1>3, <1>4 DEF FindPolicy
<1>7. ReadPolicy(t) => pc'[t] \in {"idle", "return_policy", "check", "sign"}
  BY <1>1, <1>2, <1>3, <1>4 DEF ReadPolicy
<1>8. CheckPsbt(t) => pc'[t] \in {"idle", "sign"}
  BY <1>1, <1>3 DEF CheckPsbt
<1>9. SignInput(t) => pc'[t] = "sign"
  BY DEF SignInput
<1>10. SignDone(t) => pc'[t] \in {"idle", "find_sigrate"}
  BY <1>1, <1>3 DEF SignDone
<1>11. FindSigrate(t) => pc'[t] \in {"idle", "read_sigrate", "check_sigrate"}
  BY <1>2, <1>3 DEF FindSigrate
<1>12. ReadSigrate(t) => pc'[t] \in {"idle", "check_sigrate"}
  BY <1>1, <1>2, <1>3 DEF ReadSigrate
<1>13. CheckSigrate(t) => pc'[t] \in {"idle", "find_old_sigrate"}
  BY <1>1, <1>3 DEF CheckSigrate
<1>14. /\ FindOldSigrate(t) => pc'[t] \in {"idle", "save_sigrate"}
       /\ FindOldPolicy(t) => pc'[t] \in {"idle", "save_policy"}
  BY <1>2, <1>3 DEF FindOldSigrate, FindOldPolicy
<1>15. /\ DestroyOldSigrate(t) => pc'[t] \in {"idle", "save_sigrate"}
       /\ DestroyOldPolicy(t) => pc'[t] \in {"idle", "save_policy"}
  BY <1>1 DEF DestroyOldSigrate, DestroyOldPolicy
<1>16. (\/ AcquirePoisoned(t) \/ HealthCheck(t) \/ ReturnPolicy(t) \/ SignFails(t)
        \/ CreateSigrate(t) \/ CreatePolicy(t)) => pc'[t] = "idle"
  BY <1>1, <1>2
  DEF AcquirePoisoned, HealthCheck, ReturnPolicy, SignFails, CreateSigrate, CreatePolicy,
      CreateFails
<1> QED
  BY <1>5, <1>6, <1>7, <1>8, <1>9, <1>10, <1>11, <1>12, <1>13, <1>14, <1>15, <1>16

\* Only save_policy touches the policy object.
LEMMA PolicyObjectKept ==
  ASSUME NEW t \in Thread, Step(t), ~DestroyOldPolicy(t), ~CreatePolicy(t)
  PROVE  UNCHANGED policyObj
  BY DEF Step, OthersUnchanged, TokenUnchanged, Acquire, AcquirePoisoned, HealthCheck,
         FindPolicy, ReadPolicy, ReturnPolicy, CheckPsbt, SignInput, SignFails, SignDone,
         FindSigrate, ReadSigrate, CheckSigrate, FindOldSigrate, DestroyOldSigrate,
         CreateSigrate, FindOldPolicy

\* Only save_sigrate touches the counter object and the record.
LEMMA SigrateObjectKept ==
  ASSUME NEW t \in Thread, Step(t), ~DestroyOldSigrate(t), ~CreateSigrate(t)
  PROVE  UNCHANGED <<sigrateObj, log>>
  BY DEF Step, OthersUnchanged, TokenUnchanged, Acquire, AcquirePoisoned, HealthCheck,
         FindPolicy, ReadPolicy, ReturnPolicy, CheckPsbt, SignInput, SignFails, SignDone,
         FindSigrate, ReadSigrate, CheckSigrate, FindOldSigrate, FindOldPolicy,
         DestroyOldPolicy, CreatePolicy

-----------------------------------------------------------------------------
(* No more objects than sessions                                           *)

\* Each object belongs to a session, no two objects to one session, and a
\* session that is destroying the old objects has its own among those still
\* to go.  saving is the set of threads that are, todo what each has to go.
Owned(live, saving, todo, owner) ==
    /\ \A h, k \in live : owner[h] = owner[k] => h = k
    /\ \A t \in saving, h \in live : owner[h] = SignerOf[t] => h \in todo[t]

Ownable(live, saving, todo) == \E owner \in [Handle -> SessionsInUse] : Owned(live, saving, todo, owner)

Todo           == [t \in Thread |-> frame[t].todo]
PolicySavers   == {t \in Thread : pc[t] = "save_policy"}
SigrateSavers  == {t \in Thread : pc[t] = "save_sigrate"}
PolicyOwnable  == Ownable(Live(policyObj), PolicySavers, Todo)
SigrateOwnable == Ownable(Live(sigrateObj), SigrateSavers, Todo)

ObjectInv == PolicyOwnable /\ SigrateOwnable

\* Objects may go, and a session may look for all that are there.
LEMMA OwnableKept ==
  ASSUME NEW live, NEW saving, NEW todo, NEW live2, NEW saving2, NEW todo2,
         Ownable(live, saving, todo), live2 \subseteq live,
         \A t \in saving2 : (t \in saving /\ todo[t] \cap live2 \subseteq todo2[t])
                            \/ live2 \subseteq todo2[t]
  PROVE  Ownable(live2, saving2, todo2)
<1>1. PICK owner \in [Handle -> SessionsInUse] : Owned(live, saving, todo, owner)
  BY DEF Ownable
<1>2. Owned(live2, saving2, todo2, owner)
  BY <1>1 DEF Owned
<1> QED
  BY <1>2 DEF Ownable

\* A session that has destroyed all it found may create one object.
LEMMA OwnableCreated ==
  ASSUME NEW live, NEW saving, NEW todo, NEW saving2, NEW todo2,
         Ownable(live, saving, todo), NEW t \in Thread, t \in saving, todo[t] = {},
         NEW h \in Handle, h \notin live, live \subseteq Handle,
         \A u \in saving2 : u \in saving /\ SignerOf[u] # SignerOf[t] /\ todo2[u] = todo[u]
  PROVE  Ownable(live \cup {h}, saving2, todo2)
<1>1. PICK owner \in [Handle -> SessionsInUse] : Owned(live, saving, todo, owner)
  BY DEF Ownable
<1> DEFINE owner2 == [owner EXCEPT ![h] = SignerOf[t]]
<1>2. owner2 \in [Handle -> SessionsInUse]
  BY <1>1 DEF SessionsInUse
<1>3. owner2[h] = SignerOf[t] /\ \A k \in Handle \ {h} : owner2[k] = owner[k]
  BY <1>1
<1>4. \A k \in live : owner[k] # SignerOf[t]
  BY <1>1 DEF Owned
<1> HIDE DEF owner2
<1>5. \A k \in live : owner2[k] = owner[k] /\ owner2[k] # SignerOf[t]
  BY <1>3, <1>4
<1>6. ASSUME NEW j \in live \cup {h}, NEW k \in live \cup {h}, owner2[j] = owner2[k] PROVE j = k
  BY <1>1, <1>3, <1>5, <1>6 DEF Owned
<1>7. ASSUME NEW u \in saving2, NEW k \in live \cup {h}, owner2[k] = SignerOf[u]
      PROVE  k \in todo2[u]
  BY <1>1, <1>3, <1>5, <1>7 DEF Owned
<1>8. Owned(live \cup {h}, saving2, todo2, owner2)
  BY <1>6, <1>7 DEF Owned
<1> QED
  BY <1>2, <1>8 DEF Ownable

\* Of several objects each has its session, so they number no more than those.
LEMMA OwnableBound ==
  ASSUME NEW live, live \subseteq Handle, NEW saving, NEW todo, Ownable(live, saving, todo),
         IsFiniteSet(Handle), IsFiniteSet(Signer)
  PROVE  Cardinality(live) <= Cardinality(Signer)
<1>1. PICK owner \in [Handle -> SessionsInUse] : Owned(live, saving, todo, owner)
  BY DEF Ownable
<1> DEFINE f == [h \in live |-> owner[h]]
<1>2. SessionsInUse \subseteq Signer
  BY ConstantsAssumption DEF SessionsInUse
<1>3. f \in [live -> Signer]
  BY <1>1, <1>2
<1>4. \A h, k \in live : f[h] = f[k] => h = k
  BY <1>1 DEF Owned
<1>5. IsFiniteSet(live)
  BY FS_Subset
<1>6. Cardinality(live) \in Nat /\ Cardinality(Signer) \in Nat
  BY <1>5, FS_CardinalityType
<1> HIDE DEF f
<1>7. ~(Cardinality(Signer) < Cardinality(live))
  BY <1>3, <1>4, <1>5, FS_PigeonHole
<1> QED
  BY <1>6, <1>7

\* Every step of a thread leaves the policy objects with their sessions.
LEMMA StepPolicyObjects ==
  ASSUME TypeInv, MutexInv, PolicyOwnable, NEW t \in Thread, Step(t)
  PROVE  PolicyOwnable'
<1> DEFINE f == frame[t]
<1>t. /\ pc \in [Thread -> Labels] /\ frame \in [Thread -> FrameType] /\ f \in FrameType
      /\ policyObj \in [Handle -> Policies \cup {Absent}]
  BY DEF TypeInv, TypeOK, FrameType
<1>o. \A u \in Thread \ {t} : pc'[u] = pc[u] /\ frame'[u] = frame[u]
  BY StepOthers
\* The sessions of the other savers are other sessions.
<1>a. ASSUME InSession(t), NEW u \in Thread \ {t}, InSession(u)
      PROVE  SignerOf[u] # SignerOf[t]
  BY <1>a DEF MutexInv, SessionIsLocked
<1>0. Ownable(Live(policyObj), PolicySavers, Todo)
  BY DEF PolicyOwnable
<1>1. ASSUME Live(policyObj)' \subseteq Live(policyObj),
             \/ pc'[t] # "save_policy"
             \/ Live(policyObj)' \subseteq frame'[t].todo
             \/ pc[t] = "save_policy" /\ f.todo \cap Live(policyObj)' \subseteq frame'[t].todo
      PROVE  PolicyOwnable'
  <2>1. ASSUME NEW u \in PolicySavers'
        PROVE  \/ u \in PolicySavers /\ Todo[u] \cap Live(policyObj)' \subseteq Todo'[u]
               \/ Live(policyObj)' \subseteq Todo'[u]
    BY <1>o, <1>1, <2>1 DEF PolicySavers, Todo
  <2> QED
    BY <1>0, <1>1, <2>1, OwnableKept DEF PolicyOwnable
<1>2. CASE CreatePolicy(t) /\ ~UNCHANGED policyObj
  <2>1. PICK h \in FreeHandles : policyObj' = [policyObj EXCEPT ![h] = call[t].arg]
    BY <1>2 DEF CreatePolicy
  <2>2. h \in Handle /\ h \notin Live(policyObj) /\ Live(policyObj) \subseteq Handle
    BY <2>1 DEF FreeHandles, Live
  <2>3. Live(policyObj)' = Live(policyObj) \cup {h}
    <3>1. call[t].arg # Absent
      BY <1>2, ConstantsAssumption DEF CreatePolicy, TypeInv, PlaceOK
    <3> QED
      BY <1>t, <2>1, <2>2, <3>1 DEF Live
  <2>4. pc[t] = "save_policy" /\ f.todo = {}
    BY <1>2 DEF CreatePolicy
  <2>5. pc'[t] = "idle"
    BY <1>2, StepLabels
  <2>6. t \in PolicySavers /\ Todo[t] = {}
    BY <2>4 DEF PolicySavers, Todo
  <2>7. \A u \in PolicySavers' :
           u \in PolicySavers /\ SignerOf[u] # SignerOf[t] /\ Todo'[u] = Todo[u]
    BY <1>o, <1>a, <2>4, <2>5 DEF PolicySavers, Todo, InSession
  <2> QED
    BY <1>0, <2>2, <2>3, <2>6, <2>7, OwnableCreated DEF PolicyOwnable
<1>3. CASE DestroyOldPolicy(t)
  <2>1. pc[t] = "save_policy"
    BY <1>3 DEF DestroyOldPolicy
  <2>2. CASE Return(t, "Pkcs11") /\ UNCHANGED policyObj
    BY <1>t, <1>1, <2>2 DEF Return, Live
  <2>3. CASE ~(Return(t, "Pkcs11") /\ UNCHANGED policyObj)
    <3>1. PICK h \in f.todo : /\ policyObj' = [policyObj EXCEPT ![h] = Absent]
                              /\ frame' = [frame EXCEPT ![t].todo = @ \ {h}]
      BY <1>3, <2>3 DEF DestroyOldPolicy
    <3>2. Live(policyObj)' \subseteq Live(policyObj) \ {h}
      BY <1>t, <3>1 DEF Live
    <3>3. frame'[t].todo = f.todo \ {h}
      BY <1>t, <3>1 DEF FrameType
    <3> QED
      BY <1>1, <2>1, <3>2, <3>3
  <2> QED
    BY <2>2, <2>3
<1>4. CASE FindOldPolicy(t)
  <2>1. UNCHANGED policyObj
    BY <1>4 DEF FindOldPolicy, OthersUnchanged, TokenUnchanged
  <2>2. pc'[t] # "save_policy" \/ frame' = [frame EXCEPT ![t].todo = OldObjects(policyObj)]
    BY <1>t, <1>4 DEF FindOldPolicy, Fail, Return
  <2>3. pc'[t] # "save_policy" \/ frame'[t].todo = Live(policyObj)
    BY <1>t, <2>2 DEF OldObjects, FrameType
  <2> QED
    BY <1>1, <2>1, <2>3 DEF Live
<1>5. CASE ~DestroyOldPolicy(t) /\ ~FindOldPolicy(t) /\ UNCHANGED policyObj
  <2>1. pc'[t] # "save_policy"
    BY <1>5, StepLabels DEF Step
  <2> QED
    BY <1>1, <1>5, <2>1 DEF Live
<1> QED
  BY <1>2, <1>3, <1>4, <1>5, PolicyObjectKept DEF PolicyOwnable

\* Every step of a thread leaves the counter objects with their sessions.
LEMMA StepSigrateObjects ==
  ASSUME TypeInv, MutexInv, SigrateOwnable, NEW t \in Thread, Step(t)
  PROVE  SigrateOwnable'
<1> DEFINE f == frame[t]
<1>t. /\ pc \in [Thread -> Labels] /\ frame \in [Thread -> FrameType] /\ f \in FrameType
      /\ sigrateObj \in [Handle -> SigRateCounter \cup {Absent}]
  BY DEF TypeInv, TypeOK, FrameType
<1>o. \A u \in Thread \ {t} : pc'[u] = pc[u] /\ frame'[u] = frame[u]
  BY StepOthers
\* The sessions of the other savers are other sessions.
<1>a. ASSUME InSession(t), NEW u \in Thread \ {t}, InSession(u)
      PROVE  SignerOf[u] # SignerOf[t]
  BY <1>a DEF MutexInv, SessionIsLocked
<1>0. Ownable(Live(sigrateObj), SigrateSavers, Todo)
  BY DEF SigrateOwnable
<1>1. ASSUME Live(sigrateObj)' \subseteq Live(sigrateObj),
             \/ pc'[t] # "save_sigrate"
             \/ Live(sigrateObj)' \subseteq frame'[t].todo
             \/ pc[t] = "save_sigrate" /\ f.todo \cap Live(sigrateObj)' \subseteq frame'[t].todo
      PROVE  SigrateOwnable'
  <2>1. ASSUME NEW u \in SigrateSavers'
        PROVE  \/ u \in SigrateSavers /\ Todo[u] \cap Live(sigrateObj)' \subseteq Todo'[u]
               \/ Live(sigrateObj)' \subseteq Todo'[u]
    BY <1>o, <1>1, <2>1 DEF SigrateSavers, Todo
  <2> QED
    BY <1>0, <1>1, <2>1, OwnableKept DEF SigrateOwnable
<1>2. CASE CreateSigrate(t) /\ ~UNCHANGED sigrateObj
  <2>1. PICK h \in FreeHandles : sigrateObj' = [sigrateObj EXCEPT ![h] = [timestamps |-> f.counter]]
    BY <1>2 DEF CreateSigrate
  <2>2. h \in Handle /\ h \notin Live(sigrateObj) /\ Live(sigrateObj) \subseteq Handle
    BY <2>1 DEF FreeHandles, Live
  <2>3. Live(sigrateObj)' = Live(sigrateObj) \cup {h}
    <3>1. [timestamps |-> f.counter] # Absent
      BY <1>t, ConstantsAssumption DEF FrameType, Entry
    <3> QED
      BY <1>t, <2>1, <2>2, <3>1 DEF Live
  <2>4. pc[t] = "save_sigrate" /\ f.todo = {}
    BY <1>2 DEF CreateSigrate
  <2>5. pc'[t] = "idle"
    BY <1>2, StepLabels
  <2>6. t \in SigrateSavers /\ Todo[t] = {}
    BY <2>4 DEF SigrateSavers, Todo
  <2>7. \A u \in SigrateSavers' :
           u \in SigrateSavers /\ SignerOf[u] # SignerOf[t] /\ Todo'[u] = Todo[u]
    BY <1>o, <1>a, <2>4, <2>5 DEF SigrateSavers, Todo, InSession
  <2> QED
    BY <1>0, <2>2, <2>3, <2>6, <2>7, OwnableCreated DEF SigrateOwnable
<1>3. CASE DestroyOldSigrate(t)
  <2>1. pc[t] = "save_sigrate"
    BY <1>3 DEF DestroyOldSigrate
  <2>2. CASE Return(t, "Pkcs11") /\ UNCHANGED sigrateObj
    BY <1>t, <1>1, <2>2 DEF Return, Live
  <2>3. CASE ~(Return(t, "Pkcs11") /\ UNCHANGED sigrateObj)
    <3>1. PICK h \in f.todo : /\ sigrateObj' = [sigrateObj EXCEPT ![h] = Absent]
                              /\ frame' = [frame EXCEPT ![t].todo = @ \ {h}]
      BY <1>3, <2>3 DEF DestroyOldSigrate
    <3>2. Live(sigrateObj)' \subseteq Live(sigrateObj) \ {h}
      BY <1>t, <3>1 DEF Live
    <3>3. frame'[t].todo = f.todo \ {h}
      BY <1>t, <3>1 DEF FrameType
    <3> QED
      BY <1>1, <2>1, <3>2, <3>3
  <2> QED
    BY <2>2, <2>3
<1>4. CASE FindOldSigrate(t)
  <2>1. UNCHANGED sigrateObj
    BY <1>4 DEF FindOldSigrate, OthersUnchanged, TokenUnchanged
  <2>2. pc'[t] # "save_sigrate" \/ frame' = [frame EXCEPT ![t].todo = OldObjects(sigrateObj)]
    BY <1>t, <1>4 DEF FindOldSigrate, Fail, Return
  <2>3. pc'[t] # "save_sigrate" \/ frame'[t].todo = Live(sigrateObj)
    BY <1>t, <2>2 DEF OldObjects, FrameType
  <2> QED
    BY <1>1, <2>1, <2>3 DEF Live
<1>5. CASE ~DestroyOldSigrate(t) /\ ~FindOldSigrate(t) /\ UNCHANGED sigrateObj
  <2>1. pc'[t] # "save_sigrate"
    BY <1>5, StepLabels DEF Step
  <2> QED
    BY <1>1, <1>5, <2>1 DEF Live
<1> QED
  BY <1>2, <1>3, <1>4, <1>5, SigrateObjectKept DEF SigrateOwnable

\* Every step leaves the objects with their sessions: a crash ends saves, a
\* new call saves nothing yet.
LEMMA NextObjects == TypeInv /\ MutexInv /\ ObjectInv /\ [Next]_vars => ObjectInv'
<1> SUFFICES ASSUME TypeInv, MutexInv, ObjectInv, [Next]_vars PROVE ObjectInv'
  OBVIOUS
<1>0. pc \in [Thread -> Labels] /\ frame \in [Thread -> FrameType]
  BY DEF TypeInv, TypeOK, FrameType
<1>q. ASSUME UNCHANGED <<policyObj, sigrateObj>>,
             \A u \in Thread :
               pc'[u] \in {"idle", "lock"} \/ (pc'[u] = pc[u] /\ frame'[u] = frame[u])
      PROVE  ObjectInv'
  <2>1. Live(policyObj)' = Live(policyObj) /\ Live(sigrateObj)' = Live(sigrateObj)
    BY <1>q DEF Live
  <2>2. /\ \A u \in PolicySavers' : u \in PolicySavers /\ Todo'[u] = Todo[u]
        /\ \A u \in SigrateSavers' : u \in SigrateSavers /\ Todo'[u] = Todo[u]
    BY <1>q DEF PolicySavers, SigrateSavers, Todo
  <2>3. PolicyOwnable'
    BY <2>1, <2>2, OwnableKept DEF ObjectInv, PolicyOwnable
  <2>4. SigrateOwnable'
    BY <2>1, <2>2, OwnableKept DEF ObjectInv, SigrateOwnable
  <2> QED
    BY <2>3, <2>4 DEF ObjectInv
<1>1. ASSUME NEW t \in Thread, Begin(t) PROVE ObjectInv'
  <2>1. UNCHANGED <<policyObj, sigrateObj>>
    BY <1>1 DEF Begin, TokenUnchanged
  <2>2. /\ pc'[t] = "lock"
        /\ \A u \in Thread \ {t} : pc'[u] = pc[u] /\ frame'[u] = frame[u]
    BY <1>0, <1>1 DEF Begin, Goto
  <2>3. \A u \in Thread :
               pc'[u] \in {"idle", "lock"} \/ (pc'[u] = pc[u] /\ frame'[u] = frame[u])
    BY <2>2
  <2> QED
    BY <1>q, <2>1, <2>3
<1>2. ASSUME NEW t \in Thread, Step(t) PROVE ObjectInv'
  BY <1>2, StepPolicyObjects, StepSigrateObjects DEF ObjectInv
<1>3. ASSUME NEW s \in Signer, Crash(s) PROVE ObjectInv'
  <2>1. UNCHANGED <<policyObj, sigrateObj>>
    BY <1>3 DEF Crash, TokenUnchanged
  <2>2. \A u \in Thread :
               pc'[u] \in {"idle", "lock"} \/ (pc'[u] = pc[u] /\ frame'[u] = frame[u])
    BY <1>3 DEF Crash
  <2> QED
    BY <1>q, <2>1, <2>2
<1>4. CASE UNCHANGED <<policyObj, sigrateObj, pc, frame>>
  BY <1>4, <1>q
<1> QED
  BY <1>1, <1>2, <1>3, <1>4 DEF Next, Tick, ClockStepsBack, Finished, vars

\* The one object a token may start with belongs to any session.
LEMMA InitObjects == Thread # {} /\ Init => ObjectInv
<1> SUFFICES ASSUME Thread # {}, Init PROVE ObjectInv
  OBVIOUS
<1>1. PICK t \in Thread : TRUE
  OBVIOUS
<1> DEFINE owner == [h \in Handle |-> SignerOf[t]]
<1>2. owner \in [Handle -> SessionsInUse]
  BY DEF SessionsInUse
<1>3. PolicySavers = {} /\ SigrateSavers = {} /\ Live(sigrateObj) = {}
  BY DEF Init, PolicySavers, SigrateSavers, Live
<1>4. \A h, k \in Live(policyObj) : h = k
  BY DEF Init, Live
<1>5. Owned(Live(policyObj), PolicySavers, Todo, owner)
  BY <1>3, <1>4 DEF Owned
<1>6. Owned(Live(sigrateObj), SigrateSavers, Todo, owner)
  BY <1>3 DEF Owned
<1> QED
  BY <1>2, <1>5, <1>6 DEF ObjectInv, PolicyOwnable, SigrateOwnable, Ownable

\* The objects of every reachable state.
LEMMA Objects == ASSUME Thread # {} PROVE Spec => []ObjectInv
<1>1. Init => ObjectInv
  BY InitObjects
<1> QED
  BY <1>1, NextObjects, Typed, Mutex, PTL DEF Spec

\* A label never has more policy objects, or counter objects, than there are
\* signers: whatever the saves of different sessions do to each other, what
\* fails or crashes half way, and however many calls there are.
THEOREM ObjectsSafe ==
  ASSUME Thread # {}, IsFiniteSet(Signer), IsFiniteSet(Handle)
  PROVE  Spec => []ObjectsPerSession
<1>1. Live(policyObj) \subseteq Handle /\ Live(sigrateObj) \subseteq Handle
  BY DEF Live
<1>2. ObjectInv => ObjectsPerSession
  BY <1>1, OwnableBound DEF ObjectInv, PolicyOwnable, SigrateOwnable, ObjectsPerSession
<1> QED
  BY <1>2, Objects, PTL

-----------------------------------------------------------------------------
(* One session: the policy a call signs under                              *)

\* All the threads are clones of one signer.
OneSession == Thread # {} /\ \A t, u \in Thread : SignerOf[t] = SignerOf[u]

\* What load_policy returns of the objects the token holds.
StoredPolicy == IF Live(policyObj) = {} THEN Permissive
                ELSE policyObj[CHOOSE h \in Live(policyObj) : TRUE]

Passes(t) == CheckAgainstPsbt(frame[t].policy, call[t].tx, Network) = "ok"

\* A call holds the policy of the token from the load to its end, and
\* sign_transaction signs what that policy has passed.
LoadedInv == \A t \in Thread :
    /\ pc[t] \in LoadedLabels => frame[t].policy = StoredPolicy
    /\ Signing(t) /\ call[t].op = "sign_transaction" => Passes(t)

\* In one session there is one object, and a save has found it.
LEMMA OneObject ==
  ASSUME OneSession, ObjectInv
  PROVE  /\ \A h, k \in Live(policyObj) : h = k
         /\ \A h, k \in Live(sigrateObj) : h = k
         /\ \A t \in Thread : pc[t] = "save_policy" => Live(policyObj) \subseteq frame[t].todo
         /\ \A t \in Thread : pc[t] = "save_sigrate" => Live(sigrateObj) \subseteq frame[t].todo
<1>1. ASSUME NEW live, live \subseteq Handle, NEW saving, saving \subseteq Thread, NEW todo,
             Ownable(live, saving, todo)
      PROVE  /\ \A h, k \in live : h = k
             /\ \A t \in saving : live \subseteq todo[t]
  <2>1. PICK owner \in [Handle -> SessionsInUse] : Owned(live, saving, todo, owner)
    BY <1>1 DEF Ownable
  <2>2. \A h \in live, t \in Thread : owner[h] = SignerOf[t]
    BY <1>1, <2>1 DEF OneSession, SessionsInUse
  <2>3. \A h, k \in live : owner[h] = owner[k]
    BY <2>2 DEF OneSession
  <2> QED
    BY <1>1, <2>1, <2>2, <2>3 DEF Owned
<1>2. /\ Live(policyObj) \subseteq Handle /\ Live(sigrateObj) \subseteq Handle
      /\ PolicySavers \subseteq Thread /\ SigrateSavers \subseteq Thread
  BY DEF Live, PolicySavers, SigrateSavers
<1>3. /\ \A h, k \in Live(policyObj) : h = k
      /\ \A t \in PolicySavers : Live(policyObj) \subseteq Todo[t]
  BY <1>1, <1>2 DEF ObjectInv, PolicyOwnable
<1>4. /\ \A h, k \in Live(sigrateObj) : h = k
      /\ \A t \in SigrateSavers : Live(sigrateObj) \subseteq Todo[t]
  BY <1>1, <1>2 DEF ObjectInv, SigrateOwnable
<1> QED
  BY <1>3, <1>4 DEF PolicySavers, SigrateSavers, Todo

\* In one session one thread at a time is inside a call.
LEMMA OneInside ==
  ASSUME OneSession, MutexInv, NEW t \in Thread, NEW u \in Thread, InSession(t), InSession(u)
  PROVE  t = u
  BY DEF OneSession, MutexInv, SessionIsLocked

\* While a thread takes a step no other is inside a call, unless the step is
\* not either.
LEMMA StepsAlone ==
  ASSUME OneSession, TypeInv, MutexInv, NEW t \in Thread, Step(t)
  PROVE  \A u \in Thread \ {t} : ~InSession(u) /\ ~InSession(u)'
<1>1. InSession(t) \/ lock[SignerOf[t]] = NoThread
  BY DEF Step, InSession, Acquire, MayEnter, AcquirePoisoned, HealthCheck, FindPolicy,
         ReadPolicy, ReturnPolicy, CheckPsbt, SignInput, SignFails, SignDone, FindSigrate,
         ReadSigrate, CheckSigrate, FindOldSigrate, DestroyOldSigrate, CreateSigrate,
         FindOldPolicy, DestroyOldPolicy, CreatePolicy
<1>2. \A u \in Thread : InSession(u) => lock[SignerOf[u]] = u /\ u # NoThread
  BY ConstantsAssumption DEF MutexInv, SessionIsLocked
<1>3. \A u \in Thread \ {t} : ~InSession(u)
  BY <1>1, <1>2, OneInside DEF OneSession
<1> QED
  BY <1>3, StepOthers DEF InSession

\* A call comes to work under a policy by loading it; from there on neither
\* its policy nor the object changes in its own steps.
LEMMA StepLoaded ==
  ASSUME TypeInv, NEW t \in Thread, Step(t), pc'[t] \in LoadedLabels,
         ~FindPolicy(t), ~ReadPolicy(t)
  PROVE  /\ pc[t] \in LoadedLabels /\ frame'[t].policy = frame[t].policy
         /\ UNCHANGED policyObj
<1> DEFINE f == frame[t]
<1>0. pc \in [Thread -> Labels] /\ frame \in [Thread -> FrameType] /\ f \in FrameType
  BY DEF TypeInv, TypeOK, FrameType
<1>r. ASSUME NEW how, Return(t, how) PROVE FALSE
  BY <1>0, <1>r DEF Return, LoadedLabels, SigrateLabels
<1>l. ASSUME NEW function, Fail(t, function) PROVE FALSE
  BY <1>r, <1>l DEF Fail
<1>k. ASSUME UNCHANGED frame PROVE frame'[t].policy = f.policy
  BY <1>k
<1>1. UNCHANGED policyObj
  <2>1. ~DestroyOldPolicy(t) /\ ~CreatePolicy(t)
    BY StepLabels DEF LoadedLabels, SigrateLabels
  <2> QED
    BY <2>1, PolicyObjectKept
<1>2. \/ CheckPsbt(t) \/ SignInput(t) \/ SignDone(t) \/ FindSigrate(t) \/ ReadSigrate(t)
      \/ CheckSigrate(t) \/ FindOldSigrate(t) \/ DestroyOldSigrate(t)
  BY StepLabels DEF Step, LoadedLabels, SigrateLabels
<1>3. pc[t] \in LoadedLabels
  BY <1>2 DEF CheckPsbt, SignInput, SignDone, FindSigrate, ReadSigrate, CheckSigrate,
              FindOldSigrate, DestroyOldSigrate, LoadedLabels, SigrateLabels
<1> SUFFICES frame'[t].policy = f.policy
  BY <1>1, <1>3
<1>4. CASE CheckPsbt(t) \/ SignDone(t)
  BY <1>4, <1>r, <1>k DEF CheckPsbt, SignDone
<1>5. CASE SignInput(t)
  BY <1>0, <1>5 DEF SignInput, FrameType
<1>6. CASE FindSigrate(t)
  BY <1>0, <1>6, <1>l DEF FindSigrate, FrameType
<1>7. CASE ReadSigrate(t)
  BY <1>0, <1>7, <1>r, <1>l DEF ReadSigrate, FrameType
<1>8. CASE CheckSigrate(t)
  <2>1. PICK at, c : frame' = [frame EXCEPT ![t].stamp = at, ![t].counter = c]
    BY <1>8, <1>r DEF CheckSigrate
  <2> QED
    BY <1>0, <2>1 DEF FrameType
<1>9. CASE FindOldSigrate(t)
  BY <1>0, <1>9, <1>l DEF FindOldSigrate, FrameType
<1>10. CASE DestroyOldSigrate(t)
  BY <1>0, <1>10, <1>r DEF DestroyOldSigrate, FrameType
<1> QED
  BY <1>2, <1>4, <1>5, <1>6, <1>7, <1>8, <1>9, <1>10

\* What a load finds is the policy the token holds.
LEMMA LoadsStored ==
  ASSUME OneSession, TypeInv, ObjectInv, NEW t \in Thread, FindPolicy(t) \/ ReadPolicy(t),
         pc'[t] \in LoadedLabels
  PROVE  frame'[t].policy = StoredPolicy /\ UNCHANGED policyObj
<1> DEFINE f == frame[t]
<1>0. pc \in [Thread -> Labels] /\ frame \in [Thread -> FrameType] /\ f \in FrameType
  BY DEF TypeInv, TypeOK, FrameType
<1>r. ASSUME NEW how, Return(t, how) PROVE FALSE
  BY <1>0, <1>r DEF Return, LoadedLabels, SigrateLabels
<1>l. ASSUME NEW function, Fail(t, function) PROVE FALSE
  BY <1>r, <1>l DEF Fail
<1>1. UNCHANGED policyObj
  BY DEF FindPolicy, ReadPolicy, OthersUnchanged, TokenUnchanged
<1>2. CASE FindPolicy(t)
  <2>1. ~Goto(t, "read_policy")
    BY <1>0 DEF Goto, LoadedLabels, SigrateLabels
  <2>2. Live(policyObj) = {} /\ frame' = [frame EXCEPT ![t].policy = Permissive]
    BY <1>2, <1>l, <2>1 DEF FindPolicy
  <2>3. frame'[t].policy = Permissive
    BY <1>0, <2>2 DEF FrameType
  <2> QED
    BY <1>1, <2>2, <2>3 DEF StoredPolicy
<1>3. CASE ReadPolicy(t)
  <2>1. /\ policyObj[f.handle] # Absent
        /\ frame' = [frame EXCEPT ![t].policy = policyObj[f.handle], ![t].handle = None]
    BY <1>3, <1>r, <1>l DEF ReadPolicy
  <2>2. f.handle \in Live(policyObj)
    BY <1>3, <2>1 DEF ReadPolicy, TypeInv, PlaceOK, Live
  <2>3. frame'[t].policy = policyObj[f.handle]
    BY <1>0, <2>1 DEF FrameType
  <2>4. (CHOOSE h \in Live(policyObj) : TRUE) = f.handle
    BY <2>2, OneObject
  <2> QED
    BY <1>1, <2>2, <2>3, <2>4 DEF StoredPolicy
<1> QED
  BY <1>2, <1>3

\* The steps of a thread keep what the calls have loaded.
LEMMA StepLoadedInv ==
  ASSUME OneSession, TypeInv, MutexInv, ObjectInv, LoadedInv, NEW t \in Thread, Step(t)
  PROVE  LoadedInv'
<1>0. UNCHANGED call /\ \A u \in Thread \ {t} : pc'[u] = pc[u] /\ frame'[u] = frame[u]
  BY StepOthers
<1>1. \A u \in Thread \ {t} : pc'[u] \notin LoadedLabels
  BY StepsAlone DEF InSession, LoadedLabels, SigrateLabels
<1>2. ASSUME pc'[t] \in LoadedLabels PROVE frame'[t].policy = StoredPolicy'
  <2>1. frame'[t].policy = StoredPolicy /\ UNCHANGED policyObj
    <3>1. CASE FindPolicy(t) \/ ReadPolicy(t)
      BY <1>2, <3>1, LoadsStored
    <3>2. CASE ~FindPolicy(t) /\ ~ReadPolicy(t)
      BY <1>2, <3>2, StepLoaded DEF LoadedInv
    <3> QED
      BY <3>1, <3>2
  <2>2. UNCHANGED Live(policyObj)
    BY <2>1 DEF Live
  <2> QED
    BY <2>1, <2>2 DEF StoredPolicy
<1>3. ASSUME Signing(t)', call[t].op = "sign_transaction" PROVE Passes(t)'
  <2>1. pc'[t] \in LoadedLabels
    BY <1>3 DEF Signing, LoadedLabels, SigrateLabels
  <2>2. CASE FindPolicy(t) \/ ReadPolicy(t)
    <3>1. pc'[t] \in {"idle", "read_policy", AfterLoad(call[t].op)}
      BY <2>2 DEF FindPolicy, ReadPolicy, Goto, Fail, Return, TypeInv, TypeOK
    <3>2. AfterLoad(call[t].op) = "check"
      BY <1>3 DEF AfterLoad
    <3> QED
      BY <1>3, <3>1, <3>2 DEF Signing
  <2>3. CASE ~FindPolicy(t) /\ ~ReadPolicy(t)
    <3>1. pc[t] \in LoadedLabels /\ frame'[t].policy = frame[t].policy
      BY <2>1, <2>3, StepLoaded
    <3>2. CASE pc[t] = "check"
      <4>1. CheckPsbt(t)
        BY <2>1, <3>2, StepLabels
        DEF Step, Acquire, AcquirePoisoned, HealthCheck, FindPolicy, ReadPolicy, ReturnPolicy,
            SignInput, SignFails, SignDone, FindSigrate, ReadSigrate, CheckSigrate,
            FindOldSigrate, DestroyOldSigrate, CreateSigrate, FindOldPolicy,
            DestroyOldPolicy, CreatePolicy
      <4>2. pc'[t] # "idle"
        BY <1>3 DEF Signing
      <4>3. Passes(t)
        BY <4>1, <4>2 DEF CheckPsbt, Passes, Return, TypeInv, TypeOK
      <4> QED
        BY <1>0, <3>1, <4>3 DEF Passes
    <3>3. CASE pc[t] # "check"
      <4>1. Signing(t)
        BY <3>1, <3>3 DEF Signing, LoadedLabels, SigrateLabels
      <4>2. Passes(t)
        BY <1>3, <4>1 DEF LoadedInv
      <4> QED
        BY <1>0, <3>1, <4>2 DEF Passes
    <3> QED
      BY <3>2, <3>3
  <2> QED
    BY <2>2, <2>3
<1> QED
  BY <1>0, <1>1, <1>2, <1>3 DEF LoadedInv, Signing, LoadedLabels, SigrateLabels

\* Every step keeps what the calls have loaded: a crash ends calls, a new call
\* has loaded nothing.
LEMMA NextLoaded ==
  ASSUME OneSession
  PROVE  TypeInv /\ MutexInv /\ ObjectInv /\ LoadedInv /\ [Next]_vars => LoadedInv'
<1> SUFFICES ASSUME TypeInv, MutexInv, ObjectInv, LoadedInv, [Next]_vars PROVE LoadedInv'
  OBVIOUS
<1>0. /\ pc \in [Thread -> Labels] /\ frame \in [Thread -> FrameType]
      /\ call \in [Thread -> CallType]
  BY DEF TypeInv, TypeOK, FrameType, CallType
<1>q. ASSUME UNCHANGED policyObj,
             \A u \in Thread :
               \/ pc'[u] \in {"idle", "lock"}
               \/ pc'[u] = pc[u] /\ frame'[u] = frame[u] /\ call'[u] = call[u]
      PROVE  LoadedInv'
  <2>1. UNCHANGED Live(policyObj)
    BY <1>q DEF Live
  <2>2. UNCHANGED StoredPolicy
    BY <1>q, <2>1 DEF StoredPolicy
  <2>3. ASSUME NEW u \in Thread
        PROVE  /\ pc'[u] \in LoadedLabels => frame'[u].policy = StoredPolicy'
               /\ Signing(u)' /\ call'[u].op = "sign_transaction" => Passes(u)'
    BY <1>q, <2>2, <2>3 DEF LoadedInv, LoadedLabels, SigrateLabels, Signing, Passes
  <2> QED
    BY <2>3 DEF LoadedInv
<1>1. ASSUME NEW t \in Thread, Begin(t) PROVE LoadedInv'
  <2>1. UNCHANGED policyObj
    BY <1>1 DEF Begin, TokenUnchanged
  <2>2. /\ pc'[t] = "lock"
        /\ \A u \in Thread \ {t} : pc'[u] = pc[u] /\ frame'[u] = frame[u] /\ call'[u] = call[u]
    BY <1>0, <1>1 DEF Begin, Goto
  <2> QED
    BY <1>q, <2>1, <2>2
<1>2. ASSUME NEW t \in Thread, Step(t) PROVE LoadedInv'
  BY <1>2, StepLoadedInv
<1>3. ASSUME NEW s \in Signer, Crash(s) PROVE LoadedInv'
  <2>1. UNCHANGED <<policyObj, call>>
    BY <1>3 DEF Crash, TokenUnchanged
  <2>2. \A u \in Thread : pc'[u] = "idle" \/ (pc'[u] = pc[u] /\ frame'[u] = frame[u])
    BY <1>3 DEF Crash
  <2> QED
    BY <1>q, <2>1, <2>2
<1>4. CASE UNCHANGED <<policyObj, pc, frame, call>>
  BY <1>4, <1>q
<1> QED
  BY <1>1, <1>2, <1>3, <1>4 DEF Next, Tick, ClockStepsBack, Finished, vars

\* In one session, what the calls hold of the policy in every reachable state.
LEMMA Loaded == ASSUME OneSession PROVE Spec => []LoadedInv
<1>1. Init => LoadedInv
  BY DEF Init, LoadedInv, LoadedLabels, SigrateLabels, Signing
<1>2. Thread # {}
  BY DEF OneSession
<1>3. Spec => []ObjectInv
  BY <1>2, Objects
<1> QED
  BY <1>1, <1>3, NextLoaded, Typed, Mutex, PTL DEF Spec

\* While a call of the session signs, no other is saving a policy.
LEMMA NobodySaves ==
  ASSUME OneSession, MutexInv, NEW t \in Thread, Signing(t)
  PROVE  PolicyInForce = StoredPolicy
<1>1. \A u \in Thread : ~Saving(u)
  BY OneInside DEF Signing, Saving, InSession
<1> QED
  BY <1>1 DEF PolicyInForce, StoredPolicy

\* With one session, from the first signature of a call to the save of its rate
\* entry the policy the call loaded is the policy in force, and what
\* sign_transaction signs passes it: whatever fails, crashes or panics, for any
\* number of clones and calls, and wherever the clock is set.
THEOREM SignedUnderPolicy == ASSUME OneSession PROVE Spec => []SignedUnderPolicyInForce
<1>1. MutexInv /\ LoadedInv => SignedUnderPolicyInForce
  <2> SUFFICES ASSUME MutexInv, LoadedInv, NEW t \in Thread, Signing(t)
               PROVE  /\ frame[t].policy = PolicyInForce
                      /\ call[t].op = "sign_transaction" =>
                           CheckAgainstPsbt(PolicyInForce, call[t].tx, Network) = "ok"
    BY DEF SignedUnderPolicyInForce
  <2>1. pc[t] \in LoadedLabels
    BY DEF Signing, LoadedLabels, SigrateLabels
  <2> QED
    BY <2>1, NobodySaves DEF LoadedInv, Passes
<1> QED
  BY <1>1, Loaded, Mutex, PTL

=============================================================================
