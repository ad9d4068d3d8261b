------------------------- MODULE SignerPolicyProofs -------------------------
(***************************************************************************)
(* Theorems about SignerPolicy for every value of its constants: any       *)
(* threads, signers, policies and transactions, any number of calls and    *)
(* crashes, any PKCS#11 function failing, a clock that may be set back.    *)
(***************************************************************************)
EXTENDS SignerPolicy, TLAPS

SigrateLabels == {"find_sigrate", "read_sigrate", "check_sigrate",
                  "find_old_sigrate", "save_sigrate"}

\* Where a call may stand, by the method that was called, and what it holds
\* there: TypeOK is not inductive without it, since save_policy writes the
\* argument of the call and save_sigrate the ceiling of the loaded policy.
PlaceOK ==
    \A t \in Thread :
        /\ call[t].op \in SignOps => call[t].tx \in Txs
        /\ call[t].op = "set_policy" => call[t].arg \in Policies
        /\ pc[t] \in {"find_policy", "read_policy"} => call[t].op \in SignOps \cup {"policy"}
        /\ pc[t] \in {"check", "sign"} \cup SigrateLabels => call[t].op \in SignOps
        /\ pc[t] \in {"find_old_policy", "save_policy"} => call[t].op = "set_policy"
        /\ pc[t] \in {"read_policy", "read_sigrate"} => frame[t].handle \in Handle
        /\ pc[t] \in SigrateLabels => Max(t) # None

TypeInv == TypeOK /\ PlaceOK

FrameType == [policy : AnyPolicy, handle : Handle \cup {None}, todo : SUBSET Handle,
              counter : SUBSET Entry, stamp : Nat, signed : Nat]

CallType == [op : AllOps, tx : Txs \cup {None}, arg : Policies \cup {None}, id : Nat]

-----------------------------------------------------------------------------
(* What the parts of the actions keep                                      *)

\* Every ceiling of a loaded policy is a number or unset.
LEMMA CeilingType ==
  ASSUME NEW p \in AnyPolicy
  PROVE  p.max_signatures_per_hour \in Nat \cup {None}
  BY ConstantsAssumption DEF AnyPolicy, IsPolicy, Permissive

\* The locals of a call start as a frame.
LEMMA EmptyFrameType == EmptyFrame \in FrameType
  BY DEF EmptyFrame, FrameType, AnyPolicy

\* The initial state has its types.
LEMMA InitType == Init => TypeInv
<1> SUFFICES ASSUME Init PROVE TypeInv
  OBVIOUS
<1>1. policyObj \in [Handle -> Policies \cup {Absent}]
  BY ConstantsAssumption DEF Init
<1>2. sigrateObj \in [Handle -> SigRateCounter \cup {Absent}]
  BY DEF Init
<1>3. /\ lock \in [Signer -> Thread \cup {NoThread}]
      /\ poisoned \in [Signer -> BOOLEAN]
      /\ pc \in [Thread -> Labels]
  BY DEF Init, Labels
<1>4. call \in [Thread -> CallType]
  BY DEF Init, CallType, AllOps, SignOps
<1>5. frame \in [Thread -> FrameType]
  BY EmptyFrameType DEF Init
<1>6. PlaceOK
  BY DEF Init, PlaceOK, SignOps, SigrateLabels
<1> QED
  BY <1>1, <1>2, <1>3, <1>4, <1>5, <1>6 DEF Init, TypeInv, TypeOK, FrameType, CallType

\* The control state of the calls has its types.
ControlOK == /\ lock \in [Signer -> Thread \cup {NoThread}]
             /\ pc \in [Thread -> Labels]
             /\ frame \in [Thread -> FrameType]
             /\ call \in [Thread -> CallType]
             /\ PlaceOK

\* A call that returns leaves the control state well typed.
LEMMA ReturnType ==
  ASSUME ControlOK, NEW t \in Thread, NEW how, Return(t, how), UNCHANGED call
  PROVE  ControlOK'
<1>1. frame'[t] \in FrameType /\ frame' \in [Thread -> FrameType]
  BY EmptyFrameType DEF ControlOK, Return, FrameType
<1>2. SignerOf[t] \in Signer
  BY ConstantsAssumption
<1>3. /\ lock' \in [Signer -> Thread \cup {NoThread}]
      /\ pc' \in [Thread -> Labels]
      /\ call' \in [Thread -> CallType]
  BY <1>2 DEF ControlOK, Return, Labels
<1>4. PlaceOK'
  <2> SUFFICES ASSUME NEW u \in Thread
               PROVE  pc'[u] = "idle" \/ (pc'[u] = pc[u] /\ frame'[u] = frame[u])
    BY DEF ControlOK, PlaceOK, Max, SigrateLabels
  <2> QED
    BY DEF ControlOK, Return
<1> QED
  BY <1>1, <1>3, <1>4 DEF ControlOK

\* A step of one call that stays inside the call leaves the control state well
\* typed if the place it moves to fits the call.
LEMMA MoveType ==
  ASSUME ControlOK, NEW t \in Thread, NEW label \in Labels, NEW f \in FrameType,
         pc' = [pc EXCEPT ![t] = label], frame' = [frame EXCEPT ![t] = f],
         UNCHANGED <<lock, call>>,
         label \in {"find_policy", "read_policy"} => call[t].op \in SignOps \cup {"policy"},
         label \in {"check", "sign"} \cup SigrateLabels => call[t].op \in SignOps,
         label \in {"find_old_policy", "save_policy"} => call[t].op = "set_policy",
         label \in {"read_policy", "read_sigrate"} => f.handle \in Handle,
         label \in SigrateLabels => f.policy.max_signatures_per_hour # None
  PROVE  ControlOK'
<1>1. /\ frame' \in [Thread -> FrameType]
      /\ lock' \in [Signer -> Thread \cup {NoThread}]
      /\ pc' \in [Thread -> Labels]
      /\ call' \in [Thread -> CallType]
  BY DEF ControlOK
<1>2. PlaceOK'
  <2>1. ASSUME NEW u \in Thread, u # t
        PROVE  pc'[u] = pc[u] /\ frame'[u] = frame[u]
    BY <2>1 DEF ControlOK
  <2>2. pc'[t] = label /\ frame'[t] = f
    BY DEF ControlOK
  <2> QED
    BY <2>1, <2>2 DEF ControlOK, PlaceOK, Max
<1> QED
  BY <1>1, <1>2 DEF ControlOK

\* Where load_policy goes on depends on the method that called it.
LEMMA AfterLoadPlace ==
  ASSUME NEW op \in SignOps \cup {"policy"}
  PROVE  /\ AfterLoad(op) \in {"return_policy", "check", "sign"}
         /\ AfterLoad(op) \in {"check", "sign"} => op \in SignOps
  BY DEF AfterLoad, SignOps

\* The steps of a thread keep the control state well typed.
LEMMA StepControl ==
  ASSUME TypeInv, NEW t \in Thread, Step(t)
  PROVE  ControlOK'
<1> DEFINE f == frame[t]
<1>0. /\ ControlOK /\ f \in FrameType /\ call[t] \in CallType
      /\ SignerOf[t] \in Signer
  BY ConstantsAssumption DEF TypeInv, TypeOK, ControlOK, FrameType, CallType
<1>r. ASSUME NEW how, Return(t, how), UNCHANGED call PROVE ControlOK'
  BY <1>0, <1>r, ReturnType
<1>l. ASSUME NEW function, Fail(t, function), UNCHANGED call PROVE ControlOK'
  BY <1>r, <1>l DEF Fail
<1>u. OthersUnchanged => UNCHANGED call
  BY DEF OthersUnchanged, EnvUnchanged
<1>s. ASSUME NEW label \in SigrateLabels, NEW g \in FrameType, pc[t] \in SigrateLabels,
             pc' = [pc EXCEPT ![t] = label], frame' = [frame EXCEPT ![t] = g],
             UNCHANGED <<lock, call>>, g.policy = f.policy,
             label = "read_sigrate" => g.handle \in Handle
      PROVE  ControlOK'
  <2>1. call[t].op \in SignOps /\ g.policy.max_signatures_per_hour # None
    BY <1>0, <1>s DEF ControlOK, PlaceOK, Max
  <2> QED
    BY <1>0, <1>s, <2>1, MoveType DEF SigrateLabels, Labels
<1>1. CASE Acquire(t)
  <2>1. /\ FirstLabel(call[t].op) \in {"find_old_policy", "token_info", "find_policy"}
        /\ FirstLabel(call[t].op) = "find_old_policy" => call[t].op = "set_policy"
        /\ FirstLabel(call[t].op) = "find_policy" => call[t].op \in SignOps \cup {"policy"}
    BY <1>0 DEF FirstLabel, CallType, AllOps
  <2>2. ASSUME NEW u \in Thread
        PROVE  (pc'[u] = pc[u] \/ (u = t /\ pc'[u] = FirstLabel(call[t].op)))
    BY <1>0, <1>1 DEF Acquire, ControlOK
  <2>3. PlaceOK'
    BY <1>0, <1>1, <1>u, <2>1, <2>2 DEF Acquire, ControlOK, PlaceOK, SigrateLabels, Max
  <2> QED
    BY <1>0, <1>1, <1>u, <2>1, <2>3 DEF Acquire, ControlOK, Labels
<1>2. CASE AcquirePoisoned(t)
  BY <1>2, <1>r, <1>u DEF AcquirePoisoned
<1>3. CASE HealthCheck(t)
  BY <1>3, <1>r, <1>l, <1>u DEF HealthCheck
<1>4. CASE FindPolicy(t)
  <2> DEFINE next == AfterLoad(call[t].op)
  <2>1. call[t].op \in SignOps \cup {"policy"}
    BY <1>0, <1>4 DEF FindPolicy, ControlOK, PlaceOK
  <2>2. ASSUME frame' = [frame EXCEPT ![t] = [f EXCEPT !.policy = Permissive]],
               Goto(t, next), UNCHANGED call
        PROVE  ControlOK'
    <3>1. [f EXCEPT !.policy = Permissive] \in FrameType
      BY <1>0 DEF FrameType, AnyPolicy
    <3> QED
      BY <1>0, <2>1, <2>2, <3>1, MoveType, AfterLoadPlace DEF Goto, Labels, SigrateLabels
  <2>3. ASSUME NEW h \in Live(policyObj), Goto(t, "read_policy"), UNCHANGED call,
               frame' = [frame EXCEPT ![t] = [f EXCEPT !.handle = h]]
        PROVE  ControlOK'
    <3>1. [f EXCEPT !.handle = h] \in FrameType /\ [f EXCEPT !.handle = h].handle \in Handle
      BY <1>0, <2>3 DEF FrameType, Live
    <3> QED
      BY <1>0, <2>1, <2>3, <3>1, MoveType DEF Goto, Labels, SigrateLabels
  <2> QED
    BY <1>4, <1>l, <1>u, <2>2, <2>3 DEF FindPolicy
<1>5. CASE ReadPolicy(t)
  <2> DEFINE next == AfterLoad(call[t].op)
             g    == [f EXCEPT !.policy = policyObj[f.handle], !.handle = None]
  <2>1. /\ call[t].op \in SignOps \cup {"policy"}
        /\ f.handle \in Handle
    BY <1>0, <1>5 DEF ReadPolicy, ControlOK, PlaceOK
  <2>2. ASSUME policyObj[f.handle] # Absent, frame' = [frame EXCEPT ![t] = g],
               Goto(t, next), UNCHANGED call
        PROVE  ControlOK'
    <3>1. policyObj[f.handle] \in AnyPolicy
      BY <2>1, <2>2 DEF TypeInv, TypeOK, AnyPolicy
    <3>2. g \in FrameType
      BY <1>0, <3>1 DEF FrameType
    <3> QED
      BY <1>0, <2>1, <2>2, <3>2, MoveType, AfterLoadPlace DEF Goto, Labels, SigrateLabels
  <2> QED
    BY <1>5, <1>r, <1>l, <1>u, <2>2 DEF ReadPolicy
<1>6. CASE ReturnPolicy(t)
  BY <1>6, <1>r, <1>u DEF ReturnPolicy
<1>7. CASE CheckPsbt(t)
  <2>1. UNCHANGED call /\ call[t].op \in SignOps
    BY <1>0, <1>7 DEF CheckPsbt, EnvUnchanged, ControlOK, PlaceOK
  <2>2. ASSUME Goto(t, "sign"), UNCHANGED frame PROVE ControlOK'
    <3>1. frame' = [frame EXCEPT ![t] = f]
      BY <1>0, <2>2 DEF ControlOK
    <3> QED
      BY <1>0, <2>1, <2>2, <3>1, MoveType DEF Goto, Labels, SigrateLabels
  <2> QED
    BY <1>7, <1>r, <2>1, <2>2 DEF CheckPsbt
<1>8. CASE SignInput(t)
  <2> DEFINE g == [f EXCEPT !.signed = @ + 1]
  <2>1. UNCHANGED call /\ call[t].op \in SignOps /\ g \in FrameType
    <3>1. UNCHANGED call
      BY <1>8 DEF SignInput, EnvUnchanged
    <3>2. call[t].op \in SignOps
      BY <1>0, <1>8 DEF SignInput, ControlOK, PlaceOK
    <3>3. f.signed + 1 \in Nat
      BY <1>0 DEF FrameType
    <3>4. g \in FrameType
      BY <1>0, <3>3 DEF FrameType
    <3> QED
      BY <3>1, <3>2, <3>4
  <2>2. pc' = [pc EXCEPT ![t] = "sign"] /\ frame' = [frame EXCEPT ![t] = g]
    BY <1>0, <1>8 DEF SignInput, ControlOK
  <2> QED
    BY <1>0, <1>8, <2>1, <2>2, MoveType DEF SignInput, Labels, SigrateLabels
<1>9. CASE SignFails(t)
  BY <1>9, <1>l, <1>u DEF SignFails
<1>10. CASE SignDone(t)
  <2>1. ASSUME NeedsRecord(t), Goto(t, "find_sigrate"), UNCHANGED <<frame, call>>
        PROVE  ControlOK'
    <3>1. frame' = [frame EXCEPT ![t] = f] /\ call[t].op \in SignOps
      BY <1>0, <1>10, <2>1 DEF SignDone, ControlOK, PlaceOK
    <3> QED
      BY <1>0, <2>1, <3>1, MoveType DEF Goto, Labels, NeedsRecord, Max
  <2> QED
    BY <1>10, <1>r, <1>u, <2>1 DEF SignDone
<1>11. CASE FindSigrate(t)
  <2>1. ASSUME NEW label \in {"check_sigrate", "read_sigrate"}, NEW g \in FrameType,
               frame' = [frame EXCEPT ![t] = g], Goto(t, label), UNCHANGED call,
               g.policy = f.policy, label = "read_sigrate" => g.handle \in Handle
        PROVE  ControlOK'
    BY <1>11, <1>s, <2>1 DEF FindSigrate, Goto, SigrateLabels
  <2>2. ASSUME frame' = [frame EXCEPT ![t] = [f EXCEPT !.counter = {}]],
               Goto(t, "check_sigrate"), UNCHANGED call
        PROVE  ControlOK'
    <3>1. [f EXCEPT !.counter = {}] \in FrameType /\ [f EXCEPT !.counter = {}].policy = f.policy
      BY <1>0 DEF FrameType
    <3> QED
      BY <2>1, <2>2, <3>1
  <2>3. ASSUME NEW h \in Live(sigrateObj), Goto(t, "read_sigrate"), UNCHANGED call,
               frame' = [frame EXCEPT ![t] = [f EXCEPT !.handle = h]]
        PROVE  ControlOK'
    <3> DEFINE g == [f EXCEPT !.handle = h]
    <3>1. g \in FrameType /\ g.policy = f.policy /\ g.handle \in Handle
      BY <1>0, <2>3 DEF FrameType, Live
    <3> QED
      BY <2>1, <2>3, <3>1
  <2> QED
    BY <1>11, <1>l, <1>u, <2>2, <2>3 DEF FindSigrate
<1>12. CASE ReadSigrate(t)
  <2> DEFINE g == [f EXCEPT !.counter = sigrateObj[f.handle].timestamps, !.handle = None]
  <2>1. ASSUME sigrateObj[f.handle] # Absent, frame' = [frame EXCEPT ![t] = g],
               Goto(t, "check_sigrate"), UNCHANGED call
        PROVE  ControlOK'
    <3>1. f.handle \in Handle
      BY <1>0, <1>12 DEF ReadSigrate, ControlOK, PlaceOK
    <3>2. sigrateObj[f.handle].timestamps \in SUBSET Entry
      BY <2>1, <3>1 DEF TypeInv, TypeOK, SigRateCounter
    <3>3. g \in FrameType /\ g.policy = f.policy
      BY <1>0, <3>2 DEF FrameType
    <3> QED
      BY <1>12, <1>s, <2>1, <3>3 DEF ReadSigrate, Goto, SigrateLabels
  <2> QED
    BY <1>12, <1>r, <1>l, <1>u, <2>1 DEF ReadSigrate
<1>13. CASE CheckSigrate(t)
  <2> DEFINE c == Prune(f.counter, now) \cup {EntryAt(t, now)}
             g == [f EXCEPT !.stamp = now, !.counter = c]
  <2>1. ASSUME frame' = [frame EXCEPT ![t] = g], Goto(t, "find_old_sigrate"), UNCHANGED call
        PROVE  ControlOK'
    <3>1. Max(t) \in Nat
      BY <1>0, <1>13, CeilingType DEF CheckSigrate, ControlOK, PlaceOK, SigrateLabels, Max, FrameType
    <3>2. now \in Nat /\ EntryAt(t, now) \in Entry
      BY <1>0, <3>1 DEF TypeInv, TypeOK, EntryAt, Entry, CallType
    <3>3. g \in FrameType /\ g.policy = f.policy
      BY <1>0, <3>2 DEF FrameType, Prune
    <3> QED
      BY <1>13, <1>s, <2>1, <3>3 DEF CheckSigrate, Goto, SigrateLabels
  <2> QED
    BY <1>13, <1>r, <1>u, <2>1 DEF CheckSigrate
<1>14. CASE FindOldSigrate(t)
  <2> DEFINE g == [f EXCEPT !.todo = OldObjects(sigrateObj)]
  <2>1. ASSUME frame' = [frame EXCEPT ![t] = g], Goto(t, "save_sigrate"), UNCHANGED call
        PROVE  ControlOK'
    <3>1. g \in FrameType /\ g.policy = f.policy
      BY <1>0 DEF FrameType, OldObjects, Live
    <3> QED
      BY <1>14, <1>s, <2>1, <3>1 DEF FindOldSigrate, Goto, SigrateLabels
  <2> QED
    BY <1>14, <1>l, <1>u, <2>1 DEF FindOldSigrate
<1>15. CASE DestroyOldSigrate(t)
  <2>1. UNCHANGED call
    BY <1>15 DEF DestroyOldSigrate, EnvUnchanged
  <2>2. PICK h \in f.todo :
          \/ UNCHANGED <<pc, lock>> /\ frame' = [frame EXCEPT ![t] = [f EXCEPT !.todo = @ \ {h}]]
          \/ Return(t, "Pkcs11")
    BY <1>15 DEF DestroyOldSigrate
  <2> DEFINE g == [f EXCEPT !.todo = @ \ {h}]
  <2>3. g \in FrameType /\ g.policy = f.policy /\ pc[t] = "save_sigrate"
    BY <1>0, <1>15 DEF FrameType, DestroyOldSigrate
  <2>4. ASSUME UNCHANGED <<pc, lock>>, frame' = [frame EXCEPT ![t] = g] PROVE ControlOK'
    <3>1. pc' = [pc EXCEPT ![t] = "save_sigrate"]
      BY <1>0, <2>3, <2>4 DEF ControlOK
    <3> QED
      BY <1>s, <2>1, <2>3, <2>4, <3>1 DEF SigrateLabels
  <2> QED
    BY <1>r, <2>1, <2>2, <2>4
<1>16. CASE CreateSigrate(t)
  BY <1>16, <1>r, <1>l DEF CreateSigrate, CreateFails, EnvUnchanged
<1>17. CASE FindOldPolicy(t)
  <2> DEFINE g == [f EXCEPT !.todo = OldObjects(policyObj)]
  <2>1. ASSUME frame' = [frame EXCEPT ![t] = g], Goto(t, "save_policy"), UNCHANGED call
        PROVE  ControlOK'
    <3>1. g \in FrameType /\ call[t].op = "set_policy"
      BY <1>0, <1>17 DEF FrameType, OldObjects, Live, ControlOK, PlaceOK, FindOldPolicy
    <3> QED
      BY <1>0, <2>1, <3>1, MoveType DEF Goto, Labels, SigrateLabels
  <2> QED
    BY <1>17, <1>l, <1>u, <2>1 DEF FindOldPolicy
<1>18. CASE DestroyOldPolicy(t)
  <2>1. UNCHANGED call
    BY <1>18 DEF DestroyOldPolicy, EnvUnchanged
  <2>2. PICK h \in f.todo :
          \/ UNCHANGED <<pc, lock>> /\ frame' = [frame EXCEPT ![t] = [f EXCEPT !.todo = @ \ {h}]]
          \/ Return(t, "Pkcs11")
    BY <1>18 DEF DestroyOldPolicy
  <2> DEFINE g == [f EXCEPT !.todo = @ \ {h}]
  <2>3. g \in FrameType /\ pc[t] = "save_policy" /\ call[t].op = "set_policy"
    BY <1>0, <1>18 DEF FrameType, DestroyOldPolicy, ControlOK, PlaceOK
  <2>4. ASSUME UNCHANGED <<pc, lock>>, frame' = [frame EXCEPT ![t] = g] PROVE ControlOK'
    <3>1. pc' = [pc EXCEPT ![t] = "save_policy"]
      BY <1>0, <2>3, <2>4 DEF ControlOK
    <3> QED
      BY <1>0, <2>1, <2>3, <2>4, <3>1, MoveType DEF Labels, SigrateLabels
  <2> QED
    BY <1>r, <2>1, <2>2, <2>4
<1>19. CASE CreatePolicy(t)
  BY <1>19, <1>r, <1>l DEF CreatePolicy, CreateFails, EnvUnchanged
<1> QED
  BY <1>1, <1>2, <1>3, <1>4, <1>5, <1>6, <1>7, <1>8, <1>9, <1>10, <1>11, <1>12, <1>13,
     <1>14, <1>15, <1>16, <1>17, <1>18, <1>19 DEF Step

\* The token, the clock and the histories have their types.
TokenOK == /\ now \in Nat /\ calls \in Nat /\ crashes \in Nat
           /\ policyObj \in [Handle -> Policies \cup {Absent}]
           /\ sigrateObj \in [Handle -> SigRateCounter \cup {Absent}]
           /\ poisoned \in [Signer -> BOOLEAN]
           /\ log \subseteq Entry
           /\ produced \subseteq [call : Nat, input : Nat]

\* Types and places are the control state and the token together.
LEMMA TypeParts == TypeInv <=> ControlOK /\ TokenOK
  BY DEF TypeInv, TypeOK, ControlOK, TokenOK, FrameType, CallType

\* The same after a step.
LEMMA NextTypeParts == ControlOK' /\ TokenOK' => TypeInv'
  BY DEF TypeInv, TypeOK, ControlOK, TokenOK, FrameType, CallType

\* The steps of a thread keep the token well typed.
LEMMA StepToken ==
  ASSUME TypeInv, NEW t \in Thread, Step(t)
  PROVE  TokenOK'
<1> DEFINE f == frame[t]
<1>0. /\ ControlOK /\ TokenOK /\ f \in FrameType /\ call[t] \in CallType
  BY TypeParts DEF ControlOK
<1>1. ASSUME OthersUnchanged PROVE TokenOK'
  BY <1>0, <1>1 DEF TokenOK, OthersUnchanged, TokenUnchanged, EnvUnchanged
<1>2. CASE CheckPsbt(t)
  BY <1>0, <1>2 DEF CheckPsbt, TokenOK, TokenUnchanged, EnvUnchanged
<1>3. CASE SignInput(t)
  BY <1>0, <1>3 DEF SignInput, TokenOK, TokenUnchanged, EnvUnchanged, FrameType, CallType
<1>4. CASE DestroyOldSigrate(t)
  <2>1. sigrateObj' \in [Handle -> SigRateCounter \cup {Absent}]
    BY <1>0, <1>4 DEF DestroyOldSigrate, TokenOK
  <2> QED
    BY <1>0, <1>4, <2>1 DEF DestroyOldSigrate, TokenOK, EnvUnchanged
<1>5. CASE CreateSigrate(t)
  <2>1. EntryAt(t, f.stamp) \in Entry
    <3>1. Max(t) \in Nat
      BY <1>0, <1>5, CeilingType DEF CreateSigrate, ControlOK, PlaceOK, SigrateLabels, Max, FrameType
    <3> QED
      BY <1>0, <3>1 DEF EntryAt, Entry, FrameType, CallType
  <2>2. log' \subseteq Entry
    BY <1>0, <1>5, <2>1 DEF CreateSigrate, TokenOK
  <2>3. [timestamps |-> f.counter] \in SigRateCounter
    BY <1>0 DEF FrameType, SigRateCounter
  <2>4. sigrateObj' \in [Handle -> SigRateCounter \cup {Absent}]
    BY <1>0, <1>5, <2>3 DEF CreateSigrate, TokenOK
  <2> QED
    BY <1>0, <1>5, <2>2, <2>4 DEF CreateSigrate, TokenOK, EnvUnchanged
<1>6. CASE DestroyOldPolicy(t)
  <2>1. policyObj' \in [Handle -> Policies \cup {Absent}]
    BY <1>0, <1>6 DEF DestroyOldPolicy, TokenOK
  <2> QED
    BY <1>0, <1>6, <2>1 DEF DestroyOldPolicy, TokenOK, EnvUnchanged
<1>7. CASE CreatePolicy(t)
  <2>1. call[t].arg \in Policies
    BY <1>0, <1>7 DEF CreatePolicy, ControlOK, PlaceOK
  <2>2. policyObj' \in [Handle -> Policies \cup {Absent}]
    BY <1>0, <1>7, <2>1 DEF CreatePolicy, TokenOK
  <2> QED
    BY <1>0, <1>7, <2>2 DEF CreatePolicy, TokenOK, EnvUnchanged
<1> QED
  BY <1>1, <1>2, <1>3, <1>4, <1>5, <1>6, <1>7
     DEF Step, Acquire, AcquirePoisoned, HealthCheck, FindPolicy, ReadPolicy, ReturnPolicy,
         SignFails, SignDone, FindSigrate, ReadSigrate, CheckSigrate, FindOldSigrate,
         FindOldPolicy

\* A caller that begins a call hands over a request of the method it calls.
LEMMA BeginType ==
  ASSUME TypeInv, NEW t \in Thread, Begin(t)
  PROVE  TypeInv'
<1>0. ControlOK /\ TokenOK
  BY TypeParts
<1>1. PICK r \in Requests :
         call' = [call EXCEPT ![t] = [op |-> r.op, tx |-> r.tx, arg |-> r.arg, id |-> calls + 1]]
  BY DEF Begin
<1> DEFINE c == [op |-> r.op, tx |-> r.tx, arg |-> r.arg, id |-> calls + 1]
<1>2. /\ c \in CallType
      /\ c.op \in SignOps => c.tx \in Txs
      /\ c.op = "set_policy" => c.arg \in Policies
  <2>1. calls + 1 \in Nat
    BY <1>0 DEF TokenOK
  <2> QED
    BY <1>1, <2>1, ConstantsAssumption DEF Requests, SignOps, AllOps, CallType
<1>3. /\ call' \in [Thread -> CallType]
      /\ frame' \in [Thread -> FrameType]
      /\ pc' \in [Thread -> Labels]
      /\ lock' \in [Signer -> Thread \cup {NoThread}]
  BY <1>0, <1>1, <1>2, EmptyFrameType DEF ControlOK, Begin, Goto, Labels
<1>4. PlaceOK'
  <2>1. pc'[t] = "lock" /\ call'[t] = c
    BY <1>0, <1>1 DEF Begin, Goto, ControlOK
  <2>2. ASSUME NEW u \in Thread, u # t
        PROVE  pc'[u] = pc[u] /\ frame'[u] = frame[u] /\ call'[u] = call[u]
    BY <1>0, <1>1, <2>2 DEF Begin, Goto, ControlOK
  <2> QED
    BY <1>0, <1>2, <2>1, <2>2 DEF ControlOK, PlaceOK, Max, SigrateLabels
<1>5. TokenOK'
  BY <1>0 DEF Begin, TokenOK, TokenUnchanged
<1> QED
  BY <1>3, <1>4, <1>5, NextTypeParts DEF ControlOK

\* A crash ends the calls of one signer.
LEMMA CrashType ==
  ASSUME TypeInv, NEW s \in Signer, Crash(s)
  PROVE  TypeInv'
<1>0. ControlOK /\ TokenOK
  BY TypeParts
<1>1. /\ pc' \in [Thread -> Labels]
      /\ frame' \in [Thread -> FrameType]
      /\ lock' \in [Signer -> Thread \cup {NoThread}]
      /\ call' \in [Thread -> CallType]
  BY <1>0, EmptyFrameType DEF Crash, ControlOK, Labels
<1>2. PlaceOK'
  <2>1. ASSUME NEW u \in Thread
        PROVE  /\ pc'[u] = "idle" \/ (pc'[u] = pc[u] /\ frame'[u] = frame[u])
               /\ call'[u] = call[u]
    BY DEF Crash
  <2> QED
    BY <1>0, <2>1 DEF ControlOK, PlaceOK, Max, SigrateLabels
<1>3. TokenOK'
  BY <1>0 DEF Crash, TokenOK, TokenUnchanged
<1> QED
  BY <1>1, <1>2, <1>3, NextTypeParts DEF ControlOK

\* Types and places are preserved by every step.
LEMMA NextType == TypeInv /\ [Next]_vars => TypeInv'
<1> SUFFICES ASSUME TypeInv, [Next]_vars PROVE TypeInv'
  OBVIOUS
<1>1. ASSUME NEW t \in Thread, Begin(t) PROVE TypeInv'
  BY <1>1, BeginType
<1>2. ASSUME NEW t \in Thread, Step(t) PROVE TypeInv'
  BY <1>2, StepControl, StepToken, NextTypeParts
<1>3. ASSUME NEW s \in Signer, Crash(s) PROVE TypeInv'
  BY <1>3, CrashType
<1>4. CASE Tick
  BY <1>4 DEF Tick, TypeInv, TypeOK, PlaceOK, Max
<1>5. CASE ClockStepsBack
  BY <1>5 DEF ClockStepsBack, TypeInv, TypeOK, PlaceOK, Max
<1>6. CASE UNCHANGED vars
  BY <1>6 DEF vars, TypeInv, TypeOK, PlaceOK, Max
<1> QED
  BY <1>1, <1>2, <1>3, <1>4, <1>5, <1>6 DEF Next, Finished

\* Every reachable state has its types and places.
LEMMA Typed == Spec => []TypeInv
<1>1. Init => TypeInv
  BY InitType
<1>2. TypeInv /\ [Next]_vars => TypeInv'
  BY NextType
<1> QED
  BY <1>1, <1>2, PTL DEF Spec

\* Types hold in every behaviour: in particular the ceiling compared with the
\* counter is a number, and what save_policy writes is a policy.
THEOREM TypeCorrect == Spec => []TypeOK
<1>1. TypeInv => TypeOK
  BY DEF TypeInv
<1> QED
  BY <1>1, Typed, PTL

-----------------------------------------------------------------------------
(* The mutex of a signer                                                   *)

MutexInv == SessionIsLocked /\ PoisonedIsDead

\* A call that returns and leaves the poison as it was leaves the mutex free.
LEMMA ReturnMutex ==
  ASSUME TypeInv, MutexInv, NEW t \in Thread, NEW how, Return(t, how),
         InSession(t) \/ lock[SignerOf[t]] = NoThread,
         \A s \in Signer : s # SignerOf[t] => poisoned'[s] = poisoned[s]
  PROVE  MutexInv'
<1>0. /\ SignerOf \in [Thread -> Signer] /\ NoThread \notin Thread
      /\ lock \in [Signer -> Thread \cup {NoThread}]
      /\ pc \in [Thread -> Labels]
  BY ConstantsAssumption DEF TypeInv, TypeOK
<1>1. /\ lock'[SignerOf[t]] = NoThread /\ pc'[t] = "idle"
      /\ \A s \in Signer : s # SignerOf[t] => lock'[s] = lock[s]
      /\ \A u \in Thread : u # t => pc'[u] = pc[u]
  BY <1>0 DEF Return
<1>2. ASSUME NEW u \in Thread PROVE InSession(u)' <=> lock'[SignerOf[u]] = u
  <2>1. CASE u = t
    BY <1>0, <1>1, <2>1 DEF InSession
  <2>2. CASE u # t /\ SignerOf[u] = SignerOf[t]
    <3>1. ~InSession(u)
      BY <1>0, <2>2 DEF MutexInv, SessionIsLocked
    <3> QED
      BY <1>0, <1>1, <2>2, <3>1 DEF InSession
  <2>3. CASE u # t /\ SignerOf[u] # SignerOf[t]
    BY <1>0, <1>1, <2>3 DEF InSession, MutexInv, SessionIsLocked
  <2> QED
    BY <2>1, <2>2, <2>3
<1>3. PoisonedIsDead'
  BY <1>0, <1>1 DEF MutexInv, PoisonedIsDead
<1> QED
  BY <1>2, <1>3 DEF MutexInv, SessionIsLocked

\* A step inside a call leaves the mutex alone.
LEMMA MoveMutex ==
  ASSUME TypeInv, MutexInv, NEW t \in Thread, UNCHANGED <<lock, poisoned>>, InSession(t),
         NEW label \in Labels \ {"idle", "lock"}, pc' = [pc EXCEPT ![t] = label]
  PROVE  MutexInv'
<1>1. \A u \in Thread : InSession(u)' <=> InSession(u)
  BY DEF InSession, TypeInv, TypeOK
<1> QED
  BY <1>1 DEF MutexInv, SessionIsLocked, PoisonedIsDead

\* The steps of a thread keep the mutex of its signer, and of the others.
LEMMA StepMutex ==
  ASSUME TypeInv, MutexInv, NEW t \in Thread, Step(t)
  PROVE  MutexInv'
<1>0. /\ pc \in [Thread -> Labels] /\ SignerOf[t] \in Signer
      /\ lock \in [Signer -> Thread \cup {NoThread}]
      /\ poisoned \in [Signer -> BOOLEAN]
  BY ConstantsAssumption DEF TypeInv, TypeOK
<1>u. OthersUnchanged => UNCHANGED poisoned
  BY DEF OthersUnchanged
<1>g. ASSUME InSession(t), UNCHANGED poisoned,
             NEW label \in Labels \ {"idle", "lock"}, Goto(t, label)
      PROVE  MutexInv'
  BY <1>g, MoveMutex DEF Goto
<1>s. ASSUME InSession(t), UNCHANGED <<poisoned, pc, lock>> PROVE MutexInv'
  BY <1>s DEF MutexInv, SessionIsLocked, PoisonedIsDead, InSession
<1>r. ASSUME InSession(t), UNCHANGED poisoned, NEW how, Return(t, how) PROVE MutexInv'
  BY <1>0, <1>r, ReturnMutex
<1>l. ASSUME InSession(t), UNCHANGED poisoned, NEW function, Fail(t, function) PROVE MutexInv'
  BY <1>r, <1>l DEF Fail
<1>a. call[t].op \in SignOps \cup {"policy"} => AfterLoad(call[t].op) \in Labels \ {"idle", "lock"}
  BY AfterLoadPlace DEF Labels
<1>1. CASE Acquire(t)
  <2>1. /\ lock' = [lock EXCEPT ![SignerOf[t]] = t]
        /\ pc' = [pc EXCEPT ![t] = FirstLabel(call[t].op)]
        /\ FirstLabel(call[t].op) \notin {"idle", "lock"}
        /\ lock[SignerOf[t]] = NoThread /\ ~poisoned[SignerOf[t]]
        /\ UNCHANGED poisoned
    BY <1>1, <1>u DEF Acquire, MayEnter, FirstLabel
  <2>2. ASSUME NEW u \in Thread PROVE InSession(u)' <=> lock'[SignerOf[u]] = u
    <3>1. SignerOf[u] \in Signer /\ u # NoThread
      BY ConstantsAssumption
    <3>2. CASE u = t
      BY <1>0, <2>1, <3>2 DEF InSession
    <3>3. CASE u # t
      BY <1>0, <2>1, <3>1, <3>3 DEF InSession, MutexInv, SessionIsLocked
    <3> QED
      BY <3>2, <3>3
  <2>3. PoisonedIsDead'
    BY <1>0, <2>1 DEF MutexInv, PoisonedIsDead
  <2> QED
    BY <2>2, <2>3 DEF MutexInv, SessionIsLocked
<1>2. CASE AcquirePoisoned(t)
  BY <1>2, <1>u, ReturnMutex DEF AcquirePoisoned
<1>3. CASE HealthCheck(t)
  BY <1>3, <1>r, <1>l, <1>u DEF HealthCheck, InSession
<1>4. CASE FindPolicy(t)
  BY <1>4, <1>a, <1>g, <1>l, <1>u DEF FindPolicy, InSession, Labels, TypeInv, PlaceOK
<1>5. CASE ReadPolicy(t)
  BY <1>5, <1>a, <1>g, <1>r, <1>l, <1>u DEF ReadPolicy, InSession, TypeInv, PlaceOK
<1>6. CASE ReturnPolicy(t)
  BY <1>6, <1>r, <1>u DEF ReturnPolicy, InSession
<1>7. CASE CheckPsbt(t)
  <2> DEFINE verdict == CheckAgainstPsbt(frame[t].policy, call[t].tx, Network)
  <2>1. /\ InSession(t)
        /\ \A s \in Signer : s # SignerOf[t] => poisoned'[s] = poisoned[s]
    BY <1>0, <1>7 DEF CheckPsbt, InSession
  <2>2. CASE verdict = "ok"
    <3>1. Goto(t, "sign") /\ poisoned' = poisoned
      BY <1>0, <1>7, <2>2 DEF CheckPsbt
    <3> QED
      BY <1>g, <2>1, <3>1 DEF Labels
  <2>3. CASE verdict # "ok"
    BY <1>7, <2>1, <2>3, ReturnMutex DEF CheckPsbt
  <2> QED
    BY <2>2, <2>3
<1>8. CASE SignInput(t)
  BY <1>8, <1>s DEF SignInput, InSession
<1>9. CASE SignFails(t)
  BY <1>9, <1>l, <1>u DEF SignFails, InSession
<1>10. CASE SignDone(t)
  BY <1>10, <1>g, <1>r, <1>u DEF SignDone, InSession, Labels
<1>11. CASE FindSigrate(t)
  BY <1>11, <1>g, <1>l, <1>u DEF FindSigrate, InSession, Labels
<1>12. CASE ReadSigrate(t)
  BY <1>12, <1>g, <1>r, <1>l, <1>u DEF ReadSigrate, InSession, Labels
<1>13. CASE CheckSigrate(t)
  BY <1>13, <1>g, <1>r, <1>u DEF CheckSigrate, InSession, Labels
<1>14. CASE FindOldSigrate(t)
  BY <1>14, <1>g, <1>l, <1>u DEF FindOldSigrate, InSession, Labels
<1>15. CASE DestroyOldSigrate(t)
  BY <1>15, <1>r, <1>s DEF DestroyOldSigrate, InSession
<1>16. CASE CreateSigrate(t)
  BY <1>16, <1>r, <1>l DEF CreateSigrate, CreateFails, InSession
<1>17. CASE FindOldPolicy(t)
  BY <1>17, <1>g, <1>l, <1>u DEF FindOldPolicy, InSession, Labels
<1>18. CASE DestroyOldPolicy(t)
  BY <1>18, <1>r, <1>s DEF DestroyOldPolicy, InSession
<1>19. CASE CreatePolicy(t)
  BY <1>19, <1>r, <1>l DEF CreatePolicy, CreateFails, InSession
<1> QED
  BY <1>1, <1>2, <1>3, <1>4, <1>5, <1>6, <1>7, <1>8, <1>9, <1>10, <1>11, <1>12, <1>13,
     <1>14, <1>15, <1>16, <1>17, <1>18, <1>19 DEF Step

\* The mutex invariant is preserved by every step.
LEMMA NextMutex == TypeInv /\ MutexInv /\ [Next]_vars => MutexInv'
<1> SUFFICES ASSUME TypeInv, MutexInv, [Next]_vars PROVE MutexInv'
  OBVIOUS
<1>0. /\ pc \in [Thread -> Labels] /\ SignerOf \in [Thread -> Signer]
      /\ lock \in [Signer -> Thread \cup {NoThread}]
      /\ poisoned \in [Signer -> BOOLEAN]
      /\ NoThread \notin Thread
  BY ConstantsAssumption DEF TypeInv, TypeOK
<1>1. ASSUME NEW t \in Thread, Begin(t) PROVE MutexInv'
  <2>1. UNCHANGED <<lock, poisoned>> /\ \A u \in Thread : InSession(u)' <=> InSession(u)
    BY <1>0, <1>1 DEF Begin, Goto, InSession
  <2> QED
    BY <2>1 DEF MutexInv, SessionIsLocked, PoisonedIsDead
<1>2. ASSUME NEW t \in Thread, Step(t) PROVE MutexInv'
  BY <1>2, StepMutex
<1>3. ASSUME NEW s \in Signer, Crash(s) PROVE MutexInv'
  <2>1. ASSUME NEW u \in Thread PROVE InSession(u)' <=> lock'[SignerOf[u]] = u
    <3>1. CASE SignerOf[u] = s
      BY <1>0, <1>3, <3>1 DEF Crash, InSession
    <3>2. CASE SignerOf[u] # s
      BY <1>0, <1>3, <3>2 DEF Crash, InSession, MutexInv, SessionIsLocked
    <3> QED
      BY <3>1, <3>2
  <2>2. PoisonedIsDead'
    BY <1>0, <1>3 DEF Crash, MutexInv, PoisonedIsDead
  <2> QED
    BY <2>1, <2>2 DEF MutexInv, SessionIsLocked
<1>4. CASE UNCHANGED <<pc, lock, poisoned>>
  BY <1>4 DEF MutexInv, SessionIsLocked, PoisonedIsDead, InSession
<1> QED
  BY <1>1, <1>2, <1>3, <1>4 DEF Next, Tick, ClockStepsBack, Finished, vars

\* The mutex invariant holds in every reachable state.
LEMMA Mutex == Spec => []MutexInv
<1>1. Init => MutexInv
  BY ConstantsAssumption
     DEF Init, MutexInv, SessionIsLocked, PoisonedIsDead, InSession
<1>2. TypeInv /\ MutexInv /\ [Next]_vars => MutexInv'
  BY NextMutex
<1> QED
  BY <1>1, <1>2, Typed, PTL DEF Spec

\* A session is used by the holder of its signer's mutex and by no other, and
\* a call that is over holds no mutex, however many clones, signers, failures,
\* panics and crashes there are.
THEOREM SessionSafe == Spec => []SessionIsLocked
<1>1. MutexInv => SessionIsLocked
  BY DEF MutexInv
<1> QED
  BY <1>1, Mutex, PTL

\* A signer whose mutex is poisoned never has a holder again: no clone
\* reaches the session after a panic.
THEOREM PoisonSafe == Spec => []PoisonedIsDead
<1>1. MutexInv => PoisonedIsDead
  BY DEF MutexInv
<1> QED
  BY <1>1, Mutex, PTL

=============================================================================
