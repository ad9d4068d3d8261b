-------------------------- MODULE KeyCeremonyProofs --------------------------
(***************************************************************************)
(* What holds of the ceremony for any threads, environments, deletions,    *)
(* tokens, handles and failures, and with crashes: sessions, logins and    *)
(* seeds; types; what load is bound to and what delete_key leaves; where   *)
(* points can be told apart, the keys the signers hold, the descriptors    *)
(* they give and the fleets that are handed over.                          *)
(***************************************************************************)
EXTENDS KeyCeremony, EcPointProofs, FiniteSetTheorems

\* Where a builder has a session open for the member it works at.
Working == {"login", "seed", "derive_master", "destroy_seed", "read_master", "fp_master",
            "derive_path", "find_key", "read_key", "fp_key",
            "find_priv", "destroy_priv", "find_pub", "destroy_pub"}

Functions == /\ pc = [b \in Builder |-> pc[b]]
             /\ fleet = [b \in Builder |-> fleet[b]]
             /\ signers = [b \in Builder |-> signers[b]]
             /\ frame = [b \in Builder |-> frame[b]]
             /\ \A b \in Builder : "base" \in DOMAIN frame[b]
             /\ objs = [h \in Handle |-> objs[h]]
             /\ task = [b \in Builder |-> task[b]]
             /\ result = [b \in Builder |-> result[b]]

\* A step of b leaves the other builders where they are.
Alone(b) == \A c \in Builder \ {b} : /\ pc'[c] = pc[c] /\ fleet'[c] = fleet[c]
                                     /\ signers'[c] = signers[c] /\ frame'[c] = frame[c]
                                     /\ task'[c] = task[c] /\ result'[c] = result[c]

LEMMA StepAlone ==
  ASSUME Functions, NEW b \in Builder, Build(b) \/ CallDelete(b) \/ Step(b)
  PROVE  Functions' /\ Alone(b)
<1>r. ASSUME NEW outcome, ReadFails(b, outcome)
      PROVE  Functions' /\ Alone(b)
  BY <1>r DEF ReadFails, Abort, Goto, TokenUnchanged, BuildUnchanged, Functions, Alone, EmptyFrame
<1>1. CASE Build(b)
  BY <1>1 DEF Build, Start, Refuse, Goto, TokenUnchanged, Functions, Alone, EmptyFrame
<1>2. CASE CallDelete(b)
  BY <1>2 DEF CallDelete, Start, Goto, TokenUnchanged, Functions, Alone, EmptyFrame
<1>3. CASE ResolveSlot(b)
  BY <1>3 DEF ResolveSlot, Fail, Abort, Goto, TokenUnchanged, BuildUnchanged, Functions, Alone, EmptyFrame
<1>4. CASE OpenSession(b)
  BY <1>4 DEF OpenSession, Fail, Abort, Goto, TokenUnchanged, BuildUnchanged, Functions, Alone, EmptyFrame
<1>5. CASE Login(b)
  BY <1>5 DEF Login, Abort, Goto, TokenUnchanged, BuildUnchanged, Functions, Alone, EmptyFrame
<1>6. CASE CreateSeed(b)
  BY <1>6 DEF CreateSeed, Create, Fail, Abort, Goto, TokenUnchanged, BuildUnchanged, Functions, Alone, EmptyFrame
<1>7. CASE DeriveMaster(b)
  BY <1>7 DEF DeriveMaster, Create, Goto, BuildUnchanged, Functions, Alone, EmptyFrame
<1>8. CASE DestroySeed(b)
  BY <1>8 DEF DestroySeed, Cleanup, Abort, Goto, BuildUnchanged, Functions, Alone, EmptyFrame
<1>9. CASE ReadMaster(b)
  BY <1>r, <1>9 DEF ReadMaster, Goto, TokenUnchanged, BuildUnchanged, Functions, Alone
<1>10. CASE FingerprintMaster(b)
  BY <1>r, <1>10 DEF FingerprintMaster, Goto, TokenUnchanged, BuildUnchanged, Functions, Alone, EmptyFrame
<1>11. CASE DeriveChild(b)
  BY <1>11 DEF DeriveChild, Create, Fail, Abort, Goto, TokenUnchanged, BuildUnchanged, Functions, Alone, EmptyFrame
<1>0. ASSUME NEW key, NEW xpub, NEW fingerprint, AddSigner(b, key, xpub, fingerprint)
      PROVE  Functions' /\ Alone(b)
  BY <1>0 DEF AddSigner, Goto, TokenUnchanged, Functions, Alone, EmptyFrame
<1>12. CASE FinishDerive(b)
  BY <1>r, <1>0, <1>12 DEF FinishDerive
<1>13. CASE FindKey(b)
  BY <1>13 DEF FindKey, Abort, Goto, TokenUnchanged, BuildUnchanged, Functions, Alone, EmptyFrame
<1>14. CASE ReadKey(b)
  BY <1>r, <1>14 DEF ReadKey, Goto, TokenUnchanged, BuildUnchanged, Functions, Alone
<1>15. CASE FingerprintKey(b)
  BY <1>r, <1>0, <1>15 DEF FingerprintKey
<1>16. CASE FindPriv(b) \/ FindPub(b)
  BY <1>16 DEF FindPriv, FindPub, FindToDelete, Fail, Abort, Goto, TokenUnchanged, BuildUnchanged, Functions, Alone, EmptyFrame
<1>17. CASE DestroyKey(b) \/ DestroyDone(b)
  BY <1>17 DEF DestroyKey, DestroyDone, Abort, Goto, TokenUnchanged, BuildUnchanged, Functions, Alone, EmptyFrame
<1>18. CASE Wrap(b) \/ Release(b)
  BY <1>18 DEF Wrap, Release, Goto, TokenUnchanged, BuildUnchanged, Functions, Alone, EmptyFrame
<1>19. CASE CloseSession(b) \/ EndBuild(b)
  <2>1. CASE CloseSession(b)
    BY <2>1 DEF CloseSession, AfterClosing, BuildUnchanged, Functions, Alone
  <2>2. CASE EndBuild(b)
    BY <2>2 DEF EndBuild, Goto, TokenUnchanged, Functions, Alone
  <2> QED
    BY <1>19, <2>1, <2>2
<1> QED
  BY <1>1, <1>2, <1>3, <1>4, <1>5, <1>6, <1>7, <1>8, <1>9, <1>10, <1>11, <1>12, <1>13,
     <1>14, <1>15, <1>16, <1>17, <1>18, <1>19 DEF Step

-----------------------------------------------------------------------------
(* Sessions and logins                                                     *)

\* A builder at work has the session of its member open.
WorksInSession == \A b \in Builder : pc[b] \in Working => Session(b) \in sessions

LoginInv == /\ Functions
            /\ \A s \in sessions : s.builder \in Builder
            /\ WorksInSession
            /\ LoggedInWhileOpen

\* A step of b that opens and closes nothing, and begins no login.
QuietStep(b) ==
    /\ UNCHANGED <<sessions, loggedIn>>
    /\ pc'[b] # "login"
    /\ pc'[b] = "drop" \/ pc[b] \notin {"drop", "login"}
    /\ pc'[b] \in Working => pc[b] \in Working /\ UNCHANGED <<fleet, signers>>

\* The session of a builder that does not move stays the same.
LEMMA SameSession ==
  ASSUME NEW b \in Builder, fleet'[b] = fleet[b], signers'[b] = signers[b]
  PROVE  Session(b)' = Session(b)
  BY DEF Session, At, Current, TokenAt

LEMMA SessionFields ==
  ASSUME NEW b \in Builder
  PROVE  Session(b).builder = b
  BY DEF Session

\* What LoggedInWhileOpen asks for one session.
LoggedInFor(s) == (pc[s.builder] # "drop" /\ ~(pc[s.builder] = "login" /\ s = Session(s.builder)))
                    => s.token \in loggedIn

LEMMA QuietLogin ==
  ASSUME LoginInv, NEW b \in Builder, Functions', Alone(b), QuietStep(b)
  PROVE  LoginInv'
<1>1. ASSUME NEW c \in Builder, pc'[c] \in Working PROVE Session(c)' \in sessions'
  <2>1. pc[c] \in Working /\ fleet'[c] = fleet[c] /\ signers'[c] = signers[c]
    BY <1>1 DEF Alone, QuietStep
  <2> QED
    BY <2>1, SameSession DEF LoginInv, WorksInSession, QuietStep
<1>2. ASSUME NEW s \in sessions' PROVE LoggedInFor(s)'
  <2>1. s \in sessions /\ s.builder \in Builder /\ LoggedInFor(s)
    BY DEF QuietStep, LoginInv, LoggedInWhileOpen, LoggedInFor
  <2>2. CASE s.builder = b
    BY <2>1, <2>2 DEF QuietStep, LoggedInFor
  <2>3. CASE s.builder # b
    <3>1. /\ pc'[s.builder] = pc[s.builder] /\ fleet'[s.builder] = fleet[s.builder]
          /\ signers'[s.builder] = signers[s.builder]
      BY <2>1, <2>3 DEF Alone
    <3>2. Session(s.builder)' = Session(s.builder)
      BY <2>1, <3>1 DEF Session, At, Current, TokenAt
    <3> QED
      BY <2>1, <3>1, <3>2 DEF QuietStep, LoggedInFor
  <2> QED
    BY <2>2, <2>3
<1> QED
  BY <1>1, <1>2 DEF LoginInv, WorksInSession, LoggedInWhileOpen, LoggedInFor, QuietStep

LEMMA OpenLogin ==
  ASSUME LoginInv, NEW b \in Builder, Functions', Alone(b), pc[b] = "open", pc'[b] = "login",
         sessions' = sessions \cup {Session(b)}, UNCHANGED <<loggedIn, fleet, signers>>
  PROVE  LoginInv'
<1>0. \A c \in Builder : Session(c)' = Session(c)
  BY SameSession
<1>1. ASSUME NEW c \in Builder, pc'[c] \in Working PROVE Session(c)' \in sessions'
  <2>1. CASE c = b
    BY <1>0, <2>1
  <2>2. CASE c # b
    BY <1>0, <1>1, <2>2 DEF Alone, LoginInv, WorksInSession
  <2> QED
    BY <2>1, <2>2
<1>2. ASSUME NEW s \in sessions' PROVE s.builder \in Builder /\ LoggedInFor(s)'
  <2>1. CASE s = Session(b)
    BY <1>0, <2>1, SessionFields DEF LoggedInFor
  <2>2. CASE s \in sessions /\ s # Session(b)
    <3>1. s.builder \in Builder /\ LoggedInFor(s)
      BY <2>2 DEF LoginInv, LoggedInWhileOpen, LoggedInFor
    <3>2. CASE s.builder = b
      BY <3>1, <3>2 DEF LoggedInFor
    <3>3. CASE s.builder # b
      BY <1>0, <3>1, <3>3 DEF Alone, LoggedInFor
    <3> QED
      BY <3>1, <3>2, <3>3
  <2> QED
    BY <2>1, <2>2
<1> QED
  BY <1>1, <1>2 DEF LoginInv, WorksInSession, LoggedInWhileOpen, LoggedInFor

LEMMA LoginLogin ==
  ASSUME LoginInv, NEW b \in Builder, Functions', Alone(b), pc[b] = "login",
         loggedIn' = loggedIn \cup {Session(b).token},
         UNCHANGED <<sessions, fleet, signers>>
  PROVE  LoginInv'
<1>0. /\ \A c \in Builder : Session(c)' = Session(c)
      /\ Session(b) \in sessions
  BY SameSession DEF LoginInv, WorksInSession, Working
<1>1. ASSUME NEW c \in Builder, pc'[c] \in Working PROVE Session(c)' \in sessions'
  BY <1>0, <1>1 DEF Alone, LoginInv, WorksInSession
<1>2. ASSUME NEW s \in sessions' PROVE s.builder \in Builder /\ LoggedInFor(s)'
  <2>1. s \in sessions /\ s.builder \in Builder /\ LoggedInFor(s)
    BY DEF LoginInv, LoggedInWhileOpen, LoggedInFor
  <2>2. CASE s.builder = b
    BY <2>1, <2>2 DEF LoggedInFor
  <2>3. CASE s.builder # b
    BY <1>0, <2>1, <2>3 DEF Alone, LoggedInFor
  <2> QED
    BY <2>1, <2>2, <2>3
<1>3. \A t \in loggedIn' : \E s \in sessions' : s.token = t
  BY <1>0 DEF LoginInv, LoggedInWhileOpen
<1> QED
  BY <1>1, <1>2, <1>3 DEF LoginInv, WorksInSession, LoggedInWhileOpen, LoggedInFor

LEMMA CloseLogin ==
  ASSUME LoginInv, NEW b \in Builder, Functions', CloseSession(b)
  PROVE  LoginInv'
<1>1. /\ pc[b] = "drop" /\ UNCHANGED <<pc, fleet, signers>>
  BY DEF CloseSession, BuildUnchanged
<1>2. PICK closed \in sessions : closed.builder = b /\ AfterClosing({closed})
  BY DEF CloseSession
<1>3. \A c \in Builder : Session(c)' = Session(c)
  BY <1>1, SameSession
<1>4. ASSUME NEW c \in Builder, pc'[c] \in Working PROVE Session(c)' \in sessions'
  <2>1. c # b /\ Session(c) \in sessions
    BY <1>1, <1>4 DEF LoginInv, WorksInSession, Working
  <2>2. Session(c) # closed
    BY <1>2, <2>1, SessionFields
  <2> QED
    BY <1>2, <1>3, <2>1, <2>2 DEF AfterClosing
<1>5. ASSUME NEW s \in sessions' PROVE s.builder \in Builder /\ LoggedInFor(s)'
  <2>1. s \in sessions /\ s.builder \in Builder /\ LoggedInFor(s)
    BY <1>2 DEF LoginInv, LoggedInWhileOpen, LoggedInFor, AfterClosing
  <2>2. s.token \in loggedIn => s.token \in loggedIn'
    BY <1>2 DEF AfterClosing
  <2> QED
    BY <1>1, <1>3, <2>1, <2>2 DEF LoggedInFor
<1>6. \A t \in loggedIn' : \E s \in sessions' : s.token = t
  BY <1>2 DEF AfterClosing
<1> QED
  BY <1>4, <1>5, <1>6 DEF LoginInv, WorksInSession, LoggedInWhileOpen, LoggedInFor

\* EndBuild: b has no session left.
LEMMA EndLogin ==
  ASSUME LoginInv, NEW b \in Builder, Functions', Alone(b), EndBuild(b)
  PROVE  LoginInv'
<1>1. /\ pc'[b] = "idle" /\ UNCHANGED <<sessions, loggedIn>>
      /\ \A s \in sessions : s.builder # b
  BY DEF EndBuild, Goto, TokenUnchanged, LoginInv, Functions
<1>2. ASSUME NEW c \in Builder \ {b} PROVE pc'[c] = pc[c] /\ Session(c)' = Session(c)
  BY SameSession DEF Alone
<1>3. ASSUME NEW c \in Builder, pc'[c] \in Working PROVE Session(c)' \in sessions'
  BY <1>1, <1>2, <1>3 DEF LoginInv, WorksInSession, Working
<1>4. ASSUME NEW s \in sessions' PROVE s.builder \in Builder /\ LoggedInFor(s)'
  <2>1. s \in sessions /\ s.builder \in Builder \ {b} /\ LoggedInFor(s)
    BY <1>1 DEF LoginInv, LoggedInWhileOpen, LoggedInFor
  <2>2. /\ Session(s.builder)' = Session(s.builder)
        /\ pc'[s.builder] = pc[s.builder]
    BY <1>2, <2>1
  <2> QED
    BY <1>1, <2>1, <2>2 DEF LoggedInFor
<1> QED
  BY <1>1, <1>3, <1>4 DEF LoginInv, WorksInSession, LoggedInWhileOpen, LoggedInFor

\* Every other step of a builder is quiet.
LEMMA StepQuiet ==
  ASSUME LoginInv, NEW b \in Builder, Build(b) \/ CallDelete(b) \/ Step(b),
         ~OpenSession(b), ~Login(b), ~CloseSession(b), ~EndBuild(b)
  PROVE  QuietStep(b)
<1> USE DEF Goto, QuietStep, Working
<1>0. b \in DOMAIN pc
  BY DEF LoginInv, Functions
<1>1. CASE Build(b) \/ CallDelete(b)
  BY <1>0, <1>1 DEF Build, CallDelete, Start, Refuse, TokenUnchanged
<1>2. CASE ResolveSlot(b)
  BY <1>0, <1>2 DEF ResolveSlot, Fail, Abort, TokenUnchanged, BuildUnchanged
<1>3. CASE CreateSeed(b)
  BY <1>0, <1>3 DEF CreateSeed, Create, Fail, Abort, TokenUnchanged, BuildUnchanged
<1>4. CASE DeriveMaster(b)
  BY <1>0, <1>4 DEF DeriveMaster, Create, BuildUnchanged
<1>5. CASE DestroySeed(b)
  BY <1>0, <1>5 DEF DestroySeed, Abort, BuildUnchanged
<1>6. CASE ReadMaster(b) \/ FingerprintMaster(b)
  BY <1>0, <1>6 DEF ReadMaster, FingerprintMaster, ReadFails, Abort, TokenUnchanged, BuildUnchanged
<1>7. CASE DeriveChild(b)
  BY <1>0, <1>7 DEF DeriveChild, Create, Fail, Abort, TokenUnchanged, BuildUnchanged
<1>8. CASE FinishDerive(b)
  BY <1>0, <1>8 DEF FinishDerive, AddSigner, ReadFails, Abort, TokenUnchanged, BuildUnchanged
<1>9. CASE FindKey(b)
  BY <1>0, <1>9 DEF FindKey, Abort, TokenUnchanged, BuildUnchanged
<1>10. CASE ReadKey(b)
  BY <1>0, <1>10 DEF ReadKey, ReadFails, Abort, TokenUnchanged, BuildUnchanged
<1>11. CASE FingerprintKey(b)
  BY <1>0, <1>11 DEF FingerprintKey, AddSigner, ReadFails, Abort, TokenUnchanged, BuildUnchanged
<1>12. CASE FindPriv(b) \/ FindPub(b)
  BY <1>0, <1>12 DEF FindPriv, FindPub, FindToDelete, Fail, Abort, TokenUnchanged, BuildUnchanged
<1>13. CASE DestroyKey(b) \/ DestroyDone(b)
  BY <1>0, <1>13 DEF DestroyKey, DestroyDone, Abort, TokenUnchanged, BuildUnchanged
<1>14. CASE Wrap(b) \/ Release(b)
  BY <1>0, <1>14 DEF Wrap, Release, TokenUnchanged, BuildUnchanged
<1> QED
  BY <1>1, <1>2, <1>3, <1>4, <1>5, <1>6, <1>7, <1>8, <1>9, <1>10, <1>11, <1>12, <1>13,
     <1>14 DEF Step

\* An already logged-in token leaves the login as it is, and so does a login
\* that is refused, which ends the build.
LEMMA LoginCases ==
  ASSUME LoginInv, NEW b \in Builder, Login(b)
  PROVE  \/ QuietStep(b)
         \/ /\ pc[b] = "login" /\ UNCHANGED <<sessions, fleet, signers>>
            /\ loggedIn' = loggedIn \cup {Session(b).token}
<1>1. pc[b] = "login" /\ UNCHANGED <<fleet, signers>>
  BY DEF Login, BuildUnchanged
<1>2. PICK outcome \in LoginOutcomes(b) :
         \/ /\ Tolerated(outcome)
            /\ loggedIn' = loggedIn \cup {Session(b).token : o \in {outcome} \cap {"Ok"}}
            /\ UNCHANGED <<objs, sessions, frame, result>>
         \/ /\ ~Tolerated(outcome)
            /\ Abort(b, "LoginFailed")
            /\ TokenUnchanged
  BY DEF Login
<1>3. CASE ~Tolerated(outcome) /\ Abort(b, "LoginFailed") /\ TokenUnchanged
  BY <1>1, <1>3 DEF Abort, Goto, TokenUnchanged, QuietStep, LoginInv, Functions, Working
<1>4. CASE outcome = "Ok" /\ UNCHANGED sessions
            /\ loggedIn' = loggedIn \cup {Session(b).token : o \in {outcome} \cap {"Ok"}}
  BY <1>1, <1>4
<1>5. CASE outcome = "UserAlreadyLoggedIn" /\ UNCHANGED sessions
            /\ loggedIn' = loggedIn \cup {Session(b).token : o \in {outcome} \cap {"Ok"}}
  <2>1. Session(b).token \in loggedIn
    BY <1>5 DEF LoginOutcomes
  <2>2. {outcome} \cap {"Ok"} = {}
    BY <1>5
  <2>3. {Session(b).token : o \in {outcome} \cap {"Ok"}} = {}
    BY <2>2
  <2> QED
    BY <1>1, <1>5, <2>1, <2>3
<1> QED
  BY <1>2, <1>3, <1>4, <1>5 DEF Tolerated

LEMMA CrashLogin ==
  ASSUME LoginInv, Crash
  PROVE  LoginInv'
<1>1. /\ sessions' = {} /\ loggedIn' = {}
      /\ pc' = [b \in Builder |-> "idle"]
  BY DEF Crash, AfterClosing
<1>2. Functions'
  BY DEF Crash, AfterClosing, Functions, EmptyFrame
<1> QED
  BY <1>1, <1>2 DEF LoginInv, WorksInSession, LoggedInWhileOpen, Working

LEMMA LoginStep ==
  ASSUME LoginInv, [Next]_vars
  PROVE  LoginInv'
<1>1. ASSUME NEW b \in Builder, Build(b) \/ CallDelete(b) \/ Step(b) PROVE LoginInv'
  <2>1. Functions' /\ Alone(b)
    BY <1>1, StepAlone DEF LoginInv
  <2>2. CASE OpenSession(b)
    <3>1. CASE /\ pc[b] = "open" /\ pc'[b] = "login"
               /\ sessions' = sessions \cup {Session(b)}
               /\ UNCHANGED <<loggedIn, fleet, signers>>
      BY <2>1, <3>1, OpenLogin
    <3>2. CASE QuietStep(b)
      BY <2>1, <3>2, QuietLogin
    <3> QED
      BY <2>2, <3>1, <3>2 DEF OpenSession, Fail, Abort, Goto, TokenUnchanged, BuildUnchanged,
                              QuietStep, Working, LoginInv, Functions
  <2>3. CASE Login(b)
    BY <2>1, <2>3, LoginCases, QuietLogin, LoginLogin
  <2>4. CASE CloseSession(b)
    BY <2>1, <2>4, CloseLogin
  <2>5. CASE EndBuild(b)
    BY <2>1, <2>5, EndLogin
  <2>6. CASE ~OpenSession(b) /\ ~Login(b) /\ ~CloseSession(b) /\ ~EndBuild(b)
    BY <1>1, <2>1, <2>6, StepQuiet, QuietLogin
  <2> QED
    BY <2>2, <2>3, <2>4, <2>5, <2>6
<1>2. CASE Crash
  BY <1>2, CrashLogin
<1>3. CASE Finished \/ UNCHANGED vars
  BY <1>3 DEF Finished, vars, LoginInv, Functions, WorksInSession, LoggedInWhileOpen,
              Session, At, Current, TokenAt
<1> QED
  BY <1>1, <1>2, <1>3 DEF Next

LEMMA LoginInit == Init => LoginInv
  BY DEF Init, LoginInv, Functions, EmptyFrame, WorksInSession, LoggedInWhileOpen, Working

LEMMA Logins == Spec => []LoginInv
  BY LoginInit, LoginStep, PTL DEF Spec

\* Whichever thread logged in, and whichever closes its sessions or dies: a
\* session beyond its login is authenticated, and the login of a token ends
\* with its last session.
THEOREM LoginSafe == Spec => []LoggedInWhileOpen
<1>1. LoginInv => LoggedInWhileOpen
  BY DEF LoginInv
<1> QED
  BY Logins, <1>1, PTL

-----------------------------------------------------------------------------
(* Seeds                                                                   *)

SeedPcs == {"derive_master", "destroy_seed"}

\* Object h, if it carries a seed, goes with an open session; if the token has
\* not refused to destroy it, it is the one its builder is about to destroy.
Reaped(h) ==
    objs[h].class = "seed" =>
        /\ "refused" \in DOMAIN objs[h]
        /\ objs[h].owner \in sessions
        /\ \/ objs[h].refused
           \/ /\ pc[objs[h].owner.builder] \in SeedPcs
              /\ h = frame[objs[h].owner.builder].base

SeedInv == LoginInv /\ \A h \in Live : Reaped(h)

\* A step of a builder that has no seed at hand and creates none.
Seedless(b) ==
    /\ pc[b] \notin SeedPcs
    /\ sessions \subseteq sessions'
    /\ \A h \in Live' : objs'[h].class = "seed" => h \in Live /\ objs'[h] = objs[h]

LEMMA SeedlessReaped ==
  ASSUME SeedInv, NEW b \in Builder, Alone(b), Seedless(b)
  PROVE  \A h \in Live' : Reaped(h)'
<1> SUFFICES ASSUME NEW h \in Live', objs'[h].class = "seed" PROVE Reaped(h)'
  BY DEF Reaped
<1>1. h \in Live /\ objs'[h] = objs[h] /\ Reaped(h)
  BY DEF Seedless, SeedInv
<1>2. objs[h].owner \in sessions /\ objs[h].owner \in sessions'
  BY <1>1 DEF Reaped, Seedless
<1>3. objs[h].owner.builder \in Builder
  BY <1>2 DEF SeedInv, LoginInv
<1>4. CASE objs[h].refused
  BY <1>1, <1>2, <1>4 DEF Reaped
<1>5. CASE /\ pc[objs[h].owner.builder] \in SeedPcs
           /\ h = frame[objs[h].owner.builder].base
  <2>1. objs[h].owner.builder \in Builder \ {b}
    BY <1>3, <1>5 DEF Seedless
  <2> QED
    BY <1>1, <1>2, <1>5, <2>1 DEF Reaped, Alone
<1> QED
  BY <1>1, <1>4, <1>5 DEF Reaped

\* What the creation of an object other than a seed does to the seeds.
LEMMA CreateOther ==
  ASSUME SeedInv, NEW b \in Builder, NEW class, class # "seed", NEW name, NEW key_, NEW owner,
         Create(b, class, name, key_, owner)
  PROVE  \A h \in Live' : objs'[h].class = "seed" => h \in Live /\ objs'[h] = objs[h]
<1> SUFFICES ASSUME NEW h \in Live', objs'[h].class = "seed"
             PROVE  h \in Live /\ objs'[h] = objs[h]
  OBVIOUS
<1>1. h \in Handle /\ objs'[h] # NoObject
  BY DEF Live
<1>2. h # NewHandle
  BY <1>1 DEF Create, SeedInv, LoginInv, Functions
<1>3. objs'[h] = objs[h]
  BY <1>1, <1>2 DEF Create, SeedInv, LoginInv, Functions
<1> QED
  BY <1>1, <1>3 DEF Live

LEMMA CreateSeedReaped ==
  ASSUME SeedInv, NEW b \in Builder, Alone(b), CreateSeed(b)
  PROVE  \A h \in Live' : Reaped(h)'
<1>1. pc[b] = "seed" /\ Session(b) \in sessions
  BY DEF CreateSeed, SeedInv, LoginInv, WorksInSession, Working
<1>2. CASE TokenUnchanged
  BY <1>1, <1>2, SeedlessReaped DEF TokenUnchanged, Live, Seedless, SeedPcs
<1>3. CASE /\ Create(b, "seed", None, None, Session(b))
           /\ frame' = [frame EXCEPT ![b].base = NewHandle]
           /\ Goto(b, "derive_master")
           /\ UNCHANGED sessions
  <2> SUFFICES ASSUME NEW h \in Live', objs'[h].class = "seed" PROVE Reaped(h)'
    BY DEF Reaped
  <2>1. h \in Handle /\ objs'[h] # NoObject
    BY DEF Live
  <2>2. pc'[b] \in SeedPcs /\ frame'[b].base = NewHandle
    BY <1>3 DEF Goto, SeedPcs, SeedInv, LoginInv, Functions
  <2>3. CASE h = NewHandle
    <3>1. "refused" \in DOMAIN objs'[h] /\ objs'[h].owner = Session(b)
      BY <1>3, <2>1, <2>3 DEF Create, SeedInv, LoginInv, Functions
    <3> QED
      BY <1>1, <1>3, <2>2, <2>3, <3>1, SessionFields DEF Reaped
  <2>4. CASE h # NewHandle
    <3>1. objs'[h] = objs[h] /\ h \in Live /\ Reaped(h)
      BY <1>3, <2>1, <2>4 DEF Create, SeedInv, LoginInv, Functions, Live
    <3>2. objs[h].owner \in sessions' /\ objs[h].owner.builder \in Builder
      BY <1>3, <3>1 DEF Reaped, SeedInv, LoginInv
    <3>3. CASE objs[h].refused
      BY <3>1, <3>2, <3>3 DEF Reaped
    <3>4. CASE /\ pc[objs[h].owner.builder] \in SeedPcs
               /\ h = frame[objs[h].owner.builder].base
      BY <1>1, <3>1, <3>2, <3>4 DEF Reaped, Alone, SeedPcs
    <3> QED
      BY <3>1, <3>3, <3>4 DEF Reaped
  <2> QED
    BY <2>3, <2>4
<1> QED
  BY <1>2, <1>3 DEF CreateSeed, Fail

\* The seed stays at hand until its cleanup, whatever derive_key returns.
LEMMA DeriveMasterReaped ==
  ASSUME SeedInv, NEW b \in Builder, Alone(b), DeriveMaster(b)
  PROVE  \A h \in Live' : Reaped(h)'
<1>1. /\ pc'[b] \in SeedPcs /\ sessions' = sessions
      /\ frame'[b].base = frame[b].base
  BY DEF DeriveMaster, Goto, SeedPcs, SeedInv, LoginInv, Functions
<1>2. \A h \in Live' : objs'[h].class = "seed" => h \in Live /\ objs'[h] = objs[h]
  <2>1. CASE objs' = objs
    BY <2>1 DEF Live
  <2>2. CASE Create(b, "priv", MasterLabel(Current(b).label), Key(Root(b), <<>>), None)
    BY <2>2, CreateOther
  <2> QED
    BY <2>1, <2>2 DEF DeriveMaster
<1> SUFFICES ASSUME NEW h \in Live', objs'[h].class = "seed" PROVE Reaped(h)'
  BY DEF Reaped
<1>3. h \in Live /\ objs'[h] = objs[h] /\ Reaped(h)
  BY <1>2 DEF SeedInv
<1>4. objs[h].owner \in sessions /\ objs[h].owner.builder \in Builder
  BY <1>3 DEF Reaped, SeedInv, LoginInv
<1>5. CASE objs[h].owner.builder = b
  BY <1>1, <1>3, <1>4, <1>5 DEF Reaped
<1>6. CASE objs[h].owner.builder # b
  BY <1>1, <1>3, <1>4, <1>6 DEF Reaped, Alone
<1> QED
  BY <1>5, <1>6

LEMMA DestroySeedReaped ==
  ASSUME SeedInv, NEW b \in Builder, Alone(b), DestroySeed(b)
  PROVE  \A h \in Live' : Reaped(h)'
<1> SUFFICES ASSUME NEW h \in Live', objs'[h].class = "seed" PROVE Reaped(h)'
  BY DEF Reaped
<1>1. sessions' = sessions /\ h \in Handle /\ objs'[h] # NoObject
  BY DEF DestroySeed, Live
<1>2. CASE h = frame[b].base
  <2>1. objs' # [objs EXCEPT ![frame[b].base] = NoObject]
    BY <1>1, <1>2 DEF SeedInv, LoginInv, Functions
  <2>2. objs' = [objs EXCEPT ![frame[b].base].refused = TRUE]
    BY <2>1 DEF DestroySeed, Cleanup
  <2>3. objs'[h] = [objs[h] EXCEPT !.refused = TRUE]
    BY <1>1, <1>2, <2>2 DEF SeedInv, LoginInv, Functions
  <2>4. h \in Live
    BY <1>2, <2>1 DEF DestroySeed, Cleanup
  <2>5. objs'[h].class = objs[h].class /\ objs'[h].owner = objs[h].owner
        /\ DOMAIN objs'[h] = DOMAIN objs[h]
    BY <2>3
  <2>6. "refused" \in DOMAIN objs[h] /\ objs[h].owner \in sessions
    BY <2>4, <2>5 DEF Reaped, SeedInv
  <2>7. objs'[h].refused
    BY <2>3, <2>6
  <2> QED
    BY <1>1, <2>5, <2>6, <2>7 DEF Reaped
<1>3. CASE h # frame[b].base
  <2>1. objs'[h] = objs[h] /\ h \in Live /\ Reaped(h)
    BY <1>1, <1>3 DEF DestroySeed, Cleanup, SeedInv, LoginInv, Functions, Live
  <2>2. objs[h].owner \in sessions' /\ objs[h].owner.builder \in Builder
    BY <1>1, <2>1 DEF Reaped, SeedInv, LoginInv
  <2> QED
    BY <1>3, <2>1, <2>2 DEF Reaped, Alone
<1> QED
  BY <1>2, <1>3

\* Closing sessions destroys the objects they own, and no other.
LEMMA ClosingSeeds ==
  ASSUME SeedInv, NEW closed, AfterClosing(closed)
  PROVE  \A h \in Live' : /\ h \in Live /\ objs'[h] = objs[h]
                          /\ objs[h].class = "seed" => objs[h].owner \in sessions'
<1> SUFFICES ASSUME NEW h \in Live'
             PROVE  /\ h \in Live /\ objs'[h] = objs[h]
                    /\ objs[h].class = "seed" => objs[h].owner \in sessions'
  OBVIOUS
<1>1. h \in Handle /\ objs'[h] # NoObject
  BY DEF Live
<1>2. objs'[h] = IF h \in Live /\ objs[h].owner \in closed THEN NoObject ELSE objs[h]
  BY <1>1 DEF AfterClosing
<1>3. h \in Live /\ objs'[h] = objs[h] /\ objs[h].owner \notin closed
  BY <1>1, <1>2 DEF Live
<1> QED
  BY <1>3 DEF SeedInv, Reaped, AfterClosing

LEMMA CloseReaped ==
  ASSUME SeedInv, NEW b \in Builder, CloseSession(b)
  PROVE  \A h \in Live' : Reaped(h)'
<1>1. UNCHANGED <<pc, frame>>
  BY DEF CloseSession
<1>2. PICK s \in sessions : AfterClosing({s})
  BY DEF CloseSession
<1>3. ASSUME NEW h \in Live' PROVE Reaped(h)'
  <2>1. /\ h \in Live /\ objs'[h] = objs[h] /\ Reaped(h)
        /\ objs[h].class = "seed" => objs[h].owner \in sessions'
    BY <1>2, ClosingSeeds DEF SeedInv
  <2> QED
    BY <1>1, <2>1 DEF Reaped
<1> QED
  BY <1>3

LEMMA CrashReaped ==
  ASSUME SeedInv, Crash
  PROVE  \A h \in Live' : Reaped(h)'
<1>1. sessions' = {} /\ AfterClosing(sessions)
  BY DEF Crash, AfterClosing
<1> QED
  BY <1>1, ClosingSeeds DEF Reaped

\* Every other step of a builder has nothing to do with seeds.
LEMMA StepSeedless ==
  ASSUME SeedInv, NEW b \in Builder, Build(b) \/ CallDelete(b) \/ Step(b),
         ~CreateSeed(b), ~DeriveMaster(b), ~DestroySeed(b), ~CloseSession(b)
  PROVE  Seedless(b)
<1>1. CASE objs' = objs /\ sessions \subseteq sessions' /\ pc[b] \notin SeedPcs
  BY <1>1 DEF Seedless, Live
<1>2. CASE Build(b) \/ CallDelete(b)
  BY <1>1, <1>2 DEF Build, CallDelete, TokenUnchanged, SeedPcs
<1>3. CASE ResolveSlot(b) \/ OpenSession(b) \/ Login(b)
  BY <1>1, <1>3 DEF ResolveSlot, OpenSession, Login, Fail, TokenUnchanged, SeedPcs
<1>4. CASE ReadMaster(b) \/ FingerprintMaster(b) \/ FinishDerive(b)
  BY <1>1, <1>4 DEF ReadMaster, FingerprintMaster, FinishDerive, AddSigner, ReadFails,
                    TokenUnchanged, SeedPcs
<1>5. CASE FindKey(b) \/ ReadKey(b) \/ FingerprintKey(b)
  BY <1>1, <1>5 DEF FindKey, ReadKey, FingerprintKey, AddSigner, ReadFails,
                    TokenUnchanged, SeedPcs
<1>6. CASE FindPriv(b) \/ FindPub(b)
  BY <1>1, <1>6 DEF FindPriv, FindPub, FindToDelete, Fail, TokenUnchanged, SeedPcs
<1>7. CASE DestroyDone(b) \/ Wrap(b) \/ Release(b) \/ EndBuild(b)
  BY <1>1, <1>7 DEF DestroyDone, Wrap, Release, EndBuild, TokenUnchanged, SeedPcs
<1>8. CASE DeriveChild(b)
  <2>1. sessions' = sessions /\ pc[b] \notin SeedPcs
    BY <1>8 DEF DeriveChild, Fail, TokenUnchanged, SeedPcs
  <2>2. CASE Create(b, "priv", None, ChildKey(b), Session(b))
    BY <2>1, <2>2, CreateOther DEF Seedless
  <2> QED
    BY <1>1, <1>8, <2>1, <2>2 DEF DeriveChild, Fail, TokenUnchanged
<1>9. CASE DestroyKey(b)
  <2>1. sessions' = sessions /\ pc[b] \notin SeedPcs
    BY <1>9 DEF DestroyKey, TokenUnchanged, SeedPcs
  <2>2. ASSUME NEW g, objs' = [objs EXCEPT ![g] = NoObject] PROVE Seedless(b)
    BY <2>1, <2>2 DEF Seedless, Live, SeedInv, LoginInv, Functions
  <2> QED
    BY <1>1, <1>9, <2>1, <2>2 DEF DestroyKey, TokenUnchanged
<1> QED
  BY <1>2, <1>3, <1>4, <1>5, <1>6, <1>7, <1>8, <1>9 DEF Step

LEMMA SeedStep ==
  ASSUME SeedInv, [Next]_vars
  PROVE  SeedInv'
<1>1. LoginInv'
  BY LoginStep DEF SeedInv
<1>2. ASSUME NEW b \in Builder, Build(b) \/ CallDelete(b) \/ Step(b)
      PROVE  \A h \in Live' : Reaped(h)'
  <2>1. Alone(b)
    BY <1>2, StepAlone DEF SeedInv, LoginInv
  <2> QED
    BY <1>2, <2>1, CreateSeedReaped, DeriveMasterReaped, DestroySeedReaped, CloseReaped,
       StepSeedless, SeedlessReaped
<1>3. CASE Crash
  BY <1>1, <1>3, CrashReaped DEF SeedInv
<1>4. CASE Finished \/ UNCHANGED vars
  <2>1. UNCHANGED vars
    BY <1>4 DEF Finished
  <2> QED
    BY <1>1, <2>1 DEF vars, SeedInv, Live, Reaped
<1> QED
  BY <1>1, <1>2, <1>3, <1>4 DEF Next, SeedInv

LEMMA SeedInit == Init => SeedInv
<1> SUFFICES ASSUME Init PROVE \A h \in Live : Reaped(h)
  BY LoginInit DEF SeedInv
<1>1. PICK present \in Provisioned :
        objs = [h \in Handle |-> IF h <= Len(present) THEN present[h] ELSE NoObject]
  BY DEF Init
<1>2. ASSUME NEW h \in Live PROVE objs[h].class # "seed"
  <2>1. h \in Nat \ {0} /\ h <= Len(present) /\ objs[h] = present[h]
    BY <1>1, KeyCeremonyAssumption DEF Live
  <2>2. /\ present \in Seq({present[i] : i \in DOMAIN present})
        /\ \A i \in DOMAIN present : present[i].class # "seed"
    BY KeyCeremonyAssumption
  <2>3. h \in DOMAIN present
    BY <2>1, <2>2
  <2> QED
    BY <2>1, <2>2, <2>3
<1> QED
  BY <1>2 DEF Reaped

\* An object that carries a seed goes with its session, and is there only while
\* derive_master_key runs unless the token refused to destroy it: on every path,
\* with failures anywhere, other threads on the token, and crashes.
THEOREM SeedSafe == Spec => []SeedsReaped
<1>1. SeedInv => SeedsReaped
  BY DEF SeedInv, Reaped, SeedPcs, SeedsReaped
<1> QED
  BY SeedInit, SeedStep, <1>1, PTL DEF Spec

-----------------------------------------------------------------------------
(* What is read from an environment                                        *)

LEMMA MinLeast ==
  ASSUME NEW S, S \subseteq Nat, S # {}
  PROVE  Min(S) \in S /\ \A y \in S : Min(S) <= y
<1> DEFINE Below(x) == {y \in S : y < x}
           T == {Below(x) : x \in S}
<1>1. IsWellFoundedOn(StrictSubsetOrdering(S), FiniteSubsetsOf(S))
  BY FS_StrictSubsetOrderingWellFounded
<1>2. ASSUME NEW x \in S PROVE Below(x) \in FiniteSubsetsOf(S)
  <2>1. IsFiniteSet(Below(x))
    BY FS_BoundedSetOfNaturals
  <2> QED
    BY <2>1 DEF FiniteSubsetsOf
<1>3. PICK m \in T : \A B \in T : ~(<<B, m>> \in StrictSubsetOrdering(S))
  <2>1. T \subseteq FiniteSubsetsOf(S) /\ T # {}
    BY <1>2
  <2> HIDE DEF T
  <2> QED
    BY <1>1, <2>1, WFMin
<1>4. PICK x \in S : m = Below(x)
  BY <1>3
<1>5. ASSUME NEW y \in S, ~(x <= y) PROVE FALSE
  <2>1. y < x /\ x \in Nat /\ y \in Nat
    BY <1>5
  <2>2. Below(y) \subseteq Below(x) /\ y \in Below(x) /\ y \notin Below(y)
    BY <2>1, \A z \in S : z \in Nat /\ (z < y => z < x), ~(y < y)
  <2>3. <<Below(y), Below(x)>> \in StrictSubsetOrdering(S)
    BY <2>2, Below(x) \in SUBSET S, Below(y) \in SUBSET S DEF StrictSubsetOrdering
  <2> QED
    BY <1>3, <1>4, <2>3
<1>6. \A y \in S : x <= y
  BY <1>5
<1> QED
  BY <1>6 DEF Min

LEMMA MaxGreatest ==
  ASSUME NEW n \in Nat, NEW S, S \subseteq 0 .. n, S # {}
  PROVE  Max(S) \in S /\ \A y \in S : Max(S) >= y
<1> DEFINE T == {n - x : x \in S}
<1>1. T \subseteq Nat /\ T # {}
  <2>1. \A x \in S : n - x \in Nat
    OBVIOUS
  <2> QED
    BY <2>1
<1>2. Min(T) \in T /\ \A y \in T : Min(T) <= y
  <2> HIDE DEF T
  <2> QED
    BY <1>1, MinLeast
<1>3. PICK x \in S : Min(T) = n - x
  BY <1>2
<1>4. ASSUME NEW y \in S PROVE x >= y
  <2>1. n - x <= n - y
    BY <1>2, <1>3
  <2>2. x \in Int /\ y \in Int
    OBVIOUS
  <2> QED
    BY <2>1, <2>2
<1> QED
  BY <1>4 DEF Max

\* A new handle is one that is free.
LEMMA NewIsFree ==
  ASSUME Free # {}
  PROVE  NewHandle \in Free
  BY MinLeast, KeyCeremonyAssumption DEF NewHandle, Free

\* Count stops at the first member without a vendor.
LEMMA CountStops ==
  ASSUME NEW env, IsEnvironment(env)
  PROVE  /\ Count(env) \in 0 .. Len(env.member)
         /\ \A i \in 1 .. Count(env) : IsSet(env.member[i].VENDOR)
         /\ Count(env) = Len(env.member) \/ ~IsSet(env.member[Count(env) + 1].VENDOR)
<1> DEFINE len == Len(env.member)
           S == {n \in 0 .. len : \A i \in 1 .. n : IsSet(env.member[i].VENDOR)}
<1>1. len \in Nat
  BY DEF IsEnvironment
<1> HIDE DEF len
<1>2. S \subseteq 0 .. len /\ 0 \in S
  BY <1>1
<1>3. Max(S) \in S /\ \A y \in S : Max(S) >= y
  <2> HIDE DEF S
  <2> QED
    BY <1>1, <1>2, MaxGreatest
<1>4. Count(env) = Max(S)
  BY DEF Count, len
<1>5. Count(env) \in 0 .. len /\ \A i \in 1 .. Count(env) : IsSet(env.member[i].VENDOR)
  BY <1>3, <1>4
<1>6. ASSUME Count(env) # len, IsSet(env.member[Count(env) + 1].VENDOR) PROVE FALSE
  <2>1. Count(env) + 1 \in 0 .. len
    BY <1>1, <1>5, <1>6
  <2>2. \A i \in 1 .. Count(env) + 1 : i \in 1 .. Count(env) \/ i = Count(env) + 1
    BY <1>5
  <2>3. Count(env) + 1 \in S
    BY <1>5, <1>6, <2>1, <2>2
  <2> QED
    BY <1>3, <1>4, <1>5, <2>3
<1> QED
  BY <1>5, <1>6 DEF len

\* The elements of a sequence are where its type says.
LEMMA SeqElements ==
  ASSUME NEW S, NEW q \in Seq(S)
  PROVE  \A i \in 1 .. Len(q) : q[i] \in S
  OBVIOUS

\* The seed of hex digits is what they spell.
LEMMA SeedSpelled ==
  ASSUME NEW hex \in Seq(Digit \cup Plus .. Trail), \A k \in DOMAIN hex : hex[k] \in Digit,
         DecodeHex(hex).ok
  PROVE  DecodeHex(hex).value = Spelled(hex)
<1> DEFINE len == Len(hex) \div 2
           pair == [k \in 1 .. len |-> PairValue(hex[2 * k - 1], hex[2 * k])]
           bad == {k \in DOMAIN pair : ~pair[k].ok}
<1>1. \A n \in Nat : n \div 2 \in Nat /\ 2 * (n \div 2) <= n
  OBVIOUS
<1>2. Len(hex) \in Nat /\ DOMAIN hex = 1 .. Len(hex) /\ len \in Nat /\ 2 * len <= Len(hex)
  BY <1>1
<1>3. ASSUME NEW k \in 1 .. len
      PROVE  pair[k] = Ok(16 * hex[2 * k - 1] + hex[2 * k])
  <2> HIDE DEF len
  <2>1. 2 * k - 1 \in DOMAIN hex /\ 2 * k \in DOMAIN hex
    BY <1>2
  <2>2. hex[2 * k - 1] \in Digit /\ hex[2 * k] \in Digit
    BY <2>1
  <2> QED
    BY <2>2 DEF PairValue
<1>4. DOMAIN pair = 1 .. len
  OBVIOUS
<1>5. DecodeHex(hex) = IF Len(hex) % 2 = 1 THEN Err("InvalidConfig")
                       ELSE IF bad # {} THEN pair[Min(bad)]
                       ELSE Ok([k \in DOMAIN pair |-> pair[k].value])
  BY DEF DecodeHex
<1> HIDE DEF pair, len
<1>6. \A k \in 1 .. len : pair[k].ok /\ pair[k].value = 16 * hex[2 * k - 1] + hex[2 * k]
  <2>1. \A x : Ok(x).ok /\ Ok(x).value = x
    BY DEF Ok
  <2> QED
    BY <1>3, <2>1, Zenon
<1>7. bad = {}
  BY <1>4, <1>6
<1> HIDE DEF bad
<1>8. DecodeHex(hex) = Ok([k \in DOMAIN pair |-> pair[k].value])
  BY <1>5, <1>7 DEF Ok, Err
<1>9. DecodeHex(hex).value = [k \in 1 .. len |-> pair[k].value]
  BY <1>4, <1>8 DEF Ok
<1>10. [k \in 1 .. len |-> pair[k].value] = [k \in 1 .. len |-> 16 * hex[2 * k - 1] + hex[2 * k]]
  BY <1>6
<1> QED
  BY <1>9, <1>10 DEF Spelled, len

\* key is what the text of a _KEY asks for.
KeyAsked(text, key) ==
    /\ key.init = IF IsSet(text) /\ text.form = "load" THEN "load" ELSE "derive"
    /\ ~(IsSet(text) /\ text.form = "seed") => key.seed = <<>>
    /\ (IsSet(text) /\ text.form = "seed" /\ \A k \in DOMAIN text.hex : text.hex[k] \in Digit)
         => key.seed = Spelled(text.hex)

\* A key init that is read is the load or the derivation that was asked for.
LEMMA KeyInitRead ==
  ASSUME NEW text, (IsSet(text) /\ text.form = "seed") => text.hex \in Seq(Digit \cup Plus .. Trail)
  PROVE  /\ ParseKeyInit(text).ok =>
              LET key == ParseKeyInit(text).value
              IN  /\ key.init \in {"derive", "load"} /\ key.seed \in Seq(Int)
                  /\ KeyAsked(text, key)
         /\ ~ParseKeyInit(text).ok => ParseKeyInit(text).value \notin {"none", "ok"}
<1> DEFINE hex == text.hex
           len == Len(hex) \div 2
           pair == [k \in 1 .. len |-> PairValue(hex[2 * k - 1], hex[2 * k])]
           bad == {k \in DOMAIN pair : ~pair[k].ok}
<1>1. CASE ~(IsSet(text) /\ text.form = "seed")
  BY <1>1 DEF ParseKeyInit, KeyAsked, Ok, Err
<1>2. CASE IsSet(text) /\ text.form = "seed"
  <2>0. \A n \in Nat : n \div 2 \in Nat /\ 2 * (n \div 2) <= n
    OBVIOUS
  <2>1. hex \in Seq(0 .. 19) /\ Len(hex) \in Nat /\ len \in Nat /\ 2 * len <= Len(hex)
    <3>1. Digit \cup Plus .. Trail = 0 .. 19
      BY DEF Digit, Plus, Trail
    <3>2. hex \in Seq(0 .. 19)
      BY <1>2, <3>1
    <3> HIDE DEF hex
    <3> QED
      BY <2>0, <3>2
  <2>2. ASSUME NEW k \in 1 .. len
        PROVE  hex[2 * k - 1] \in 0 .. 19 /\ hex[2 * k] \in 0 .. 19
    <3> HIDE DEF hex, len
    <3>1. 2 * k - 1 \in 1 .. Len(hex) /\ 2 * k \in 1 .. Len(hex)
      BY <2>1
    <3>2. \A i \in 1 .. Len(hex) : hex[i] \in 0 .. 19
      BY <2>1, SeqElements
    <3> QED
      BY <3>1, <3>2
  <2>3. ASSUME NEW k \in 1 .. len
        PROVE  IF pair[k].ok THEN pair[k].value \in Int ELSE pair[k].value \notin {"none", "ok"}
    <3> HIDE DEF hex, len
    <3>1. pair[k] = PairValue(hex[2 * k - 1], hex[2 * k])
      OBVIOUS
    <3>2. ASSUME NEW hi \in 0 .. 19, NEW lo \in 0 .. 19
          PROVE  IF PairValue(hi, lo).ok THEN PairValue(hi, lo).value \in Int
                                         ELSE PairValue(hi, lo).value \notin {"none", "ok"}
      BY DEF PairValue, Ok, Err, Digit
    <3> HIDE DEF pair
    <3> QED
      BY <2>2, <3>1, <3>2
  <2>4. bad # {} => Min(bad) \in 1 .. len /\ ~pair[Min(bad)].ok
    <3>1. bad \subseteq 1 .. len /\ \A k \in bad : ~pair[k].ok
      OBVIOUS
    <3> HIDE DEF bad, pair, len
    <3>2. bad \subseteq Nat
      BY <2>1, <3>1
    <3> QED
      BY <3>1, <3>2, MinLeast
  <2>5. DecodeHex(hex) = IF Len(hex) % 2 = 1 THEN Err("InvalidConfig")
                         ELSE IF bad # {} THEN pair[Min(bad)]
                         ELSE Ok([k \in DOMAIN pair |-> pair[k].value])
    BY DEF DecodeHex
  <2>6. bad = {} => [k \in DOMAIN pair |-> pair[k].value] \in Seq(Int)
    <3>1. bad = {} => \A k \in 1 .. len : pair[k].value \in Int
      BY <2>3
    <3>2. DOMAIN pair = 1 .. len
      OBVIOUS
    <3> HIDE DEF pair, len, bad
    <3> QED
      BY <2>1, <3>1, <3>2
  <2> HIDE DEF bad, pair, len
  <2>7. IF DecodeHex(hex).ok THEN DecodeHex(hex).value \in Seq(Int)
                             ELSE DecodeHex(hex).value \notin {"none", "ok"}
    <3>1. CASE Len(hex) % 2 = 1
      BY <2>5, <3>1 DEF Err
    <3>2. CASE Len(hex) % 2 # 1 /\ bad # {}
      BY <2>3, <2>4, <2>5, <3>2
    <3>3. CASE Len(hex) % 2 # 1 /\ bad = {}
      BY <2>5, <2>6, <3>3 DEF Ok
    <3> QED
      BY <3>1, <3>2, <3>3
  <2>8. ParseKeyInit(text) = IF ~DecodeHex(hex).ok THEN DecodeHex(hex)
                             ELSE Ok([init |-> "derive", seed |-> DecodeHex(hex).value])
    BY <1>2 DEF ParseKeyInit
  <2>9. DecodeHex(hex).ok /\ (\A k \in DOMAIN hex : hex[k] \in Digit)
          => DecodeHex(hex).value = Spelled(hex)
    BY <1>2, SeedSpelled
  <2> HIDE DEF hex
  <2>10. ParseKeyInit(text).ok => /\ ParseKeyInit(text).value.init = "derive"
                                  /\ ParseKeyInit(text).value.seed = DecodeHex(hex).value
                                  /\ DecodeHex(hex).ok
    BY <2>8 DEF Ok
  <2>11. ASSUME ParseKeyInit(text).ok
         PROVE  KeyAsked(text, ParseKeyInit(text).value)
    <3>1. ParseKeyInit(text).value.init = "derive"
      BY <2>10, <2>11
    <3>2. (\A k \in DOMAIN hex : hex[k] \in Digit)
              => ParseKeyInit(text).value.seed = Spelled(hex)
      BY <2>9, <2>10, <2>11
    <3>3. text.form # "load"
      BY <1>2
    <3> DEFINE key == ParseKeyInit(text).value
    <3>4. key.init = IF IsSet(text) /\ text.form = "load" THEN "load" ELSE "derive"
      BY <3>1, <3>3
    <3>5. ~(IsSet(text) /\ text.form = "seed") => key.seed = <<>>
      BY <1>2
    <3>6. (\A k \in DOMAIN text.hex : text.hex[k] \in Digit) => key.seed = Spelled(text.hex)
      BY <3>2 DEF hex
    <3> QED
      BY <3>4, <3>5, <3>6 DEF KeyAsked
  <2>12. ASSUME ~ParseKeyInit(text).ok
         PROVE  ParseKeyInit(text).value \notin {"none", "ok"}
    BY <2>7, <2>8, <2>12 DEF Ok
  <2>13. ParseKeyInit(text).ok => ParseKeyInit(text).value.seed \in Seq(Int)
    BY <2>7, <2>10
  <2> QED
    BY <2>10, <2>11, <2>12, <2>13
<1> QED
  BY <1>1, <1>2

\* What is known of a member that was read.
MemberOK(m) == /\ m.init \in {"derive", "load", "delete"}
               /\ TokenAt(m) \in Token \cup {None}
               /\ None \notin {PrivLabel(m.label), PubLabel(m.label)}
               /\ m.init = "derive" => m.seed \in Seq(Int) /\ m.path \in Seq(ChildNumber)

LEMMA MemberRead ==
  ASSUME NEW e \in DOMAIN Envs, NEW i \in DOMAIN Envs[e].member, NEW network,
         MemberError(Envs[e].member[i]) = "none"
  PROVE  LET v == Envs[e].member[i]
             m == Member(v, network)
         IN  /\ MemberOK(m)
             /\ m.init # "delete"
             /\ KeyAsked(v.KEY, m)
<1> DEFINE v == Envs[e].member[i]
           m == Member(v, network)
<1>1. /\ \A text \in {v.LABEL, v.LIB, v.PIN, v.PATH} : IsSet(text)
      /\ ParseSlot(v).ok /\ v.PATH # Garbled
  BY DEF MemberError
<1>2. ParseKeyInit(v.KEY).ok => /\ ParseKeyInit(v.KEY).value.init \in {"derive", "load"}
                                /\ ParseKeyInit(v.KEY).value.seed \in Seq(Int)
                                /\ KeyAsked(v.KEY, ParseKeyInit(v.KEY).value)
  BY KeyCeremonyAssumption, KeyInitRead DEF IsEnvironment
<1>3. ParseKeyInit(v.KEY).ok
  <2>1. ~ParseKeyInit(v.KEY).ok => ParseKeyInit(v.KEY).value \notin {"none", "ok"}
    BY KeyCeremonyAssumption, KeyInitRead DEF IsEnvironment
  <2> QED
    BY <1>1, <2>1 DEF MemberError
<1>4. v.PATH \in Seq(ChildNumber)
  BY <1>1, KeyCeremonyAssumption DEF IsEnvironment, IsSet
<1>5. /\ <<v.LIB, ParseSlot(v).value>> \in DOMAIN TokenOf
      /\ None \notin {PrivLabel(v.LABEL), PubLabel(v.LABEL)}
  BY <1>1, KeyCeremonyAssumption
<1>6. /\ m.lib = v.LIB /\ m.slot = ParseSlot(v).value /\ m.label = v.LABEL /\ m.path = v.PATH
      /\ m.init = ParseKeyInit(v.KEY).value.init /\ m.seed = ParseKeyInit(v.KEY).value.seed
  BY DEF Member
<1>7. TokenAt(m) \in Token \cup {None}
  BY <1>5, <1>6, KeyCeremonyAssumption DEF TokenAt
<1> HIDE DEF m, v
<1>8. m.init \in {"derive", "load"} /\ MemberOK(m)
  BY <1>2, <1>3, <1>4, <1>5, <1>6, <1>7 DEF MemberOK
<1>9. KeyAsked(v.KEY, m)
  BY <1>2, <1>3, <1>6 DEF KeyAsked
<1> QED
  BY <1>8, <1>9 DEF v, m

\* A fleet that is read is all of its environment, up to the first gap.
LEMMA FleetRead ==
  ASSUME NEW e \in DOMAIN Envs, FromEnv(Envs[e]).ok
  PROVE  LET env     == Envs[e]
             network == ParseNetwork(env.network)
         IN  /\ network.ok
             /\ Count(env) \in 1 .. Len(env.member)
             /\ \A i \in 1 .. Count(env) : MemberError(env.member[i]) = "none"
             /\ FromEnv(env).value =
                  [i \in 1 .. Count(env) |-> Member(env.member[i], network.value)]
<1> DEFINE env == Envs[e]
           bad == {i \in 1 .. Count(env) : MemberError(env.member[i]) # "none"}
<1>0. IsEnvironment(env)
  BY KeyCeremonyAssumption
<1>1. Count(env) \in 0 .. Len(env.member) /\ Len(env.member) \in Nat
  <2>1. Len(env.member) \in Nat
    BY <1>0 DEF IsEnvironment
  <2> QED
    BY <1>0, <2>1, CountStops
<1>2. ParseNetwork(env.network).ok /\ bad = {} /\ Count(env) # 0
  BY DEF FromEnv, Err
<1>3. FromEnv(env).value = [i \in 1 .. Count(env) |-> Member(env.member[i], ParseNetwork(env.network).value)]
  BY <1>2 DEF FromEnv, Ok
<1>4. Count(env) \in 1 .. Len(env.member)
  BY <1>1, <1>2
<1> QED
  BY <1>2, <1>3, <1>4

\* What a thread builds is the fleet of an environment, or a deletion.
Asked(name, members) ==
    \/ name \in DOMAIN Envs /\ FromEnv(Envs[name]).ok /\ members = FromEnv(Envs[name]).value
    \/ name \in DOMAIN Deletions /\ members = <<Deletions[name]>>

LEMMA AskedFor ==
  ASSUME NEW name, NEW members, Asked(name, members)
  PROVE  /\ Len(members) \in Nat \ {0} /\ DOMAIN members = 1 .. Len(members)
         /\ \A i \in DOMAIN members : MemberOK(members[i])
         /\ IF name \in DOMAIN Envs
            THEN \A i \in DOMAIN members : members[i].init # "delete"
            ELSE name \in DOMAIN Deletions /\ Len(members) = 1 /\ members[1].init = "delete"
<1>1. CASE name \in DOMAIN Deletions /\ members = <<Deletions[name]>>
  <2>1. MemberOK(Deletions[name]) /\ Deletions[name].init = "delete" /\ name \notin DOMAIN Envs
    BY <1>1, KeyCeremonyAssumption DEF MemberOK, TokenAt
  <2>2. Len(members) = 1 /\ DOMAIN members = 1 .. 1 /\ members[1] = Deletions[name]
    BY <1>1
  <2>3. \A i \in 1 .. 1 : i = 1
    OBVIOUS
  <2> QED
    BY <1>1, <2>1, <2>2, <2>3
<1>2. CASE name \in DOMAIN Envs /\ FromEnv(Envs[name]).ok /\ members = FromEnv(Envs[name]).value
  <2> DEFINE env == Envs[name]
             n == Count(env)
  <2>1. /\ n \in 1 .. Len(env.member) /\ Len(env.member) \in Nat
        /\ \A i \in 1 .. n : MemberError(env.member[i]) = "none"
        /\ members = [i \in 1 .. n |-> Member(env.member[i], ParseNetwork(env.network).value)]
    BY <1>2, FleetRead, KeyCeremonyAssumption DEF IsEnvironment
  <2>2. ASSUME NEW i \in 1 .. n PROVE MemberOK(members[i]) /\ members[i].init # "delete"
    <3>1. i \in DOMAIN env.member
      BY <1>2, <2>1, KeyCeremonyAssumption DEF IsEnvironment
    <3>2. members[i] = Member(env.member[i], ParseNetwork(env.network).value)
      BY <2>1
    <3>3. ASSUME NEW network
          PROVE  MemberOK(Member(env.member[i], network)) /\ Member(env.member[i], network).init # "delete"
      BY <1>2, <2>1, <3>1, MemberRead
    <3> QED
      BY <3>2, <3>3
  <2>3. DOMAIN members = 1 .. n /\ n \in Nat \ {0}
    BY <2>1
  <2>4. Len(members) = n
    <3> HIDE DEF n
    <3> QED
      BY <2>1, <2>3
  <2> HIDE DEF n, env
  <2> QED
    BY <1>2, <2>2, <2>3, <2>4
<1> QED
  BY <1>1, <1>2 DEF Asked

-----------------------------------------------------------------------------
(* Where a build stands                                                    *)

DerivePcs == {"seed", "derive_master", "destroy_seed", "read_master", "fp_master", "derive_path"}
LoadPcs   == {"find_key", "read_key", "fp_key"}
DeletePcs == {"find_priv", "destroy_priv", "find_pub", "destroy_pub"}

IsSeq(s) == s \in Seq({s[i] : i \in DOMAIN s})

LEMMA AppendSeq ==
  ASSUME NEW s, IsSeq(s), NEW x
  PROVE  /\ IsSeq(Append(s, x)) /\ Len(s) \in Nat /\ DOMAIN s = 1 .. Len(s)
         /\ Len(Append(s, x)) = Len(s) + 1
         /\ \A i \in 1 .. Len(s) : Append(s, x)[i] = s[i]
         /\ Append(s, x)[Len(s) + 1] = x
<1> DEFINE S == {s[i] : i \in DOMAIN s}
           t == Append(s, x)
<1>1. s \in Seq(S)
  BY DEF IsSeq
<1> HIDE DEF S
<1>2. /\ t \in Seq(S \cup {x}) /\ Len(s) \in Nat /\ DOMAIN s = 1 .. Len(s)
      /\ Len(t) = Len(s) + 1 /\ DOMAIN t = 1 .. Len(s) + 1
      /\ \A i \in 1 .. Len(s) : t[i] = s[i]
      /\ t[Len(s) + 1] = x
  BY <1>1
<1>3. t \in Seq({t[i] : i \in DOMAIN t})
  <2> HIDE DEF t
  <2>1. t = [i \in 1 .. Len(s) + 1 |-> t[i]] /\ Len(s) + 1 \in Nat
    BY <1>2
  <2>2. \A i \in 1 .. Len(s) + 1 : t[i] \in {t[j] : j \in DOMAIN t}
    BY <1>2
  <2> DEFINE R == {t[j] : j \in DOMAIN t}
             n == Len(s) + 1
  <2>3. t \in [1 .. n -> R] /\ n \in Nat
    BY <2>1, <2>2
  <2> HIDE DEF R, n
  <2>4. t \in Seq(R)
    BY <2>3
  <2> QED
    BY <2>4 DEF R
<1> QED
  BY <1>2, <1>3 DEF IsSeq

\* What b builds, how far it is, and the kind of the member it works at.
FleetOwn(b) ==
    /\ pc[b] \in {"idle", "resolve", "open", "held", "drop"} \cup Working
    /\ pc[b] = "idle" => fleet[b] = <<>>
    /\ IsSeq(signers[b])
    /\ \/ Asked(task[b], fleet[b])
       \/ /\ task[b] = None /\ fleet[b] = <<>> /\ signers[b] = <<>>
          /\ pc[b] \in {"idle", "drop"}
    /\ Len(signers[b]) <= Len(fleet[b])
    /\ pc[b] \in {"resolve", "open"} \cup Working => Len(signers[b]) < Len(fleet[b])
    /\ pc[b] = "held" => Len(signers[b]) = Len(fleet[b])
    /\ pc[b] \in {"open"} \cup Working => TokenAt(Current(b)) \in Token
    /\ pc[b] \in DerivePcs => Current(b).init = "derive"
    /\ pc[b] \in LoadPcs => Current(b).init = "load"
    /\ pc[b] \in DeletePcs => Current(b).init = "delete"
    /\ \A i \in DOMAIN signers[b] : fleet[b][i].init # "delete"

\* A step of b at the member it works at, or at the end of its build.
MovesOn(b) ==
    /\ task'[b] = task[b] /\ fleet'[b] = fleet[b] /\ signers'[b] = signers[b]
    /\ \/ pc'[b] = "drop" \/ pc'[b] = pc[b]
       \/ pc[b] \in DerivePcs /\ pc'[b] \in DerivePcs
       \/ pc[b] \in LoadPcs /\ pc'[b] \in LoadPcs
       \/ pc[b] \in DeletePcs /\ pc'[b] \in DeletePcs
       \/ pc[b] = "resolve" /\ pc'[b] = "open" /\ SlotFound(b)
       \/ pc[b] = "open" /\ pc'[b] = "login"
       \/ pc[b] = "login" /\ pc'[b] = FirstLabel(Current(b))

LEMMA FleetFacts ==
  ASSUME NEW b \in Builder, FleetOwn(b)
  PROVE  /\ Len(signers[b]) \in Nat /\ DOMAIN signers[b] = 1 .. Len(signers[b])
         /\ Len(fleet[b]) \in Nat /\ DOMAIN fleet[b] = 1 .. Len(fleet[b])
         /\ pc[b] # "idle" /\ pc[b] # "drop" => Asked(task[b], fleet[b])
         /\ Len(signers[b]) < Len(fleet[b]) => At(b) \in DOMAIN fleet[b] /\ MemberOK(Current(b))
<1>1. Len(signers[b]) \in Nat /\ DOMAIN signers[b] = 1 .. Len(signers[b])
  BY AppendSeq DEF FleetOwn
<1>2. CASE Asked(task[b], fleet[b])
  <2>1. /\ Len(fleet[b]) \in Nat \ {0} /\ DOMAIN fleet[b] = 1 .. Len(fleet[b])
        /\ \A i \in DOMAIN fleet[b] : MemberOK(fleet[b][i])
    BY <1>2, AskedFor
  <2>2. Len(signers[b]) < Len(fleet[b]) => At(b) \in DOMAIN fleet[b]
    BY <1>1, <2>1 DEF At
  <2> QED
    BY <1>1, <1>2, <2>1, <2>2 DEF Current
<1>3. CASE fleet[b] = <<>> /\ signers[b] = <<>> /\ pc[b] \in {"idle", "drop"}
  BY <1>1, <1>3
<1> QED
  BY <1>2, <1>3 DEF FleetOwn

LEMMA MoveFleet ==
  ASSUME NEW b \in Builder, FleetOwn(b), MovesOn(b)
  PROVE  FleetOwn(b)'
<1>1. /\ Current(b)' = Current(b)
      /\ task'[b] = task[b] /\ fleet'[b] = fleet[b] /\ signers'[b] = signers[b]
  BY DEF MovesOn, Current, At
<1>2. CASE pc'[b] = pc[b] \/ pc'[b] = "drop"
  BY <1>1, <1>2 DEF FleetOwn, Working, DerivePcs, LoadPcs, DeletePcs
<1>3. CASE \/ pc[b] \in DerivePcs /\ pc'[b] \in DerivePcs
           \/ pc[b] \in LoadPcs /\ pc'[b] \in LoadPcs
           \/ pc[b] \in DeletePcs /\ pc'[b] \in DeletePcs
  BY <1>1, <1>3 DEF FleetOwn, Working, DerivePcs, LoadPcs, DeletePcs
<1>4. CASE pc[b] = "resolve" /\ pc'[b] = "open" /\ SlotFound(b)
  <2>1. TokenAt(Current(b)) \in Token
    BY <1>4, FleetFacts DEF FleetOwn, MemberOK, SlotFound
  <2> QED
    BY <1>1, <1>4, <2>1 DEF FleetOwn, Working, DerivePcs, LoadPcs, DeletePcs
<1>5. CASE pc[b] = "open" /\ pc'[b] = "login"
  BY <1>1, <1>5 DEF FleetOwn, Working, DerivePcs, LoadPcs, DeletePcs
<1>6. CASE pc[b] = "login" /\ pc'[b] = FirstLabel(Current(b))
  <2>1. Current(b).init \in {"derive", "load", "delete"}
    BY <1>6, FleetFacts DEF FleetOwn, MemberOK, Working
  <2> QED
    BY <1>1, <1>6, <2>1 DEF FleetOwn, Working, DerivePcs, LoadPcs, DeletePcs, FirstLabel
<1> QED
  BY <1>2, <1>3, <1>4, <1>5, <1>6 DEF MovesOn

LEMMA AddFleet ==
  ASSUME Functions, NEW b \in Builder, FleetOwn(b), pc[b] \in DerivePcs \cup LoadPcs,
         NEW key, NEW xpub, NEW fingerprint, AddSigner(b, key, xpub, fingerprint)
  PROVE  /\ FleetOwn(b)'
         /\ task'[b] = task[b] /\ fleet'[b] = fleet[b]
         /\ signers'[b] = Append(signers[b], [key |-> key, xpub |-> xpub,
                                  fingerprint |-> fingerprint, patched |-> None])
         /\ pc'[b] \in {"resolve", "held"} /\ frame'[b] = EmptyFrame
<1> DEFINE signer == [key |-> key, xpub |-> xpub, fingerprint |-> fingerprint, patched |-> None]
<1>1. /\ task'[b] = task[b] /\ fleet'[b] = fleet[b]
      /\ signers'[b] = Append(signers[b], signer) /\ frame'[b] = EmptyFrame
      /\ pc'[b] = IF At(b) < Len(fleet[b]) THEN "resolve" ELSE "held"
  BY DEF AddSigner, Goto, Functions
<1>2. /\ IsSeq(signers'[b]) /\ Len(signers'[b]) = Len(signers[b]) + 1
      /\ Len(signers[b]) \in Nat /\ DOMAIN signers[b] = 1 .. Len(signers[b])
      /\ DOMAIN signers'[b] = 1 .. Len(signers'[b])
  <2>1. IsSeq(signers[b])
    BY DEF FleetOwn
  <2>2. IsSeq(Append(signers[b], signer))
    BY <2>1, AppendSeq
  <2> HIDE DEF signer
  <2> QED
    BY <1>1, <2>1, <2>2, AppendSeq
<1>3. /\ Len(fleet[b]) \in Nat /\ Len(signers[b]) < Len(fleet[b])
      /\ At(b) = Len(signers[b]) + 1 /\ Current(b).init # "delete"
      /\ Asked(task[b], fleet[b])
  BY FleetFacts DEF FleetOwn, DerivePcs, LoadPcs, Working, At
<1>4. \A i \in DOMAIN signers'[b] : fleet'[b][i].init # "delete"
  <2> SUFFICES ASSUME NEW i \in 1 .. Len(signers[b]) + 1 PROVE fleet[b][i].init # "delete"
    BY <1>1, <1>2
  <2>1. i \in DOMAIN signers[b] \/ i = At(b)
    BY <1>2, <1>3
  <2> QED
    BY <1>3, <2>1 DEF FleetOwn, Current
<1>5. pc'[b] = "resolve" => Len(signers'[b]) < Len(fleet'[b])
  BY <1>1, <1>2, <1>3
<1>6. pc'[b] = "held" => Len(signers'[b]) = Len(fleet'[b])
  BY <1>1, <1>2, <1>3
<1>7. Len(signers'[b]) <= Len(fleet'[b])
  BY <1>1, <1>2, <1>3
<1>8. pc'[b] \in {"resolve", "held"}
  BY <1>1
<1>9. FleetOwn(b)'
  <2> HIDE DEF signer
  <2>1. Asked(task'[b], fleet'[b])
    BY <1>1, <1>3
  <2> QED
    BY <1>2, <1>4, <1>5, <1>6, <1>7, <1>8, <2>1 DEF FleetOwn, DerivePcs, LoadPcs, DeletePcs, Working
<1> QED
  BY <1>1, <1>8, <1>9

LEMMA StartFleet ==
  ASSUME Functions, NEW b \in Builder, FleetOwn(b), Build(b) \/ CallDelete(b)
  PROVE  FleetOwn(b)' /\ signers'[b] = <<>>
<1>1. pc[b] = "idle" /\ signers[b] = <<>> /\ signers'[b] = <<>> /\ task[b] = None /\ fleet[b] = <<>>
  <2>1. pc[b] = "idle" /\ signers' = signers /\ fleet[b] = <<>>
    BY DEF Build, CallDelete, FleetOwn
  <2>2. ~Asked(task[b], fleet[b])
    BY <2>1, AskedFor
  <2> QED
    BY <2>1, <2>2 DEF FleetOwn
<1>2. IsSeq(<<>>)
  BY DEF IsSeq
<1>3. CASE /\ pc'[b] = "drop" /\ UNCHANGED <<task, fleet>>
  BY <1>1, <1>2, <1>3 DEF FleetOwn, Working, DerivePcs, LoadPcs, DeletePcs
<1>4. ASSUME NEW name, NEW members, Start(b, name, members), Asked(name, members)
      PROVE  FleetOwn(b)'
  <2>1. pc'[b] = "resolve" /\ Asked(task'[b], fleet'[b]) /\ Len(fleet'[b]) \in Nat \ {0}
    BY <1>4, AskedFor DEF Start, Goto, Functions
  <2> QED
    BY <1>1, <1>2, <2>1 DEF FleetOwn, Working, DerivePcs, LoadPcs, DeletePcs
<1>5. CASE Build(b)
  <2>1. PICK e \in DOMAIN Envs :
         LET members == FromEnv(Envs[e])
         IN  \/ members.ok /\ Start(b, e, members.value)
             \/ \E error : Refuse(b, error)
    BY <1>5 DEF Build
  <2>2. CASE FromEnv(Envs[e]).ok /\ Start(b, e, FromEnv(Envs[e]).value)
    <3>1. Asked(e, FromEnv(Envs[e]).value)
      BY <2>2 DEF Asked
    <3> QED
      BY <1>1, <1>4, <2>2, <3>1
  <2>3. CASE \E error : Refuse(b, error)
    BY <1>1, <1>3, <2>3 DEF Refuse, Goto, Functions
  <2> QED
    BY <2>1, <2>2, <2>3
<1>6. CASE CallDelete(b)
  <2>1. PICK d \in DOMAIN Deletions : Start(b, d, <<Deletions[d]>>)
    BY <1>6 DEF CallDelete
  <2>2. Asked(d, <<Deletions[d]>>)
    BY DEF Asked
  <2> QED
    BY <1>1, <1>4, <2>1, <2>2
<1> QED
  BY <1>1, <1>5, <1>6

LEMMA EndFleet ==
  ASSUME Functions, NEW b \in Builder, EndBuild(b)
  PROVE  FleetOwn(b)'
<1>1. /\ pc'[b] = "idle" /\ fleet'[b] = <<>> /\ signers'[b] = <<>> /\ task'[b] = None
  BY DEF EndBuild, Goto, Functions
<1> QED
  BY <1>1 DEF FleetOwn, IsSeq, Working, DerivePcs, LoadPcs, DeletePcs

\* The calls that add a signer.
Adds(b) == \E key, xpub, fingerprint : AddSigner(b, key, xpub, fingerprint)

\* Every other step of a builder goes on at its member, or ends its build.
LEMMA StepMoves ==
  ASSUME Functions, NEW b \in Builder, FleetOwn(b), Step(b), ~EndBuild(b), ~Wrap(b)
  PROVE  MovesOn(b) \/ (pc[b] \in DerivePcs \cup LoadPcs /\ Adds(b))
<1> USE DEF Goto, MovesOn, Functions, DerivePcs, LoadPcs, DeletePcs
<1>2. CASE ResolveSlot(b)
  BY <1>2 DEF ResolveSlot, Fail, Abort, BuildUnchanged
<1>3. CASE OpenSession(b)
  BY <1>3 DEF OpenSession, Fail, Abort, BuildUnchanged
<1>4. CASE Login(b)
  BY <1>4 DEF Login, Abort, BuildUnchanged
<1>5. CASE CreateSeed(b)
  BY <1>5 DEF CreateSeed, Fail, Abort, BuildUnchanged
<1>6. CASE DeriveMaster(b) \/ DestroySeed(b)
  BY <1>6 DEF DeriveMaster, DestroySeed, Abort, BuildUnchanged
<1>7. CASE ReadMaster(b) \/ FingerprintMaster(b)
  BY <1>7 DEF ReadMaster, FingerprintMaster, ReadFails, Abort, BuildUnchanged
<1>8. CASE DeriveChild(b)
  BY <1>8 DEF DeriveChild, Fail, Abort, BuildUnchanged
<1>9. CASE FinishDerive(b)
  BY <1>9 DEF FinishDerive, Adds, ReadFails, Abort, BuildUnchanged
<1>10. CASE FindKey(b)
  BY <1>10 DEF FindKey, Abort, BuildUnchanged
<1>11. CASE ReadKey(b)
  BY <1>11 DEF ReadKey, ReadFails, Abort, BuildUnchanged
<1>12. CASE FingerprintKey(b)
  BY <1>12 DEF FingerprintKey, Adds, ReadFails, Abort, BuildUnchanged
<1>13. CASE FindPriv(b) \/ FindPub(b)
  BY <1>13 DEF FindPriv, FindPub, FindToDelete, Fail, Abort, BuildUnchanged
<1>14. CASE DestroyKey(b) \/ DestroyDone(b)
  BY <1>14 DEF DestroyKey, DestroyDone, Abort, BuildUnchanged
<1>15. CASE Release(b) \/ CloseSession(b)
  BY <1>15 DEF Release, CloseSession, BuildUnchanged
<1> QED
  BY <1>2, <1>3, <1>4, <1>5, <1>6, <1>7, <1>8, <1>9, <1>10, <1>11, <1>12, <1>13, <1>14, <1>15
  DEF Step

\* Wrapping changes how the signers present themselves, not what they are.
LEMMA WrapFleet ==
  ASSUME Functions, NEW b \in Builder, FleetOwn(b), Wrap(b)
  PROVE  /\ FleetOwn(b)' /\ UNCHANGED <<pc, task, fleet>>
         /\ signers'[b] = [i \in DOMAIN signers[b] |-> [signers[b][i] EXCEPT !.patched =
                             PatchXpubNetwork(signers[b][i].xpub, fleet[b][i].network)]]
<1> DEFINE wrapped == [i \in DOMAIN signers[b] |-> [signers[b][i] EXCEPT !.patched =
                         PatchXpubNetwork(signers[b][i].xpub, fleet[b][i].network)]]
<1>1. pc[b] = "held" /\ UNCHANGED <<pc, task, fleet>> /\ signers'[b] = wrapped
  BY DEF Wrap, Functions
<1>2. Len(signers[b]) \in Nat /\ DOMAIN signers[b] = 1 .. Len(signers[b])
  BY FleetFacts
<1>3. DOMAIN wrapped = DOMAIN signers[b] /\ Len(wrapped) = Len(signers[b])
  <2>1. DOMAIN wrapped = 1 .. Len(signers[b])
    BY <1>2
  <2> HIDE DEF wrapped
  <2> QED
    BY <1>2, <2>1
<1>4. IsSeq(wrapped)
  <2> DEFINE R == {wrapped[i] : i \in DOMAIN wrapped}
             n == Len(signers[b])
  <2>1. /\ n \in Nat /\ \A i \in 1 .. n : wrapped[i] \in R
        /\ wrapped = [i \in 1 .. n |-> wrapped[i]]
    BY <1>2, <1>3
  <2> HIDE DEF R, n, wrapped
  <2>2. wrapped \in Seq(R)
    BY <2>1
  <2> QED
    BY <2>2 DEF IsSeq, R
<1> HIDE DEF wrapped
<1>5. FleetOwn(b)'
  BY <1>1, <1>3, <1>4 DEF FleetOwn, Working, DerivePcs, LoadPcs, DeletePcs
<1> QED
  BY <1>1, <1>5 DEF wrapped

\* The sessions of the signers that are built stay open until they are dropped.
OpenFor(b) == pc[b] # "drop" =>
    \A i \in DOMAIN signers[b] :
      [builder |-> b, member |-> i, token |-> TokenAt(fleet[b][i])] \in sessions

BuildInv == /\ LoginInv
            /\ sessions \subseteq [builder : Builder, member : Nat, token : Token]
            /\ \A b \in Builder : FleetOwn(b) /\ OpenFor(b)

LEMMA StepSessions ==
  ASSUME Functions, NEW b \in Builder, Build(b) \/ CallDelete(b) \/ Step(b)
  PROVE  \/ sessions' = sessions
         \/ pc[b] = "open" /\ sessions' = sessions \cup {Session(b)}
         \/ /\ CloseSession(b) /\ pc[b] = "drop" /\ pc'[b] = "drop" /\ sessions' \subseteq sessions
            /\ \A s \in sessions \ sessions' : s.builder = b
<1>1. CASE Build(b) \/ CallDelete(b)
  BY <1>1 DEF Build, CallDelete, TokenUnchanged
<1>2. CASE ResolveSlot(b) \/ OpenSession(b) \/ Login(b)
  BY <1>2 DEF ResolveSlot, OpenSession, Login, Fail, TokenUnchanged
<1>3. CASE CreateSeed(b) \/ DeriveMaster(b) \/ DestroySeed(b)
  BY <1>3 DEF CreateSeed, DeriveMaster, DestroySeed, Fail, TokenUnchanged
<1>4. CASE ReadMaster(b) \/ FingerprintMaster(b) \/ DeriveChild(b) \/ FinishDerive(b)
  BY <1>4 DEF ReadMaster, FingerprintMaster, DeriveChild, FinishDerive, AddSigner, ReadFails, Fail, TokenUnchanged
<1>5. CASE FindKey(b) \/ ReadKey(b) \/ FingerprintKey(b)
  BY <1>5 DEF FindKey, ReadKey, FingerprintKey, AddSigner, ReadFails, TokenUnchanged
<1>6. CASE FindPriv(b) \/ FindPub(b) \/ DestroyKey(b) \/ DestroyDone(b)
  BY <1>6 DEF FindPriv, FindPub, FindToDelete, DestroyKey, DestroyDone, Fail, TokenUnchanged
<1>7. CASE Wrap(b) \/ Release(b) \/ EndBuild(b)
  BY <1>7 DEF Wrap, Release, EndBuild, TokenUnchanged
<1>8. CASE CloseSession(b)
  BY <1>8 DEF CloseSession, AfterClosing
<1> QED
  BY <1>1, <1>2, <1>3, <1>4, <1>5, <1>6, <1>7, <1>8 DEF Step

LEMMA OwnBuild ==
  ASSUME BuildInv, NEW b \in Builder, Build(b) \/ CallDelete(b) \/ Step(b)
  PROVE  FleetOwn(b)' /\ OpenFor(b)'
<1>1. Functions /\ FleetOwn(b) /\ OpenFor(b) /\ WorksInSession
  BY DEF BuildInv, LoginInv
<1>2. pc'[b] # "drop" => sessions \subseteq sessions'
  BY <1>1, StepSessions
<1>3. CASE Build(b) \/ CallDelete(b)
  BY <1>1, <1>3, StartFleet DEF OpenFor
<1>4. CASE EndBuild(b)
  <2>1. signers'[b] = <<>>
    BY <1>1, <1>4 DEF EndBuild, Functions
  <2> QED
    BY <1>1, <1>4, <2>1, EndFleet DEF OpenFor
<1>5. CASE Wrap(b)
  <2>1. /\ FleetOwn(b)' /\ UNCHANGED <<pc, task, fleet>> /\ DOMAIN signers'[b] = DOMAIN signers[b]
    BY <1>1, <1>5, WrapFleet
  <2> QED
    BY <1>1, <1>2, <2>1 DEF OpenFor, TokenAt
<1>6. CASE MovesOn(b) /\ ~EndBuild(b)
  <2>1. FleetOwn(b)'
    BY <1>1, <1>6, MoveFleet
  <2>2. pc'[b] # "drop" => pc[b] # "drop" /\ fleet'[b] = fleet[b] /\ signers'[b] = signers[b]
    BY <1>6 DEF MovesOn, DerivePcs, LoadPcs, DeletePcs
  <2> QED
    BY <1>1, <1>2, <2>1, <2>2 DEF OpenFor, TokenAt
<1>7. CASE pc[b] \in DerivePcs \cup LoadPcs /\ Adds(b)
  <2>1. PICK key, xpub, fingerprint : AddSigner(b, key, xpub, fingerprint)
    BY <1>7 DEF Adds
  <2>2. /\ FleetOwn(b)' /\ fleet'[b] = fleet[b]
        /\ \E x : signers'[b] = Append(signers[b], x)
        /\ pc'[b] # "drop"
    BY <1>1, <1>7, <2>1, AddFleet
  <2>3. /\ Len(signers[b]) \in Nat /\ DOMAIN signers[b] = 1 .. Len(signers[b])
        /\ DOMAIN signers'[b] = 1 .. Len(signers[b]) + 1
    <3>1. IsSeq(signers[b]) /\ IsSeq(signers'[b])
      BY <1>1, <2>2 DEF FleetOwn
    <3>2. PICK x : signers'[b] = Append(signers[b], x)
      BY <2>2
    <3>3. Len(signers'[b]) = Len(signers[b]) + 1 /\ Len(signers[b]) \in Nat
      BY <3>1, <3>2, AppendSeq
    <3>4. DOMAIN signers'[b] = 1 .. Len(signers'[b]) /\ DOMAIN signers[b] = 1 .. Len(signers[b])
      BY <3>1 DEF IsSeq
    <3> QED
      BY <3>3, <3>4
  <2>4. Session(b) \in sessions /\ At(b) = Len(signers[b]) + 1 /\ pc[b] # "drop"
    BY <1>1, <1>7 DEF WorksInSession, DerivePcs, LoadPcs, Working, At
  <2>5. ASSUME NEW i \in DOMAIN signers'[b]
        PROVE  [builder |-> b, member |-> i, token |-> TokenAt(fleet'[b][i])] \in sessions'
    <3>1. CASE i = At(b)
      BY <1>2, <2>2, <2>4, <3>1 DEF Session, Current, TokenAt
    <3>2. CASE i \in DOMAIN signers[b]
      BY <1>1, <1>2, <2>2, <2>4, <3>2 DEF OpenFor, TokenAt
    <3> QED
      BY <2>3, <2>4, <3>1, <3>2
  <2> QED
    BY <2>2, <2>5 DEF OpenFor, TokenAt
<1> QED
  BY <1>1, <1>3, <1>4, <1>5, <1>6, <1>7, StepMoves

LEMMA BuildStep ==
  ASSUME BuildInv, [Next]_vars
  PROVE  BuildInv'
<1>0. LoginInv' /\ Functions
  BY LoginStep DEF BuildInv, LoginInv
<1>1. ASSUME NEW b \in Builder, Build(b) \/ CallDelete(b) \/ Step(b) PROVE BuildInv'
  <2>1. FleetOwn(b)' /\ OpenFor(b)'
    BY <1>1, OwnBuild
  <2>2. ASSUME NEW c \in Builder \ {b} PROVE FleetOwn(c)' /\ OpenFor(c)'
    <3>1. /\ pc'[c] = pc[c] /\ fleet'[c] = fleet[c] /\ signers'[c] = signers[c] /\ task'[c] = task[c]
      BY <1>0, <1>1, StepAlone DEF Alone
    <3>2. FleetOwn(c) /\ OpenFor(c)
      BY DEF BuildInv
    <3>3. FleetOwn(c)'
      BY <3>1, <3>2 DEF FleetOwn, Current, At, TokenAt
    <3>4. \A i : [builder |-> c, member |-> i, token |-> TokenAt(fleet[c][i])] \in sessions
               => [builder |-> c, member |-> i, token |-> TokenAt(fleet[c][i])] \in sessions'
      BY <1>0, <1>1, StepSessions
    <3> QED
      BY <3>1, <3>2, <3>3, <3>4 DEF OpenFor, TokenAt
  <2>3. sessions' \subseteq [builder : Builder, member : Nat, token : Token]
    <3>1. CASE sessions' \subseteq sessions
      BY <3>1 DEF BuildInv
    <3>2. CASE pc[b] = "open" /\ sessions' = sessions \cup {Session(b)}
      <4>1. FleetOwn(b) /\ Len(signers[b]) \in Nat /\ TokenAt(Current(b)) \in Token
        BY <3>2, FleetFacts DEF BuildInv, FleetOwn
      <4>2. Session(b) \in [builder : Builder, member : Nat, token : Token]
        BY <4>1 DEF Session, At
      <4> QED
        BY <3>2, <4>2 DEF BuildInv
    <3> QED
      BY <1>0, <1>1, <3>1, <3>2, StepSessions
  <2> QED
    BY <1>0, <2>1, <2>2, <2>3 DEF BuildInv
<1>2. CASE Crash
  <2>1. sessions' = {}
    BY <1>2 DEF Crash, AfterClosing
  <2>2. ASSUME NEW b \in Builder PROVE FleetOwn(b)' /\ OpenFor(b)'
    <3>1. pc'[b] = "idle" /\ fleet'[b] = <<>> /\ signers'[b] = <<>> /\ task'[b] = None
      BY <1>2 DEF Crash
    <3> QED
      BY <3>1 DEF FleetOwn, OpenFor, IsSeq, Working, DerivePcs, LoadPcs, DeletePcs
  <2> QED
    BY <1>0, <2>1, <2>2 DEF BuildInv
<1>3. CASE Finished \/ UNCHANGED vars
  <2>1. UNCHANGED vars
    BY <1>3 DEF Finished
  <2> QED
    <3>1. UNCHANGED <<pc, task, fleet, signers, sessions>>
      BY <2>1 DEF vars
    <3>2. ASSUME NEW b \in Builder, FleetOwn(b) PROVE FleetOwn(b)'
      BY <3>1, <3>2 DEF FleetOwn, Current, At, TokenAt
    <3>3. ASSUME NEW b \in Builder, OpenFor(b) PROVE OpenFor(b)'
      BY <3>1, <3>3 DEF OpenFor, TokenAt
    <3> QED
      BY <1>0, <3>1, <3>2, <3>3 DEF BuildInv
<1> QED
  BY <1>1, <1>2, <1>3 DEF Next

LEMMA BuildInit == Init => BuildInv
<1> SUFFICES ASSUME Init PROVE BuildInv
  OBVIOUS
<1>1. LoginInv /\ sessions = {}
  BY LoginInit DEF Init
<1>2. ASSUME NEW b \in Builder PROVE FleetOwn(b) /\ OpenFor(b)
  <2>1. pc[b] = "idle" /\ fleet[b] = <<>> /\ signers[b] = <<>> /\ task[b] = None
    BY DEF Init
  <2> QED
    BY <2>1 DEF FleetOwn, OpenFor, IsSeq, Working, DerivePcs, LoadPcs, DeletePcs
<1> QED
  BY <1>1, <1>2 DEF BuildInv

-----------------------------------------------------------------------------
(* What a step does to the token                                           *)

\* An object that b makes: a seed, a master or a key on the way to its member's.
Made(b, o) ==
    /\ \/ /\ CreateSeed(b) /\ pc[b] = "seed"
          /\ o.class = "seed" /\ o.name = None /\ o.owner = Session(b)
       \/ /\ DeriveMaster(b) /\ pc[b] = "derive_master"
          /\ o.class = "priv" /\ o.name = MasterLabel(Current(b).label)
          /\ o.owner = None /\ o.key = Key(Root(b), <<>>)
       \/ /\ DeriveChild(b) /\ pc[b] = "derive_path"
          /\ o.class = "priv" /\ o.name = None
          /\ o.owner = Session(b) /\ o.key = ChildKey(b)
    /\ o.token = Session(b).token /\ DOMAIN o = {"class", "name", "key", "owner", "token",
                                                  "refused", "provisioned", "spoiled"}
    /\ o.refused = FALSE /\ o.provisioned = FALSE /\ o.spoiled = <<>>

LEMMA CreateMakes ==
  ASSUME Functions, NEW b \in Builder, NEW class, NEW name, NEW key, NEW owner,
         Create(b, class, name, key, owner)
  PROVE  LET new == [class |-> class, name |-> name, key |-> key, owner |-> owner,
                     token |-> Session(b).token, refused |-> FALSE,
                     provisioned |-> FALSE, spoiled |-> <<>>]
         IN  /\ NewHandle \in Handle \ (Live \cup Held)
             /\ objs'[NewHandle] = new
             /\ \A h \in Handle \ {NewHandle} : objs'[h] = objs[h]
<1>1. NewHandle \in Free
  BY NewIsFree DEF Create
<1>2. NewHandle \in Handle
  BY <1>1 DEF Free
<1> QED
  BY <1>1, <1>2 DEF Create, Functions, Free

\* Where the token changes: creations, the seed, deletions and closings.
LEMMA StepToken ==
  ASSUME Functions, NEW b \in Builder, Build(b) \/ CallDelete(b) \/ Step(b)
  PROVE  \/ objs' = objs
         \/ CreateSeed(b) /\ Create(b, "seed", None, None, Session(b))
         \/ DeriveMaster(b) /\ Create(b, "priv", MasterLabel(Current(b).label), Key(Root(b), <<>>), None)
         \/ DeriveChild(b) /\ Create(b, "priv", None, ChildKey(b), Session(b))
         \/ DestroySeed(b) /\ Cleanup(b)
         \/ DestroyKey(b) /\ \E h \in frame[b].todo : objs' = [objs EXCEPT ![h] = NoObject]
         \/ CloseSession(b) /\ \E s \in sessions : s.builder = b /\ AfterClosing({s})
<1>1. CASE Build(b) \/ CallDelete(b)
  BY <1>1 DEF Build, CallDelete, TokenUnchanged
<1>2. CASE ResolveSlot(b) \/ OpenSession(b) \/ Login(b)
  BY <1>2 DEF ResolveSlot, OpenSession, Login, Fail, TokenUnchanged
<1>3. CASE CreateSeed(b) \/ DeriveMaster(b) \/ DestroySeed(b)
  BY <1>3 DEF CreateSeed, DeriveMaster, DestroySeed, Fail, TokenUnchanged
<1>4. CASE ReadMaster(b) \/ FingerprintMaster(b) \/ DeriveChild(b) \/ FinishDerive(b)
  BY <1>4 DEF ReadMaster, FingerprintMaster, DeriveChild, FinishDerive, AddSigner, ReadFails, Fail, TokenUnchanged
<1>5. CASE FindKey(b) \/ ReadKey(b) \/ FingerprintKey(b)
  BY <1>5 DEF FindKey, ReadKey, FingerprintKey, AddSigner, ReadFails, TokenUnchanged
<1>6. CASE FindPriv(b) \/ FindPub(b) \/ DestroyKey(b) \/ DestroyDone(b)
  BY <1>6 DEF FindPriv, FindPub, FindToDelete, DestroyKey, DestroyDone, Fail, TokenUnchanged
<1>7. CASE Wrap(b) \/ Release(b) \/ EndBuild(b)
  BY <1>7 DEF Wrap, Release, EndBuild, TokenUnchanged
<1>8. CASE CloseSession(b)
  BY <1>8 DEF CloseSession
<1> QED
  BY <1>1, <1>2, <1>3, <1>4, <1>5, <1>6, <1>7, <1>8 DEF Step

\* What is on the token after a step was there, or was made by it in a new place.
LEMMA WhereFrom ==
  ASSUME Functions, NEW b \in Builder, Build(b) \/ CallDelete(b) \/ Step(b), NEW h \in Live'
  PROVE  \/ h \in Live /\ objs'[h] = objs[h]
         \/ /\ DestroySeed(b) /\ h = frame[b].base /\ h \in Live
            /\ objs'[h] = [objs[h] EXCEPT !.refused = TRUE]
         \/ h \notin Live \cup Held /\ Made(b, objs'[h])
<1>0. h \in Handle /\ objs'[h] # NoObject
  BY DEF Live
<1>1. CASE objs' = objs
  BY <1>1 DEF Live
<1>2. CASE CreateSeed(b) /\ Create(b, "seed", None, None, Session(b))
  <2>1. pc[b] = "seed"
    BY <1>2 DEF CreateSeed
  <2>2. CASE h # NewHandle
    BY <1>0, <1>2, <2>2, CreateMakes DEF Live
  <2>3. CASE h = NewHandle
    <3>1. /\ h \notin Live \cup Held
          /\ objs'[h] = [class |-> "seed", name |-> None, key |-> None,
                         owner |-> Session(b), token |-> Session(b).token, refused |-> FALSE,
                         provisioned |-> FALSE, spoiled |-> <<>>]
      BY <1>2, <2>3, CreateMakes
    <3> QED
      BY <1>2, <2>1, <3>1 DEF Made
  <2> QED
    BY <2>2, <2>3
<1>3. CASE DeriveMaster(b) /\ Create(b, "priv", MasterLabel(Current(b).label), Key(Root(b), <<>>), None)
  <2>1. pc[b] = "derive_master"
    BY <1>3 DEF DeriveMaster
  <2>2. CASE h # NewHandle
    BY <1>0, <1>3, <2>2, CreateMakes DEF Live
  <2>3. CASE h = NewHandle
    <3>1. /\ h \notin Live \cup Held
          /\ objs'[h] = [class |-> "priv", name |-> MasterLabel(Current(b).label), key |-> Key(Root(b), <<>>),
                         owner |-> None, token |-> Session(b).token, refused |-> FALSE,
                         provisioned |-> FALSE, spoiled |-> <<>>]
      BY <1>3, <2>3, CreateMakes
    <3> QED
      BY <1>3, <2>1, <3>1 DEF Made
  <2> QED
    BY <2>2, <2>3
<1>4. CASE DeriveChild(b) /\ Create(b, "priv", None, ChildKey(b), Session(b))
  <2>1. pc[b] = "derive_path"
    BY <1>4 DEF DeriveChild
  <2>2. CASE h # NewHandle
    BY <1>0, <1>4, <2>2, CreateMakes DEF Live
  <2>3. CASE h = NewHandle
    <3>1. /\ h \notin Live \cup Held
          /\ objs'[h] = [class |-> "priv", name |-> None, key |-> ChildKey(b),
                         owner |-> Session(b), token |-> Session(b).token, refused |-> FALSE,
                         provisioned |-> FALSE, spoiled |-> <<>>]
      BY <1>4, <2>3, CreateMakes
    <3> QED
      BY <1>4, <2>1, <3>1 DEF Made
  <2> QED
    BY <2>2, <2>3
<1>5. CASE DestroySeed(b) /\ Cleanup(b)
  BY <1>0, <1>5 DEF Cleanup, Functions, Live
<1>6. CASE \E g \in frame[b].todo : objs' = [objs EXCEPT ![g] = NoObject]
  BY <1>0, <1>6 DEF Functions, Live
<1>7. CASE \E s \in sessions : AfterClosing({s})
  BY <1>0, <1>7 DEF AfterClosing, Live
<1> QED
  BY <1>1, <1>2, <1>3, <1>4, <1>5, <1>6, <1>7, StepToken

\* What is gone from it was the seed of b, an object b deletes, or one of a
\* session that b closes.
LEMMA WhereTo ==
  ASSUME Functions, NEW b \in Builder, Build(b) \/ CallDelete(b) \/ Step(b), NEW h \in Live
  PROVE  \/ h \in Live' /\ objs'[h] = objs[h]
         \/ DestroySeed(b) /\ h = frame[b].base
         \/ DestroyKey(b) /\ h \in frame[b].todo
         \/ CloseSession(b) /\ objs[h].owner \in sessions /\ objs[h].owner.builder = b
<1>0. h \in Handle /\ objs[h] # NoObject
  BY DEF Live
<1>1. CASE objs' = objs
  BY <1>1 DEF Live
<1>2. ASSUME NEW class, NEW name, NEW key, NEW owner, Create(b, class, name, key, owner)
      PROVE  h \in Live' /\ objs'[h] = objs[h]
  BY <1>0, <1>2, CreateMakes DEF Live
<1>3. CASE DestroySeed(b) /\ Cleanup(b)
  BY <1>0, <1>3 DEF Cleanup, Functions, Live
<1>4. CASE DestroyKey(b) /\ \E g \in frame[b].todo : objs' = [objs EXCEPT ![g] = NoObject]
  BY <1>0, <1>4 DEF Functions, Live
<1>5. CASE CloseSession(b) /\ \E s \in sessions : s.builder = b /\ AfterClosing({s})
  BY <1>0, <1>5 DEF AfterClosing, Live
<1> QED
  BY <1>1, <1>2, <1>3, <1>4, <1>5, StepToken

-----------------------------------------------------------------------------
(* Types                                                                   *)

\* An object was there before the program, with a name the program looks for,
\* or it was made by a ceremony.
ObjectOK(o) ==
    /\ o.class \in {"seed", "priv", "pub"} /\ o.token \in Token
    /\ "refused" \in DOMAIN o /\ o.refused \in BOOLEAN /\ o.provisioned \in BOOLEAN
    /\ IF o.provisioned
       THEN o.class # "seed" /\ o.name = <<o.name[1], o.class>> /\ o.owner = None
       ELSE o.spoiled = <<>> /\ (o.name = None \/ o.name = <<o.name[1], "priv/priv">>)

\* Where the locals of build_member are as they were at its start.
EmptyPcs == {"idle", "resolve", "open", "login", "seed", "find_key", "find_priv", "find_pub",
             "held", "drop"}

FrameOwn(b) ==
    /\ DOMAIN frame[b] = {"base", "master", "fingerprint", "key", "xpub", "depth", "todo"}
    /\ pc[b] \in EmptyPcs => frame[b] = EmptyFrame
    /\ pc[b] = "derive_master" => frame[b].master = None
    /\ pc[b] \in {"derive_master", "destroy_seed", "read_master", "fp_master"} => frame[b].depth = 0
    /\ pc[b] \in {"destroy_priv", "destroy_pub"} =>
         frame[b] = [EmptyFrame EXCEPT !.todo = frame[b].todo]
    /\ pc[b] = "derive_path" => frame[b].depth \in 0 .. Len(Current(b).path)
    /\ frame[b].todo \subseteq Handle

TypeInv == /\ BuildInv
           /\ \A h \in Live : ObjectOK(objs[h])
           /\ \A b \in Builder : FrameOwn(b)

LEMMA MadeOK ==
  ASSUME BuildInv, NEW b \in Builder, NEW o, Made(b, o)
  PROVE  ObjectOK(o)
<1>1. pc[b] \in DerivePcs
  BY DEF Made, DerivePcs
<1>2. Session(b).token \in Token
  BY <1>1 DEF BuildInv, FleetOwn, DerivePcs, Working, Session
<1>3. o.name = None \/ o.name = <<o.name[1], "priv/priv">>
  BY DEF Made, MasterLabel
<1> QED
  BY <1>2, <1>3 DEF Made, ObjectOK

LEMMA ObjectStep ==
  ASSUME TypeInv, NEW b \in Builder, Build(b) \/ CallDelete(b) \/ Step(b), NEW h \in Live'
  PROVE  ObjectOK(objs'[h])
<1>0. Functions /\ BuildInv
  BY DEF TypeInv, BuildInv, LoginInv
<1>1. CASE h \in Live /\ objs'[h] = objs[h]
  BY <1>1 DEF TypeInv
<1>2. CASE h \in Live /\ objs'[h] = [objs[h] EXCEPT !.refused = TRUE]
  <2>1. ObjectOK(objs[h])
    BY <1>2 DEF TypeInv
  <2>2. DOMAIN objs'[h] = DOMAIN objs[h]
    BY <1>2
  <2>3. objs'[h].refused = TRUE
    BY <1>2, <2>1 DEF ObjectOK
  <2>4. /\ objs'[h].class = objs[h].class /\ objs'[h].token = objs[h].token
        /\ objs'[h].provisioned = objs[h].provisioned /\ objs'[h].name = objs[h].name
        /\ objs'[h].owner = objs[h].owner /\ objs'[h].spoiled = objs[h].spoiled
    BY <1>2
  <2> QED
    BY <2>1, <2>2, <2>3, <2>4 DEF ObjectOK
<1>3. CASE Made(b, objs'[h])
  BY <1>0, <1>3, MadeOK
<1> QED
  BY <1>0, <1>1, <1>2, <1>3, WhereFrom

\* The path of a member that is derived is a sequence.
LEMMA PathIsSeq ==
  ASSUME BuildInv, NEW b \in Builder, pc[b] \in DerivePcs
  PROVE  /\ Current(b).path \in Seq(ChildNumber) /\ Len(Current(b).path) \in Nat
         /\ Current(b).seed \in Seq(Int)
<1>1. MemberOK(Current(b)) /\ Current(b).init = "derive"
  BY FleetFacts DEF BuildInv, FleetOwn, DerivePcs, Working
<1>2. Current(b).path \in Seq(ChildNumber)
  BY <1>1 DEF MemberOK
<1> QED
  BY <1>1, <1>2 DEF MemberOK

LEMMA AbortFrame ==
  ASSUME Functions, NEW b \in Builder, NEW error, Abort(b, error)
  PROVE  FrameOwn(b)'
<1>1. pc'[b] = "drop" /\ frame'[b] = EmptyFrame
  BY DEF Abort, Goto, Functions
<1> QED
  BY <1>1 DEF FrameOwn, EmptyFrame

\* The fingerprint and the key are kept; nothing else of the frame changes.
LEMMA KeepBoth ==
  ASSUME NEW r, DOMAIN r = {"base", "master", "fingerprint", "key", "xpub", "depth", "todo"},
         NEW f, NEW k
  PROVE  LET s == [r EXCEPT !.fingerprint = f, !.key = k]
         IN  /\ DOMAIN s = DOMAIN r /\ s.depth = r.depth /\ s.todo = r.todo
             /\ s.base = r.base /\ s.master = r.master
             /\ s.fingerprint = f /\ s.key = k
  OBVIOUS

LEMMA OwnFrame ==
  ASSUME TypeInv, NEW b \in Builder, Build(b) \/ CallDelete(b) \/ Step(b)
  PROVE  FrameOwn(b)'
<1>0. Functions /\ BuildInv /\ FrameOwn(b) /\ FleetOwn(b)
  BY DEF TypeInv, BuildInv, LoginInv
<1>a. ASSUME NEW error, Abort(b, error) PROVE FrameOwn(b)'
  BY <1>0, <1>a, AbortFrame
<1>b. ASSUME NEW function, NEW error, Fail(b, function, error) PROVE FrameOwn(b)'
  BY <1>a, <1>b DEF Fail
<1>c. ASSUME NEW outcome, ReadFails(b, outcome) PROVE FrameOwn(b)'
  BY <1>a, <1>c DEF ReadFails
<1>d. ASSUME frame'[b] = EmptyFrame, pc'[b] \in EmptyPcs PROVE FrameOwn(b)'
  BY <1>d DEF FrameOwn, EmptyFrame, EmptyPcs
<1>e. ASSUME pc[b] \in EmptyPcs, pc'[b] \in EmptyPcs, frame'[b] = frame[b] PROVE FrameOwn(b)'
  BY <1>0, <1>d, <1>e DEF FrameOwn
<1>1. CASE Build(b) \/ CallDelete(b)
  BY <1>0, <1>1, <1>e DEF Build, CallDelete, Start, Refuse, Goto, Functions, EmptyPcs
<1>2. CASE ResolveSlot(b) \/ OpenSession(b)
  BY <1>0, <1>2, <1>a, <1>b, <1>e DEF ResolveSlot, OpenSession, Goto, Functions, EmptyPcs
<1>3. CASE Login(b)
  <2>1. Current(b).init \in {"derive", "load", "delete"}
    BY <1>0, <1>3, FleetFacts DEF FleetOwn, MemberOK, Working, Login
  <2>2. FirstLabel(Current(b)) \in EmptyPcs
    BY <2>1 DEF FirstLabel, EmptyPcs
  <2> QED
    BY <1>0, <1>3, <1>a, <1>e, <2>2 DEF Login, Goto, Functions, EmptyPcs
<1>4. CASE CreateSeed(b)
  <2>1. CASE frame' = [frame EXCEPT ![b].base = NewHandle] /\ Goto(b, "derive_master") /\ pc[b] = "seed"
    BY <1>0, <2>1 DEF FrameOwn, EmptyFrame, EmptyPcs, Goto, Functions
  <2> QED
    BY <1>4, <1>a, <1>b, <2>1 DEF CreateSeed
<1>5. CASE DeriveMaster(b)
  BY <1>0, <1>5 DEF DeriveMaster, FrameOwn, EmptyPcs, Goto, Functions
<1>6. CASE DestroySeed(b)
  <2>1. CASE UNCHANGED frame /\ Goto(b, "read_master") /\ pc[b] = "destroy_seed"
    BY <1>0, <2>1 DEF FrameOwn, EmptyPcs, Goto, Functions
  <2> QED
    BY <1>6, <1>a, <2>1 DEF DestroySeed
<1>7. CASE ReadMaster(b)
  <2>1. CASE UNCHANGED frame /\ Goto(b, "fp_master") /\ pc[b] = "read_master"
    BY <1>0, <2>1 DEF FrameOwn, EmptyPcs, Goto, Functions
  <2> QED
    BY <1>7, <1>c, <2>1 DEF ReadMaster
<1>8. CASE FingerprintMaster(b)
  <2>1. ASSUME NEW f, frame' = [frame EXCEPT ![b].fingerprint = f, ![b].key = frame[b].master],
               Goto(b, "derive_path"), pc[b] = "fp_master", BuildUnchanged
        PROVE  FrameOwn(b)'
    <3>1. Current(b)' = Current(b) /\ Len(Current(b).path) \in Nat
      BY <1>0, <2>1, PathIsSeq DEF BuildUnchanged, Current, At, DerivePcs
    <3>0. frame'[b] = [frame[b] EXCEPT !.fingerprint = f, !.key = frame[b].master]
      BY <1>0, <2>1 DEF Functions
    <3>2. pc'[b] = "derive_path" /\ DOMAIN frame'[b] = DOMAIN frame[b] /\ frame'[b].depth = frame[b].depth
          /\ frame'[b].todo = frame[b].todo
      BY <1>0, <2>1, <3>0, KeepBoth DEF Goto, Functions, FrameOwn
    <3>3. frame'[b].depth \in 0 .. Len(Current(b)'.path)
      BY <1>0, <2>1, <3>1, <3>2 DEF FrameOwn
    <3> QED
      BY <1>0, <3>2, <3>3 DEF FrameOwn, EmptyPcs
  <2> QED
    BY <1>8, <1>c, <2>1 DEF FingerprintMaster
<1>9. CASE DeriveChild(b)
  <2>1. CASE /\ frame' = [frame EXCEPT ![b].key = NewHandle, ![b].depth = @ + 1]
             /\ UNCHANGED pc /\ pc[b] = "derive_path" /\ BuildUnchanged
             /\ frame[b].depth < Len(Current(b).path)
    <3>1. Current(b)' = Current(b) /\ Len(Current(b).path) \in Nat
      BY <1>0, <2>1, PathIsSeq DEF BuildUnchanged, Current, At, DerivePcs
    <3>2. pc'[b] = "derive_path" /\ DOMAIN frame'[b] = DOMAIN frame[b] /\ frame'[b].depth = frame[b].depth + 1
          /\ frame'[b].todo = frame[b].todo
      BY <1>0, <2>1 DEF Functions, FrameOwn
    <3>3. frame'[b].depth \in 0 .. Len(Current(b)'.path)
      BY <1>0, <2>1, <3>1, <3>2 DEF FrameOwn
    <3> QED
      BY <1>0, <3>2, <3>3 DEF FrameOwn, EmptyPcs
  <2> QED
    BY <1>9, <1>b, <2>1 DEF DeriveChild
<1>10. ASSUME NEW key, NEW xpub, NEW fingerprint, AddSigner(b, key, xpub, fingerprint) PROVE FrameOwn(b)'
  BY <1>0, <1>10, <1>d DEF AddSigner, Goto, Functions, EmptyPcs
<1>11. CASE FinishDerive(b) \/ FingerprintKey(b)
  BY <1>10, <1>11, <1>c DEF FinishDerive, FingerprintKey
<1>12. CASE FindKey(b)
  <2>1. CASE /\ \E h : frame' = [frame EXCEPT ![b].key = h]
             /\ Goto(b, "read_key")
    BY <1>0, <2>1 DEF FrameOwn, EmptyPcs, Goto, Functions
  <2> QED
    BY <1>12, <1>a, <2>1 DEF FindKey
<1>13. CASE ReadKey(b)
  <2>1. CASE /\ \E x : frame' = [frame EXCEPT ![b].xpub = x]
             /\ Goto(b, "fp_key")
    BY <1>0, <2>1 DEF FrameOwn, EmptyPcs, Goto, Functions
  <2> QED
    BY <1>13, <1>c, <2>1 DEF ReadKey
<1>14. CASE FindPriv(b) \/ FindPub(b)
  <2>1. ASSUME NEW here, NEW class, NEW name, NEW next, next \in {"destroy_priv", "destroy_pub"},
               FindToDelete(b, here, class, name, next)
        PROVE  FrameOwn(b)'
    <3>1. Find(b, class, name) \subseteq Handle
      BY DEF Find, Live
    <3>2. CASE /\ frame' = [frame EXCEPT ![b].todo = ToDelete(Find(b, class, name))]
               /\ Goto(b, next)
      <4>0. frame[b] = EmptyFrame
        <5>1. pc[b] \in {"find_priv", "find_pub"}
          BY <1>14 DEF FindPriv, FindPub, FindToDelete
        <5> QED
          BY <1>0, <5>1 DEF FrameOwn, EmptyPcs
      <4>1. frame'[b] = [EmptyFrame EXCEPT !.todo = Find(b, class, name)] /\ pc'[b] = next
        BY <1>0, <3>2, <4>0 DEF Goto, Functions, ToDelete
      <4>2. frame'[b].todo = Find(b, class, name)
        BY <4>1 DEF EmptyFrame
      <4>3. DOMAIN frame'[b] = {"base", "master", "fingerprint", "key", "xpub", "depth", "todo"}
        BY <4>1 DEF EmptyFrame
      <4> QED
        BY <2>1, <3>1, <4>1, <4>2, <4>3 DEF FrameOwn, EmptyPcs
    <3> QED
      BY <2>1, <3>2, <1>b DEF FindToDelete
  <2> QED
    BY <1>14, <2>1 DEF FindPriv, FindPub
<1>15. CASE DestroyKey(b)
  <2>1. CASE \E h : frame' = [frame EXCEPT ![b].todo = @ \ {h}] /\ UNCHANGED pc /\ pc[b] \in {"destroy_priv", "destroy_pub"}
    <3>1. PICK h : frame' = [frame EXCEPT ![b].todo = @ \ {h}]
      BY <2>1
    <3> DEFINE rest == frame[b].todo \ {h}
    <3>2. frame'[b] = [EmptyFrame EXCEPT !.todo = rest]
      BY <1>0, <2>1, <3>1 DEF FrameOwn, Functions, EmptyFrame
    <3>3. frame'[b].todo = rest /\ rest \subseteq Handle
      BY <1>0, <3>2 DEF EmptyFrame, FrameOwn
    <3>4. DOMAIN frame'[b] = {"base", "master", "fingerprint", "key", "xpub", "depth", "todo"}
      BY <3>2 DEF EmptyFrame
    <3> QED
      BY <2>1, <3>2, <3>3, <3>4 DEF FrameOwn, EmptyPcs
  <2> QED
    BY <1>15, <1>a, <2>1 DEF DestroyKey
<1>16. CASE DestroyDone(b)
  <2>1. frame'[b] = frame[b] /\ frame[b].todo = {} /\ pc'[b] \in {"find_pub", "drop"}
    BY <1>0, <1>16 DEF DestroyDone, Goto, Functions
  <2>2. pc[b] \in {"destroy_priv", "destroy_pub"}
    BY <1>16 DEF DestroyDone
  <2>4. frame[b] = [EmptyFrame EXCEPT !.todo = {}]
    BY <1>0, <2>1, <2>2 DEF FrameOwn
  <2>3. frame[b] = EmptyFrame
    BY <2>4 DEF EmptyFrame
  <2>5. pc'[b] \in EmptyPcs /\ frame'[b] = EmptyFrame
    BY <2>1, <2>3 DEF EmptyPcs
  <2> QED
    BY <1>d, <2>5
<1>17. CASE Wrap(b) \/ Release(b) \/ CloseSession(b) \/ EndBuild(b)
  BY <1>0, <1>17, <1>e DEF Wrap, Release, CloseSession, EndBuild, Goto, Functions, EmptyPcs
<1> QED
  BY <1>1, <1>2, <1>3, <1>4, <1>5, <1>6, <1>7, <1>8, <1>9, <1>11, <1>12, <1>13, <1>14, <1>15,
     <1>16, <1>17 DEF Step

LEMMA TypeStep ==
  ASSUME TypeInv, [Next]_vars
  PROVE  TypeInv'
<1>0. BuildInv' /\ Functions
  BY BuildStep DEF TypeInv, BuildInv, LoginInv
<1>1. ASSUME NEW b \in Builder, Build(b) \/ CallDelete(b) \/ Step(b) PROVE TypeInv'
  <2>1. \A h \in Live' : ObjectOK(objs'[h])
    BY <1>1, ObjectStep
  <2>2. FrameOwn(b)'
    BY <1>1, OwnFrame
  <2>3. ASSUME NEW c \in Builder \ {b} PROVE FrameOwn(c)'
    <3>1. /\ pc'[c] = pc[c] /\ fleet'[c] = fleet[c] /\ signers'[c] = signers[c] /\ frame'[c] = frame[c]
      BY <1>0, <1>1, StepAlone DEF Alone
    <3> QED
      BY <3>1 DEF TypeInv, FrameOwn, Current, At
  <2>4. \A h \in Live' : ObjectOK(objs[h])'
    BY <2>1 DEF ObjectOK
  <2> QED
    BY <1>0, <2>2, <2>3, <2>4 DEF TypeInv
<1>2. CASE Crash
  <2>1. ASSUME NEW h \in Live' PROVE ObjectOK(objs[h])'
    <3>1. h \in Live /\ objs'[h] = objs[h]
      BY <1>2 DEF Crash, AfterClosing, Live
    <3> QED
      BY <3>1 DEF TypeInv, ObjectOK
  <2>2. ASSUME NEW b \in Builder PROVE FrameOwn(b)'
    <3>1. pc'[b] = "idle" /\ frame'[b] = EmptyFrame
      BY <1>2 DEF Crash
    <3> QED
      BY <3>1 DEF FrameOwn, EmptyFrame
  <2> QED
    BY <1>0, <2>1, <2>2 DEF TypeInv
<1>3. CASE Finished \/ UNCHANGED vars
  <2>1. UNCHANGED vars
    BY <1>3 DEF Finished
  <2> QED
    BY <1>0, <2>1 DEF vars, TypeInv, FrameOwn, ObjectOK, Live, Current, At
<1> QED
  BY <1>1, <1>2, <1>3 DEF Next

LEMMA TypeInit == Init => TypeInv
<1> SUFFICES ASSUME Init PROVE TypeInv
  OBVIOUS
<1>1. PICK present \in Provisioned :
        objs = [h \in Handle |-> IF h <= Len(present) THEN present[h] ELSE NoObject]
  BY DEF Init
<1>2. ASSUME NEW h \in Live PROVE ObjectOK(objs[h])
  <2>1. h \in Nat \ {0} /\ h <= Len(present) /\ objs[h] = present[h]
    BY <1>1, KeyCeremonyAssumption DEF Live
  <2>2. present \in Seq({present[i] : i \in DOMAIN present})
    BY KeyCeremonyAssumption
  <2>3. h \in DOMAIN present
    BY <2>1, <2>2
  <2>4. /\ present[h].class \in {"priv", "pub"} /\ present[h].token \in Token
        /\ present[h].name = <<present[h].name[1], present[h].class>>
        /\ present[h].owner = None /\ present[h].provisioned = TRUE /\ present[h].refused = FALSE
        /\ "refused" \in DOMAIN present[h]
    BY <2>3, KeyCeremonyAssumption
  <2> QED
    BY <2>1, <2>4 DEF ObjectOK
<1>3. ASSUME NEW b \in Builder PROVE FrameOwn(b)
  <2>1. pc[b] = "idle" /\ frame[b] = EmptyFrame
    BY DEF Init
  <2> QED
    BY <2>1 DEF FrameOwn, EmptyFrame
<1> QED
  BY <1>2, <1>3, BuildInit DEF TypeInv

LEMMA Types == Spec => []TypeInv
  BY TypeInit, TypeStep, PTL DEF Spec

LEMMA TypesHold ==
  ASSUME TypeInv
  PROVE  TypeOK
<1>1. ASSUME NEW h \in Live
      PROVE  [class |-> objs[h].class, token |-> objs[h].token,
              refused |-> objs[h].refused, provisioned |-> objs[h].provisioned] \in Object
  BY DEF TypeInv, ObjectOK, Object
<1>2. \A s \in sessions : s.builder \in Builder /\ s.member \in Nat /\ s.token \in Token
  BY DEF TypeInv, BuildInv
<1>3. loggedIn \subseteq Token
  BY <1>2 DEF TypeInv, BuildInv, LoginInv, LoggedInWhileOpen
<1>4. ASSUME NEW b \in Builder
      PROVE  /\ task[b] \in DOMAIN Envs \cup DOMAIN Deletions \cup {None}
             /\ Len(signers[b]) <= Len(fleet[b])
             /\ frame[b].todo \subseteq Handle
  <2>1. FleetOwn(b) /\ FrameOwn(b)
    BY DEF TypeInv, BuildInv
  <2> QED
    BY <2>1 DEF FleetOwn, FrameOwn, Asked
<1> QED
  BY <1>1, <1>2, <1>3, <1>4 DEF TypeOK

\* Every variable holds a value of its kind: whatever is asked for, a build is
\* on a token, is never past the end of its fleet, and deletes handles.
THEOREM CeremonyTyped == Spec => []TypeOK
  BY Types, TypesHold, PTL

-----------------------------------------------------------------------------
(* What load is bound to                                                   *)

\* Of the objects o, h is the one key that a member's label stands for, if it
\* is still there.
OneKey(o, h, member) ==
    /\ h \in Handle
    /\ {g \in Handle : /\ o[g] # NoObject /\ o[g].class = "priv"
                       /\ o[g].token = TokenAt(member) /\ o[g].name = PrivLabel(member.label)}
         = {g \in {h} : o[g] # NoObject}

\* What h gives, if it is there, is what was read of it.
AttributesIn(o, h)             == Attributes(PointForm[o[h].token], o[h].key, o[h].spoiled)
GivesXpub(o, h, xpub)          == o[h] # NoObject => /\ ReadXpub(AttributesIn(o, h)).ok
                                                     /\ ReadXpub(AttributesIn(o, h)).value = xpub
GivesFingerprint(o, h, mark) == o[h] # NoObject => /\ MasterFingerprint(AttributesIn(o, h)).ok
                                                     /\ MasterFingerprint(AttributesIn(o, h)).value = mark

LoadedFor(o, s, member) == /\ OneKey(o, s.key, member)
                           /\ GivesXpub(o, s.key, s.xpub)
                           /\ GivesFingerprint(o, s.key, s.fingerprint)

LoadOwn(b) ==
    /\ pc[b] \in {"read_key", "fp_key"} => OneKey(objs, frame[b].key, Current(b))
    /\ pc[b] = "fp_key" => GivesXpub(objs, frame[b].key, frame[b].xpub)
    /\ pc[b] # "drop" => \A i \in DOMAIN signers[b] :
         fleet[b][i].init = "load" => LoadedFor(objs, signers[b][i], fleet[b][i])

LoadInv == TypeInv /\ \A b \in Builder : LoadOwn(b)

\* What is on the token after a step is as it was, or is new, at a handle that
\* nobody holds, and without the name of a key.
LEMMA OldOrNew ==
  ASSUME TypeInv, NEW c \in Builder, Build(c) \/ CallDelete(c) \/ Step(c), NEW h \in Live'
  PROVE  \/ /\ h \in Live
            /\ objs'[h].class = objs[h].class /\ objs'[h].token = objs[h].token
            /\ objs'[h].name = objs[h].name /\ objs'[h].key = objs[h].key
            /\ objs'[h].spoiled = objs[h].spoiled
         \/ /\ h \notin Live \cup Held
            /\ objs'[h].name = None \/ \E l : objs'[h].name = <<l, "priv/priv">>
<1>0. Functions
  BY DEF TypeInv, BuildInv, LoginInv
<1>1. CASE h \in Live /\ objs'[h] = objs[h]
  BY <1>1
<1>2. CASE h \in Live /\ objs'[h] = [objs[h] EXCEPT !.refused = TRUE]
  BY <1>2
<1>3. CASE h \notin Live \cup Held /\ Made(c, objs'[h])
  BY <1>3 DEF Made, MasterLabel
<1> QED
  BY <1>0, <1>1, <1>2, <1>3, WhereFrom

\* A key that is held stays the only one, and what was read of it stays true.
LEMMA HeldKept ==
  ASSUME TypeInv, NEW c \in Builder, Build(c) \/ CallDelete(c) \/ Step(c),
         NEW h \in Held
  PROVE  /\ \A member : MemberOK(member) /\ OneKey(objs, h, member) => OneKey(objs', h, member)
         /\ h \in Handle => \A x : GivesXpub(objs, h, x) => GivesXpub(objs', h, x)
         /\ h \in Handle => \A x : GivesFingerprint(objs, h, x) => GivesFingerprint(objs', h, x)
<1>1. ASSUME NEW member, MemberOK(member), OneKey(objs, h, member)
      PROVE  OneKey(objs', h, member)
  <2> DEFINE Named(o) == {g \in Handle : /\ o[g] # NoObject /\ o[g].class = "priv"
                                         /\ o[g].token = TokenAt(member)
                                         /\ o[g].name = PrivLabel(member.label)}
  <2>1. h \in Handle /\ Named(objs) = {g \in {h} : objs[g] # NoObject}
    BY <1>1 DEF OneKey
  <2>2. ASSUME NEW g \in Handle, objs'[g] # NoObject,
               objs'[g].name = PrivLabel(member.label) \/ g = h
        PROVE  /\ objs[g] # NoObject /\ objs'[g].class = objs[g].class
               /\ objs'[g].token = objs[g].token /\ objs'[g].name = objs[g].name
    <3>1. g \in Live'
      BY <2>2 DEF Live
    <3>2. PrivLabel(member.label) # None /\ \A l : PrivLabel(member.label) # <<l, "priv/priv">>
      BY <1>1 DEF MemberOK, PrivLabel
    <3>3. g \in Live /\ objs'[g].class = objs[g].class
          /\ objs'[g].token = objs[g].token /\ objs'[g].name = objs[g].name
      BY <2>2, <3>1, <3>2, OldOrNew
    <3> QED
      BY <3>3 DEF Live
  <2>3. Named(objs') = {g \in {h} : objs'[g] # NoObject}
    <3>1. ASSUME NEW g \in Named(objs') PROVE g = h /\ objs'[h] # NoObject
      <4>1. g \in Named(objs)
        BY <2>2, <3>1
      <4> QED
        BY <2>1, <3>1, <4>1
    <3>2. ASSUME objs'[h] # NoObject PROVE h \in Named(objs')
      <4>1. h \in Named(objs)
        BY <2>1, <2>2, <3>2
      <4> QED
        BY <2>1, <2>2, <3>2, <4>1
    <3> HIDE DEF Named
    <3> QED
      BY <3>1, <3>2
  <2> QED
    BY <2>1, <2>3 DEF OneKey
<1>2. ASSUME h \in Handle, objs'[h] # NoObject
      PROVE  objs[h] # NoObject /\ AttributesIn(objs', h) = AttributesIn(objs, h)
  <2>1. h \in Live'
    BY <1>2 DEF Live
  <2>2. /\ h \in Live /\ objs'[h].token = objs[h].token /\ objs'[h].key = objs[h].key
        /\ objs'[h].spoiled = objs[h].spoiled
    BY <2>1, OldOrNew
  <2> QED
    BY <2>2 DEF Live, AttributesIn
<1> QED
  BY <1>1, <1>2 DEF GivesXpub, GivesFingerprint

\* The members that there are signers for were read from the environment.
LEMMA SignerMember ==
  ASSUME NEW b \in Builder, FleetOwn(b), NEW i \in DOMAIN signers[b]
  PROVE  MemberOK(fleet[b][i]) /\ signers[b][i].key \in Held
<1>1. /\ i \in 1 .. Len(signers[b]) /\ Len(signers[b]) \in Nat
      /\ Len(fleet[b]) \in Nat /\ DOMAIN fleet[b] = 1 .. Len(fleet[b])
      /\ Len(signers[b]) <= Len(fleet[b])
  BY FleetFacts DEF FleetOwn
<1>2. Asked(task[b], fleet[b])
  BY <1>1 DEF FleetOwn
<1>3. i \in DOMAIN fleet[b]
  BY <1>1
<1> QED
  BY <1>2, <1>3, AskedFor DEF Held

\* How a build gets to read a key that it loads.
LEMMA LoadMoves ==
  ASSUME Functions, NEW b \in Builder, FleetOwn(b), Build(b) \/ CallDelete(b) \/ Step(b),
         pc'[b] \in {"read_key", "fp_key"}
  PROVE  FindKey(b) \/ ReadKey(b)
<1> USE DEF Goto, Functions
<1>1. CASE Build(b) \/ CallDelete(b)
  BY <1>1 DEF Build, CallDelete, Start, Refuse
<1>2. CASE ResolveSlot(b) \/ OpenSession(b)
  BY <1>2 DEF ResolveSlot, OpenSession, Fail, Abort
<1>3. CASE Login(b)
  <2>1. Current(b).init \in {"derive", "load", "delete"}
    BY <1>3, FleetFacts DEF FleetOwn, MemberOK, Working, Login
  <2>2. FirstLabel(Current(b)) \notin {"read_key", "fp_key"}
    BY <2>1 DEF FirstLabel
  <2> QED
    BY <1>3, <2>2 DEF Login, Abort
<1>4. CASE CreateSeed(b) \/ DeriveMaster(b) \/ DestroySeed(b)
  BY <1>4 DEF CreateSeed, DeriveMaster, DestroySeed, Fail, Abort
<1>5. CASE ReadMaster(b) \/ FingerprintMaster(b) \/ DeriveChild(b) \/ FinishDerive(b)
  BY <1>5 DEF ReadMaster, FingerprintMaster, DeriveChild, FinishDerive, AddSigner, ReadFails, Fail, Abort
<1>6. CASE FingerprintKey(b)
  BY <1>6 DEF FingerprintKey, AddSigner, ReadFails, Abort
<1>7. CASE FindPriv(b) \/ FindPub(b) \/ DestroyKey(b) \/ DestroyDone(b)
  BY <1>7 DEF FindPriv, FindPub, FindToDelete, DestroyKey, DestroyDone, Fail, Abort
<1>8. CASE Wrap(b) \/ Release(b) \/ CloseSession(b) \/ EndBuild(b)
  BY <1>8 DEF Wrap, Release, CloseSession, EndBuild
<1> QED
  BY <1>1, <1>2, <1>3, <1>4, <1>5, <1>6, <1>7, <1>8 DEF Step

\* The key that is found is the only one of its label.
LEMMA KeyFound ==
  ASSUME TypeInv, NEW b \in Builder, FindKey(b), pc'[b] # "drop"
  PROVE  /\ pc'[b] = "read_key" /\ UNCHANGED <<objs, fleet, signers>>
         /\ OneKey(objs, frame'[b].key, Current(b))
<1> DEFINE found == Find(b, "priv", PrivLabel(Current(b).label))
<1>0. Functions /\ FrameOwn(b)
  BY DEF TypeInv, BuildInv, LoginInv
<1>1. \A error : ~Abort(b, error)
  BY <1>0 DEF Abort, Goto, Functions
<1>2. PICK h \in found : /\ frame' = [frame EXCEPT ![b].key = h] /\ Goto(b, "read_key")
                         /\ ~Several(found) /\ TokenUnchanged /\ BuildUnchanged
  BY <1>1 DEF FindKey
<1>3. pc'[b] = "read_key" /\ frame'[b].key = h
  BY <1>0, <1>2 DEF Goto, Functions, FrameOwn
<1>4. found = {g \in Handle : /\ objs[g] # NoObject /\ objs[g].class = "priv"
                              /\ objs[g].token = TokenAt(Current(b))
                              /\ objs[g].name = PrivLabel(Current(b).label)}
  BY DEF Find, Live, Session
<1>5. h \in Handle /\ objs[h] # NoObject
  BY <1>4
<1> HIDE DEF found
<1>6. found = {h}
  BY <1>2 DEF Several
<1> QED
  BY <1>2, <1>3, <1>4, <1>5, <1>6 DEF OneKey, TokenUnchanged, BuildUnchanged

\* The xpub that is read is the one it has.
LEMMA KeyLoaded ==
  ASSUME TypeInv, NEW b \in Builder, ReadKey(b), pc'[b] # "drop"
  PROVE  /\ pc[b] = "read_key" /\ pc'[b] = "fp_key" /\ UNCHANGED <<objs, fleet, signers>>
         /\ frame'[b].key = frame[b].key
         /\ GivesXpub(objs, frame[b].key, frame'[b].xpub)
<1>0. Functions /\ FrameOwn(b)
  BY DEF TypeInv, BuildInv, LoginInv
<1>1. \A outcome : ~ReadFails(b, outcome)
  BY <1>0 DEF ReadFails, Abort, Goto, Functions
<1> DEFINE xpub == XpubOf(frame[b].key)
<1>2. /\ pc[b] = "read_key" /\ xpub.ok /\ frame' = [frame EXCEPT ![b].xpub = xpub.value]
      /\ Goto(b, "fp_key") /\ TokenUnchanged /\ BuildUnchanged
  BY <1>1 DEF ReadKey
<1>3. /\ pc'[b] = "fp_key" /\ frame'[b].key = frame[b].key /\ frame'[b].xpub = xpub.value
  <2> HIDE DEF xpub
  <2> QED
    BY <1>0, <1>2 DEF Goto, Functions, FrameOwn
<1>4. GivesXpub(objs, frame[b].key, xpub.value)
  BY <1>2 DEF GivesXpub, XpubOf, AttributesOf, AttributesIn
<1> QED
  BY <1>2, <1>3, <1>4 DEF TokenUnchanged, BuildUnchanged

\* The signer that ends a load.
LEMMA LoadAdded ==
  ASSUME TypeInv, NEW b \in Builder, Step(b), pc[b] \in LoadPcs, pc'[b] \in {"resolve", "held"}
  PROVE  LET mark == FingerprintOf(frame[b].key)
         IN  /\ pc[b] = "fp_key" /\ mark.ok
             /\ AddSigner(b, frame[b].key, frame[b].xpub, mark.value)
<1>0. Functions
  BY DEF TypeInv, BuildInv, LoginInv
<1>1. CASE FingerprintKey(b)
  BY <1>0, <1>1 DEF FingerprintKey, ReadFails, Abort, Goto, Functions
<1>2. ~(ResolveSlot(b) \/ OpenSession(b) \/ Login(b))
  BY DEF ResolveSlot, OpenSession, Login, LoadPcs
<1>3. ~(CreateSeed(b) \/ DeriveMaster(b) \/ DestroySeed(b))
  BY DEF CreateSeed, DeriveMaster, DestroySeed, LoadPcs
<1>4. ~(ReadMaster(b) \/ FingerprintMaster(b) \/ DeriveChild(b) \/ FinishDerive(b))
  BY DEF ReadMaster, FingerprintMaster, DeriveChild, FinishDerive, LoadPcs
<1>5. ~(FindKey(b) \/ ReadKey(b))
  BY <1>0 DEF FindKey, ReadKey, ReadFails, Abort, Goto, Functions
<1>6. ~(FindPriv(b) \/ FindPub(b) \/ DestroyKey(b) \/ DestroyDone(b))
  BY DEF FindPriv, FindPub, FindToDelete, DestroyKey, DestroyDone, LoadPcs
<1>7. ~(Wrap(b) \/ Release(b) \/ CloseSession(b) \/ EndBuild(b))
  BY DEF Wrap, Release, CloseSession, EndBuild, LoadPcs
<1> QED
  BY <1>1, <1>2, <1>3, <1>4, <1>5, <1>6, <1>7 DEF Step

\* An appended sequence, element by element.
LEMMA Appended ==
  ASSUME NEW s, IsSeq(s), NEW x, NEW t, t = Append(s, x)
  PROVE  /\ Len(s) \in Nat /\ DOMAIN s = 1 .. Len(s) /\ DOMAIN t = 1 .. Len(s) + 1
         /\ \A i \in DOMAIN s : t[i] = s[i]
         /\ t[Len(s) + 1] = x
<1>1. /\ IsSeq(t) /\ Len(t) = Len(s) + 1 /\ Len(s) \in Nat /\ DOMAIN s = 1 .. Len(s)
      /\ \A i \in 1 .. Len(s) : t[i] = s[i]
      /\ t[Len(s) + 1] = x
  BY AppendSeq
<1>2. DOMAIN t = 1 .. Len(t)
  BY <1>1, AppendSeq
<1> QED
  BY <1>1, <1>2

\* The signers of a build after a step of its own.
LEMMA OwnLoaded ==
  ASSUME LoadInv, NEW b \in Builder, Build(b) \/ CallDelete(b) \/ Step(b), pc'[b] # "drop",
         NEW i \in DOMAIN signers'[b], fleet'[b][i].init = "load"
  PROVE  LoadedFor(objs', signers'[b][i], fleet'[b][i])
<1>0. TypeInv /\ Functions /\ FleetOwn(b) /\ LoadOwn(b)
  BY DEF LoadInv, TypeInv, BuildInv, LoginInv
\* What is known of a signer is known in the next state.
<1>1. ASSUME pc[b] # "drop", NEW j \in DOMAIN signers[b], fleet[b][j].init = "load"
      PROVE  LoadedFor(objs', signers[b][j], fleet[b][j])
  <2>1. LoadedFor(objs, signers[b][j], fleet[b][j])
    BY <1>0, <1>1 DEF LoadOwn
  <2>2. MemberOK(fleet[b][j]) /\ signers[b][j].key \in Held
    BY <1>0, SignerMember
  <2>3. signers[b][j].key \in Handle
    BY <2>1 DEF LoadedFor, OneKey
  <2> QED
    BY <1>0, <2>1, <2>2, <2>3, HeldKept DEF LoadedFor
<1>2. CASE Build(b) \/ CallDelete(b)
  BY <1>0, <1>2, StartFleet
<1>3. CASE EndBuild(b)
  BY <1>0, <1>3 DEF EndBuild, Functions
<1>4. CASE Wrap(b)
  <2>0. pc[b] = "held"
    BY <1>4 DEF Wrap
  <2>1. /\ UNCHANGED fleet /\ DOMAIN signers'[b] = DOMAIN signers[b]
        /\ signers'[b][i] = [signers[b][i] EXCEPT !.patched =
                               PatchXpubNetwork(signers[b][i].xpub, fleet[b][i].network)]
    BY <1>0, <1>4, WrapFleet
  <2>2. /\ signers'[b][i].key = signers[b][i].key /\ signers'[b][i].xpub = signers[b][i].xpub
        /\ signers'[b][i].fingerprint = signers[b][i].fingerprint
    BY <2>1
  <2>3. LoadedFor(objs', signers[b][i], fleet[b][i])
    BY <1>1, <2>0, <2>1
  <2> QED
    BY <2>1, <2>2, <2>3 DEF LoadedFor
<1>5. CASE MovesOn(b)
  <2>1. fleet'[b] = fleet[b] /\ signers'[b] = signers[b] /\ pc[b] # "drop"
    BY <1>5 DEF MovesOn, DerivePcs, LoadPcs, DeletePcs
  <2> QED
    BY <1>1, <2>1
<1>6. CASE pc[b] \in DerivePcs \cup LoadPcs /\ Adds(b) /\ Step(b)
  <2>1. PICK key, xpub, mark : AddSigner(b, key, xpub, mark)
    BY <1>6 DEF Adds
  <2>2. fleet'[b] = fleet[b] /\ pc'[b] \in {"resolve", "held"}
    BY <1>0, <1>6, <2>1, AddFleet
  <2>3. /\ IsSeq(signers[b])
        /\ signers'[b] = Append(signers[b], [key |-> key, xpub |-> xpub,
                                  fingerprint |-> mark, patched |-> None])
    BY <1>0, <1>6, <2>1, AddFleet DEF FleetOwn
  <2>4. /\ i \in DOMAIN signers[b] \/ i = At(b)
        /\ i \in DOMAIN signers[b] => signers'[b][i] = signers[b][i]
    <3>1. /\ Len(signers[b]) \in Nat /\ DOMAIN signers[b] = 1 .. Len(signers[b])
          /\ DOMAIN signers'[b] = 1 .. Len(signers[b]) + 1
          /\ \A j \in DOMAIN signers[b] : signers'[b][j] = signers[b][j]
      BY <2>3, Appended
    <3> QED
      BY <3>1 DEF At
  <2>5. CASE i \in DOMAIN signers[b]
    <3>1. pc[b] # "drop"
      BY <1>6 DEF DerivePcs, LoadPcs
    <3> QED
      BY <1>1, <2>2, <2>4, <2>5, <3>1
  <2>6. CASE i = At(b)
    <3>1. Current(b).init = "load" /\ Current(b) = fleet'[b][i]
      BY <2>2, <2>6 DEF Current
    <3>2. pc[b] \in LoadPcs
      BY <1>0, <1>6, <3>1 DEF FleetOwn
    <3>3. /\ pc[b] = "fp_key" /\ FingerprintOf(frame[b].key).ok
          /\ AddSigner(b, frame[b].key, frame[b].xpub, FingerprintOf(frame[b].key).value)
      BY <1>0, <1>6, <2>2, <3>2, LoadAdded
    <3> DEFINE added == [key |-> frame[b].key, xpub |-> frame[b].xpub,
                         fingerprint |-> FingerprintOf(frame[b].key).value, patched |-> None]
    <3>4. signers'[b] = Append(signers[b], added) /\ objs' = objs
      <4>1. objs' = objs
        BY <3>3 DEF AddSigner, TokenUnchanged
      <4> QED
        BY <1>0, <1>6, <3>3, <4>1, AddFleet
    <3>5. signers'[b][i] = added
      <4> HIDE DEF added
      <4> QED
        BY <2>3, <2>6, <3>4, Appended DEF At
    <3>6. OneKey(objs, frame[b].key, Current(b)) /\ GivesXpub(objs, frame[b].key, frame[b].xpub)
      BY <1>0, <3>3 DEF LoadOwn
    <3>7. GivesFingerprint(objs, frame[b].key, FingerprintOf(frame[b].key).value)
      BY <3>3 DEF GivesFingerprint, FingerprintOf, AttributesOf, AttributesIn
    <3>8. LoadedFor(objs, added, Current(b))
      BY <3>6, <3>7 DEF LoadedFor
    <3> HIDE DEF added
    <3> QED
      BY <3>1, <3>4, <3>5, <3>8
  <2> QED
    BY <2>4, <2>5, <2>6
<1> QED
  BY <1>0, <1>2, <1>3, <1>4, <1>5, <1>6, StepMoves

LEMMA LoadStep ==
  ASSUME LoadInv, [Next]_vars
  PROVE  LoadInv'
<1>0. TypeInv /\ TypeInv' /\ Functions
  BY TypeStep DEF LoadInv, TypeInv, BuildInv, LoginInv
<1>1. ASSUME NEW c \in Builder, Build(c) \/ CallDelete(c) \/ Step(c) PROVE LoadInv'
  <2>1. ASSUME NEW b \in Builder PROVE LoadOwn(b)'
    <3>0. FleetOwn(b) /\ FrameOwn(b) /\ LoadOwn(b)
      BY DEF LoadInv, TypeInv, BuildInv
    <3>1. CASE b # c
      <4>1. /\ pc'[b] = pc[b] /\ fleet'[b] = fleet[b] /\ signers'[b] = signers[b] /\ frame'[b] = frame[b]
        BY <1>0, <1>1, <3>1, StepAlone DEF Alone
      <4>2. Current(b)' = Current(b)
        BY <4>1 DEF Current, At
      <4>3. ASSUME pc[b] \in {"read_key", "fp_key"}
            PROVE  /\ OneKey(objs', frame[b].key, Current(b))
                   /\ pc[b] = "fp_key" => GivesXpub(objs', frame[b].key, frame[b].xpub)
        <5>1. MemberOK(Current(b))
          BY <3>0, <4>3, FleetFacts DEF FleetOwn, Working
        <5>2. frame[b].key \in Held /\ OneKey(objs, frame[b].key, Current(b))
          BY <3>0, <4>3 DEF Held, LoadOwn
        <5>3. frame[b].key \in Handle
          BY <5>2 DEF OneKey
        <5> QED
          BY <1>0, <1>1, <3>0, <4>3, <5>1, <5>2, <5>3, HeldKept DEF LoadOwn
      <4>4. ASSUME pc[b] # "drop", NEW i \in DOMAIN signers[b], fleet[b][i].init = "load"
            PROVE  LoadedFor(objs', signers[b][i], fleet[b][i])
        <5>1. LoadedFor(objs, signers[b][i], fleet[b][i])
          BY <3>0, <4>4 DEF LoadOwn
        <5>2. MemberOK(fleet[b][i]) /\ signers[b][i].key \in Held
          BY <3>0, SignerMember
        <5>3. signers[b][i].key \in Handle
          BY <5>1 DEF LoadedFor, OneKey
        <5> QED
          BY <1>0, <1>1, <5>1, <5>2, <5>3, HeldKept DEF LoadedFor
      <4> QED
        BY <4>1, <4>2, <4>3, <4>4 DEF LoadOwn
    <3>2. CASE b = c
      <4>1. ASSUME pc'[b] \in {"read_key", "fp_key"}
            PROVE  /\ OneKey(objs', frame'[b].key, Current(b)')
                   /\ pc'[b] = "fp_key" => GivesXpub(objs', frame'[b].key, frame'[b].xpub)
        <5>1. FindKey(b) \/ ReadKey(b)
          BY <1>0, <1>1, <3>0, <3>2, <4>1, LoadMoves
        <5>2. CASE FindKey(b)
          <6>1. /\ pc'[b] = "read_key" /\ UNCHANGED <<objs, fleet, signers>>
                /\ OneKey(objs, frame'[b].key, Current(b))
            BY <1>0, <4>1, <5>2, KeyFound
          <6>2. Current(b)' = Current(b)
            BY <6>1 DEF Current, At
          <6> QED
            BY <6>1, <6>2
        <5>3. CASE ReadKey(b)
          <6>1. /\ pc[b] = "read_key" /\ UNCHANGED <<objs, fleet, signers>>
                /\ frame'[b].key = frame[b].key
                /\ GivesXpub(objs, frame[b].key, frame'[b].xpub)
            BY <1>0, <4>1, <5>3, KeyLoaded
          <6>2. Current(b)' = Current(b)
            BY <6>1 DEF Current, At
          <6>3. OneKey(objs, frame[b].key, Current(b))
            BY <3>0, <6>1 DEF LoadOwn
          <6> QED
            BY <6>1, <6>2, <6>3
        <5> QED
          BY <5>1, <5>2, <5>3
      <4>2. ASSUME pc'[b] # "drop", NEW i \in DOMAIN signers'[b], fleet'[b][i].init = "load"
            PROVE  LoadedFor(objs', signers'[b][i], fleet'[b][i])
        BY <1>1, <3>2, <4>2, OwnLoaded
      <4> QED
        BY <4>1, <4>2 DEF LoadOwn
    <3> QED
      BY <3>1, <3>2
  <2> QED
    BY <1>0, <2>1 DEF LoadInv
<1>2. CASE Crash
  <2>1. ASSUME NEW b \in Builder PROVE LoadOwn(b)'
    <3>1. pc'[b] = "idle" /\ signers'[b] = <<>>
      BY <1>2 DEF Crash
    <3> QED
      BY <3>1 DEF LoadOwn
  <2> QED
    BY <1>0, <2>1 DEF LoadInv
<1>3. CASE Finished \/ UNCHANGED vars
  <2>1. UNCHANGED vars
    BY <1>3 DEF Finished
  <2> QED
    BY <1>0, <2>1 DEF vars, LoadInv, LoadOwn, Current, At
<1> QED
  BY <1>1, <1>2, <1>3 DEF Next

LEMMA LoadInit == Init => LoadInv
  BY TypeInit DEF Init, LoadInv, LoadOwn

LEMMA Loads == Spec => []LoadInv
  BY LoadInit, LoadStep, PTL DEF Spec

\* A signer that load built is bound to one key as long as it is in use: no other
\* key on its token has the label, nothing takes its place if other threads delete
\* it, and the xpub and the fingerprint, read at two times, are both that key's.
THEOREM LoadedSafe == Spec => []LoadedOfOneKey
<1>1. ASSUME LoadInv PROVE LoadedOfOneKey
  <2> SUFFICES ASSUME NEW b \in Builder, NEW i \in InUse(b), fleet[b][i].init = "load"
               PROVE  LET signer == signers[b][i]
                      IN  /\ KeysProvisioned(fleet[b][i]) \subseteq {signer.key}
                          /\ signer.key \in Live =>
                               /\ XpubOf(signer.key).ok /\ XpubOf(signer.key).value = signer.xpub
                               /\ FingerprintOf(signer.key).ok
                               /\ FingerprintOf(signer.key).value = signer.fingerprint
    BY DEF LoadedOfOneKey
  <2> DEFINE signer == signers[b][i]
             member == fleet[b][i]
  <2>1. LoadedFor(objs, signer, member)
    BY <1>1 DEF LoadInv, LoadOwn, InUse
  <2> HIDE DEF signer, member
  <2>2. KeysProvisioned(member) \subseteq {signer.key}
    BY <2>1 DEF LoadedFor, OneKey, KeysProvisioned, Live
  <2>3. signer.key \in Live =>
          /\ XpubOf(signer.key).ok /\ XpubOf(signer.key).value = signer.xpub
          /\ FingerprintOf(signer.key).ok /\ FingerprintOf(signer.key).value = signer.fingerprint
    BY <2>1 DEF LoadedFor, GivesXpub, GivesFingerprint, Live, XpubOf, FingerprintOf,
                AttributesOf, AttributesIn
  <2> QED
    BY <2>2, <2>3 DEF signer, member
<1> QED
  BY <1>1, Loads, PTL

-----------------------------------------------------------------------------
(* Deletions                                                               *)

\* The objects that bear a name on the token of the member that b deletes.
Matching(b, name) ==
    {h \in Live : objs[h].token = TokenAt(fleet[b][1]) /\ objs[h].name = name}

PrivLeft(b) == Matching(b, PrivLabel(fleet[b][1].label))
PubLeft(b)  == Matching(b, PubLabel(fleet[b][1].label))

\* What is left to delete was found, and nothing that is found comes anew.
DeleteOwn(b) ==
    /\ pc[b] = "destroy_priv" => PrivLeft(b) \subseteq frame[b].todo
    /\ pc[b] \in {"find_pub", "destroy_pub"} => PrivLeft(b) = {}
    /\ pc[b] = "destroy_pub" => PubLeft(b) \subseteq frame[b].todo
    /\ pc[b] = "drop" /\ result[b] = "ok" =>
         /\ fleet[b] # <<>>
         /\ fleet[b][1].init = "delete" => PrivLeft(b) = {} /\ PubLeft(b) = {}

DeleteInv == TypeInv /\ \A b \in Builder : DeleteOwn(b)

\* Which member b deletes.
LEMMA DeletesFirst ==
  ASSUME NEW b \in Builder, FleetOwn(b), pc[b] \in DeletePcs
  PROVE  /\ fleet[b] # <<>> /\ MemberOK(fleet[b][1]) /\ At(b) = 1
         /\ Current(b) = fleet[b][1] /\ TokenAt(fleet[b][1]) \in Token
<1>1. Len(signers[b]) < Len(fleet[b]) /\ Current(b).init = "delete" /\ TokenAt(Current(b)) \in Token
  BY DEF FleetOwn, DeletePcs, Working
<1>2. /\ Asked(task[b], fleet[b]) /\ Len(signers[b]) \in Nat /\ At(b) \in DOMAIN fleet[b]
      /\ MemberOK(Current(b))
  BY <1>1, FleetFacts DEF DeletePcs
<1>3. Len(fleet[b]) = 1
  BY <1>1, <1>2, AskedFor DEF Current
<1>4. At(b) = 1
  BY <1>1, <1>2, <1>3 DEF At
<1> QED
  BY <1>1, <1>2, <1>3, <1>4 DEF Current

\* A fleet that begins with a deletion is that deletion.
LEMMA DeletionAlone ==
  ASSUME NEW b \in Builder, FleetOwn(b), fleet[b] # <<>>, fleet[b][1].init = "delete"
  PROVE  /\ MemberOK(fleet[b][1]) /\ pc[b] \notin DerivePcs \cup LoadPcs \cup {"held"}
<1>1. Asked(task[b], fleet[b]) /\ Len(fleet[b]) \in Nat \ {0} /\ DOMAIN fleet[b] = 1 .. Len(fleet[b])
  BY AskedFor DEF FleetOwn
<1>2. MemberOK(fleet[b][1]) /\ Len(fleet[b]) = 1
  BY <1>1, AskedFor
<1>3. Len(signers[b]) \in Nat /\ DOMAIN signers[b] = 1 .. Len(signers[b])
  BY FleetFacts
<1>4. CASE pc[b] \in DerivePcs \cup LoadPcs
  <2>1. Len(signers[b]) < Len(fleet[b]) /\ Current(b).init # "delete"
    BY <1>4 DEF FleetOwn, DerivePcs, LoadPcs, Working
  <2>2. At(b) = 1
    BY <1>2, <1>3, <2>1 DEF At
  <2> QED
    BY <2>1, <2>2 DEF Current
<1>5. CASE pc[b] = "held"
  <2>1. 1 \in DOMAIN signers[b]
    BY <1>2, <1>3, <1>5 DEF FleetOwn
  <2> QED
    BY <2>1 DEF FleetOwn
<1> QED
  BY <1>2, <1>4, <1>5

\* No step makes an object with the name of a key to be deleted.
LEMMA MatchShrinks ==
  ASSUME TypeInv, NEW c \in Builder, Build(c) \/ CallDelete(c) \/ Step(c),
         NEW b \in Builder, MemberOK(fleet[b][1]), fleet'[b] = fleet[b]
  PROVE  PrivLeft(b)' \subseteq PrivLeft(b) /\ PubLeft(b)' \subseteq PubLeft(b)
<1> DEFINE names == {PrivLabel(fleet[b][1].label), PubLabel(fleet[b][1].label)}
<1>1. Functions
  BY DEF TypeInv, BuildInv, LoginInv
<1>2. ASSUME NEW h \in Live', objs'[h].name \in names
      PROVE  h \in Live /\ objs'[h].name = objs[h].name /\ objs'[h].token = objs[h].token
  <2>1. CASE h \in Live /\ objs'[h] = objs[h]
    BY <2>1
  <2>2. CASE h \in Live /\ objs'[h] = [objs[h] EXCEPT !.refused = TRUE]
    BY <2>2
  <2>3. CASE Made(c, objs'[h])
    <3>1. objs'[h].name = None \/ \E l : objs'[h].name = <<l, "priv/priv">>
      BY <2>3 DEF Made, MasterLabel
    <3>2. None \notin names
      BY DEF MemberOK
    <3>3. \A l : <<l, "priv/priv">> \notin names
      BY DEF PrivLabel, PubLabel
    <3> QED
      BY <1>2, <3>1, <3>2, <3>3
  <2> QED
    BY <1>1, <2>1, <2>2, <2>3, WhereFrom
<1>3. TokenAt(fleet'[b][1]) = TokenAt(fleet[b][1])
  BY DEF TokenAt
<1> QED
  BY <1>2, <1>3 DEF PrivLeft, PubLeft, Matching, TokenAt

\* Under a name that delete looks for there are only objects of its class.
LEMMA FindsAll ==
  ASSUME TypeInv, NEW b \in Builder, pc[b] \in DeletePcs
  PROVE  /\ PrivLeft(b) \subseteq Find(b, "priv", PrivLabel(Current(b).label))
         /\ PubLeft(b) \subseteq Find(b, "pub", PubLabel(Current(b).label))
<1>1. /\ Current(b) = fleet[b][1] /\ MemberOK(fleet[b][1])
      /\ Session(b).token = TokenAt(fleet[b][1])
  BY DeletesFirst DEF TypeInv, BuildInv, Session
<1>2. ASSUME NEW h \in Live, NEW l, NEW kind \in {"priv", "pub"}, objs[h].name = <<l, kind>>,
             <<l, kind>> # None
      PROVE  objs[h].class = kind
  <2>1. ObjectOK(objs[h])
    BY DEF TypeInv
  <2>2. objs[h].name # None /\ objs[h].name # <<objs[h].name[1], "priv/priv">>
    BY <1>2
  <2> QED
    BY <1>2, <2>1, <2>2 DEF ObjectOK
<1>3. ASSUME NEW h \in PrivLeft(b) PROVE h \in Find(b, "priv", PrivLabel(Current(b).label))
  BY <1>1, <1>2, <1>3 DEF PrivLeft, Matching, Find, MemberOK, PrivLabel
<1>4. ASSUME NEW h \in PubLeft(b) PROVE h \in Find(b, "pub", PubLabel(Current(b).label))
  BY <1>1, <1>2, <1>4 DEF PubLeft, Matching, Find, MemberOK, PubLabel
<1> QED
  BY <1>3, <1>4

\* What is refused is never reported as done.
LEMMA RefusedError ==
  ASSUME NEW e \in DOMAIN Envs, ~FromEnv(Envs[e]).ok
  PROVE  FromEnv(Envs[e]).value # "ok"
<1> DEFINE env == Envs[e]
           bad == {i \in 1 .. Count(env) : MemberError(env.member[i]) # "none"}
<1>0. IsEnvironment(env) /\ Len(env.member) \in Nat /\ DOMAIN env.member = 1 .. Len(env.member)
  <2>1. IsEnvironment(env)
    BY KeyCeremonyAssumption
  <2> QED
    BY <2>1 DEF IsEnvironment
<1>1. ~ParseNetwork(env.network).ok => ParseNetwork(env.network).value = "InvalidConfig"
  <2>1. \A any : Ok(any).ok /\ ~Err(any).ok /\ Err(any).value = any
    BY DEF Ok, Err
  <2> QED
    BY <2>1 DEF ParseNetwork
<1>2. \A i \in DOMAIN env.member : MemberError(env.member[i]) # "ok"
  <2> SUFFICES ASSUME NEW i \in DOMAIN env.member PROVE MemberError(env.member[i]) # "ok"
    OBVIOUS
  <2>1. ~ParseKeyInit(env.member[i].KEY).ok => ParseKeyInit(env.member[i].KEY).value # "ok"
    BY <1>0, KeyInitRead DEF IsEnvironment
  <2> QED
    BY <2>1 DEF MemberError
<1>3. Count(env) \in 0 .. Len(env.member)
  BY <1>0, CountStops
<1>4. bad # {} => Min(bad) \in DOMAIN env.member
  <2>1. bad \subseteq 1 .. Count(env)
    OBVIOUS
  <2> HIDE DEF bad
  <2>2. bad \subseteq Nat
    BY <1>0, <1>3, <2>1
  <2>3. bad # {} => Min(bad) \in bad
    BY <2>2, MinLeast
  <2>4. 1 .. Count(env) \subseteq DOMAIN env.member
    BY <1>0, <1>3
  <2> QED
    BY <2>1, <2>3, <2>4
<1>5. \/ ~ParseNetwork(env.network).ok /\ FromEnv(env) = ParseNetwork(env.network)
      \/ bad # {} /\ FromEnv(env) = Err(MemberError(env.member[Min(bad)]))
      \/ FromEnv(env) = Err("InvalidConfig")
      \/ FromEnv(env).ok
  BY DEF FromEnv, Ok
<1> HIDE DEF bad
<1>6. FromEnv(env).value # "ok"
  BY <1>1, <1>2, <1>4, <1>5 DEF Err
<1> QED
  BY <1>6

\* A build that ends with "ok" at this step was done with its signers, or was a
\* deletion that has nothing left to delete.
LEMMA EndsWell ==
  ASSUME Functions, NEW b \in Builder, FleetOwn(b), Build(b) \/ CallDelete(b) \/ Step(b),
         pc'[b] = "drop", result'[b] = "ok"
  PROVE  \/ pc[b] \in DerivePcs \cup LoadPcs \cup {"held"}
         \/ pc[b] = "drop" /\ result[b] = "ok" /\ CloseSession(b)
         \/ pc[b] = "destroy_pub" /\ DestroyDone(b)
<1> USE DEF Goto, Functions, DerivePcs, LoadPcs
<1>1. CASE Build(b)
  <2>1. PICK e \in DOMAIN Envs :
         LET members == FromEnv(Envs[e])
         IN  \/ Start(b, e, members.value) \/ Refuse(b, "InvalidConfig")
             \/ ~members.ok /\ Refuse(b, members.value)
    BY <1>1 DEF Build
  <2>2. ~FromEnv(Envs[e]).ok => FromEnv(Envs[e]).value # "ok"
    BY RefusedError
  <2> QED
    BY <2>1, <2>2 DEF Start, Refuse
<1>2. CASE CallDelete(b)
  BY <1>2 DEF CallDelete, Start
<1>3. CASE ResolveSlot(b) \/ OpenSession(b)
  BY <1>3 DEF ResolveSlot, OpenSession, Fail, Abort
<1>4. CASE Login(b)
  <2>1. Current(b).init \in {"derive", "load", "delete"}
    BY <1>4, FleetFacts DEF FleetOwn, MemberOK, Working, Login
  <2>2. FirstLabel(Current(b)) # "drop"
    BY <2>1 DEF FirstLabel
  <2> QED
    BY <1>4, <2>2 DEF Login, Abort
<1>5. CASE CreateSeed(b) \/ DeriveMaster(b) \/ DestroySeed(b) \/ ReadMaster(b)
           \/ FingerprintMaster(b) \/ DeriveChild(b) \/ FinishDerive(b)
  BY <1>5 DEF CreateSeed, DeriveMaster, DestroySeed, ReadMaster, FingerprintMaster, DeriveChild, FinishDerive
<1>6. CASE FindKey(b) \/ ReadKey(b) \/ FingerprintKey(b)
  BY <1>6 DEF FindKey, ReadKey, FingerprintKey
<1>7. CASE FindPriv(b) \/ FindPub(b)
  BY <1>7 DEF FindPriv, FindPub, FindToDelete, Fail, Abort
<1>8. CASE DestroyKey(b)
  BY <1>8 DEF DestroyKey, Abort
<1>9. CASE DestroyDone(b)
  BY <1>9 DEF DestroyDone
<1>10. CASE Wrap(b) \/ Release(b)
  BY <1>10 DEF Wrap, Release
<1>11. CASE CloseSession(b)
  BY <1>11 DEF CloseSession
<1>12. CASE EndBuild(b)
  BY <1>12 DEF EndBuild
<1> QED
  BY <1>1, <1>2, <1>3, <1>4, <1>5, <1>6, <1>7, <1>8, <1>9, <1>10, <1>11, <1>12 DEF Step

\* Where a builder at a deletion goes.
LEMMA DeleteMoves ==
  ASSUME Functions, NEW b \in Builder, FleetOwn(b), Build(b) \/ CallDelete(b) \/ Step(b),
         pc'[b] \in {"destroy_priv", "find_pub", "destroy_pub"}
  PROVE  FindPriv(b) \/ FindPub(b) \/ DestroyKey(b) \/ DestroyDone(b)
<1> USE DEF Goto, Functions
<1>1. CASE Build(b) \/ CallDelete(b)
  BY <1>1 DEF Build, CallDelete, Start, Refuse
<1>2. CASE ResolveSlot(b) \/ OpenSession(b)
  BY <1>2 DEF ResolveSlot, OpenSession, Fail, Abort
<1>3. CASE Login(b)
  <2>1. Current(b).init \in {"derive", "load", "delete"}
    BY <1>3, FleetFacts DEF FleetOwn, MemberOK, Working, Login
  <2>2. FirstLabel(Current(b)) \notin {"destroy_priv", "find_pub", "destroy_pub"}
    BY <2>1 DEF FirstLabel
  <2> QED
    BY <1>3, <2>2 DEF Login, Abort
<1>4. CASE CreateSeed(b) \/ DeriveMaster(b) \/ DestroySeed(b)
  BY <1>4 DEF CreateSeed, DeriveMaster, DestroySeed, Fail, Abort
<1>5. CASE ReadMaster(b) \/ FingerprintMaster(b) \/ DeriveChild(b) \/ FinishDerive(b)
  BY <1>5 DEF ReadMaster, FingerprintMaster, DeriveChild, FinishDerive, AddSigner, ReadFails, Fail, Abort
<1>6. CASE FindKey(b) \/ ReadKey(b) \/ FingerprintKey(b)
  BY <1>6 DEF FindKey, ReadKey, FingerprintKey, AddSigner, ReadFails, Abort
<1>7. CASE Wrap(b) \/ Release(b) \/ CloseSession(b) \/ EndBuild(b)
  BY <1>7 DEF Wrap, Release, CloseSession, EndBuild
<1> QED
  BY <1>1, <1>2, <1>3, <1>4, <1>5, <1>6, <1>7 DEF Step

LEMMA FoundLeft ==
  ASSUME TypeInv, NEW b \in Builder, FindPriv(b) \/ FindPub(b), pc'[b] # "drop"
  PROVE  /\ UNCHANGED <<objs, fleet>>
         /\ \/ /\ pc[b] = "find_priv" /\ pc'[b] = "destroy_priv"
               /\ PrivLeft(b) \subseteq frame'[b].todo
            \/ /\ pc[b] = "find_pub" /\ pc'[b] = "destroy_pub"
               /\ PubLeft(b) \subseteq frame'[b].todo
<1>1. Functions /\ FrameOwn(b)
  BY DEF TypeInv, BuildInv, LoginInv
<1>2. ASSUME NEW here, NEW class, NEW name, NEW next, FindToDelete(b, here, class, name, next)
      PROVE  /\ pc[b] = here /\ UNCHANGED <<objs, fleet>>
             /\ pc'[b] = next /\ frame'[b].todo = Find(b, class, name)
  <2>1. pc[b] = here /\ UNCHANGED fleet
    BY <1>2 DEF FindToDelete, BuildUnchanged
  <2>2. CASE /\ frame' = [frame EXCEPT ![b].todo = ToDelete(Find(b, class, name))]
             /\ Goto(b, next) /\ TokenUnchanged
    <3>1. frame'[b].todo = Find(b, class, name)
      BY <1>1, <2>2 DEF FrameOwn, Functions, ToDelete
    <3>2. pc'[b] = next /\ UNCHANGED objs
      BY <1>1, <2>2 DEF Goto, Functions, TokenUnchanged
    <3> QED
      BY <2>1, <3>1, <3>2
  <2>3. ~Fail(b, "find", "Pkcs11")
    BY <1>1 DEF Fail, Abort, Goto, Functions
  <2> QED
    BY <1>2, <2>2, <2>3 DEF FindToDelete
<1>3. CASE FindPriv(b)
  <2>1. /\ pc[b] = "find_priv" /\ UNCHANGED <<objs, fleet>> /\ pc'[b] = "destroy_priv"
        /\ frame'[b].todo = Find(b, "priv", PrivLabel(Current(b).label))
    BY <1>2, <1>3 DEF FindPriv
  <2> QED
    BY <2>1, FindsAll DEF DeletePcs
<1>4. CASE FindPub(b)
  <2>1. /\ pc[b] = "find_pub" /\ UNCHANGED <<objs, fleet>> /\ pc'[b] = "destroy_pub"
        /\ frame'[b].todo = Find(b, "pub", PubLabel(Current(b).label))
    BY <1>2, <1>4 DEF FindPub
  <2> QED
    BY <2>1, FindsAll DEF DeletePcs
<1> QED
  BY <1>3, <1>4

LEMMA OwnDelete ==
  ASSUME DeleteInv, TypeInv', NEW b \in Builder, Build(b) \/ CallDelete(b) \/ Step(b)
  PROVE  DeleteOwn(b)'
<1>0. /\ TypeInv /\ Functions /\ FleetOwn(b) /\ FleetOwn(b)' /\ FrameOwn(b) /\ DeleteOwn(b)
  BY DEF DeleteInv, TypeInv, BuildInv, LoginInv
<1>1. ASSUME MemberOK(fleet[b][1]), fleet'[b] = fleet[b]
      PROVE  PrivLeft(b)' \subseteq PrivLeft(b) /\ PubLeft(b)' \subseteq PubLeft(b)
  BY <1>0, <1>1, MatchShrinks
<1>2. CASE pc'[b] = "drop"
  <2>1. CASE result'[b] # "ok"
    BY <1>2, <2>1 DEF DeleteOwn
  <2> SUFFICES ASSUME result'[b] = "ok" PROVE DeleteOwn(b)'
    BY <2>1
  <2>2. CASE pc[b] \in DerivePcs \cup LoadPcs \cup {"held"}
    <3>1. fleet'[b] = fleet[b]
      <4>1. ~EndBuild(b) /\ ~Build(b) /\ ~CallDelete(b)
        BY <1>0, <2>2 DEF EndBuild, Build, CallDelete, DerivePcs, LoadPcs
      <4>2. CASE Wrap(b)
        BY <4>2 DEF Wrap
      <4>3. CASE MovesOn(b)
        BY <4>3 DEF MovesOn
      <4>4. CASE Adds(b)
        BY <4>4 DEF Adds, AddSigner
      <4> QED
        BY <1>0, <4>1, <4>2, <4>3, <4>4, StepMoves
    <3>2. Asked(task[b], fleet[b])
      BY <1>0, <2>2, FleetFacts DEF DerivePcs, LoadPcs
    <3>3. fleet[b] # <<>>
      BY <3>2, AskedFor
    <3>4. fleet[b][1].init # "delete"
      BY <1>0, <2>2, <3>3, DeletionAlone
    <3> QED
      BY <1>2, <3>1, <3>3, <3>4 DEF DeleteOwn
  <2>3. CASE pc[b] = "drop" /\ result[b] = "ok" /\ CloseSession(b)
    <3>1. fleet'[b] = fleet[b]
      BY <2>3 DEF CloseSession, BuildUnchanged
    <3>2. fleet[b] # <<>> /\ (fleet[b][1].init = "delete" => PrivLeft(b) = {} /\ PubLeft(b) = {})
      BY <1>0, <2>3 DEF DeleteOwn
    <3>3. fleet[b][1].init = "delete" => MemberOK(fleet[b][1])
      BY <1>0, <3>2, DeletionAlone
    <3>4. fleet[b][1].init = "delete" => PrivLeft(b)' = {} /\ PubLeft(b)' = {}
      BY <1>1, <3>1, <3>2, <3>3
    <3> QED
      BY <1>2, <3>1, <3>2, <3>4 DEF DeleteOwn
  <2>4. CASE pc[b] = "destroy_pub" /\ DestroyDone(b)
    <3>1. fleet'[b] = fleet[b] /\ frame[b].todo = {}
      BY <2>4 DEF DestroyDone, BuildUnchanged
    <3>2. fleet[b] # <<>> /\ MemberOK(fleet[b][1])
      BY <1>0, <2>4, DeletesFirst DEF DeletePcs
    <3>3. PrivLeft(b)' = {} /\ PubLeft(b)' = {}
      BY <1>0, <1>1, <2>4, <3>1, <3>2 DEF DeleteOwn
    <3> QED
      BY <1>2, <3>1, <3>2, <3>3 DEF DeleteOwn
  <2> QED
    BY <1>0, <1>2, <2>2, <2>3, <2>4, EndsWell
<1>3. CASE pc'[b] \in {"destroy_priv", "find_pub", "destroy_pub"}
  <2>1. CASE FindPriv(b) \/ FindPub(b)
    <3>1. /\ UNCHANGED <<objs, fleet>>
          /\ \/ /\ pc[b] = "find_priv" /\ pc'[b] = "destroy_priv"
                /\ PrivLeft(b) \subseteq frame'[b].todo
             \/ /\ pc[b] = "find_pub" /\ pc'[b] = "destroy_pub"
                /\ PubLeft(b) \subseteq frame'[b].todo
      BY <1>0, <1>3, <2>1, FoundLeft
    <3>2. PrivLeft(b)' = PrivLeft(b) /\ PubLeft(b)' = PubLeft(b)
      BY <3>1 DEF PrivLeft, PubLeft, Matching, TokenAt, Live
    <3> QED
      BY <1>0, <3>1, <3>2 DEF DeleteOwn
  <2>2. CASE DestroyKey(b)
    <3>1. pc[b] \in {"destroy_priv", "destroy_pub"} /\ UNCHANGED fleet
      BY <2>2 DEF DestroyKey, BuildUnchanged
    <3>2. PICK h \in frame[b].todo : /\ objs' = [objs EXCEPT ![h] = NoObject]
                                     /\ frame' = [frame EXCEPT ![b].todo = @ \ {h}]
                                     /\ UNCHANGED pc
      BY <1>0, <1>3, <2>2 DEF DestroyKey, Abort, Goto, Functions
    <3>3. pc'[b] = pc[b] /\ frame'[b].todo = frame[b].todo \ {h} /\ h \notin Live'
      BY <1>0, <3>2 DEF Functions, FrameOwn, Live
    <3>4. PrivLeft(b)' \subseteq PrivLeft(b) \ {h} /\ PubLeft(b)' \subseteq PubLeft(b) \ {h}
      <4>1. MemberOK(fleet[b][1])
        BY <1>0, <3>1, DeletesFirst DEF DeletePcs
      <4>2. PrivLeft(b)' \subseteq Live' /\ PubLeft(b)' \subseteq Live'
        BY DEF PrivLeft, PubLeft, Matching
      <4> QED
        BY <1>1, <3>1, <3>3, <4>1, <4>2
    <3> QED
      BY <1>0, <3>1, <3>3, <3>4 DEF DeleteOwn
  <2>3. CASE DestroyDone(b)
    <3>1. pc[b] = "destroy_priv" /\ pc'[b] = "find_pub" /\ frame[b].todo = {} /\ UNCHANGED <<objs, fleet>>
      BY <1>0, <1>3, <2>3 DEF DestroyDone, Goto, Functions, TokenUnchanged, BuildUnchanged
    <3>2. PrivLeft(b)' = PrivLeft(b)
      BY <3>1 DEF PrivLeft, PubLeft, Matching, TokenAt, Live
    <3> QED
      BY <1>0, <3>1, <3>2 DEF DeleteOwn
  <2> QED
    BY <1>0, <1>3, <2>1, <2>2, <2>3, DeleteMoves
<1>4. CASE pc'[b] \notin {"destroy_priv", "find_pub", "destroy_pub", "drop"}
  BY <1>4 DEF DeleteOwn
<1> QED
  BY <1>2, <1>3, <1>4

LEMMA DeleteStep ==
  ASSUME DeleteInv, [Next]_vars
  PROVE  DeleteInv'
<1>0. TypeInv /\ TypeInv' /\ Functions
  BY TypeStep DEF DeleteInv, TypeInv, BuildInv, LoginInv
<1>1. ASSUME NEW b \in Builder, Build(b) \/ CallDelete(b) \/ Step(b) PROVE DeleteInv'
  <2>1. DeleteOwn(b)'
    BY <1>0, <1>1, OwnDelete
  <2>2. ASSUME NEW c \in Builder \ {b} PROVE DeleteOwn(c)'
    <3>1. /\ pc'[c] = pc[c] /\ fleet'[c] = fleet[c] /\ frame'[c] = frame[c] /\ result'[c] = result[c]
      BY <1>0, <1>1, StepAlone DEF Alone
    <3>2. DeleteOwn(c) /\ FleetOwn(c)
      BY <1>0 DEF DeleteInv, TypeInv, BuildInv
    <3>3. ASSUME MemberOK(fleet[c][1])
          PROVE  PrivLeft(c)' \subseteq PrivLeft(c) /\ PubLeft(c)' \subseteq PubLeft(c)
      BY <1>0, <1>1, <3>1, <3>3, MatchShrinks
    <3>4. CASE pc[c] \in {"destroy_priv", "find_pub", "destroy_pub"}
      <4>1. MemberOK(fleet[c][1])
        BY <3>2, <3>4, DeletesFirst DEF DeletePcs
      <4> QED
        BY <3>1, <3>2, <3>3, <3>4, <4>1 DEF DeleteOwn
    <3>5. CASE pc[c] = "drop" /\ result[c] = "ok"
      <4>1. fleet[c] # <<>> /\ (fleet[c][1].init = "delete" => MemberOK(fleet[c][1]))
        BY <3>2, <3>5, DeletionAlone DEF DeleteOwn
      <4> QED
        BY <3>1, <3>2, <3>3, <3>5, <4>1 DEF DeleteOwn
    <3> QED
      BY <3>1, <3>4, <3>5 DEF DeleteOwn
  <2> QED
    BY <1>0, <2>1, <2>2 DEF DeleteInv
<1>2. CASE Crash
  BY <1>0, <1>2 DEF Crash, DeleteInv, DeleteOwn
<1>3. CASE Finished \/ UNCHANGED vars
  <2>1. UNCHANGED vars
    BY <1>3 DEF Finished
  <2> QED
    BY <1>0, <2>1 DEF vars, DeleteInv, DeleteOwn, PrivLeft, PubLeft, Matching, Live, TokenAt
<1> QED
  BY <1>1, <1>2, <1>3 DEF Next

LEMMA DeleteInit == Init => DeleteInv
  BY TypeInit DEF Init, DeleteInv, DeleteOwn

\* A delete_key that returns Ok has removed every private and public object of
\* its label from the token, whatever the other threads find, derive and delete
\* there meanwhile, and wherever the application died before.
THEOREM DeletesAll == Spec => []DeleteRemovesAll
<1>1. ASSUME DeleteInv PROVE DeleteRemovesAll
  <2> SUFFICES ASSUME NEW b \in Builder, pc[b] = "drop", result[b] = "ok",
                      fleet[b][1].init = "delete", NEW h \in Live,
                      objs[h].token = TokenAt(fleet[b][1])
               PROVE  objs[h].name \notin {PrivLabel(fleet[b][1].label), PubLabel(fleet[b][1].label)}
    BY DEF DeleteRemovesAll
  <2>1. PrivLeft(b) = {} /\ PubLeft(b) = {}
    BY <1>1 DEF DeleteInv, DeleteOwn
  <2> QED
    BY <2>1 DEF PrivLeft, PubLeft, Matching
<1> QED
  BY DeleteInit, DeleteStep, <1>1, PTL DEF Spec

-----------------------------------------------------------------------------
(* What is read of a key                                                   *)

\* Either form of a point is read as the key it is of.
LEMMA SliceRead ==
  ASSUME NEW p \in Points
  PROVE  FromSlice(p.compressed) = Ok(p.key) /\ FromSlice(p.uncompressed) = Ok(p.key)
<1>1. ASSUME NEW bytes \in {p.compressed, p.uncompressed}
      PROVE  FromSlice(bytes) = Ok(p.key)
  <2> DEFINE read == {s \in Sec1 : s.bytes = bytes}
  <2>1. \E s \in Sec1 : s.bytes = bytes
    <3>1. /\ [key |-> p.key, form |-> "compressed", bytes |-> p.compressed] \in Sec1
          /\ [key |-> p.key, form |-> "uncompressed", bytes |-> p.uncompressed] \in Sec1
      BY DEF Sec1
    <3> QED
      BY <3>1
  <2>2. ASSUME NEW s \in Sec1, s.bytes = bytes PROVE s.key = p.key
    <3>1. PICK q \in Points : s.key = q.key /\ s.bytes \in {q.compressed, q.uncompressed}
      BY DEF Sec1
    <3>2. /\ Len(p.compressed) = 33 /\ Len(p.uncompressed) = 65
          /\ Len(q.compressed) = 33 /\ Len(q.uncompressed) = 65
      BY PointsAssumption
    <3>3. p.compressed = q.compressed \/ p.uncompressed = q.uncompressed
      BY <2>2, <3>1, <3>2
    <3> QED
      BY <3>1, <3>3, PointsAssumption
  <2>3. read # {} /\ \A s \in read : s.key = p.key
    BY <2>1, <2>2
  <2>4. FromSlice(bytes) = IF read = {} THEN Err("MetadataError") ELSE Ok((CHOOSE s \in read : TRUE).key)
    BY DEF FromSlice
  <2> HIDE DEF read
  <2>5. (CHOOSE s \in read : TRUE) \in read
    BY <2>3
  <2> QED
    BY <2>3, <2>4, <2>5
<1> QED
  BY <1>1

\* What a token presents of a key is one of its forms.
LEMMA PresentedBytes ==
  ASSUME NEW p \in Points
  PROVE  /\ Presented("compressed", p.key) = p.compressed
         /\ Presented("uncompressed", p.key) = p.uncompressed
         /\ Presented("wrapped", p.key) = Encode(p.uncompressed)
<1> DEFINE bytes(f) == (CHOOSE s \in Sec1 : s.key = p.key /\ s.form = f).bytes
<1>1. bytes("compressed") = p.compressed
  <2> DEFINE s1 == [key |-> p.key, form |-> "compressed", bytes |-> p.compressed]
  <2>1. s1 \in Sec1 /\ s1.key = p.key /\ s1.form = "compressed"
    BY DEF Sec1
  <2>2. \A s \in Sec1 : s.key = p.key /\ s.form = "compressed" => s.bytes = p.compressed
    BY PointsAssumption DEF Sec1
  <2> HIDE DEF s1
  <2> QED
    BY <2>1, <2>2
<1>2. bytes("uncompressed") = p.uncompressed
  <2> DEFINE s1 == [key |-> p.key, form |-> "uncompressed", bytes |-> p.uncompressed]
  <2>1. s1 \in Sec1 /\ s1.key = p.key /\ s1.form = "uncompressed"
    BY DEF Sec1
  <2>2. \A s \in Sec1 : s.key = p.key /\ s.form = "uncompressed" => s.bytes = p.uncompressed
    BY PointsAssumption DEF Sec1
  <2> HIDE DEF s1
  <2> QED
    BY <2>1, <2>2
<1>3. \A f : Presented(f, p.key) = IF f = "wrapped" THEN Encode(bytes("uncompressed")) ELSE bytes(f)
  BY DEF Presented
<1> HIDE DEF bytes
<1> QED
  BY <1>1, <1>2, <1>3

Short(content) == Len(content) < 65536

LEMMA ShortBack ==
  ASSUME NEW content \in Seq(Byte), Short(content)
  PROVE  Decode(Encode(content)) = Ok(content)
  BY DecodeEncode DEF Short

LEMMA WrappedBack ==
  ASSUME NEW content \in Seq(Byte), Len(content) = 65
  PROVE  Decode(Encode(content)) = Ok(content)
<1>1. Short(content)
  BY DEF Short
<1> QED
  BY <1>1, ShortBack

\* If what a token presents of a key is read, it is read as that key.
LEMMA PointRead ==
  ASSUME PointsToldApart, NEW t \in Token, NEW p \in Points
  PROVE  LET point == ParseEcPoint(Presented(PointForm[t], p.key))
         IN  point.ok => point.value = p.key
<1>0. /\ p.compressed \in Seq(Byte) /\ Len(p.compressed) = 33 /\ p.compressed[1] \in {2, 3}
      /\ p.uncompressed \in Seq(Byte) /\ Len(p.uncompressed) = 65 /\ p.uncompressed[1] = 4
  BY PointsAssumption
<1>1. ParseEcPoint(p.compressed) = Ok(p.key)
  <2>1. Decode(p.compressed) = Ok(p.compressed)
    BY <1>0 DEF Decode, OctetString
  <2> QED
    BY <2>1, SliceRead DEF ParseEcPoint, Ok
<1>2. ParseEcPoint(Encode(p.uncompressed)) = Ok(p.key)
  <2>1. Decode(Encode(p.uncompressed)) = Ok(p.uncompressed)
    BY <1>0, WrappedBack
  <2> QED
    BY <2>1, SliceRead DEF ParseEcPoint, Ok
<1>3. CASE PointForm[t] = "compressed"
  BY <1>1, <1>3, PresentedBytes DEF Ok
<1>4. CASE PointForm[t] = "wrapped"
  BY <1>2, <1>4, PresentedBytes DEF Ok
<1>5. CASE PointForm[t] = "uncompressed"
  BY <1>5, PresentedBytes DEF PointsToldApart
<1> QED
  BY <1>3, <1>4, <1>5, KeyCeremonyAssumption

\* The attributes of an object that nothing is wrong with.
LEMMA PlainAttributes ==
  ASSUME NEW form, NEW key
  PROVE  LET attrs == Attributes(form, key, <<>>)
         IN  /\ attrs.ec_point = Presented(form, key) /\ attrs.chain_code = key
             /\ attrs.depth = <<Len(key.path)>>
             /\ attrs.parent_fp = IF key.path = <<>> THEN "none" ELSE Parent(key)
             /\ attrs.child_index = IF key.path = <<>> THEN <<0, 0, 0, 0>>
                                                       ELSE key.path[Len(key.path)]
<1> DEFINE plain == [ec_point    |-> Presented(form, key),
                     chain_code  |-> key,
                     depth       |-> <<Len(key.path)>>,
                     parent_fp   |-> IF key.path = <<>> THEN "none" ELSE Parent(key),
                     child_index |-> IF key.path = <<>> THEN <<0, 0, 0, 0>>
                                                        ELSE key.path[Len(key.path)]]
<1>1. Attributes(form, key, <<>>) = [a \in DOMAIN plain |-> IF a \in DOMAIN <<>> THEN <<>>[a] ELSE plain[a]]
  BY DEF Attributes
<1>2. DOMAIN plain = {"ec_point", "chain_code", "depth", "parent_fp", "child_index"}
  OBVIOUS
<1>3. DOMAIN <<>> = {}
  OBVIOUS
<1>4. /\ plain.ec_point = Presented(form, key) /\ plain.chain_code = key
      /\ plain.depth = <<Len(key.path)>>
      /\ plain.parent_fp = IF key.path = <<>> THEN "none" ELSE Parent(key)
      /\ plain.child_index = IF key.path = <<>> THEN <<0, 0, 0, 0>> ELSE key.path[Len(key.path)]
  OBVIOUS
<1> HIDE DEF plain
<1> QED
  BY <1>1, <1>2, <1>3, <1>4

Whole(b1, b2, b3, b4) == b1 + 256 * b2 + 65536 * b3 + 16777216 * b4
SevenBits == 0 .. 127
WithHigh(n) == n + 128

LEMMA FourBytes ==
  ASSUME NEW i \in Nat, i <= MaxIndex
  PROVE  /\ Whole(i % 256, (i \div 256) % 256, (i \div 65536) % 256, i \div 16777216) = i
         /\ i \div 16777216 \in 0 .. 127
  BY SMT DEF MaxIndex, Whole

\* The high bit of the last byte is apart from the others.
LEMMA HighBit ==
  ASSUME NEW n \in SevenBits
  PROVE  n % 128 = n /\ ~(n >= 128) /\ n + 0 = n /\ WithHigh(n) % 128 = n /\ WithHigh(n) >= 128
  BY DEF SevenBits, WithHigh

LEMMA Assembled ==
  ASSUME NEW b1, NEW b2, NEW b3, NEW n \in SevenBits
  PROVE  /\ FromLeBytes(<<b1, b2, b3, WithHigh(n)>>) = Child(Whole(b1, b2, b3, n), TRUE)
         /\ FromLeBytes(<<b1, b2, b3, n>>) = Child(Whole(b1, b2, b3, n), FALSE)
<1>1. ASSUME NEW b4 PROVE FromLeBytes(<<b1, b2, b3, b4>>) = Child(Whole(b1, b2, b3, b4 % 128), b4 >= 128)
  BY DEF FromLeBytes, Whole
<1>2. (WithHigh(n) >= 128) = TRUE /\ (n >= 128) = FALSE
  BY HighBit
<1>3. WithHigh(n) % 128 = n /\ n % 128 = n
  BY HighBit
<1>4. FromLeBytes(<<b1, b2, b3, WithHigh(n)>>) = Child(Whole(b1, b2, b3, n), TRUE)
  BY <1>1, <1>2, <1>3, Zenon
<1>5. FromLeBytes(<<b1, b2, b3, n>>) = Child(Whole(b1, b2, b3, n), FALSE)
  BY <1>1, <1>2, <1>3, Zenon
<1> QED
  BY <1>4, <1>5

\* A child number comes back as it went.
LEMMA ChildNumberBack ==
  ASSUME NEW child \in ChildNumber
  PROVE  FromLeBytes(ToLeBytes(child)) = child
<1> DEFINE i == child.index
           b1 == i % 256
           b2 == (i \div 256) % 256
           b3 == (i \div 65536) % 256
           b4 == i \div 16777216
<1>1. i \in 0 .. MaxIndex /\ child = Child(i, child.hardened)
  BY DEF ChildNumber, Child
<1>2. child.hardened = TRUE \/ child.hardened = FALSE
  BY DEF ChildNumber
<1>3. i \in Nat /\ i <= MaxIndex
  BY <1>1
<1>4. Whole(b1, b2, b3, b4) = i /\ b4 \in SevenBits
  BY <1>3, FourBytes DEF SevenBits
<1>5. ToLeBytes(child) = <<b1, b2, b3, b4 + (IF child.hardened THEN 128 ELSE 0)>>
  BY DEF ToLeBytes
<1>6. b4 + 0 = b4 /\ b4 + 128 = WithHigh(b4)
  BY <1>4, HighBit DEF WithHigh
<1> HIDE DEF b1, b2, b3, b4, i
<1>7. /\ FromLeBytes(<<b1, b2, b3, WithHigh(b4)>>) = Child(i, TRUE)
      /\ FromLeBytes(<<b1, b2, b3, b4>>) = Child(i, FALSE)
  <2>1. /\ FromLeBytes(<<b1, b2, b3, WithHigh(b4)>>) = Child(Whole(b1, b2, b3, b4), TRUE)
        /\ FromLeBytes(<<b1, b2, b3, b4>>) = Child(Whole(b1, b2, b3, b4), FALSE)
    BY <1>4, Assembled
  <2> QED
    BY <1>4, <2>1
<1>8. CASE child.hardened = TRUE
  BY <1>1, <1>5, <1>6, <1>7, <1>8
<1>9. CASE child.hardened = FALSE
  BY <1>1, <1>5, <1>6, <1>7, <1>9
<1> QED
  BY <1>2, <1>8, <1>9

\* If the attributes of a key are read, what is read of them is the key's.
LEMMA KeyRead ==
  ASSUME PointsToldApart, NEW t \in Token, NEW p \in Points
  PROVE  LET key   == p.key
             attrs == Attributes(PointForm[t], key, <<>>)
         IN  /\ MasterFingerprint(attrs).ok => MasterFingerprint(attrs).value = key
             /\ ReadXpub(attrs).ok => ReadXpub(attrs).value =
                  [network            |-> "Main",
                   depth              |-> Len(key.path),
                   parent_fingerprint |-> IF key.path = <<>> THEN "none" ELSE Parent(key),
                   child_number       |-> FromLeBytes(IF key.path = <<>> THEN <<0, 0, 0, 0>>
                                                      ELSE key.path[Len(key.path)]),
                   public_key         |-> key,
                   chain_code         |-> key]
<1> DEFINE key == p.key
           attrs == Attributes(PointForm[t], key, <<>>)
<1>1. /\ attrs.ec_point = Presented(PointForm[t], key) /\ attrs.chain_code = key
      /\ attrs.depth = <<Len(key.path)>>
      /\ attrs.parent_fp = IF key.path = <<>> THEN "none" ELSE Parent(key)
      /\ attrs.child_index = IF key.path = <<>> THEN <<0, 0, 0, 0>> ELSE key.path[Len(key.path)]
  BY PlainAttributes
<1>2. ParseEcPoint(attrs.ec_point).ok => ParseEcPoint(attrs.ec_point).value = key
  BY <1>1, PointRead
<1> HIDE DEF attrs
<1>3. MasterFingerprint(attrs).ok => MasterFingerprint(attrs).value = key
  BY <1>2 DEF MasterFingerprint, Err
<1>4. ASSUME ReadXpub(attrs).ok
      PROVE  ReadXpub(attrs).value =
                  [network            |-> "Main",
                   depth              |-> attrs.depth[1],
                   parent_fingerprint |-> attrs.parent_fp,
                   child_number       |-> FromLeBytes(attrs.child_index),
                   public_key         |-> key,
                   chain_code         |-> key]
  <2>1. WellFormed(attrs)
    BY <1>4 DEF ReadXpub, Err
  <2>2. ParseEcPoint(attrs.ec_point).value = key
    BY <1>2, <2>1 DEF WellFormed
  <2> QED
    BY <1>1, <2>1, <2>2 DEF ReadXpub, Ok
<1>5. attrs.depth[1] = Len(key.path)
  BY <1>1
<1> QED
  BY <1>1, <1>3, <1>4, <1>5 DEF attrs

\* Four zeros are the child number of a master.
LEMMA NoWord == FromLeBytes(<<0, 0, 0, 0>>) = Child(0, FALSE)
<1>1. 0 \in 0 .. MaxIndex
  <2>1. MaxIndex >= 0 /\ MaxIndex \in Int
    BY SMT DEF MaxIndex
  <2> QED
    BY <2>1
<1>2. Child(0, FALSE) \in ChildNumber
  BY <1>1 DEF Child, ChildNumber
<1>3. /\ 0 % 256 = 0 /\ (0 \div 256) % 256 = 0 /\ (0 \div 65536) % 256 = 0
      /\ (0 \div 16777216) + 0 = 0
  BY SMT
<1>4. ToLeBytes(Child(0, FALSE)) = <<0, 0, 0, 0>>
  <2> DEFINE at(k) == ToLeBytes(Child(0, FALSE))[k]
  <2>1. at(1) = 0 /\ at(2) = 0 /\ at(3) = 0 /\ at(4) = 0
    BY SMT, <1>3 DEF ToLeBytes, Child
  <2>2. ToLeBytes(Child(0, FALSE)) = <<at(1), at(2), at(3), at(4)>>
    BY SMT DEF ToLeBytes
  <2> HIDE DEF at
  <2> QED
    BY <2>1, <2>2
<1> QED
  BY <1>2, <1>4, ChildNumberBack

\* The words of a path, and the last of them, or of none.
LEMMA LastWord ==
  ASSUME NEW path \in Seq(ChildNumber)
  PROVE  LET words == [k \in 1 .. Len(path) |-> ToLeBytes(path[k])]
         IN  /\ words = Words(path) /\ Len(words) = Len(path)
             /\ words = <<>> <=> path = <<>>
             /\ FromLeBytes(IF words = <<>> THEN <<0, 0, 0, 0>> ELSE words[Len(words)])
                  = IF path = <<>> THEN Child(0, FALSE) ELSE path[Len(path)]
<1> DEFINE n == Len(path)
           words == [k \in 1 .. n |-> ToLeBytes(path[k])]
<1>1. n \in Nat /\ DOMAIN path = 1 .. n /\ (path = <<>> <=> n = 0)
  OBVIOUS
<1>2. words = Words(path)
  BY <1>1 DEF Words
<1>3. Len(words) = n /\ DOMAIN words = 1 .. n
  <2> HIDE DEF n
  <2>1. DOMAIN words = 1 .. n
    OBVIOUS
  <2> HIDE DEF words
  <2> QED
    BY <1>1, <2>1
<1>4. words = <<>> <=> path = <<>>
  <2>1. words = <<>> => n = 0
    BY <1>1, <1>3
  <2>2. n = 0 => words = <<>>
    OBVIOUS
  <2> QED
    BY <1>1, <2>1, <2>2
<1>5. FromLeBytes(<<0, 0, 0, 0>>) = Child(0, FALSE)
  BY NoWord
<1>6. path # <<>> => FromLeBytes(words[n]) = path[n]
  <2>1. path # <<>> => n \in 1 .. n /\ path[n] \in ChildNumber
    BY <1>1
  <2>2. path # <<>> => words[n] = ToLeBytes(path[n])
    BY <2>1
  <2> QED
    BY <2>1, <2>2, ChildNumberBack
<1> HIDE DEF words
<1> QED
  BY <1>2, <1>3, <1>4, <1>5, <1>6 DEF words

\* The xpub that a member asks for, as the token's.
XpubWanted(member) ==
    LET key == RequestedKey(member)
    IN  [network            |-> "Main",
         depth              |-> Len(member.path),
         parent_fingerprint |-> IF member.path = <<>> THEN "none" ELSE Parent(key),
         child_number       |-> IF member.path = <<>> THEN Child(0, FALSE) ELSE member.path[Len(member.path)],
         public_key         |-> key,
         chain_code         |-> key]

LEMMA WantedRead ==
  ASSUME PointsToldApart, NEW t \in Token, NEW member, member.path \in Seq(ChildNumber),
         NEW p \in Points, p.key = KeyAt(member, Len(member.path))
  PROVE  LET attrs == Attributes(PointForm[t], p.key, <<>>)
         IN  /\ p.key = RequestedKey(member)
             /\ ReadXpub(attrs).ok => ReadXpub(attrs).value = XpubWanted(member)
<1> DEFINE path  == member.path
           words == [k \in 1 .. Len(path) |-> ToLeBytes(path[k])]
<1>1. /\ words = Words(path) /\ Len(words) = Len(path)
      /\ words = <<>> <=> path = <<>>
      /\ FromLeBytes(IF words = <<>> THEN <<0, 0, 0, 0>> ELSE words[Len(words)])
           = IF path = <<>> THEN Child(0, FALSE) ELSE path[Len(path)]
  BY LastWord
<1>2. p.key = Key(RequestedRoot(member), words)
  BY DEF KeyAt
<1> HIDE DEF words
<1>3. p.key = RequestedKey(member) /\ p.key.path = words
  BY <1>1, <1>2 DEF RequestedKey, Key
<1> DEFINE attrs == Attributes(PointForm[t], p.key, <<>>)
<1>4. ReadXpub(attrs).ok => ReadXpub(attrs).value =
                  [network            |-> "Main",
                   depth              |-> Len(words),
                   parent_fingerprint |-> IF words = <<>> THEN "none" ELSE Parent(p.key),
                   child_number       |-> FromLeBytes(IF words = <<>> THEN <<0, 0, 0, 0>>
                                                      ELSE words[Len(words)]),
                   public_key         |-> p.key,
                   chain_code         |-> p.key]
  BY <1>3, KeyRead
<1> HIDE DEF attrs
<1>5. ReadXpub(attrs).ok => ReadXpub(attrs).value = XpubWanted(member)
  <2>1. (words = <<>>) = (path = <<>>)
    BY <1>1
  <2> QED
    BY <1>1, <1>3, <1>4, <2>1 DEF XpubWanted
<1> QED
  BY <1>3, <1>5 DEF attrs

-----------------------------------------------------------------------------
(* The keys of the signers                                                 *)

\* o is the key of a member, in a place where only b deletes it.
IsKey(o, b, open, key, member) ==
    /\ o.class = "priv" /\ o.provisioned = FALSE
    /\ o.owner = None \/ (o.owner \in open /\ o.owner.builder = b)
    /\ o.key = key /\ o.token = TokenAt(member)

HoldsKey(b, h, key, member) == h \in Live /\ IsKey(objs[h], b, sessions, key, member)

\* What b destroys is the seed it made, and keys that were provisioned.
AimOwn(b) ==
    /\ pc[b] \in SeedPcs /\ frame[b].base \in Live => objs[frame[b].base].class = "seed"
    /\ \A h \in frame[b].todo \cap Live : objs[h].provisioned = TRUE

\* What is on the way is the key at the depth that was reached.
PathOwn(b) ==
    LET member == Current(b)
    IN  /\ pc[b] \in DerivePcs \ {"seed"} => SeedAccepted(b)
        /\ \/ pc[b] = "destroy_seed" /\ frame[b].master # None
           \/ pc[b] \in {"read_master", "fp_master"}
           => HoldsKey(b, frame[b].master, KeyAt(member, 0), member)
        /\ pc[b] = "derive_path" =>
             /\ HoldsKey(b, frame[b].key, KeyAt(member, frame[b].depth), member)
             /\ frame[b].fingerprint = KeyAt(member, 0)

\* A signer is the one that its member asks for, wrapped or not.
SignerFor(s, member) ==
    /\ DOMAIN s = {"key", "xpub", "fingerprint", "patched"}
    /\ s.xpub = XpubWanted(member)
    /\ s.fingerprint = KeyAt(member, 0)
    /\ s.patched \in {None, PatchXpubNetwork(s.xpub, member.network)}

SignersOwn(b) ==
    pc[b] # "drop" => \A i \in DOMAIN signers[b] : fleet[b][i].init = "derive" =>
        /\ SignerFor(signers[b][i], fleet[b][i])
        /\ HoldsKey(b, signers[b][i].key, RequestedKey(fleet[b][i]), fleet[b][i])

KeyInv == TypeInv /\ \A b \in Builder : AimOwn(b) /\ PathOwn(b) /\ SignersOwn(b)

\* A key stays where it is unless its own build is over.
LEMMA KeyKept ==
  ASSUME TypeInv, \A c \in Builder : AimOwn(c),
         NEW c \in Builder, Build(c) \/ CallDelete(c) \/ Step(c),
         NEW b \in Builder, c = b => pc[b] # "drop",
         NEW h, NEW key, NEW member, HoldsKey(b, h, key, member)
  PROVE  h \in Live' /\ IsKey(objs'[h], b, sessions', key, member)
<1>0. /\ Functions /\ h \in Live /\ IsKey(objs[h], b, sessions, key, member) /\ AimOwn(c)
      /\ sessions \subseteq [builder : Builder, member : Nat, token : Token]
  BY DEF TypeInv, BuildInv, LoginInv, HoldsKey
<1>1. CASE h \in Live' /\ objs'[h] = objs[h]
  <2>1. CASE sessions \subseteq sessions'
    BY <1>0, <1>1, <2>1 DEF IsKey
  <2>2. CASE pc[c] = "drop" /\ \A s \in sessions \ sessions' : s.builder = c
    BY <1>0, <1>1, <2>2 DEF IsKey
  <2> QED
    BY <1>0, <2>1, <2>2, StepSessions
<1>2. ~(DestroySeed(c) /\ h = frame[c].base)
  <2>1. DestroySeed(c) => pc[c] \in SeedPcs
    BY DEF DestroySeed, SeedPcs
  <2> QED
    BY <1>0, <2>1 DEF AimOwn, IsKey
<1>3. ~(DestroyKey(c) /\ h \in frame[c].todo)
  BY <1>0 DEF AimOwn, IsKey
<1>4. ~(CloseSession(c) /\ objs[h].owner \in sessions /\ objs[h].owner.builder = c)
  <2>1. None \notin sessions
    BY <1>0, KeyCeremonyAssumption
  <2>2. CloseSession(c) => pc[c] = "drop"
    BY DEF CloseSession
  <2> QED
    BY <1>0, <2>1, <2>2 DEF IsKey
<1> QED
  BY <1>0, <1>1, <1>2, <1>3, <1>4, WhereTo

\* A handle that is held is not given to another object.
LEMMA AimKept ==
  ASSUME TypeInv, NEW c \in Builder, Build(c) \/ CallDelete(c) \/ Step(c),
         NEW b \in Builder, NEW h, h \in Live', h = frame[b].base \/ h \in frame[b].todo
  PROVE  h \in Live /\ objs'[h].class = objs[h].class /\ objs'[h].provisioned = objs[h].provisioned
<1>1. h \in Held /\ Functions
  BY DEF Held, TypeInv, BuildInv, LoginInv
<1>2. CASE h \in Live /\ objs'[h] = [objs[h] EXCEPT !.refused = TRUE]
  BY <1>2
<1> QED
  BY <1>1, <1>2, WhereFrom

\* How a build gets on to derive.
LEMMA DeriveMoves ==
  ASSUME Functions, NEW b \in Builder, FleetOwn(b), Build(b) \/ CallDelete(b) \/ Step(b),
         pc'[b] \in DerivePcs \ {"seed"}
  PROVE  \/ CreateSeed(b) \/ DeriveMaster(b) \/ DestroySeed(b) \/ ReadMaster(b)
         \/ FingerprintMaster(b) \/ DeriveChild(b)
<1> USE DEF Goto, Functions, DerivePcs
<1>1. CASE Build(b) \/ CallDelete(b)
  BY <1>1 DEF Build, CallDelete, Start, Refuse
<1>2. CASE ResolveSlot(b) \/ OpenSession(b)
  BY <1>2 DEF ResolveSlot, OpenSession, Fail, Abort
<1>3. CASE Login(b)
  <2>1. Current(b).init \in {"derive", "load", "delete"}
    BY <1>3, FleetFacts DEF FleetOwn, MemberOK, Working, Login
  <2>2. FirstLabel(Current(b)) \notin DerivePcs \ {"seed"}
    BY <2>1 DEF FirstLabel
  <2> QED
    BY <1>3, <2>2 DEF Login, Abort
<1>4. CASE FinishDerive(b)
  BY <1>4 DEF FinishDerive, AddSigner, ReadFails, Abort
<1>5. CASE FindKey(b) \/ ReadKey(b) \/ FingerprintKey(b)
  BY <1>5 DEF FindKey, ReadKey, FingerprintKey, AddSigner, ReadFails, Abort
<1>6. CASE FindPriv(b) \/ FindPub(b)
  BY <1>6 DEF FindPriv, FindPub, FindToDelete, Fail, Abort
<1>7. CASE DestroyKey(b) \/ DestroyDone(b)
  BY <1>7 DEF DestroyKey, DestroyDone, Abort
<1>8. CASE Wrap(b) \/ Release(b) \/ CloseSession(b) \/ EndBuild(b)
  BY <1>8 DEF Wrap, Release, CloseSession, EndBuild
<1> QED
  BY <1>1, <1>2, <1>3, <1>4, <1>5, <1>6, <1>7, <1>8 DEF Step

\* The seed that is created is there, and is the one to be destroyed.
LEMMA SeedCreated ==
  ASSUME TypeInv, NEW b \in Builder, CreateSeed(b), pc'[b] # "drop"
  PROVE  /\ pc[b] = "seed" /\ pc'[b] = "derive_master" /\ SeedAccepted(b) /\ BuildUnchanged
         /\ frame'[b].base \in Handle /\ objs'[frame'[b].base].class = "seed"
         /\ frame'[b].todo = frame[b].todo
<1>1. Functions /\ FrameOwn(b)
  BY DEF TypeInv, BuildInv, LoginInv
<1>2. \A error : ~Abort(b, error)
  BY <1>1 DEF Abort, Goto, Functions
<1>3. /\ pc[b] = "seed" /\ SeedAccepted(b) /\ BuildUnchanged
      /\ Create(b, "seed", None, None, Session(b))
      /\ frame' = [frame EXCEPT ![b].base = NewHandle]
      /\ Goto(b, "derive_master")
  BY <1>2 DEF CreateSeed, Fail
<1>4. NewHandle \in Handle /\ objs'[NewHandle].class = "seed"
  <2>1. /\ NewHandle \in Handle
        /\ objs'[NewHandle] = [class |-> "seed", name |-> None, key |-> None,
                               owner |-> Session(b), token |-> Session(b).token, refused |-> FALSE,
                               provisioned |-> FALSE, spoiled |-> <<>>]
    BY <1>1, <1>3, CreateMakes
  <2> QED
    BY <2>1
<1>5. frame'[b].base = NewHandle /\ frame'[b].todo = frame[b].todo /\ pc'[b] = "derive_master"
  BY <1>1, <1>3 DEF Functions, FrameOwn, Goto
<1> QED
  BY <1>3, <1>4, <1>5

\* The master is the one of the member's seed.
LEMMA RootWanted ==
  ASSUME BuildInv, NEW b \in Builder, pc[b] \in DerivePcs, SeedAccepted(b)
  PROVE  Key(Root(b), <<>>) = KeyAt(Current(b), 0)
<1> DEFINE member == Current(b)
<1>1. member.seed \in Seq(Int) /\ Len(member.seed) \in {0, SeedLen} /\ SeedLen \in Nat \ {0}
  BY PathIsSeq, KeyCeremonyAssumption DEF SeedAccepted
<1>2. Session(b).token = TokenAt(member)
  BY DEF Session
<1>3. Root(b) = RequestedRoot(member)
  <2>1. CASE Len(member.seed) = SeedLen
    <3>1. member.seed # <<>>
      BY <1>1, <2>1
    <3> QED
      BY <1>2, <2>1, <3>1 DEF Root, SeedBuf, RequestedRoot
  <2>2. CASE Len(member.seed) = 0
    <3>1. member.seed = <<>> /\ Len(member.seed) # SeedLen
      BY <1>1, <2>2
    <3> QED
      BY <1>2, <3>1 DEF Root, SeedBuf, RequestedRoot
  <2> QED
    BY <1>1, <2>1, <2>2
<1>4. [k \in 1 .. 0 |-> ToLeBytes(member.path[k])] = <<>>
  OBVIOUS
<1> QED
  BY <1>3, <1>4 DEF KeyAt

\* The master that is derived is the one of the seed.
LEMMA MasterDerived ==
  ASSUME TypeInv, NEW b \in Builder, DeriveMaster(b), SeedAccepted(b)
  PROVE  /\ pc[b] = "derive_master" /\ pc'[b] = "destroy_seed" /\ BuildUnchanged
         /\ frame'[b].base = frame[b].base /\ frame'[b].todo = frame[b].todo
         /\ frame'[b].master # None =>
              /\ frame'[b].master \in Live'
              /\ IsKey(objs'[frame'[b].master], b, sessions', KeyAt(Current(b), 0), Current(b))
<1>1. Functions /\ FrameOwn(b) /\ BuildInv
  BY DEF TypeInv, BuildInv, LoginInv
<1>2. pc[b] = "derive_master" /\ pc'[b] = "destroy_seed" /\ BuildUnchanged /\ frame[b].master = None
  BY <1>1 DEF DeriveMaster, Goto, Functions, FrameOwn
<1>3. CASE /\ Create(b, "priv", MasterLabel(Current(b).label), Key(Root(b), <<>>), None)
           /\ frame' = [frame EXCEPT ![b].master = NewHandle]
  <2>1. /\ frame'[b].base = frame[b].base /\ frame'[b].todo = frame[b].todo
        /\ frame'[b].master = NewHandle
    BY <1>1, <1>3 DEF Functions, FrameOwn
  <2>2. /\ NewHandle \in Handle
        /\ objs'[NewHandle] = [class |-> "priv", name |-> MasterLabel(Current(b).label),
                               key |-> Key(Root(b), <<>>),
                               owner |-> None, token |-> Session(b).token, refused |-> FALSE,
                               provisioned |-> FALSE, spoiled |-> <<>>]
    BY <1>1, <1>3, CreateMakes
  <2>3. Key(Root(b), <<>>) = KeyAt(Current(b), 0) /\ Session(b).token = TokenAt(Current(b))
    BY <1>1, <1>2, RootWanted DEF DerivePcs, Session
  <2>4. objs'[NewHandle] # NoObject
    BY <2>2 DEF NoObject
  <2>5. NewHandle \in Live'
    BY <2>2, <2>4 DEF Live
  <2>6. IsKey(objs'[NewHandle], b, sessions', KeyAt(Current(b), 0), Current(b))
    BY <2>2, <2>3 DEF IsKey
  <2> QED
    BY <1>2, <2>1, <2>5, <2>6
<1>4. CASE UNCHANGED <<objs, frame>>
  BY <1>2, <1>4
<1> QED
  BY <1>3, <1>4 DEF DeriveMaster

\* The seed is dealt with, and the master is still at hand.
LEMMA SeedDestroyed ==
  ASSUME TypeInv, NEW b \in Builder, DestroySeed(b), pc'[b] # "drop"
  PROVE  /\ pc[b] = "destroy_seed" /\ pc'[b] = "read_master" /\ BuildUnchanged
         /\ frame[b].master # None /\ frame' = frame
<1>1. Functions
  BY DEF TypeInv, BuildInv, LoginInv
<1> QED
  BY <1>1 DEF DestroySeed, Abort, Goto, Functions

LEMMA MasterRead ==
  ASSUME TypeInv, NEW b \in Builder, ReadMaster(b), pc'[b] # "drop"
  PROVE  /\ pc[b] = "read_master" /\ pc'[b] = "fp_master" /\ BuildUnchanged /\ frame' = frame
<1>1. Functions
  BY DEF TypeInv, BuildInv, LoginInv
<1> QED
  BY <1>1 DEF ReadMaster, ReadFails, Abort, Goto, Functions

LEMMA MasterFingerprinted ==
  ASSUME TypeInv, NEW b \in Builder, FingerprintMaster(b), pc'[b] # "drop"
  PROVE  /\ pc[b] = "fp_master" /\ pc'[b] = "derive_path" /\ BuildUnchanged
         /\ frame'[b].key = frame[b].master /\ frame'[b].depth = 0
         /\ frame'[b].todo = frame[b].todo
         /\ FingerprintOf(frame[b].master).ok
         /\ frame'[b].fingerprint = FingerprintOf(frame[b].master).value
<1> DEFINE fingerprint == FingerprintOf(frame[b].master)
<1>1. Functions /\ FrameOwn(b)
  BY DEF TypeInv, BuildInv, LoginInv
<1>2. /\ pc[b] = "fp_master" /\ fingerprint.ok /\ BuildUnchanged /\ Goto(b, "derive_path")
      /\ frame' = [frame EXCEPT ![b].fingerprint = fingerprint.value, ![b].key = frame[b].master]
  BY <1>1 DEF FingerprintMaster, ReadFails, Abort, Goto, Functions
<1> HIDE DEF fingerprint
<1>3. frame'[b] = [frame[b] EXCEPT !.fingerprint = fingerprint.value, !.key = frame[b].master]
  BY <1>1, <1>2 DEF Functions
<1>4. /\ frame'[b].fingerprint = fingerprint.value /\ frame'[b].key = frame[b].master
      /\ frame'[b].depth = frame[b].depth /\ frame'[b].todo = frame[b].todo
  BY <1>1, <1>3, KeepBoth DEF FrameOwn
<1>5. pc'[b] = "derive_path" /\ frame[b].depth = 0
  BY <1>1, <1>2 DEF Goto, Functions, FrameOwn
<1> QED
  BY <1>2, <1>4, <1>5 DEF fingerprint

\* What a longer sequence begins with.
LEMMA AppendOne ==
  ASSUME NEW R, NEW t \in Seq(R), NEW s \in Seq(R), Len(t) = Len(s) + 1,
         \A i \in 1 .. Len(s) : t[i] = s[i]
  PROVE  Append(s, t[Len(s) + 1]) = t
  OBVIOUS

\* The key below the one at depth n is the one at depth n + 1.
LEMMA KeyBelow ==
  ASSUME NEW member, NEW n \in Nat
  PROVE  LET parent == KeyAt(member, n)
         IN  Key(parent.root, Append(parent.path, ToLeBytes(member.path[n + 1])))
               = KeyAt(member, n + 1)
<1> DEFINE word(k) == ToLeBytes(member.path[k])
           R == {word(k) : k \in 1 .. n + 1}
           s == [k \in 1 .. n |-> word(k)]
           t == [k \in 1 .. n + 1 |-> word(k)]
<1>1. /\ \A k \in 1 .. n + 1 : word(k) \in R
      /\ \A k \in 1 .. n : k \in 1 .. n + 1
  OBVIOUS
<1>2. /\ KeyAt(member, n).root = RequestedRoot(member) /\ KeyAt(member, n).path = s
      /\ KeyAt(member, n + 1) = Key(RequestedRoot(member), t)
  BY DEF KeyAt, Key
<1> HIDE DEF word, R
<1>3. /\ s \in Seq(R) /\ Len(s) = n /\ \A i \in 1 .. n : s[i] = word(i)
      /\ t \in Seq(R) /\ Len(t) = n + 1 /\ \A i \in 1 .. n + 1 : t[i] = word(i)
  BY <1>1
<1> HIDE DEF s, t
<1>4. Append(s, t[n + 1]) = t
  <2>1. \A i \in 1 .. Len(s) : t[i] = s[i]
    BY <1>1, <1>3
  <2> QED
    BY <1>3, <2>1, AppendOne
<1>5. t[n + 1] = word(n + 1)
  BY <1>3
<1> QED
  BY <1>2, <1>4, <1>5 DEF word

\* The child that is derived is one step further.
LEMMA ChildDerived ==
  ASSUME TypeInv, NEW b \in Builder, DeriveChild(b), pc'[b] # "drop",
         HoldsKey(b, frame[b].key, KeyAt(Current(b), frame[b].depth), Current(b))
  PROVE  /\ pc[b] = "derive_path" /\ pc'[b] = "derive_path" /\ BuildUnchanged
         /\ frame'[b].fingerprint = frame[b].fingerprint
         /\ frame'[b].todo = frame[b].todo
         /\ frame'[b].key \in Live'
         /\ IsKey(objs'[frame'[b].key], b, sessions', KeyAt(Current(b), frame'[b].depth), Current(b))
<1>1. Functions /\ FrameOwn(b) /\ BuildInv
  BY DEF TypeInv, BuildInv, LoginInv
<1>2. /\ pc[b] = "derive_path" /\ pc'[b] = "derive_path" /\ BuildUnchanged
      /\ Create(b, "priv", None, ChildKey(b), Session(b))
      /\ frame' = [frame EXCEPT ![b].key = NewHandle, ![b].depth = @ + 1]
      /\ sessions' = sessions
  BY <1>1 DEF DeriveChild, Fail, Abort, Goto, Functions
<1>3. /\ frame'[b].fingerprint = frame[b].fingerprint /\ frame'[b].todo = frame[b].todo
      /\ frame'[b].key = NewHandle /\ frame'[b].depth = frame[b].depth + 1
  BY <1>1, <1>2 DEF Functions, FrameOwn
<1>4. /\ NewHandle \in Handle
      /\ objs'[NewHandle] = [class |-> "priv", name |-> None, key |-> ChildKey(b),
                             owner |-> Session(b), token |-> Session(b).token, refused |-> FALSE,
                             provisioned |-> FALSE, spoiled |-> <<>>]
  BY <1>1, <1>2, CreateMakes
<1>5. NewHandle \in Live'
  <2>1. objs'[NewHandle] # NoObject
    BY <1>4 DEF NoObject
  <2> QED
    BY <1>4, <2>1 DEF Live
<1>6. ChildKey(b) = KeyAt(Current(b), frame[b].depth + 1)
  <2>1. frame[b].depth \in Nat
    BY <1>1, <1>2, PathIsSeq DEF FrameOwn, DerivePcs
  <2>2. objs[frame[b].key].key = KeyAt(Current(b), frame[b].depth)
    BY DEF HoldsKey, IsKey
  <2> QED
    BY <2>1, <2>2, KeyBelow DEF ChildKey, ParentHandle
<1>7. Session(b) \in sessions /\ Session(b).builder = b /\ Session(b).token = TokenAt(Current(b))
  BY <1>1, <1>2 DEF BuildInv, LoginInv, WorksInSession, Working, Session
<1>8. IsKey(objs'[NewHandle], b, sessions', KeyAt(Current(b), frame[b].depth + 1), Current(b))
  BY <1>2, <1>4, <1>6, <1>7 DEF IsKey
<1> QED
  BY <1>2, <1>3, <1>5, <1>8

\* The keys on the way of a member have public keys.
LEMMA PointOfKey ==
  ASSUME PointsOfKeys, BuildInv, NEW b \in Builder, pc[b] \in DerivePcs, SeedAccepted(b),
         NEW n \in 0 .. Len(Current(b).path)
  PROVE  \E p \in Points : p.key = KeyAt(Current(b), n)
<1>1. /\ Asked(task[b], fleet[b]) /\ At(b) \in DOMAIN fleet[b]
      /\ Current(b).init = "derive" /\ TokenAt(Current(b)) \in Token
  BY FleetFacts DEF BuildInv, FleetOwn, DerivePcs, Working
<1>2. fleet[b][At(b)].init = "derive"
  BY <1>1 DEF Current
<1>3. task[b] \in DOMAIN Envs /\ FromEnv(Envs[task[b]]).ok /\ fleet[b] = FromEnv(Envs[task[b]]).value
  <2>1. task[b] \in DOMAIN Envs
    BY <1>1, <1>2, AskedFor
  <2>2. task[b] \notin DOMAIN Deletions
    BY <2>1, KeyCeremonyAssumption
  <2> QED
    BY <1>1, <2>1, <2>2 DEF Asked
<1>4. /\ FromEnv(Envs[task[b]]).value[At(b)] = Current(b)
      /\ At(b) \in DOMAIN FromEnv(Envs[task[b]]).value
  BY <1>1, <1>3 DEF Current
<1>5. Len(Current(b).seed) \in {0, SeedLen}
  BY DEF SeedAccepted
<1> QED
  BY <1>1, <1>3, <1>4, <1>5 DEF PointsOfKeys

\* What is read of a key that is held.
LEMMA HeldRead ==
  ASSUME TypeInv, NEW b \in Builder, NEW h, NEW key, NEW member, HoldsKey(b, h, key, member)
  PROVE  \E t \in Token :
           /\ XpubOf(h) = ReadXpub(Attributes(PointForm[t], key, <<>>))
           /\ FingerprintOf(h) = MasterFingerprint(Attributes(PointForm[t], key, <<>>))
<1>1. h \in Live /\ objs[h].key = key /\ objs[h].provisioned = FALSE
  BY DEF HoldsKey, IsKey
<1>2. objs[h].token \in Token /\ objs[h].spoiled = <<>>
  BY <1>1 DEF TypeInv, ObjectOK
<1>3. objs[h] # NoObject
  BY <1>1 DEF Live
<1> QED
  BY <1>1, <1>2, <1>3 DEF XpubOf, FingerprintOf, AttributesOf

LEMMA OwnPath ==
  ASSUME PointsOfKeys, PointsToldApart, KeyInv,
         NEW b \in Builder, Build(b) \/ CallDelete(b) \/ Step(b)
  PROVE  PathOwn(b)'
<1> DEFINE member == Current(b)
<1>0. TypeInv /\ BuildInv /\ Functions /\ FleetOwn(b) /\ FrameOwn(b) /\ PathOwn(b)
  BY DEF KeyInv, TypeInv, BuildInv, LoginInv
<1>1. CASE pc'[b] \notin DerivePcs \ {"seed"}
  BY <1>1 DEF PathOwn, DerivePcs
<1>2. ASSUME BuildUnchanged PROVE Current(b)' = member /\ (SeedAccepted(b)' <=> SeedAccepted(b))
  BY <1>2 DEF BuildUnchanged, Current, At, SeedAccepted
<1>3. ASSUME pc[b] # "drop", NEW h, HoldsKey(b, h, KeyAt(member, 0), member)
      PROVE  h \in Live' /\ IsKey(objs'[h], b, sessions', KeyAt(member, 0), member)
  <2>1. \A c \in Builder : AimOwn(c)
    BY DEF KeyInv
  <2> HIDE DEF member
  <2> QED
    BY <1>0, <1>3, <2>1, KeyKept
<1> SUFFICES ASSUME pc'[b] \in DerivePcs \ {"seed"} PROVE PathOwn(b)'
  BY <1>1
<1>4. pc'[b] # "drop"
  BY DEF DerivePcs
<1>5. CASE CreateSeed(b)
  <2>1. pc'[b] = "derive_master" /\ SeedAccepted(b) /\ BuildUnchanged
    BY <1>0, <1>4, <1>5, SeedCreated
  <2> QED
    BY <1>2, <2>1 DEF PathOwn
<1>6. CASE DeriveMaster(b)
  <2>1. SeedAccepted(b)
    BY <1>0, <1>6 DEF DeriveMaster, PathOwn, DerivePcs
  <2>2. /\ pc'[b] = "destroy_seed" /\ BuildUnchanged
        /\ frame'[b].master # None =>
              /\ frame'[b].master \in Live'
              /\ IsKey(objs'[frame'[b].master], b, sessions', KeyAt(member, 0), member)
    BY <1>0, <1>6, <2>1, MasterDerived
  <2> QED
    BY <1>2, <2>1, <2>2 DEF PathOwn, HoldsKey
<1>7. CASE DestroySeed(b)
  <2>1. /\ pc[b] = "destroy_seed" /\ pc'[b] = "read_master" /\ BuildUnchanged
        /\ frame[b].master # None /\ frame' = frame
    BY <1>0, <1>4, <1>7, SeedDestroyed
  <2>2. SeedAccepted(b) /\ HoldsKey(b, frame[b].master, KeyAt(member, 0), member)
    BY <1>0, <2>1 DEF PathOwn, DerivePcs
  <2>3. /\ frame[b].master \in Live'
        /\ IsKey(objs'[frame[b].master], b, sessions', KeyAt(member, 0), member)
    BY <1>3, <2>1, <2>2
  <2> QED
    BY <1>2, <2>1, <2>2, <2>3 DEF PathOwn, HoldsKey
<1>8. CASE ReadMaster(b)
  <2>1. pc[b] = "read_master" /\ pc'[b] = "fp_master" /\ BuildUnchanged /\ frame' = frame
    BY <1>0, <1>4, <1>8, MasterRead
  <2>2. SeedAccepted(b) /\ HoldsKey(b, frame[b].master, KeyAt(member, 0), member)
    BY <1>0, <2>1 DEF PathOwn, DerivePcs
  <2>3. /\ frame[b].master \in Live'
        /\ IsKey(objs'[frame[b].master], b, sessions', KeyAt(member, 0), member)
    BY <1>3, <2>1, <2>2
  <2> QED
    BY <1>2, <2>1, <2>2, <2>3 DEF PathOwn, HoldsKey
<1>9. CASE FingerprintMaster(b)
  <2>1. /\ pc[b] = "fp_master" /\ pc'[b] = "derive_path" /\ BuildUnchanged
        /\ frame'[b].key = frame[b].master /\ frame'[b].depth = 0
        /\ FingerprintOf(frame[b].master).ok
        /\ frame'[b].fingerprint = FingerprintOf(frame[b].master).value
    BY <1>0, <1>4, <1>9, MasterFingerprinted
  <2>2. SeedAccepted(b) /\ HoldsKey(b, frame[b].master, KeyAt(member, 0), member)
    BY <1>0, <2>1 DEF PathOwn, DerivePcs
  <2>3. /\ frame[b].master \in Live'
        /\ IsKey(objs'[frame[b].master], b, sessions', KeyAt(member, 0), member)
    BY <1>3, <2>1, <2>2
  <2>4. PICK t \in Token :
          FingerprintOf(frame[b].master) = MasterFingerprint(Attributes(PointForm[t], KeyAt(member, 0), <<>>))
    BY <1>0, <2>2, HeldRead
  <2>5. PICK p \in Points : p.key = KeyAt(member, 0)
    <3>1. pc[b] \in DerivePcs /\ 0 \in 0 .. Len(member.path)
      BY <1>0, <2>1, PathIsSeq DEF DerivePcs
    <3> QED
      BY <1>0, <2>2, <3>1, PointOfKey
  <2>6. frame'[b].fingerprint = KeyAt(member, 0)
    <3> DEFINE f(key) == MasterFingerprint(Attributes(PointForm[t], key, <<>>))
    <3>1. f(p.key).ok => f(p.key).value = p.key
      BY KeyRead
    <3>2. f(p.key) = FingerprintOf(frame[b].master)
      BY <2>4, <2>5
    <3> HIDE DEF f
    <3> QED
      BY <2>1, <2>5, <3>1, <3>2
  <2> QED
    BY <1>2, <2>1, <2>2, <2>3, <2>6 DEF PathOwn, HoldsKey
<1>10. CASE DeriveChild(b)
  <2>1. pc[b] = "derive_path"
    BY <1>10 DEF DeriveChild
  <2>2. /\ SeedAccepted(b) /\ HoldsKey(b, frame[b].key, KeyAt(member, frame[b].depth), member)
        /\ frame[b].fingerprint = KeyAt(member, 0)
    BY <1>0, <2>1 DEF PathOwn, DerivePcs
  <2>3. /\ pc'[b] = "derive_path" /\ BuildUnchanged
        /\ frame'[b].fingerprint = frame[b].fingerprint
        /\ frame'[b].key \in Live'
        /\ IsKey(objs'[frame'[b].key], b, sessions', KeyAt(member, frame'[b].depth), member)
    BY <1>0, <1>4, <1>10, <2>2, ChildDerived
  <2> QED
    BY <1>2, <2>2, <2>3 DEF PathOwn, HoldsKey
<1> QED
  BY <1>0, <1>5, <1>6, <1>7, <1>8, <1>9, <1>10, DeriveMoves

\* What a build aims to destroy when it gets there.
LEMMA FoundToDelete ==
  ASSUME TypeInv, NEW b \in Builder, pc[b] \in DeletePcs
  PROVE  /\ \A h \in Find(b, "priv", PrivLabel(Current(b).label)) : objs[h].provisioned = TRUE
         /\ \A h \in Find(b, "pub", PubLabel(Current(b).label)) : objs[h].provisioned = TRUE
<1>1. None \notin {PrivLabel(Current(b).label), PubLabel(Current(b).label)}
  BY DeletesFirst DEF TypeInv, BuildInv, MemberOK
<1>2. ASSUME NEW h \in Live, objs[h].name \in {PrivLabel(Current(b).label), PubLabel(Current(b).label)}
      PROVE  objs[h].provisioned = TRUE
  <2>1. ObjectOK(objs[h]) /\ objs[h].name # None
    BY <1>1, <1>2 DEF TypeInv
  <2>2. objs[h].name # <<objs[h].name[1], "priv/priv">>
    BY <1>2 DEF PrivLabel, PubLabel
  <2> QED
    BY <2>1, <2>2 DEF ObjectOK
<1> QED
  BY <1>2 DEF Find

\* Where b's locals get something to destroy.
LEMMA AimMoves ==
  ASSUME TypeInv, NEW b \in Builder, Build(b) \/ CallDelete(b) \/ Step(b)
  PROVE  \/ frame'[b].todo \subseteq frame[b].todo
         \/ pc[b] \in DeletePcs /\ UNCHANGED objs
            /\ \A h \in frame'[b].todo : h \in Live /\ objs[h].provisioned = TRUE
<1>0. Functions /\ FrameOwn(b) /\ BuildInv /\ FleetOwn(b)
  BY DEF TypeInv, BuildInv, LoginInv
<1>a. ASSUME frame'[b] = EmptyFrame PROVE frame'[b].todo \subseteq frame[b].todo
  BY <1>a DEF EmptyFrame
<1>b. ASSUME NEW error, Abort(b, error) PROVE frame'[b] = EmptyFrame
  BY <1>0, <1>b DEF Abort, Functions
<1>c. ASSUME NEW key, NEW xpub, NEW fingerprint, AddSigner(b, key, xpub, fingerprint)
      PROVE  frame'[b] = EmptyFrame
  BY <1>0, <1>c DEF AddSigner, Functions
<1>d. ASSUME UNCHANGED frame PROVE frame'[b].todo = frame[b].todo
  BY <1>d
<1>1. CASE Build(b) \/ CallDelete(b)
  BY <1>1, <1>d DEF Build, CallDelete
<1>2. CASE ResolveSlot(b) \/ OpenSession(b) \/ Login(b)
  BY <1>2, <1>a, <1>b, <1>d DEF ResolveSlot, OpenSession, Login, Fail
<1>3. CASE CreateSeed(b) \/ DeriveMaster(b) \/ DestroySeed(b)
  <2>1. CASE frame' = [frame EXCEPT ![b].base = NewHandle] \/ frame' = [frame EXCEPT ![b].master = NewHandle]
    BY <1>0, <2>1 DEF Functions, FrameOwn
  <2> QED
    BY <1>3, <1>a, <1>b, <1>d, <2>1 DEF CreateSeed, DeriveMaster, DestroySeed, Fail
<1>4. CASE ReadMaster(b)
  BY <1>4, <1>a, <1>b, <1>d DEF ReadMaster, ReadFails
<1>5. CASE FingerprintMaster(b)
  <2>1. CASE pc'[b] = "drop"
    <3>1. \A f : ~(frame' = [frame EXCEPT ![b].fingerprint = f, ![b].key = frame[b].master] /\ Goto(b, "derive_path"))
      BY <1>0, <2>1 DEF Goto, Functions
    <3> QED
      BY <1>5, <1>a, <1>b, <3>1 DEF FingerprintMaster, ReadFails
  <2> QED
    BY <1>5, <2>1, MasterFingerprinted
<1>6. CASE DeriveChild(b)
  <2>1. CASE frame' = [frame EXCEPT ![b].key = NewHandle, ![b].depth = @ + 1]
    BY <1>0, <2>1 DEF Functions, FrameOwn
  <2> QED
    BY <1>6, <1>a, <1>b, <2>1 DEF DeriveChild, Fail
<1>7. CASE FinishDerive(b) \/ FingerprintKey(b)
  BY <1>7, <1>a, <1>b, <1>c DEF FinishDerive, FingerprintKey, ReadFails
<1>8. CASE FindKey(b)
  <2>1. CASE \E h : frame' = [frame EXCEPT ![b].key = h]
    BY <1>0, <2>1 DEF Functions, FrameOwn
  <2> QED
    BY <1>8, <1>a, <1>b, <2>1 DEF FindKey
<1>9. CASE ReadKey(b)
  <2>1. CASE \E x : frame' = [frame EXCEPT ![b].xpub = x]
    BY <1>0, <2>1 DEF Functions, FrameOwn
  <2> QED
    BY <1>9, <1>a, <1>b, <2>1 DEF ReadKey, ReadFails
<1>10. CASE FindPriv(b) \/ FindPub(b)
  <2>0. pc[b] \in DeletePcs
    BY <1>10 DEF FindPriv, FindPub, FindToDelete, DeletePcs
  <2>1. ASSUME NEW here, NEW class, NEW name, NEW next, FindToDelete(b, here, class, name, next)
        PROVE  frame'[b] = EmptyFrame \/ (UNCHANGED objs /\ frame'[b].todo = Find(b, class, name))
    BY <1>0, <1>b, <2>1 DEF FindToDelete, Fail, ToDelete, TokenUnchanged, Functions, FrameOwn
  <2>2. \A class, name : Find(b, class, name) \subseteq Live
    BY DEF Find
  <2> QED
    BY <1>10, <1>a, <2>0, <2>1, <2>2, FoundToDelete DEF FindPriv, FindPub
<1>11. CASE DestroyKey(b)
  <2>1. CASE \E h : frame' = [frame EXCEPT ![b].todo = @ \ {h}]
    BY <1>0, <2>1 DEF Functions, FrameOwn
  <2> QED
    BY <1>11, <1>a, <1>b, <2>1 DEF DestroyKey
<1>12. CASE DestroyDone(b) \/ Wrap(b) \/ Release(b) \/ CloseSession(b) \/ EndBuild(b)
  BY <1>12, <1>d DEF DestroyDone, Wrap, Release, CloseSession, EndBuild
<1> QED
  BY <1>1, <1>2, <1>3, <1>4, <1>5, <1>6, <1>7, <1>8, <1>9, <1>10, <1>11, <1>12 DEF Step

\* No step gives a builder something else to destroy than it should.
LEMMA AimStep ==
  ASSUME KeyInv, NEW c \in Builder, Build(c) \/ CallDelete(c) \/ Step(c), NEW b \in Builder
  PROVE  AimOwn(b)'
<1>0. TypeInv /\ Functions /\ FleetOwn(b) /\ AimOwn(b)
  BY DEF KeyInv, TypeInv, BuildInv, LoginInv
<1>1. ASSUME NEW h \in Live', h = frame[b].base \/ h \in frame[b].todo
      PROVE  h \in Live /\ objs'[h].class = objs[h].class /\ objs'[h].provisioned = objs[h].provisioned
  BY <1>0, <1>1, AimKept
<1>2. CASE c # b
  <2>1. pc'[b] = pc[b] /\ frame'[b] = frame[b]
    BY <1>0, <1>2, StepAlone DEF Alone
  <2>2. ASSUME pc'[b] \in SeedPcs, frame'[b].base \in Live' PROVE objs'[frame'[b].base].class = "seed"
    BY <1>0, <1>1, <2>1, <2>2 DEF AimOwn
  <2>3. ASSUME NEW h \in frame'[b].todo \cap Live' PROVE objs'[h].provisioned = TRUE
    BY <1>0, <1>1, <2>1 DEF AimOwn
  <2> QED
    BY <2>2, <2>3 DEF AimOwn
<1>3. CASE c = b
  <2>1. ASSUME NEW h \in frame'[b].todo \cap Live' PROVE objs'[h].provisioned = TRUE
    <3>1. CASE h \in frame[b].todo
      BY <1>0, <1>1, <3>1 DEF AimOwn
    <3>2. CASE UNCHANGED objs /\ objs[h].provisioned = TRUE
      BY <3>2
    <3> QED
      BY <1>0, <1>3, <3>1, <3>2, AimMoves
  <2>2. ASSUME pc'[b] \in SeedPcs, frame'[b].base \in Live' PROVE objs'[frame'[b].base].class = "seed"
    <3>0. pc'[b] \in DerivePcs \ {"seed"} /\ pc'[b] # "drop"
      BY <2>2 DEF SeedPcs, DerivePcs
    <3>1. CASE CreateSeed(b)
      BY <1>0, <3>0, <3>1, SeedCreated
    <3>2. CASE DeriveMaster(b)
      <4>1. frame'[b].base = frame[b].base /\ pc[b] \in SeedPcs
        <5>1. FrameOwn(b)
          BY <1>0 DEF TypeInv
        <5> QED
          BY <1>0, <3>2, <5>1 DEF DeriveMaster, Functions, FrameOwn, SeedPcs
      <4> QED
        BY <1>0, <1>1, <2>2, <4>1 DEF AimOwn
    <3>3. ~DestroySeed(b) /\ ~ReadMaster(b) /\ ~FingerprintMaster(b)
      BY <1>0, <2>2, <3>0, SeedDestroyed, MasterRead, MasterFingerprinted DEF SeedPcs
    <3>4. ~DeriveChild(b)
      BY <1>0, <2>2 DEF DeriveChild, Fail, Abort, Goto, Functions, SeedPcs
    <3> QED
      BY <1>0, <1>3, <3>0, <3>1, <3>2, <3>3, <3>4, DeriveMoves
  <2> QED
    BY <2>1, <2>2 DEF AimOwn
<1> QED
  BY <1>2, <1>3

\* A step of one builder leaves the keys of the others.
LEMMA OtherPath ==
  ASSUME KeyInv, NEW c \in Builder, Build(c) \/ CallDelete(c) \/ Step(c), NEW b \in Builder \ {c}
  PROVE  PathOwn(b)' /\ SignersOwn(b)'
<1>0. TypeInv /\ Functions /\ PathOwn(b) /\ SignersOwn(b) /\ \A d \in Builder : AimOwn(d)
  BY DEF KeyInv, TypeInv, BuildInv, LoginInv
<1>1. /\ pc'[b] = pc[b] /\ frame'[b] = frame[b] /\ fleet'[b] = fleet[b] /\ signers'[b] = signers[b]
  BY <1>0, StepAlone DEF Alone
<1>2. Current(b)' = Current(b) /\ (SeedAccepted(b)' <=> SeedAccepted(b))
  BY <1>1 DEF Current, At, SeedAccepted
<1>3. ASSUME NEW h, NEW key, NEW member, HoldsKey(b, h, key, member)
      PROVE  h \in Live' /\ IsKey(objs'[h], b, sessions', key, member)
  BY <1>0, <1>3, KeyKept
<1>4. PathOwn(b)'
  <2>1. pc[b] \in DerivePcs \ {"seed"} => SeedAccepted(b)
    BY <1>0 DEF PathOwn
  <2>2. ASSUME \/ pc[b] = "destroy_seed" /\ frame[b].master # None
               \/ pc[b] \in {"read_master", "fp_master"}
        PROVE  /\ frame[b].master \in Live'
               /\ IsKey(objs'[frame[b].master], b, sessions', KeyAt(Current(b), 0), Current(b))
    BY <1>0, <1>3, <2>2 DEF PathOwn
  <2>3. ASSUME pc[b] = "derive_path"
        PROVE  /\ frame[b].key \in Live'
               /\ IsKey(objs'[frame[b].key], b, sessions', KeyAt(Current(b), frame[b].depth), Current(b))
               /\ frame[b].fingerprint = KeyAt(Current(b), 0)
    BY <1>0, <1>3, <2>3 DEF PathOwn
  <2> QED
    BY <1>1, <1>2, <2>1, <2>2, <2>3 DEF PathOwn, HoldsKey
<1>5. SignersOwn(b)'
  <2> SUFFICES ASSUME pc[b] # "drop", NEW i \in DOMAIN signers[b], fleet[b][i].init = "derive"
               PROVE  /\ SignerFor(signers[b][i], fleet[b][i])
                      /\ signers[b][i].key \in Live'
                      /\ IsKey(objs'[signers[b][i].key], b, sessions', RequestedKey(fleet[b][i]), fleet[b][i])
    BY <1>1 DEF SignersOwn, HoldsKey
  <2>1. /\ SignerFor(signers[b][i], fleet[b][i])
        /\ HoldsKey(b, signers[b][i].key, RequestedKey(fleet[b][i]), fleet[b][i])
    BY <1>0 DEF SignersOwn
  <2> QED
    BY <1>3, <2>1
<1> QED
  BY <1>4, <1>5

\* The signer that ends a derivation.
LEMMA DerivedAdded ==
  ASSUME TypeInv, NEW b \in Builder, Step(b), pc[b] \in DerivePcs, pc'[b] \in {"resolve", "held"}
  PROVE  LET xpub == XpubOf(frame[b].key)
         IN  /\ pc[b] = "derive_path" /\ frame[b].depth = Len(Current(b).path)
             /\ xpub.ok /\ AddSigner(b, frame[b].key, xpub.value, frame[b].fingerprint)
<1>0. Functions
  BY DEF TypeInv, BuildInv, LoginInv
<1>1. CASE FinishDerive(b)
  BY <1>0, <1>1 DEF FinishDerive, ReadFails, Abort, Goto, Functions
<1>2. ~(ResolveSlot(b) \/ OpenSession(b) \/ Login(b))
  BY DEF ResolveSlot, OpenSession, Login, DerivePcs
<1>3. ~(CreateSeed(b) \/ DeriveMaster(b) \/ DestroySeed(b))
  BY <1>0 DEF CreateSeed, DeriveMaster, DestroySeed, Fail, Abort, Goto, Functions
<1>4. ~(ReadMaster(b) \/ FingerprintMaster(b) \/ DeriveChild(b))
  BY <1>0 DEF ReadMaster, FingerprintMaster, DeriveChild, ReadFails, Fail, Abort, Goto, Functions
<1>5. ~(FindKey(b) \/ ReadKey(b) \/ FingerprintKey(b))
  BY DEF FindKey, ReadKey, FingerprintKey, DerivePcs
<1>6. ~(FindPriv(b) \/ FindPub(b) \/ DestroyKey(b) \/ DestroyDone(b))
  BY DEF FindPriv, FindPub, FindToDelete, DestroyKey, DestroyDone, DerivePcs
<1>7. ~(Wrap(b) \/ Release(b) \/ CloseSession(b) \/ EndBuild(b))
  BY DEF Wrap, Release, CloseSession, EndBuild, DerivePcs
<1> QED
  BY <1>1, <1>2, <1>3, <1>4, <1>5, <1>6, <1>7 DEF Step

\* It is the one that its member asks for.
LEMMA DerivedIsWanted ==
  ASSUME PointsOfKeys, PointsToldApart, KeyInv, NEW b \in Builder,
         pc[b] = "derive_path", frame[b].depth = Len(Current(b).path), XpubOf(frame[b].key).ok
  PROVE  /\ XpubOf(frame[b].key).value = XpubWanted(Current(b))
         /\ frame[b].fingerprint = KeyAt(Current(b), 0)
         /\ HoldsKey(b, frame[b].key, RequestedKey(Current(b)), Current(b))
<1> DEFINE member == Current(b)
           n      == Len(member.path)
<1>0. TypeInv /\ BuildInv /\ PathOwn(b) /\ pc[b] \in DerivePcs \ {"seed"}
  BY DEF KeyInv, TypeInv, DerivePcs
<1>1. /\ SeedAccepted(b) /\ HoldsKey(b, frame[b].key, KeyAt(member, n), member)
      /\ frame[b].fingerprint = KeyAt(member, 0)
  BY <1>0 DEF PathOwn
<1>2. member.path \in Seq(ChildNumber) /\ n \in 0 .. n
  BY <1>0, PathIsSeq
<1>3. PICK p \in Points : p.key = KeyAt(member, n)
  BY <1>0, <1>1, <1>2, PointOfKey
<1>4. PICK t \in Token : XpubOf(frame[b].key) = ReadXpub(Attributes(PointForm[t], KeyAt(member, n), <<>>))
  BY <1>0, <1>1, HeldRead
<1> DEFINE x(key) == ReadXpub(Attributes(PointForm[t], key, <<>>))
<1>5. p.key = RequestedKey(member) /\ (x(p.key).ok => x(p.key).value = XpubWanted(member))
  <2> HIDE DEF member
  <2> QED
    BY <1>2, <1>3, WantedRead
<1>6. x(p.key) = XpubOf(frame[b].key)
  BY <1>3, <1>4
<1> HIDE DEF x
<1> QED
  BY <1>1, <1>3, <1>5, <1>6

\* A wrapped signer is still the one its member asked for.
LEMMA WrappedFor ==
  ASSUME NEW s, NEW member, SignerFor(s, member)
  PROVE  LET w == [s EXCEPT !.patched = PatchXpubNetwork(s.xpub, member.network)]
         IN  SignerFor(w, member) /\ w.key = s.key
<1> DEFINE x == PatchXpubNetwork(s.xpub, member.network)
           w == [s EXCEPT !.patched = x]
<1>1. DOMAIN s = {"key", "xpub", "fingerprint", "patched"}
  BY DEF SignerFor
<1> HIDE DEF x
<1>2. /\ DOMAIN w = DOMAIN s /\ w.key = s.key /\ w.xpub = s.xpub
      /\ w.fingerprint = s.fingerprint /\ w.patched = x
  BY <1>1
<1> HIDE DEF w
<1>3. SignerFor(w, member)
  BY <1>2 DEF SignerFor, x
<1> QED
  BY <1>2, <1>3 DEF w, x

LEMMA OwnSigners ==
  ASSUME PointsOfKeys, PointsToldApart, KeyInv,
         NEW b \in Builder, Build(b) \/ CallDelete(b) \/ Step(b)
  PROVE  SignersOwn(b)'
<1>0. /\ TypeInv /\ Functions /\ FleetOwn(b) /\ SignersOwn(b) /\ \A d \in Builder : AimOwn(d)
  BY DEF KeyInv, TypeInv, BuildInv, LoginInv
<1>1. ASSUME pc[b] # "drop", NEW h, NEW key, NEW member, HoldsKey(b, h, key, member)
      PROVE  h \in Live' /\ IsKey(objs'[h], b, sessions', key, member)
  BY <1>0, <1>1, KeyKept
\* What is known of a signer is known in the next state.
<1>2. ASSUME pc[b] # "drop", NEW i \in DOMAIN signers[b], fleet[b][i].init = "derive"
      PROVE  /\ SignerFor(signers[b][i], fleet[b][i])
             /\ signers[b][i].key \in Live'
             /\ IsKey(objs'[signers[b][i].key], b, sessions', RequestedKey(fleet[b][i]), fleet[b][i])
  <2>1. /\ SignerFor(signers[b][i], fleet[b][i])
        /\ HoldsKey(b, signers[b][i].key, RequestedKey(fleet[b][i]), fleet[b][i])
    BY <1>0, <1>2 DEF SignersOwn
  <2> QED
    BY <1>1, <1>2, <2>1
<1>3. CASE Build(b) \/ CallDelete(b)
  <2>1. pc[b] = "idle" /\ signers'[b] = signers[b]
    BY <1>3 DEF Build, CallDelete
  <2>2. signers[b] = <<>>
    BY <1>0, <2>1, AskedFor DEF FleetOwn
  <2> QED
    BY <2>1, <2>2 DEF SignersOwn
<1>4. CASE EndBuild(b)
  <2>1. signers'[b] = <<>>
    BY <1>0, <1>4 DEF EndBuild, Functions
  <2> QED
    BY <2>1 DEF SignersOwn
<1>5. CASE Wrap(b)
  <2>1. /\ pc[b] = "held" /\ UNCHANGED <<pc, fleet>>
        /\ signers'[b] = [i \in DOMAIN signers[b] |-> [signers[b][i] EXCEPT !.patched =
                             PatchXpubNetwork(signers[b][i].xpub, fleet[b][i].network)]]
    BY <1>0, <1>5, WrapFleet DEF Wrap
  <2> SUFFICES ASSUME NEW i \in DOMAIN signers[b], fleet[b][i].init = "derive"
               PROVE  /\ SignerFor(signers'[b][i], fleet[b][i])
                      /\ signers'[b][i].key \in Live'
                      /\ IsKey(objs'[signers'[b][i].key], b, sessions', RequestedKey(fleet[b][i]), fleet[b][i])
    BY <2>1 DEF SignersOwn, HoldsKey
  <2>2. SignerFor(signers'[b][i], fleet[b][i]) /\ signers'[b][i].key = signers[b][i].key
    BY <1>2, <2>1, WrappedFor
  <2> QED
    BY <1>2, <2>1, <2>2
<1>6. CASE MovesOn(b) /\ ~EndBuild(b)
  <2>1. fleet'[b] = fleet[b] /\ signers'[b] = signers[b] /\ (pc'[b] # "drop" => pc[b] # "drop")
    BY <1>6 DEF MovesOn, DerivePcs, LoadPcs, DeletePcs
  <2> SUFFICES ASSUME pc'[b] # "drop", NEW i \in DOMAIN signers[b], fleet[b][i].init = "derive"
               PROVE  /\ SignerFor(signers[b][i], fleet[b][i])
                      /\ signers[b][i].key \in Live'
                      /\ IsKey(objs'[signers[b][i].key], b, sessions', RequestedKey(fleet[b][i]), fleet[b][i])
    BY <2>1 DEF SignersOwn, HoldsKey
  <2> QED
    BY <1>2, <2>1
<1>7. CASE pc[b] \in DerivePcs \cup LoadPcs /\ Adds(b) /\ Step(b)
  <2>1. PICK key, xpub, fingerprint : AddSigner(b, key, xpub, fingerprint)
    BY <1>7 DEF Adds
  <2> DEFINE signer == [key |-> key, xpub |-> xpub, fingerprint |-> fingerprint, patched |-> None]
  <2>2. /\ fleet'[b] = fleet[b] /\ signers'[b] = Append(signers[b], signer)
        /\ pc'[b] \in {"resolve", "held"}
    BY <1>0, <1>7, <2>1, AddFleet
  <2>3. /\ Len(signers[b]) \in Nat /\ DOMAIN signers[b] = 1 .. Len(signers[b])
        /\ DOMAIN signers'[b] = 1 .. Len(signers[b]) + 1
        /\ \A i \in 1 .. Len(signers[b]) : signers'[b][i] = signers[b][i]
        /\ signers'[b][Len(signers[b]) + 1] = signer
    <3>1. IsSeq(signers[b])
      BY <1>0 DEF FleetOwn
    <3> HIDE DEF signer
    <3>2. /\ IsSeq(Append(signers[b], signer))
          /\ Len(Append(signers[b], signer)) = Len(signers[b]) + 1
      BY <3>1, AppendSeq
    <3>3. DOMAIN signers'[b] = 1 .. Len(signers[b]) + 1
      BY <2>2, <3>2, AppendSeq
    <3> QED
      BY <2>2, <3>1, <3>3, AppendSeq
  <2>4. pc[b] # "drop" /\ Current(b) = fleet[b][Len(signers[b]) + 1]
    BY <1>7 DEF DerivePcs, LoadPcs, Current, At
  <2>5. ASSUME Current(b).init = "derive"
        PROVE  /\ SignerFor(signer, Current(b))
               /\ signer.key \in Live'
               /\ IsKey(objs'[signer.key], b, sessions', RequestedKey(Current(b)), Current(b))
    <3>1. pc[b] \in DerivePcs
      BY <1>0, <1>7, <2>5 DEF FleetOwn
    <3>2. /\ pc[b] = "derive_path" /\ frame[b].depth = Len(Current(b).path)
          /\ XpubOf(frame[b].key).ok
          /\ AddSigner(b, frame[b].key, XpubOf(frame[b].key).value, frame[b].fingerprint)
      BY <1>0, <1>7, <2>2, <3>1, DerivedAdded
    <3>3. /\ XpubOf(frame[b].key).value = XpubWanted(Current(b))
          /\ frame[b].fingerprint = KeyAt(Current(b), 0)
          /\ HoldsKey(b, frame[b].key, RequestedKey(Current(b)), Current(b))
      BY <3>2, DerivedIsWanted
    <3> DEFINE added == [key |-> frame[b].key, xpub |-> XpubOf(frame[b].key).value,
                         fingerprint |-> frame[b].fingerprint, patched |-> None]
    <3>4. signers'[b] = Append(signers[b], added)
      BY <1>0, <1>7, <3>2, AddFleet
    <3>5. signers'[b][Len(signers[b]) + 1] = added
      <4>1. IsSeq(signers[b])
        BY <1>0 DEF FleetOwn
      <4> HIDE DEF added
      <4> QED
        BY <3>4, <4>1, AppendSeq
    <3>6. signer = added
      BY <2>3, <3>5
    <3>7. SignerFor(added, Current(b)) /\ added.key = frame[b].key
      BY <3>3 DEF SignerFor
    <3> HIDE DEF added, signer
    <3> QED
      BY <1>1, <2>4, <3>3, <3>6, <3>7
  <2> SUFFICES ASSUME NEW i \in DOMAIN signers'[b], fleet[b][i].init = "derive"
               PROVE  /\ SignerFor(signers'[b][i], fleet[b][i])
                      /\ signers'[b][i].key \in Live'
                      /\ IsKey(objs'[signers'[b][i].key], b, sessions', RequestedKey(fleet[b][i]), fleet[b][i])
    BY <2>2 DEF SignersOwn, HoldsKey
  <2> HIDE DEF signer
  <2>6. CASE i = Len(signers[b]) + 1
    BY <2>3, <2>4, <2>5, <2>6
  <2>7. CASE i \in DOMAIN signers[b]
    BY <1>2, <2>3, <2>4, <2>7
  <2> QED
    BY <2>3, <2>6, <2>7
<1> QED
  BY <1>0, <1>3, <1>4, <1>5, <1>6, <1>7, StepMoves

LEMMA KeyStep ==
  ASSUME PointsOfKeys, PointsToldApart, KeyInv, [Next]_vars
  PROVE  KeyInv'
<1>0. TypeInv'
  BY TypeStep DEF KeyInv
<1>1. ASSUME NEW c \in Builder, Build(c) \/ CallDelete(c) \/ Step(c) PROVE KeyInv'
  <2>1. ASSUME NEW b \in Builder PROVE AimOwn(b)' /\ PathOwn(b)' /\ SignersOwn(b)'
    <3>1. AimOwn(b)'
      BY <1>1, AimStep
    <3>2. CASE b = c
      BY <1>1, <3>1, <3>2, OwnPath, OwnSigners
    <3>3. CASE b # c
      BY <1>1, <3>1, <3>3, OtherPath
    <3> QED
      BY <3>2, <3>3
  <2> QED
    BY <1>0, <2>1 DEF KeyInv
<1>2. CASE Crash
  <2>1. ASSUME NEW b \in Builder PROVE AimOwn(b)' /\ PathOwn(b)' /\ SignersOwn(b)'
    <3>1. pc'[b] = "idle" /\ frame'[b].todo = {} /\ signers'[b] = <<>>
      BY <1>2 DEF Crash, EmptyFrame
    <3> QED
      BY <3>1 DEF AimOwn, PathOwn, SignersOwn, SeedPcs, DerivePcs
  <2> QED
    BY <1>0, <2>1 DEF KeyInv
<1>3. CASE Finished \/ UNCHANGED vars
  <2>1. UNCHANGED vars
    BY <1>3 DEF Finished
  <2>2. ASSUME NEW b \in Builder PROVE AimOwn(b)' /\ PathOwn(b)' /\ SignersOwn(b)'
    <3>1. AimOwn(b) /\ PathOwn(b) /\ SignersOwn(b)
      BY DEF KeyInv
    <3> QED
      BY <2>1, <3>1 DEF vars, AimOwn, PathOwn, SignersOwn, HoldsKey, Live, Current, At, SeedAccepted
  <2> QED
    BY <1>0, <2>2 DEF KeyInv
<1> QED
  BY <1>1, <1>2, <1>3 DEF Next

LEMMA KeyInit == Init => KeyInv
<1> SUFFICES ASSUME Init PROVE KeyInv
  OBVIOUS
<1>1. ASSUME NEW b \in Builder PROVE AimOwn(b) /\ PathOwn(b) /\ SignersOwn(b)
  <2>1. pc[b] = "idle" /\ frame[b].todo = {} /\ signers[b] = <<>>
    BY DEF Init, EmptyFrame
  <2> QED
    BY <2>1 DEF AimOwn, PathOwn, SignersOwn, SeedPcs, DerivePcs
<1> QED
  BY <1>1, TypeInit DEF KeyInv

LEMMA Keys ==
  ASSUME PointsOfKeys, PointsToldApart
  PROVE  Spec => []KeyInv
  BY KeyInit, KeyStep, PTL DEF Spec

LEMMA MembersCounted ==
  ASSUME NEW env, IsEnvironment(env)
  PROVE  Len(env.member) \in Nat /\ DOMAIN env.member = 1 .. Len(env.member)
  BY DEF IsEnvironment

\* What a member has from its variables, and from the fleet.
LEMMA MemberFields ==
  ASSUME NEW v, NEW network
  PROVE  LET m == Member(v, network)
         IN  /\ m.lib = v.LIB /\ m.slot = ParseSlot(v).value
             /\ m.label = v.LABEL /\ m.path = v.PATH /\ m.network = network
  BY DEF Member

\* What a build has a signer for is a member of its environment's fleet.
LEMMA SignerOfFleet ==
  ASSUME BuildInv, NEW b \in Builder, NEW i \in DOMAIN signers[b]
  PROVE  LET env == Envs[task[b]]
         IN  /\ task[b] \in DOMAIN Envs /\ FromEnv(env).ok /\ fleet[b] = FromEnv(env).value
             /\ i \in 1 .. Count(env) /\ Len(fleet[b]) = Count(env) /\ i \in DOMAIN env.member
             /\ MemberError(env.member[i]) = "none"
             /\ ParseNetwork(env.network).ok
             /\ fleet[b][i] = Member(env.member[i], ParseNetwork(env.network).value)
<1> DEFINE env == Envs[task[b]]
           n   == Count(env)
<1>1. /\ FleetOwn(b) /\ Asked(task[b], fleet[b])
      /\ i \in DOMAIN fleet[b] /\ DOMAIN fleet[b] = 1 .. Len(fleet[b]) /\ Len(fleet[b]) \in Nat
      /\ fleet[b][i].init # "delete"
  <2>1. FleetOwn(b) /\ i \in 1 .. Len(signers[b]) /\ Len(signers[b]) \in Nat
    BY FleetFacts DEF BuildInv
  <2>2. Asked(task[b], fleet[b])
    BY <2>1 DEF FleetOwn
  <2>3. DOMAIN fleet[b] = 1 .. Len(fleet[b]) /\ Len(fleet[b]) \in Nat
    BY <2>2, AskedFor
  <2> QED
    BY <2>1, <2>2, <2>3 DEF FleetOwn
<1>2. task[b] \in DOMAIN Envs
  BY <1>1, AskedFor
<1>3. FromEnv(env).ok /\ fleet[b] = FromEnv(env).value
  <2>1. task[b] \notin DOMAIN Deletions
    BY <1>2, KeyCeremonyAssumption
  <2> QED
    BY <1>1, <2>1 DEF Asked
<1>4. /\ ParseNetwork(env.network).ok /\ n \in 1 .. Len(env.member)
      /\ \A k \in 1 .. n : MemberError(env.member[k]) = "none"
      /\ fleet[b] = [k \in 1 .. n |-> Member(env.member[k], ParseNetwork(env.network).value)]
  BY <1>2, <1>3, FleetRead
<1>5. Len(env.member) \in Nat /\ DOMAIN env.member = 1 .. Len(env.member)
  BY <1>2, KeyCeremonyAssumption DEF IsEnvironment
<1> HIDE DEF n
<1>6. i \in 1 .. n /\ n \in Nat
  <2>1. DOMAIN fleet[b] = 1 .. n
    BY <1>4
  <2>2. n \in Nat
    BY <1>4, <1>5
  <2> QED
    BY <1>1, <2>1, <2>2
<1>7. Len(fleet[b]) = n
  BY <1>1, <1>4, <1>6
<1>8. i \in DOMAIN env.member
  BY <1>4, <1>5, <1>6
<1> QED
  BY <1>2, <1>3, <1>4, <1>6, <1>7, <1>8 DEF n

\* As long as its signer is in use, a derived key is on its token under its
\* build's session or for good, is the one at the member's path under the
\* member's seed, and the signer's public key and fingerprint are that key's and
\* its master's: whatever other builds and deletions do, and whatever sessions
\* they close.
THEOREM KeysHeld ==
  ASSUME PointsOfKeys, PointsToldApart
  PROVE  Spec => []SignerHoldsItsKey
<1>1. ASSUME KeyInv PROVE SignerHoldsItsKey
  <2> SUFFICES ASSUME NEW b \in Builder, NEW i \in InUse(b), fleet[b][i].init = "derive"
               PROVE  LET member == fleet[b][i]
                          signer == signers[b][i]
                      IN  /\ objs[signer.key] # NoObject
                          /\ objs[signer.key].key = RequestedKey(member)
                          /\ objs[signer.key].token = TokenAt(member)
                          /\ objs[signer.key].owner \in sessions \cup {None}
                          /\ signer.xpub.public_key = RequestedKey(member)
                          /\ signer.fingerprint = Key(RequestedRoot(member), <<>>)
    BY DEF SignerHoldsItsKey
  <2> DEFINE member == fleet[b][i]
             signer == signers[b][i]
  <2>1. pc[b] # "drop" /\ i \in DOMAIN signers[b]
    BY DEF InUse
  <2>2. SignerFor(signer, member) /\ HoldsKey(b, signer.key, RequestedKey(member), member)
    BY <1>1, <2>1 DEF KeyInv, SignersOwn
  <2> HIDE DEF member, signer
  <2>3. /\ objs[signer.key] # NoObject /\ objs[signer.key].key = RequestedKey(member)
        /\ objs[signer.key].token = TokenAt(member)
        /\ objs[signer.key].owner \in sessions \cup {None}
    BY <2>2 DEF HoldsKey, IsKey, Live
  <2>4. signer.xpub.public_key = RequestedKey(member)
    BY <2>2 DEF SignerFor, XpubWanted
  <2>5. signer.fingerprint = Key(RequestedRoot(member), <<>>)
    <3>1. [k \in 1 .. 0 |-> ToLeBytes(member.path[k])] = <<>>
      OBVIOUS
    <3> QED
      BY <2>2, <3>1 DEF SignerFor, KeyAt
  <2> QED
    BY <2>3, <2>4, <2>5 DEF member, signer
<1> QED
  BY Keys, <1>1, PTL

\* The network of a member is the one of its environment.
LEMMA NetworkAsConfigured ==
  ASSUME NEW text, ParseNetwork(text).ok
  PROVE  NetworkKind(ParseNetwork(text).value) = IF text \in {"bitcoin", "mainnet"} THEN "Main" ELSE "Test"
<1>1. CASE ~IsSet(text)
  <2>1. text \notin {"bitcoin", "mainnet"}
    BY <1>1, FleetEnvAssumption DEF IsSet, Networks
  <2> QED
    BY <1>1, <2>1 DEF ParseNetwork, NetworkKind, Ok
<1>2. CASE IsSet(text)
  BY <1>2 DEF ParseNetwork, NetworkKind, Networks, Ok, Err
<1> QED
  BY <1>1, <1>2

\* What a derived signer says of its key is what was asked of the token: depth,
\* last step and parent, and once it is wrapped, the network of the fleet and
\* nothing else than before.
THEOREM DescriptorsTrue ==
  ASSUME PointsOfKeys, PointsToldApart
  PROVE  Spec => []XpubAsRequested
<1>1. ASSUME KeyInv PROVE XpubAsRequested
  <2> SUFFICES ASSUME NEW b \in Builder, NEW i \in InUse(b), fleet[b][i].init = "derive"
               PROVE  LET path    == fleet[b][i].path
                          xpub    == signers[b][i].xpub
                          patched == signers[b][i].patched
                      IN  /\ xpub.depth = Len(path)
                          /\ path = <<>> => xpub.child_number = Child(0, FALSE)
                          /\ path # <<>> => /\ xpub.child_number = path[Len(path)]
                                            /\ xpub.parent_fingerprint = Parent(xpub.public_key)
                          /\ patched # None =>
                               /\ patched.network = IF Envs[task[b]].network \in {"bitcoin", "mainnet"}
                                                    THEN "Main" ELSE "Test"
                               /\ [patched EXCEPT !.network = xpub.network] = xpub
    BY DEF XpubAsRequested
  <2> DEFINE member == fleet[b][i]
             signer == signers[b][i]
             xpub   == signer.xpub
             kind   == NetworkKind(member.network)
  <2>1. pc[b] # "drop" /\ i \in DOMAIN signers[b]
    BY DEF InUse
  <2>2. SignerFor(signer, member)
    BY <1>1, <2>1 DEF KeyInv, SignersOwn
  <2>3. /\ xpub = XpubWanted(member)
        /\ signer.patched # None => signer.patched = [xpub EXCEPT !.network = kind]
    BY <2>2 DEF SignerFor, PatchXpubNetwork
  <2>4. kind = IF Envs[task[b]].network \in {"bitcoin", "mainnet"} THEN "Main" ELSE "Test"
    <3>1. /\ ParseNetwork(Envs[task[b]].network).ok
          /\ member = Member(Envs[task[b]].member[i], ParseNetwork(Envs[task[b]].network).value)
      BY <1>1, <2>1, SignerOfFleet DEF KeyInv, TypeInv
    <3>2. member.network = ParseNetwork(Envs[task[b]].network).value
      BY <3>1, MemberFields
    <3> QED
      BY <3>1, <3>2, NetworkAsConfigured
  <2> HIDE DEF kind, member, signer
  <2>5. /\ DOMAIN xpub = {"network", "depth", "parent_fingerprint", "child_number", "public_key", "chain_code"}
        /\ xpub = [f \in DOMAIN xpub |-> xpub[f]]
        /\ xpub.depth = Len(member.path)
        /\ xpub.child_number = IF member.path = <<>> THEN Child(0, FALSE) ELSE member.path[Len(member.path)]
        /\ member.path # <<>> => xpub.parent_fingerprint = Parent(xpub.public_key)
    BY <2>3 DEF XpubWanted
  <2> HIDE DEF xpub
  <2>6. signer.patched # None => /\ signer.patched.network = kind
                                 /\ [signer.patched EXCEPT !.network = xpub.network] = xpub
    BY <2>3, <2>5
  <2> QED
    BY <2>4, <2>5, <2>6 DEF member, signer, xpub
<1> QED
  BY Keys, <1>1, PTL

\* A derived signer has the key at its path under the root that _KEY asks for.
LEMMA DerivedAsAsked ==
  ASSUME NEW v, NEW member, NEW token, NEW signer,
         KeyAsked(v.KEY, member), member.init = "derive", member.path = v.PATH,
         TokenAt(member) = token, SignerFor(signer, member)
  PROVE  HasKeyOf(signer, v, token)
<1>1. ~(IsSet(v.KEY) /\ v.KEY.form = "load")
  BY DEF KeyAsked
<1> SUFFICES ASSUME IsSet(v.KEY) /\ v.KEY.form = "seed" =>
                      \A k \in DOMAIN v.KEY.hex : v.KEY.hex[k] \in Digit
             PROVE  /\ signer.fingerprint = Key(RootAsked(v.KEY, token), <<>>)
                    /\ signer.xpub.public_key = Key(RootAsked(v.KEY, token), Words(v.PATH))
  BY <1>1 DEF HasKeyOf
<1>2. RequestedRoot(member) = RootAsked(v.KEY, token)
  BY DEF KeyAsked, RequestedRoot, RootAsked
<1>3. signer.fingerprint = Key(RequestedRoot(member), <<>>)
  <2>1. [k \in 1 .. 0 |-> ToLeBytes(member.path[k])] = <<>>
    OBVIOUS
  <2> QED
    BY <2>1 DEF SignerFor, KeyAt
<1>4. signer.xpub.public_key = Key(RequestedRoot(member), Words(v.PATH))
  BY DEF SignerFor, XpubWanted, RequestedKey
<1> QED
  BY <1>2, <1>3, <1>4

\* A loaded signer has the key that is provisioned under its label.
LEMMA LoadedAsAsked ==
  ASSUME NEW v, NEW member, NEW token, NEW signer,
         KeyAsked(v.KEY, member), member.init = "load", member.label = v.LABEL,
         LoadedFor(objs, signer, member)
  PROVE  HasKeyOf(signer, v, token)
<1>1. IsSet(v.KEY) /\ v.KEY.form = "load"
  BY DEF KeyAsked
<1>2. objs[signer.key] # NoObject => objs[signer.key].name = PrivLabel(v.LABEL)
  BY DEF LoadedFor, OneKey
<1> QED
  BY <1>1, <1>2 DEF HasKeyOf

\* The signers of a build are the cosigners of its environment: signer i + 1 is
\* the one of EMVAULT_FLEET_<i>_*, on the token its variables name and with the
\* key they ask for: the seed that _KEY spells, the seed of the token if it is
\* unset, shim or zeros, or the key that load finds.  A fleet that is handed over
\* goes up to the first index without a vendor.
THEOREM FleetAsConfigured ==
  ASSUME PointsOfKeys, PointsToldApart
  PROVE  Spec => []FleetFollowsEnvironment
<1>1. ASSUME KeyInv, LoadInv PROVE FleetFollowsEnvironment
  <2>1. ASSUME NEW b \in Builder, NEW i \in InUse(b)
        PROVE  LET v     == Envs[task[b]].member[i]
                   slot  == IF IsSet(v.SLOT) THEN <<"label", v.SLOT>>
                                             ELSE <<"slot_id", v.SLOT_ID>>
                   token == TokenOf[<<v.LIB, slot>>]
               IN  /\ IsSet(v.VENDOR)
                   /\ [builder |-> b, member |-> i, token |-> token] \in sessions
                   /\ HasKeyOf(signers[b][i], v, token)
    <3> DEFINE env    == Envs[task[b]]
               v      == env.member[i]
               member == fleet[b][i]
               slot   == IF IsSet(v.SLOT) THEN <<"label", v.SLOT>> ELSE <<"slot_id", v.SLOT_ID>>
               token  == TokenOf[<<v.LIB, slot>>]
    <3>0. BuildInv /\ OpenFor(b) /\ SignersOwn(b) /\ LoadOwn(b)
      BY <1>1 DEF KeyInv, TypeInv, BuildInv, LoadInv
    <3>1. pc[b] # "drop" /\ i \in DOMAIN signers[b]
      BY <2>1 DEF InUse
    <3>2. /\ task[b] \in DOMAIN Envs /\ i \in 1 .. Count(env) /\ i \in DOMAIN env.member
          /\ MemberError(v) = "none"
          /\ member = Member(v, ParseNetwork(env.network).value)
      BY <3>0, <3>1, SignerOfFleet
    <3>3. IsSet(v.VENDOR)
      BY <3>2, CountStops, KeyCeremonyAssumption
    <3>4. ParseSlot(v).ok /\ ParseSlot(v).value = slot
      <4>1. ParseSlot(v).ok
        BY <3>2 DEF MemberError
      <4> QED
        BY <4>1 DEF ParseSlot, Ok, Err
    <3>5. /\ member.lib = v.LIB /\ member.slot = slot
          /\ member.label = v.LABEL /\ member.path = v.PATH
      <4>1. member.slot = slot
        BY <3>2, <3>4, MemberFields
      <4>2. member.lib = v.LIB /\ member.label = v.LABEL /\ member.path = v.PATH
        BY <3>2, MemberFields
      <4> QED
        BY <4>1, <4>2
    <3>6. TokenAt(member) = token
      BY <3>5 DEF TokenAt
    <3>7. [builder |-> b, member |-> i, token |-> token] \in sessions
      BY <3>0, <3>1, <3>6 DEF OpenFor
    <3>8. KeyAsked(v.KEY, member)
      <4>1. \A network : KeyAsked(v.KEY, Member(v, network))
        BY <3>2, MemberRead
      <4> QED
        BY <3>2, <4>1
    <3>9. HasKeyOf(signers[b][i], v, token)
      <4>1. CASE member.init = "derive"
        <5>1. SignerFor(signers[b][i], member)
          BY <3>0, <3>1, <4>1 DEF SignersOwn
        <5> HIDE DEF member, v, token
        <5> QED
          BY <3>5, <3>6, <3>8, <4>1, <5>1, DerivedAsAsked
      <4>2. CASE member.init = "load"
        <5>1. LoadedFor(objs, signers[b][i], member)
          BY <3>0, <3>1, <4>2 DEF LoadOwn
        <5> HIDE DEF member, v, token
        <5> QED
          BY <3>5, <3>8, <4>2, <5>1, LoadedAsAsked
      <4> QED
        BY <3>8, <4>1, <4>2 DEF KeyAsked
    <3> QED
      BY <3>3, <3>7, <3>9
  <2>2. ASSUME NEW b \in Builder, pc[b] = "held"
        PROVE  LET vars_of == Envs[task[b]].member
                   n       == Len(signers[b])
               IN  /\ n \in 1 .. Len(vars_of)
                   /\ n = Len(vars_of) \/ ~IsSet(vars_of[n + 1].VENDOR)
    <3> DEFINE env == Envs[task[b]]
               n   == Len(signers[b])
    <3>0. BuildInv /\ FleetOwn(b)
      BY <1>1 DEF KeyInv, TypeInv, BuildInv
    <3>1. n = Len(fleet[b]) /\ n \in Nat \ {0} /\ DOMAIN signers[b] = 1 .. n
      <4>1. n \in Nat /\ DOMAIN signers[b] = 1 .. n /\ Asked(task[b], fleet[b]) /\ n = Len(fleet[b])
        BY <2>2, <3>0, FleetFacts DEF FleetOwn
      <4> QED
        BY <4>1, AskedFor
    <3>2. task[b] \in DOMAIN Envs /\ n = Count(env)
      <4>1. 1 \in DOMAIN signers[b]
        BY <3>1
      <4>2. task[b] \in DOMAIN Envs /\ Len(fleet[b]) = Count(env)
        BY <3>0, <4>1, SignerOfFleet
      <4> QED
        BY <3>1, <4>2
    <3>3. IsEnvironment(env)
      BY <3>2, KeyCeremonyAssumption
    <3>4. Len(env.member) \in Nat
      BY <3>3, MembersCounted
    <3> QED
      BY <3>1, <3>2, <3>3, <3>4, CountStops
  <2> QED
    BY <2>1, <2>2 DEF FleetFollowsEnvironment
<1> QED
  BY Keys, Loads, <1>1, PTL

-----------------------------------------------------------------------------
(* What validate has compared                                              *)

\* Every cosigner of every fleet is derived, and none is loaded.
OnlyDerived ==
    \A e \in DOMAIN Envs : FromEnv(Envs[e]).ok =>
        \A i \in DOMAIN FromEnv(Envs[e]).value : FromEnv(Envs[e]).value[i].init = "derive"

\* No two cosigners of a fleet reach one root by different names: a token is not
\* named by its label and by its slot id, nor through two libraries or vendors,
\* and no two tokens are given the same seed.
OneNamePerRoot ==
    \A e \in DOMAIN Envs : FromEnv(Envs[e]).ok =>
        LET members == FromEnv(Envs[e]).value
        IN  \A i, j \in DOMAIN members :
              (/\ {TokenAt(members[i]), TokenAt(members[j])} \subseteq Token
               /\ RequestedRoot(members[i]) = RequestedRoot(members[j]))
              => /\ members[i].vendor = members[j].vendor
                 /\ members[i].lib = members[j].lib
                 /\ members[i].slot = members[j].slot

\* A fleet that is being built has been validated.
ValidInv == \A b \in Builder : Validate(fleet[b])

LEMMA ValidStep ==
  ASSUME BuildInv, ValidInv, [Next]_vars
  PROVE  ValidInv'
<1>0. Functions
  BY DEF BuildInv, LoginInv
<1>1. Validate(<<>>)
  BY DEF Validate
<1>2. ASSUME NEW b \in Builder, Build(b) \/ CallDelete(b) \/ Step(b) PROVE ValidInv'
  <2>1. CASE Build(b)
    <3>1. fleet' = fleet \/ \E e \in DOMAIN Envs : /\ Validate(FromEnv(Envs[e]).value)
                                                   /\ fleet' = [fleet EXCEPT ![b] = FromEnv(Envs[e]).value]
      BY <2>1 DEF Build, Start, Refuse
    <3> QED
      BY <1>0, <3>1 DEF ValidInv, Functions
  <2>2. CASE CallDelete(b)
    <3>1. PICK d \in DOMAIN Deletions : fleet' = [fleet EXCEPT ![b] = <<Deletions[d]>>]
      BY <2>2 DEF CallDelete, Start
    <3>2. Validate(<<Deletions[d]>>)
      BY DEF Validate
    <3> QED
      BY <1>0, <3>1, <3>2 DEF ValidInv, Functions
  <2>3. CASE Step(b)
    <3>1. FleetOwn(b)
      BY DEF BuildInv
    <3>2. CASE EndBuild(b)
      BY <1>0, <1>1, <3>2 DEF EndBuild, ValidInv, Functions
    <3>3. CASE Wrap(b)
      BY <3>3 DEF Wrap, ValidInv
    <3>4. CASE ~EndBuild(b) /\ ~Wrap(b)
      <4>1. fleet'[b] = fleet[b]
        <5>1. CASE MovesOn(b)
          BY <5>1 DEF MovesOn
        <5>2. CASE pc[b] \in DerivePcs \cup LoadPcs /\ Adds(b)
          BY <1>0, <3>1, <5>2, AddFleet DEF Adds
        <5> QED
          BY <1>0, <2>3, <3>1, <3>4, <5>1, <5>2, StepMoves
      <4>2. \A c \in Builder \ {b} : fleet'[c] = fleet[c]
        BY <1>0, <2>3, StepAlone DEF Alone
      <4> QED
        BY <4>1, <4>2 DEF ValidInv
    <3> QED
      BY <3>2, <3>3, <3>4
  <2> QED
    BY <1>2, <2>1, <2>2, <2>3
<1>3. CASE Crash
  BY <1>1, <1>3 DEF Crash, ValidInv
<1>4. CASE Finished \/ UNCHANGED vars
  BY <1>4 DEF Finished, vars, ValidInv
<1> QED
  BY <1>2, <1>3, <1>4 DEF Next

LEMMA Validated == Spec => [](BuildInv /\ ValidInv)
<1>1. Init => ValidInv
  BY DEF Init, ValidInv, Validate
<1> QED
  BY <1>1, BuildInit, BuildStep, ValidStep, PTL DEF Spec

\* Two paths that reach the token as the same words are the same path.
LEMMA WordsApart ==
  ASSUME NEW p \in Seq(ChildNumber), NEW q \in Seq(ChildNumber), Words(p) = Words(q)
  PROVE  p = q
<1>1. DOMAIN p = DOMAIN q
  BY DEF Words
<1>2. ASSUME NEW k \in DOMAIN p PROVE p[k] = q[k]
  <2>1. p[k] \in ChildNumber /\ q[k] \in ChildNumber
    BY <1>1
  <2>2. Words(p)[k] = ToLeBytes(p[k]) /\ Words(q)[k] = ToLeBytes(q[k])
    BY <1>1 DEF Words
  <2> QED
    BY <2>1, <2>2, ChildNumberBack
<1>3. p = [k \in DOMAIN p |-> p[k]] /\ q = [k \in DOMAIN q |-> q[k]]
  OBVIOUS
<1> QED
  BY <1>1, <1>2, <1>3

\* The cosigners of a fleet that is handed over have pairwise different keys, if
\* they are derived and no root has two names: paths that differ, in one hardened
\* bit or in their length, are enough, and the pairs compared are all there are.
THEOREM CosignersDiffer ==
  ASSUME PointsOfKeys, PointsToldApart, OnlyDerived, OneNamePerRoot
  PROVE  Spec => []DistinctCosigners
<1>1. ASSUME KeyInv, ValidInv PROVE DistinctCosigners
  <2> SUFFICES ASSUME NEW b \in Builder, pc[b] = "held",
                      NEW i \in DOMAIN signers[b], NEW j \in DOMAIN signers[b],
                      signers[b][i].xpub.public_key = signers[b][j].xpub.public_key
               PROVE  i = j
    BY DEF DistinctCosigners
  <2> DEFINE members == FromEnv(Envs[task[b]]).value
  <2>1. /\ TypeInv /\ BuildInv /\ FleetOwn(b) /\ SignersOwn(b) /\ OpenFor(b) /\ Validate(fleet[b])
        /\ sessions \subseteq [builder : Builder, member : Nat, token : Token]
    BY <1>1 DEF KeyInv, TypeInv, BuildInv, ValidInv
  <2>2. /\ task[b] \in DOMAIN Envs /\ FromEnv(Envs[task[b]]).ok /\ fleet[b] = members
    BY <2>1, SignerOfFleet
  <2>3. DOMAIN signers[b] = DOMAIN fleet[b] /\ DOMAIN signers[b] \subseteq Nat
    BY <2>1, FleetFacts DEF FleetOwn
  <2>4. ASSUME NEW k \in DOMAIN signers[b]
        PROVE  /\ TokenAt(members[k]) \in Token /\ members[k].init = "derive"
               /\ members[k].path \in Seq(ChildNumber)
               /\ signers[b][k].xpub.public_key = RequestedKey(members[k])
    <3>1. [builder |-> b, member |-> k, token |-> TokenAt(members[k])] \in sessions
      BY <2>1, <2>2 DEF OpenFor
    <3>2. TokenAt(members[k]) \in Token
      BY <2>1, <3>1
    <3>3. members[k].init = "derive"
      BY <2>2, <2>3 DEF OnlyDerived
    <3>4. MemberOK(members[k])
      BY <2>1, <2>2, <2>3, FleetFacts, AskedFor
    <3>5. signers[b][k].xpub = XpubWanted(members[k])
      BY <2>1, <2>2, <3>3 DEF SignersOwn, SignerFor
    <3> QED
      BY <3>2, <3>3, <3>4, <3>5 DEF MemberOK, XpubWanted
  <2> DEFINE m == members[i]
             n == members[j]
  <2>5. RequestedRoot(m) = RequestedRoot(n) /\ Words(m.path) = Words(n.path)
    <3>1. RequestedKey(m) = RequestedKey(n)
      BY <2>4
    <3> QED
      BY <3>1 DEF RequestedKey, Key
  <2>6. m.path = n.path
    BY <2>4, <2>5, WordsApart
  <2>7. m.vendor = n.vendor /\ m.lib = n.lib /\ m.slot = n.slot
    BY <2>2, <2>3, <2>4, <2>5 DEF OneNamePerRoot
  <2>8. Id(m) = Id(n)
    BY <2>6, <2>7 DEF Id
  <2> QED
    BY <2>1, <2>2, <2>3, <2>8 DEF Validate
<1> QED
  BY <1>1, Keys, Validated, PTL

=============================================================================
