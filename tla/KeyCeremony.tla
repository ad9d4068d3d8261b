---------------------------- MODULE KeyCeremony ----------------------------
(***************************************************************************)
(* How the signers of a fleet come to hold their keys: the fleet is read   *)
(* from the environment, Fleet::build_signers opens a session per member   *)
(* and derives or loads its key (src/fleet.rs, src/session.rs, the         *)
(* constructors of src/signer.rs, the blanket backend of                   *)
(* src/backend/mod.rs), and delete_key removes one (src/key_ops.rs).       *)
(*                                                                         *)
(* The threads of one application do this on the same tokens at the same   *)
(* time, one PKCS#11 call per step.  The application is logged in to a     *)
(* token as long as one of its sessions there is open.  A call of          *)
(* delete_key is a build whose only member is to be deleted.               *)
(***************************************************************************)
EXTENDS FleetEnv

CONSTANTS
    Builder,     \* the threads of the application
    Envs,        \* name -> an environment they read a fleet from
    Deletions,   \* name -> a key they delete: a member with init "delete"
    Token,
    TokenOf,     \* <<library, slot>> -> the token it resolves to, or None
    SlotSeed,    \* token -> the root of the seed it resolves for a seed of zeros
    PointForm,   \* token -> how it presents CKA_EC_POINT
    SeedLen,     \* the length of a seed, 64 bytes in the code
    Provisioned, \* the sequences of persistent objects the tokens may start with
    Handle,      \* 1 .. the largest object handle
    None,
    Fallible,    \* the PKCS#11 functions that may fail
    MaxBuilds, MaxCrashes   \* bounds of the model

PrivLabel(label) == <<label, "priv">>         \* emvault.v1.{label}.priv
PubLabel(label)  == <<label, "pub">>          \* emvault.v1.{label}.pub

\* Every slot that can be asked for is resolved or not found; what is provisioned
\* are keys with the names the program looks for; None is told from all else.
ASSUME KeyCeremonyAssumption ==
    /\ \A e \in DOMAIN Envs :
         /\ IsEnvironment(Envs[e])
         /\ \A i \in DOMAIN Envs[e].member :
              LET v == Envs[e].member[i]
              IN  /\ IsSet(v.LIB) /\ ParseSlot(v).ok =>
                       <<v.LIB, ParseSlot(v).value>> \in DOMAIN TokenOf
                  /\ None \notin {PrivLabel(v.LABEL), PubLabel(v.LABEL)}
    /\ \A d \in DOMAIN Deletions :
         /\ d \notin DOMAIN Envs /\ Deletions[d].init = "delete"
         /\ <<Deletions[d].lib, Deletions[d].slot>> \in DOMAIN TokenOf
         /\ None \notin {PrivLabel(Deletions[d].label), PubLabel(Deletions[d].label)}
    /\ \A target \in DOMAIN TokenOf : TokenOf[target] \in Token \cup {None}
    /\ \A t \in Token : PointForm[t] \in {"wrapped", "compressed", "uncompressed"}
    /\ \A present \in Provisioned :
         /\ present \in Seq({present[h] : h \in DOMAIN present})
         /\ \A h \in DOMAIN present :
              /\ present[h].class \in {"priv", "pub"} /\ present[h].token \in Token
              /\ present[h].name = <<present[h].name[1], present[h].class>>
              /\ present[h].owner = None /\ present[h].provisioned = TRUE /\ present[h].refused = FALSE
              /\ "refused" \in DOMAIN present[h]
    /\ Handle \subseteq Nat \ {0}
    /\ None \notin Handle \cup Token \cup [builder : Builder, member : Nat, token : Token]
    /\ SeedLen \in Nat \ {0} /\ MaxBuilds \in Nat /\ MaxCrashes \in Nat

VARIABLES
    objs,      \* handle -> object, or NoObject
    sessions,  \* the open sessions: [builder, member, token]
    loggedIn,  \* the tokens the application is logged in to
    pc,        \* builder -> where its build stands
    task,      \* history: builder -> the environment its fleet was read from, or
               \* the deletion it is about, or None
    fleet,     \* builder -> the members of the fleet it builds
    frame,     \* builder -> the locals of build_member
    signers,   \* builder -> the signers built so far, in the order of the fleet
    result,    \* builder -> how its last build ended
    builds, crashes

vars == <<objs, sessions, loggedIn, pc, task, fleet, frame, signers, result, builds, crashes>>

\* On the token a path is made of the words it was given.
Key(root, path) == [root |-> root, path |-> path]

EmptyFrame == [base |-> None, master |-> None, fingerprint |-> None, key |-> None,
               xpub |-> None, depth |-> 0, todo |-> {}]

\* Where a member's session is opened.
TokenAt(member) == TokenOf[<<member.lib, member.slot>>]

\* The member b works at, and the session it opened for it.
At(b)      == Len(signers[b]) + 1
Current(b) == fleet[b][At(b)]
Session(b) == [builder |-> b, member |-> At(b), token |-> TokenAt(Current(b))]

\* What is at a handle that has no object.
NoObject == [class |-> "none"]

Live == {h \in Handle : objs[h] # NoObject}

\* A token hands out no handle anew that somebody still holds.
Held == UNION {{frame[b].base, frame[b].master, frame[b].key} \cup frame[b].todo
                 \cup {signers[b][i].key : i \in DOMAIN signers[b]} : b \in Builder}

Free == Handle \ (Live \cup Held)

NewHandle == Min(Free)

\* derive_from_seed names the master, and master_key_template adds /priv.
MasterLabel(label) == <<label, "priv/priv">>

\* What get_attributes returns of an object, and what is read from it.
AttributesOf(h)  == Attributes(PointForm[objs[h].token], objs[h].key, objs[h].spoiled)
XpubOf(h)        == IF objs[h] = NoObject THEN Err("Pkcs11") ELSE ReadXpub(AttributesOf(h))
FingerprintOf(h) == IF objs[h] = NoObject THEN Err("Pkcs11") ELSE MasterFingerprint(AttributesOf(h))

\* The objects of a class and label on the token of b's session.
Find(b, class, name) ==
    LET token == Session(b).token
    IN  {h \in Live : objs[h].token = token /\ objs[h].class = class /\ objs[h].name = name}

-----------------------------------------------------------------------------
(* Building blocks of the steps                                            *)

Goto(b, label) == pc' = [pc EXCEPT ![b] = label]

\* A token object (owner None) persists; a session object goes with its owner.
Create(b, class, name, key, owner) ==
    /\ Free # {}
    /\ objs' = [objs EXCEPT ![NewHandle] =
                  [class |-> class, name |-> name, key |-> key, owner |-> owner,
                   token |-> Session(b).token, refused |-> FALSE,
                   provisioned |-> FALSE, spoiled |-> <<>>]]

TokenUnchanged == UNCHANGED <<objs, sessions, loggedIn>>
BuildUnchanged == UNCHANGED <<task, fleet, signers, builds, crashes>>

\* The build ends with an error: the sessions of all its members are dropped.
Abort(b, error) == /\ Goto(b, "drop")
                   /\ result' = [result EXCEPT ![b] = error]
                   /\ frame' = [frame EXCEPT ![b] = EmptyFrame]

\* A full token refuses to create or derive an object.
Refuses(function) == \/ function \in Fallible
                     \/ Free = {} /\ function \in {"create", "derive"}

Fail(b, function, error) == /\ Refuses(function)
                            /\ Abort(b, error)
                            /\ TokenUnchanged

-----------------------------------------------------------------------------
(* Fleet::build_signers                                                    *)

\* What makes two cosigners the same, as strings.
Id(member) == <<member.vendor, member.lib, member.slot, member.path>>

\* Mutant: only neighbours are compared.
Validate_Neighbours(members) ==
    \A i \in 1 .. Len(members) - 1 : Id(members[i]) # Id(members[i + 1])

Validate(members) == \A i, j \in DOMAIN members : i < j => Id(members[i]) # Id(members[j])

Start(b, name, members) == /\ task' = [task EXCEPT ![b] = name]
                           /\ fleet' = [fleet EXCEPT ![b] = members]
                           /\ Goto(b, "resolve")
                           /\ UNCHANGED result

Refuse(b, error) == /\ result' = [result EXCEPT ![b] = error]
                    /\ Goto(b, "drop")
                    /\ UNCHANGED <<task, fleet>>

\* from_env, and build_signers up to the first member.
Build(b) ==
    /\ pc[b] = "idle"
    /\ builds < MaxBuilds
    /\ builds' = builds + 1
    /\ \E e \in DOMAIN Envs :
         LET members == FromEnv(Envs[e])
         IN  \/ members.ok /\ Validate(members.value) /\ Start(b, e, members.value)
             \/ members.ok /\ ~Validate(members.value) /\ Refuse(b, "InvalidConfig")
             \/ ~members.ok /\ Refuse(b, members.value)
    /\ UNCHANGED <<frame, signers, crashes>>
    /\ TokenUnchanged

\* A session is opened for delete_key.
CallDelete(b) ==
    /\ pc[b] = "idle"
    /\ builds < MaxBuilds
    /\ builds' = builds + 1
    /\ \E d \in DOMAIN Deletions : Start(b, d, <<Deletions[d]>>)
    /\ UNCHANGED <<frame, signers, crashes>>
    /\ TokenUnchanged

\* Mutant: a slot that was not found is used anyway.
SlotFound_Any(b) == TRUE

SlotFound(b) == TokenAt(Current(b)) # None

\* The module is loaded and initialised (or was already), and the slot looked up.
\* Whatever fails on the way (the library, the list of the slots, the label of
\* one of them) ends the build as the one failure "initialize".
ResolveSlot(b) ==
    /\ pc[b] = "resolve"
    /\ \/ SlotFound(b) /\ Goto(b, "open") /\ UNCHANGED <<frame, result>> /\ TokenUnchanged
       \/ ~SlotFound(b) /\ Abort(b, "SlotNotFound") /\ TokenUnchanged
       \/ Fail(b, "initialize", "Initialize")
    /\ BuildUnchanged

OpenSession(b) ==
    /\ pc[b] = "open"
    /\ \/ /\ sessions' = sessions \cup {Session(b)}
          /\ Goto(b, "login")
          /\ UNCHANGED <<objs, loggedIn, frame, result>>
       \/ Fail(b, "open", "Pkcs11")
    /\ BuildUnchanged

\* C_Login: the user is logged in to a token, not to a session of it.
LoginOutcomes(b) ==
    IF Session(b).token \in loggedIn THEN {"UserAlreadyLoggedIn"}
    ELSE {"Ok"} \cup {"PinIncorrect" : f \in Fallible \cap {"login"}}

\* Mutant: every error of login is tolerated.
Tolerated_Any(outcome) == TRUE

Tolerated(outcome) == outcome \in {"Ok", "UserAlreadyLoggedIn"}

FirstLabel(member) == CASE member.init = "derive" -> "seed"
                        [] member.init = "load"   -> "find_key"
                        [] member.init = "delete" -> "find_priv"

Login(b) ==
    /\ pc[b] = "login"
    /\ \E outcome \in LoginOutcomes(b) :
         \/ /\ Tolerated(outcome)
            /\ loggedIn' = loggedIn \cup {Session(b).token : o \in {outcome} \cap {"Ok"}}
            /\ Goto(b, FirstLabel(Current(b)))
            /\ UNCHANGED <<objs, sessions, frame, result>>
         \/ /\ ~Tolerated(outcome)
            /\ Abort(b, "LoginFailed")
            /\ TokenUnchanged
    /\ BuildUnchanged

\* from_loaded: the member has its signer; the next one is built, or the
\* caller gets them all.
AddSigner(b, key, xpub, fingerprint) ==
    /\ signers' = [signers EXCEPT ![b] =
         Append(@, [key |-> key, xpub |-> xpub, fingerprint |-> fingerprint, patched |-> None])]
    /\ frame' = [frame EXCEPT ![b] = EmptyFrame]
    /\ IF At(b) < Len(fleet[b])
       THEN Goto(b, "resolve") /\ UNCHANGED result
       ELSE Goto(b, "held") /\ result' = [result EXCEPT ![b] = "ok"]
    /\ TokenUnchanged
    /\ UNCHANGED <<task, fleet, builds, crashes>>

\* A PKCS#11 read that is refused, or gives what cannot be read.
ReadFails(b, outcome) ==
    /\ \/ ~outcome.ok     /\ Abort(b, outcome.value)
       \/ Refuses("read") /\ Abort(b, "Pkcs11")
    /\ TokenUnchanged
    /\ BuildUnchanged

-----------------------------------------------------------------------------
(* derive_from_seed and the blanket backend                                *)

\* 64 bytes, or none: the buffer is zeros then, which the token takes for its own seed.
Zeros           == [k \in 1 .. SeedLen |-> 0]
SeedAccepted(b) == Len(Current(b).seed) \in {0, SeedLen}
SeedBuf(seed)   == IF Len(seed) = SeedLen THEN seed ELSE Zeros
Root(b)         == LET buf == SeedBuf(Current(b).seed)
                   IN  IF buf = Zeros THEN SlotSeed[Session(b).token] ELSE buf

CreateSeed(b) ==
    /\ pc[b] = "seed"
    /\ \/ /\ ~SeedAccepted(b)
          /\ Abort(b, "Derivation")
          /\ TokenUnchanged
       \/ /\ SeedAccepted(b)
          /\ Create(b, "seed", None, None, Session(b))
          /\ frame' = [frame EXCEPT ![b].base = NewHandle]
          /\ Goto(b, "derive_master")
          /\ UNCHANGED <<sessions, loggedIn, result>>
       \/ SeedAccepted(b) /\ Fail(b, "create", "Pkcs11")
    /\ BuildUnchanged

\* The outcome of derive_key is kept until the seed object is dealt with.
DeriveMaster(b) ==
    /\ pc[b] = "derive_master"
    /\ Goto(b, "destroy_seed")
    /\ \/ /\ Create(b, "priv", MasterLabel(Current(b).label), Key(Root(b), <<>>), None)
          /\ frame' = [frame EXCEPT ![b].master = NewHandle]
       \/ /\ Refuses("derive")
          /\ UNCHANGED <<objs, frame>>
    /\ UNCHANGED <<sessions, loggedIn, result>>
    /\ BuildUnchanged

\* Mutant: an error of derive_key returns before the cleanup.
Cleanup_Late(b) == IF frame[b].master = None THEN UNCHANGED objs
                   ELSE objs' = [objs EXCEPT ![frame[b].base] = NoObject]

\* Best effort: a refused destroy is ignored.
Cleanup(b) == \/ objs' = [objs EXCEPT ![frame[b].base] = NoObject]
              \/ /\ Refuses("destroy_seed") /\ frame[b].base \in Live
                 /\ objs' = [objs EXCEPT ![frame[b].base].refused = TRUE]

DestroySeed(b) ==
    /\ pc[b] = "destroy_seed"
    /\ Cleanup(b)
    /\ \/ /\ frame[b].master = None
          /\ Abort(b, "Pkcs11")
       \/ /\ frame[b].master # None
          /\ Goto(b, "read_master")
          /\ UNCHANGED <<frame, result>>
    /\ UNCHANGED <<sessions, loggedIn>>
    /\ BuildUnchanged

\* read_xpub of the master: the xpub is not used, but it has to be readable.
ReadMaster(b) ==
    /\ pc[b] = "read_master"
    /\ \/ /\ XpubOf(frame[b].master).ok
          /\ Goto(b, "fp_master")
          /\ UNCHANGED <<frame, result>>
          /\ TokenUnchanged
          /\ BuildUnchanged
       \/ ReadFails(b, XpubOf(frame[b].master))

\* The fingerprint of the master is the signer's.
FingerprintMaster(b) ==
    /\ pc[b] = "fp_master"
    /\ LET fingerprint == FingerprintOf(frame[b].master)
       IN  \/ /\ fingerprint.ok
              /\ frame' = [frame EXCEPT ![b].fingerprint = fingerprint.value,
                                       ![b].key = frame[b].master]
              /\ Goto(b, "derive_path")
              /\ UNCHANGED result
              /\ TokenUnchanged
              /\ BuildUnchanged
           \/ ReadFails(b, fingerprint)

\* Mutant: every segment is derived from the master.
ParentHandle_Master(b) == frame[b].master

ParentHandle(b) == frame[b].key

ChildKey(b) == LET parent == objs[ParentHandle(b)].key
               IN  Key(parent.root, Append(parent.path,
                                           ToLeBytes(Current(b).path[frame[b].depth + 1])))

DeriveChild(b) ==
    /\ pc[b] = "derive_path"
    /\ frame[b].depth < Len(Current(b).path)
    /\ \/ /\ Create(b, "priv", None, ChildKey(b), Session(b))
          /\ frame' = [frame EXCEPT ![b].key = NewHandle, ![b].depth = @ + 1]
          /\ UNCHANGED <<sessions, loggedIn, pc, result>>
       \/ Fail(b, "derive", "Pkcs11")
    /\ BuildUnchanged

\* read_xpub of the key at the end of the path.
FinishDerive(b) ==
    /\ pc[b] = "derive_path"
    /\ frame[b].depth = Len(Current(b).path)
    /\ LET xpub == XpubOf(frame[b].key)
       IN  \/ xpub.ok /\ AddSigner(b, frame[b].key, xpub.value, frame[b].fingerprint)
           \/ ReadFails(b, xpub)

-----------------------------------------------------------------------------
(* load                                                                    *)

\* Mutant: of several keys the first is taken.
Several_Never(found) == FALSE

Several(found) == \E g, h \in found : g # h

FindKey(b) ==
    /\ pc[b] = "find_key"
    /\ LET found == Find(b, "priv", PrivLabel(Current(b).label))
       IN  \/ found = {} /\ Abort(b, "ObjectNotFound")
           \/ Several(found) /\ Abort(b, "Ambiguous")
           \/ /\ ~Several(found)
              /\ \E h \in found : frame' = [frame EXCEPT ![b].key = h]
              /\ Goto(b, "read_key")
              /\ UNCHANGED result
           \/ Refuses("find") /\ Abort(b, "Pkcs11")
    /\ TokenUnchanged
    /\ BuildUnchanged

\* read_xpub and master_fingerprint of the key that was found, in two calls: it
\* may be gone before either.
ReadKey(b) ==
    /\ pc[b] = "read_key"
    /\ LET xpub == XpubOf(frame[b].key)
       IN  \/ /\ xpub.ok
              /\ frame' = [frame EXCEPT ![b].xpub = xpub.value]
              /\ Goto(b, "fp_key")
              /\ UNCHANGED result
              /\ TokenUnchanged
              /\ BuildUnchanged
           \/ ReadFails(b, xpub)

\* The fingerprint is that of the key itself, be it the master or not.
FingerprintKey(b) ==
    /\ pc[b] = "fp_key"
    /\ LET fingerprint == FingerprintOf(frame[b].key)
       IN  \/ fingerprint.ok /\ AddSigner(b, frame[b].key, frame[b].xpub, fingerprint.value)
           \/ ReadFails(b, fingerprint)

-----------------------------------------------------------------------------
(* delete_key                                                              *)

\* Mutant: one object of the label is taken for all.
ToDelete_One(found) == {h \in found : \A g \in found : h <= g}

ToDelete(found) == found

FindToDelete(b, here, class, name, next) ==
    /\ pc[b] = here
    /\ \/ /\ frame' = [frame EXCEPT ![b].todo = ToDelete(Find(b, class, name))]
          /\ Goto(b, next)
          /\ UNCHANGED result
          /\ TokenUnchanged
       \/ Fail(b, "find", "Pkcs11")
    /\ BuildUnchanged

FindPriv(b) == FindToDelete(b, "find_priv", "priv", PrivLabel(Current(b).label), "destroy_priv")
FindPub(b)  == FindToDelete(b, "find_pub", "pub", PubLabel(Current(b).label), "destroy_pub")

\* An object that is gone, or refused, ends the call where it stands.
DestroyKey(b) ==
    /\ pc[b] \in {"destroy_priv", "destroy_pub"}
    /\ \E h \in frame[b].todo :
         \/ /\ objs[h] # NoObject
            /\ objs' = [objs EXCEPT ![h] = NoObject]
            /\ frame' = [frame EXCEPT ![b].todo = @ \ {h}]
            /\ UNCHANGED <<sessions, loggedIn, pc, result>>
         \/ /\ objs[h] = NoObject \/ Refuses("destroy")
            /\ Abort(b, "Pkcs11")
            /\ TokenUnchanged
    /\ BuildUnchanged

DestroyDone(b) ==
    /\ frame[b].todo = {}
    /\ \/ /\ pc[b] = "destroy_priv"
          /\ Goto(b, "find_pub")
          /\ UNCHANGED result
       \/ /\ pc[b] = "destroy_pub"
          /\ Goto(b, "drop")
          /\ result' = [result EXCEPT ![b] = "ok"]
    /\ UNCHANGED frame
    /\ TokenUnchanged
    /\ BuildUnchanged

-----------------------------------------------------------------------------
(* The end of a build                                                      *)

\* The caller wraps its signers for the network they are on: NetworkPatchedSigner.
Wrap(b) ==
    /\ pc[b] = "held"
    /\ \A i \in DOMAIN signers[b] : signers[b][i].patched = None
    /\ LET wrapped == [i \in DOMAIN signers[b] |-> [signers[b][i] EXCEPT !.patched =
                         PatchXpubNetwork(signers[b][i].xpub, fleet[b][i].network)]]
       IN  signers' = [signers EXCEPT ![b] = wrapped]
    /\ UNCHANGED <<pc, task, fleet, frame, result, builds, crashes>>
    /\ TokenUnchanged

\* The caller is done with the signers.
Release(b) ==
    /\ pc[b] = "held"
    /\ Goto(b, "drop")
    /\ UNCHANGED <<frame, result>>
    /\ TokenUnchanged
    /\ BuildUnchanged

\* What C_CloseSession leaves: session objects go, and the login with the
\* last session of the token.
AfterClosing(closed) ==
    /\ sessions' = sessions \ closed
    /\ objs' = [h \in Handle |-> IF h \in Live /\ objs[h].owner \in closed THEN NoObject ELSE objs[h]]
    /\ loggedIn' = {t \in loggedIn : \E s \in sessions \ closed : s.token = t}

CloseSession(b) ==
    /\ pc[b] = "drop"
    /\ \E s \in sessions : s.builder = b /\ AfterClosing({s})
    /\ UNCHANGED <<pc, frame, result>>
    /\ BuildUnchanged

EndBuild(b) ==
    /\ pc[b] = "drop"
    /\ \A s \in sessions : s.builder # b
    /\ Goto(b, "idle")
    /\ signers' = [signers EXCEPT ![b] = <<>>]
    /\ task' = [task EXCEPT ![b] = None]
    /\ fleet' = [fleet EXCEPT ![b] = <<>>]
    /\ result' = [result EXCEPT ![b] = "none"]
    /\ UNCHANGED <<frame, builds, crashes>>
    /\ TokenUnchanged

\* The application dies: the tokens keep their persistent objects.
Crash ==
    /\ crashes < MaxCrashes
    /\ crashes' = crashes + 1
    /\ \E b \in Builder : pc[b] # "idle"
    /\ AfterClosing(sessions)
    /\ pc' = [b \in Builder |-> "idle"]
    /\ frame' = [b \in Builder |-> EmptyFrame]
    /\ signers' = [b \in Builder |-> <<>>]
    /\ task' = [b \in Builder |-> None]
    /\ fleet' = [b \in Builder |-> <<>>]
    /\ result' = [b \in Builder |-> "none"]
    /\ UNCHANGED builds

\* All the builds of the model were made and have ended.
Finished == /\ builds = MaxBuilds
            /\ \A b \in Builder : pc[b] = "idle"
            /\ UNCHANGED vars

-----------------------------------------------------------------------------
\* Provisioned objects have handles 1, 2, ...
Init ==
    /\ \E present \in Provisioned :
         objs = [h \in Handle |-> IF h <= Len(present) THEN present[h] ELSE NoObject]
    /\ sessions = {} /\ loggedIn = {}
    /\ pc = [b \in Builder |-> "idle"]
    /\ task = [b \in Builder |-> None]
    /\ fleet = [b \in Builder |-> <<>>]
    /\ frame = [b \in Builder |-> EmptyFrame]
    /\ signers = [b \in Builder |-> <<>>]
    /\ result = [b \in Builder |-> "none"]
    /\ builds = 0 /\ crashes = 0

Step(b) ==
    \/ ResolveSlot(b) \/ OpenSession(b) \/ Login(b)
    \/ CreateSeed(b) \/ DeriveMaster(b) \/ DestroySeed(b)
    \/ ReadMaster(b) \/ FingerprintMaster(b) \/ DeriveChild(b) \/ FinishDerive(b)
    \/ FindKey(b) \/ ReadKey(b) \/ FingerprintKey(b)
    \/ FindPriv(b) \/ FindPub(b) \/ DestroyKey(b) \/ DestroyDone(b)
    \/ Wrap(b) \/ Release(b) \/ CloseSession(b) \/ EndBuild(b)

Next == \/ \E b \in Builder : Build(b) \/ CallDelete(b) \/ Step(b)
        \/ Crash
        \/ Finished

Spec == Init /\ [][Next]_vars

-----------------------------------------------------------------------------
(* Properties                                                              *)

Object == [class : {"seed", "priv", "pub"}, token : Token,
           refused : BOOLEAN, provisioned : BOOLEAN]

\* Every variable holds a value of its kind; a session is on a token.
TypeOK ==
    /\ \A h \in Live : [class |-> objs[h].class, token |-> objs[h].token,
                         refused |-> objs[h].refused,
                         provisioned |-> objs[h].provisioned] \in Object
    /\ \A s \in sessions : s.builder \in Builder /\ s.member \in Nat /\ s.token \in Token
    /\ loggedIn \subseteq Token
    /\ \A b \in Builder : /\ task[b] \in DOMAIN Envs \cup DOMAIN Deletions \cup {None}
                          /\ Len(signers[b]) <= Len(fleet[b])
                          /\ frame[b].todo \subseteq Handle

\* The object that carries the seed does not outlive derive_master_key, on
\* any of its paths, unless the token refuses to destroy it; and never the
\* session (backend/mod.rs: "destroy the temp seed object").
SeedsReaped ==
    \A h \in Live : objs[h].class = "seed" =>
        /\ objs[h].owner \in sessions
        /\ objs[h].refused \/ pc[objs[h].owner.builder] \in {"derive_master", "destroy_seed"}

\* The signers of b that are in use, by their place in the fleet.
InUse(b) == IF pc[b] = "drop" THEN {} ELSE DOMAIN signers[b]

\* The key a member with a seed of its own asks for, and the one the token
\* resolves for a member without.  A seed of zeros is not told from no seed.
RequestedRoot(member) == IF member.seed \in {<<>>, Zeros} THEN SlotSeed[TokenAt(member)]
                                                          ELSE member.seed
Words(path)           == [k \in DOMAIN path |-> ToLeBytes(path[k])]
RequestedKey(member)  == Key(RequestedRoot(member), Words(member.path))

\* Every key on the way to one that is asked for has a public key.
KeyAt(member, n) == Key(RequestedRoot(member), [k \in 1 .. n |-> ToLeBytes(member.path[k])])
PointsOfKeys ==
    \A e \in DOMAIN Envs : FromEnv(Envs[e]).ok =>
        \A i \in DOMAIN FromEnv(Envs[e]).value :
            LET member == FromEnv(Envs[e]).value[i]
            IN  /\ member.init = "derive" /\ Len(member.seed) \in {0, SeedLen}
                /\ TokenAt(member) \in Token
                => \A n \in 0 .. Len(member.path) : \E p \in Points : p.key = KeyAt(member, n)

\* A raw point that is taken for DER is not cut to the point of another key.  The
\* code cannot tell: of 2^16 keys one or so has a point where what follows the two
\* bytes 04 21 has the form of a compressed one.
PointsToldApart ==
    (\E t \in Token : PointForm[t] = "uncompressed") =>
        \A p \in Points :
            ParseEcPoint(p.uncompressed).ok => ParseEcPoint(p.uncompressed).value = p.key

\* As long as its signer is in use, a derived key is on its token, it is the
\* one at the member's path under the member's seed, and the signer's public
\* key and fingerprint are that key's and its master's, whatever other builds,
\* deletions and closing sessions do to the token meanwhile.
SignerHoldsItsKey ==
    \A b \in Builder : \A i \in InUse(b) : fleet[b][i].init = "derive" =>
        LET member == fleet[b][i]
            signer == signers[b][i]
        IN  /\ objs[signer.key] # NoObject
            /\ objs[signer.key].key = RequestedKey(member)
            /\ objs[signer.key].token = TokenAt(member)
            /\ objs[signer.key].owner \in sessions \cup {None}
            /\ signer.xpub.public_key = RequestedKey(member)
            /\ signer.fingerprint = Key(RequestedRoot(member), <<>>)

\* What a derived signer says of its key in a descriptor is what was asked of
\* the token: the depth and the last step of the path, hardened or not, after
\* their way to the token and back, and the parent of the public key.  Its
\* wrapper differs in the network, which is the one the fleet is configured for.
XpubAsRequested ==
    \A b \in Builder : \A i \in InUse(b) : fleet[b][i].init = "derive" =>
        LET path    == fleet[b][i].path
            xpub    == signers[b][i].xpub
            patched == signers[b][i].patched
        IN  /\ xpub.depth = Len(path)
            /\ path = <<>> => xpub.child_number = Child(0, FALSE)
            /\ path # <<>> => /\ xpub.child_number = path[Len(path)]
                              /\ xpub.parent_fingerprint = Parent(xpub.public_key)
            /\ patched # None =>
                 /\ patched.network = IF Envs[task[b]].network \in {"bitcoin", "mainnet"}
                                      THEN "Main" ELSE "Test"
                 /\ [patched EXCEPT !.network = xpub.network] = xpub

\* The bytes that a text of hex digits spells, two digits a byte.
Spelled(hex) == [k \in 1 .. Len(hex) \div 2 |-> 16 * hex[2 * k - 1] + hex[2 * k]]

\* The root that _KEY asks for: the seed it spells or, without one or with one
\* of zeros, the seed of the token.
RootAsked(text, token) ==
    IF IsSet(text) /\ text.form = "seed" /\ Spelled(text.hex) \notin {<<>>, Zeros}
    THEN Spelled(text.hex)
    ELSE SlotSeed[token]

\* The signer has the key that the variables v ask of a token: the one that is
\* provisioned under the label for "load", as long as it is there, and for all
\* else the one at the path under the root of _KEY.  Of a seed that is not
\* written in hex digits only (the parser takes a plus sign) nothing is said.
HasKeyOf(signer, v, token) ==
    IF IsSet(v.KEY) /\ v.KEY.form = "load"
    THEN objs[signer.key] # NoObject => objs[signer.key].name = PrivLabel(v.LABEL)
    ELSE (IsSet(v.KEY) /\ v.KEY.form = "seed" => \A k \in DOMAIN v.KEY.hex : v.KEY.hex[k] \in Digit)
           => /\ signer.fingerprint = Key(RootAsked(v.KEY, token), <<>>)
              /\ signer.xpub.public_key = Key(RootAsked(v.KEY, token), Words(v.PATH))

\* fleet.rs, the schema of the environment: signer i + 1 of a fleet is the
\* cosigner of EMVAULT_FLEET_<i>_*, on the token that its variables name and
\* with the key that its _KEY asks for, and a fleet that is handed over has all
\* the cosigners up to the first index without a vendor, and none after it.
FleetFollowsEnvironment ==
    \A b \in Builder :
        LET vars_of == Envs[task[b]].member
            n       == Len(signers[b])
        IN  /\ \A i \in InUse(b) :
                 LET v     == vars_of[i]
                     slot  == IF IsSet(v.SLOT) THEN <<"label", v.SLOT>>
                                               ELSE <<"slot_id", v.SLOT_ID>>
                     token == TokenOf[<<v.LIB, slot>>]
                 IN  /\ IsSet(v.VENDOR)
                     /\ [builder |-> b, member |-> i, token |-> token] \in sessions
                     /\ HasKeyOf(signers[b][i], v, token)
            /\ pc[b] = "held" => /\ n \in 1 .. Len(vars_of)
                                 /\ n = Len(vars_of) \/ ~IsSet(vars_of[n + 1].VENDOR)

\* A session that passed its login stays authenticated until it is dropped,
\* whichever thread logged in first and whichever closes first (session.rs:
\* "Login state is per-token, not per-session").
LoggedInWhileOpen ==
    /\ \A s \in sessions :
         (pc[s.builder] # "drop" /\ ~(pc[s.builder] = "login" /\ s = Session(s.builder)))
           => s.token \in loggedIn
    /\ \A t \in loggedIn : \E s \in sessions : s.token = t

\* A delete_key that returns Ok leaves no key of its label, of all there were.
DeleteRemovesAll ==
    \A b \in Builder :
        (pc[b] = "drop" /\ result[b] = "ok" /\ fleet[b][1].init = "delete") =>
            \A h \in Live : objs[h].token = TokenAt(fleet[b][1]) =>
                objs[h].name \notin {PrivLabel(fleet[b][1].label), PubLabel(fleet[b][1].label)}

\* fleet.rs: "rejects two cosigners that resolve to the same key": the signers
\* handed to the caller hold pairwise different keys.
DistinctCosigners ==
    \A b \in Builder : pc[b] = "held" =>
        \A i, j \in DOMAIN signers[b] :
            i # j => signers[b][i].xpub.public_key # signers[b][j].xpub.public_key

\* The keys that were provisioned under a member's label on its token.
KeysProvisioned(member) ==
    {h \in Live : /\ objs[h].provisioned
                  /\ objs[h].class = "priv" /\ objs[h].token = TokenAt(member)
                  /\ objs[h].name = PrivLabel(member.label)}

\* A loaded signer is bound to one key: no other is provisioned on its token under
\* the label (key_ops.rs refuses a label that more than one key matches), if other
\* threads delete that key nothing else takes its place behind the handle, and the
\* xpub and the fingerprint, which two calls read with deletions in between, are
\* both of that key.
LoadedOfOneKey ==
    \A b \in Builder : \A i \in InUse(b) : fleet[b][i].init = "load" =>
        LET signer == signers[b][i]
        IN  /\ KeysProvisioned(fleet[b][i]) \subseteq {signer.key}
            /\ signer.key \in Live =>
                 /\ XpubOf(signer.key).ok /\ XpubOf(signer.key).value = signer.xpub
                 /\ FingerprintOf(signer.key).ok
                 /\ FingerprintOf(signer.key).value = signer.fingerprint

-----------------------------------------------------------------------------
(* What the documentation says of the program                              *)

\* signer.rs: load returns "ObjectNotFound if no key with label exists", so
\* it does not where a ceremony for that label left its key.
CeremonyKeyIsFound ==
    \A b \in Builder :
        (pc[b] = "drop" /\ result[b] = "ObjectNotFound") =>
            \A h \in Live : ~ /\ objs[h].class = "priv"
                              /\ objs[h].owner = None
                              /\ objs[h].token = Session(b).token
                              /\ objs[h].name = MasterLabel(Current(b).label)

=============================================================================
