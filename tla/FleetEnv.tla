------------------------------- MODULE FleetEnv -------------------------------
(***************************************************************************)
(* Fleet::from_env: the EMVAULT_FLEET_* environment variables and the      *)
(* members that are read from them (src/fleet.rs).                         *)
(*                                                                         *)
(* An environment is [network |-> the text of EMVAULT_FLEET_NETWORK,       *)
(* member |-> a sequence]: entry i + 1 of the sequence has the variables   *)
(* EMVAULT_FLEET_<i>_*.  A variable is Unset, Blank (set to the empty      *)
(* string), Garbled where it has a syntax of its own and does not follow   *)
(* it, or its value.                                                       *)
(***************************************************************************)
EXTENDS Bip32Attributes, FiniteSetsExt

CONSTANTS
    Unset, Blank,
    Registered,   \* the vendors with a registrar
    Rejecting     \* those whose registrar refuses the member

\* An empty variable counts as one that is not set.
IsSet(text) == text \notin {Unset, Blank}

Networks == {"bitcoin", "testnet", "signet", "regtest"}

ASSUME FleetEnvAssumption == {Unset, Blank} \cap (Networks \cup {"mainnet"}) = {}

\* "mainnet" is another name of "bitcoin".
ParseNetwork(text) ==
    IF ~IsSet(text) THEN Ok("testnet")
    ELSE IF text = "mainnet" THEN Ok("bitcoin")
    ELSE IF text \in Networks THEN Ok(text)
    ELSE Err("InvalidConfig")

(***************************************************************************)
(* The hex of a seed, byte by byte: a digit is its value, and these stand  *)
(* for a plus sign, any other ASCII character, and the two bytes of a      *)
(* character outside ASCII.                                                *)
(***************************************************************************)
Digit == 0 .. 15
Plus  == 16
Other == 17
Lead  == 18
Trail == 19

\* What the environment may be: a path is one of child numbers, hex is text.
IsEnvironment(env) ==
    /\ env.member \in Seq({env.member[i] : i \in DOMAIN env.member})
    /\ \A i \in DOMAIN env.member :
         LET v == env.member[i]
         IN  /\ DOMAIN v = {"VENDOR", "LABEL", "LIB", "SLOT", "SLOT_ID", "PIN", "PATH", "KEY"}
             /\ v.PATH \in {Unset, Blank, Garbled} \/ v.PATH \in Seq(ChildNumber)
             /\ (IsSet(v.KEY) /\ v.KEY.form = "seed") => v.KEY.hex \in Seq(Digit \cup Plus .. Trail)

\* u8::from_str_radix takes a plus sign for granted; a slice that cuts a
\* character in two panics.
PairValue(hi, lo) ==
    IF hi \in Digit /\ lo \in Digit THEN Ok(16 * hi + lo)
    ELSE IF hi = Plus /\ lo \in Digit THEN Ok(lo)
    ELSE IF hi = Trail \/ lo = Lead THEN Err("panic")
    ELSE Err("InvalidConfig")

\* The first pair that is not hex decides.
DecodeHex(text) ==
    LET pair == [k \in 1 .. Len(text) \div 2 |-> PairValue(text[2 * k - 1], text[2 * k])]
        bad  == {k \in DOMAIN pair : ~pair[k].ok}
    IN  IF Len(text) % 2 = 1 THEN Err("InvalidConfig")
        ELSE IF bad # {} THEN pair[Min(bad)]
        ELSE Ok([k \in DOMAIN pair |-> pair[k].value])

\* Mutant: the seed is decoded and left behind.
ParseKeyInit_NoSeed(text) ==
    IF ~IsSet(text) \/ text.form \in {"shim", "spaces"}
         \/ (text.form = "seed" /\ DecodeHex(text.hex).ok)
      THEN Ok([init |-> "derive", seed |-> <<>>])
    ELSE IF text.form = "load" THEN Ok([init |-> "load", seed |-> <<>>])
    ELSE IF text.form # "seed" THEN Err("InvalidConfig")
    ELSE DecodeHex(text.hex)

\* _KEY is [form |-> "load", "shim", "spaces", "seed" or anything else, hex].
ParseKeyInit(text) ==
    IF ~IsSet(text) \/ text.form \in {"shim", "spaces"}
      THEN Ok([init |-> "derive", seed |-> <<>>])
    ELSE IF text.form = "load" THEN Ok([init |-> "load", seed |-> <<>>])
    ELSE IF text.form # "seed" THEN Err("InvalidConfig")
    ELSE IF ~DecodeHex(text.hex).ok THEN DecodeHex(text.hex)
    ELSE Ok([init |-> "derive", seed |-> DecodeHex(text.hex).value])

\* The token label wins over the numeric slot, which then is not even parsed.
ParseSlot(v) ==
    IF IsSet(v.SLOT) THEN Ok(<<"label", v.SLOT>>)
    ELSE IF IsSet(v.SLOT_ID) /\ v.SLOT_ID # Garbled THEN Ok(<<"slot_id", v.SLOT_ID>>)
    ELSE Err("InvalidConfig")

\* The variables v of one member, in the order in which they are read: of all
\* that is wrong with them the first is reported.
MemberError(v) ==
    IF \/ \E text \in {v.LABEL, v.LIB, v.PIN, v.PATH} : ~IsSet(text)
       \/ ~ParseSlot(v).ok
       \/ v.PATH = Garbled                       THEN "InvalidConfig"
    ELSE IF ~ParseKeyInit(v.KEY).ok              THEN ParseKeyInit(v.KEY).value
    ELSE IF v.VENDOR \notin Registered           THEN "InvalidConfig"
    ELSE IF v.VENDOR \in Rejecting               THEN "Vendor"
    ELSE "none"

Member(v, network) ==
    LET key == ParseKeyInit(v.KEY).value
    IN  [vendor |-> v.VENDOR, lib |-> v.LIB, slot |-> ParseSlot(v).value, label |-> v.LABEL,
         path |-> v.PATH, network |-> network, init |-> key.init, seed |-> key.seed]

\* The members are counted up to the first index without a vendor.
Count(env) ==
    Max({n \in 0 .. Len(env.member) : \A i \in 1 .. n : IsSet(env.member[i].VENDOR)})

\* Nothing of a fleet is returned unless all of it is read.
FromEnv(env) ==
    LET network == ParseNetwork(env.network)
        bad     == {i \in 1 .. Count(env) : MemberError(env.member[i]) # "none"}
    IN  IF ~network.ok          THEN network
        ELSE IF bad # {}        THEN Err(MemberError(env.member[Min(bad)]))
        ELSE IF Count(env) = 0  THEN Err("InvalidConfig")
        ELSE Ok([i \in 1 .. Count(env) |-> Member(env.member[i], network.value)])

=============================================================================
