------------------------ MODULE ConfigurationEditor ------------------------
(***************************************************************************)
(* The operations on a configuration draft that every editor shares: the   *)
(* command line, the main window of the tray and the macOS window          *)
(* (config/configuration_editor.cpp with field_descriptor.cpp,             *)
(* rules_text.cpp, configuration_snapshot.cpp, config_editing_service.cpp  *)
(* and the validation of config_document.cpp).                             *)
(*                                                                         *)
(* A configuration is a record: the application settings, of which two     *)
(* that are validated together stand for all, and the sequence of the      *)
(* profiles.  A profile has its key (positive when it is stored, negative  *)
(* when it was created in a draft), its id, its switch, a protocol and a   *)
(* local path that may be unset, and its rules.  The other optional fields *)
(* of a profile behave as the path does.  The keys of the rules and the    *)
(* types of the rules are left out.  An operation that the code refuses    *)
(* yields Refused and no configuration.                                    *)
(***************************************************************************)
EXTENDS Integers, Sequences, SequencesExt, FiniteSets, FiniteSetsExt

CONSTANTS
    Ids,            \* valid profile ids
    Protocols,      \* the ids of the protocol registry
    Paths,          \* valid local paths
    RuleIds,        \* valid rule ids
    Options,        \* the options a rule may carry
    NoOption,       \* an empty options object, which an enabled rule may not have
    LongOption,     \* an option whose text fits compactly but not indented
    MaxThreads,     \* the settings are 1..MaxThreads
    MaxRules,       \* kMaxRulesPerProfile
    Unset,          \* an optional field that has no value, and a reset of a field
    Garbled,        \* a text that is not a rules document
    Refused         \* the result of an operation that fails

ASSUME EditorAssumption ==
    /\ MaxThreads \in Nat \ {0}
    /\ MaxRules \in Nat
    /\ NoOption \notin Options

NoKey == 0          \* no profile: a command on the application settings

Rule == [id: RuleIds, enabled: BOOLEAN, option: Options \cup {NoOption}]
Profile ==
    [key: Int, id: Ids, enabled: BOOLEAN, protocol: Protocols \cup {Unset},
     path: Paths \cup {Unset}, rules: Seq(Rule)]
Application == [threads: 1..MaxThreads, connections: 1..MaxThreads]
Configuration == [application: Application, profiles: Seq(Profile)]
DefaultApplication == [threads |-> 1, connections |-> MaxThreads]

ApplicationFields == DOMAIN DefaultApplication
OptionalFields == {"protocol", "path"}
ProfileFields == {"id", "enabled"} \cup OptionalFields

IndexOf(c, key) == SelectInSeq(c.profiles, LAMBDA p : p.key = key)
IndexOfId(c, id) == SelectInSeq(c.profiles, LAMBDA p : p.id = id)
IndexOfRule(p, id) == SelectInSeq(p.rules, LAMBDA r : r.id = id)

-----------------------------------------------------------------------------
(* Fields *)

\* What the descriptor of a field accepts before the whole draft is validated.
TypedValues(f) ==
    CASE f \in ApplicationFields -> 1..MaxThreads
      [] f = "id" -> Ids
      [] f = "enabled" -> BOOLEAN
      [] f = "protocol" -> Protocols
      [] f = "path" -> Paths

ApplyApplicationField(c, f, v) ==
    IF v \in TypedValues(f) THEN [c EXCEPT !.application[f] = v] ELSE Refused

ResetApplicationField(c, f) == ApplyApplicationField(c, f, DefaultApplication[f])

\* The id of another profile is refused; the profile's own id is accepted.
ApplyProfileField(c, i, f, v) ==
    IF \/ v \notin TypedValues(f)
       \/ f = "id" /\ IndexOfId(c, v) \notin {0, i}
    THEN Refused
    ELSE [c EXCEPT !.profiles[i][f] = v]

\* A reset of a field that has no value is an error, as is one of the id.
ResetProfileField(c, i, f) ==
    CASE f = "enabled" -> [c EXCEPT !.profiles[i].enabled = FALSE]
      [] f \in OptionalFields /\ c.profiles[i][f] # Unset ->
            [c EXCEPT !.profiles[i][f] = Unset]
      [] OTHER -> Refused

SetField(c, key, f, v) ==
    IF key = NoKey THEN ApplyApplicationField(c, f, v)
    ELSE IF IndexOf(c, key) = 0 THEN Refused
    ELSE ApplyProfileField(c, IndexOf(c, key), f, v)

ResetField(c, key, f) ==
    IF key = NoKey THEN ResetApplicationField(c, f)
    ELSE IF IndexOf(c, key) = 0 THEN Refused
    ELSE ResetProfileField(c, IndexOf(c, key), f)

-----------------------------------------------------------------------------
(* Validation *)

HasEnabledRule(p) == \E i \in DOMAIN p.rules : p.rules[i].enabled

\* The pipeline compiles: every enabled rule has the option its type requires.
Compiles(p) ==
    \A i \in DOMAIN p.rules : p.rules[i].enabled => p.rules[i].option # NoOption

\* validate_profile_definition: what is stored, and what an enabled profile needs.
Complete(p) == p.protocol # Unset /\ p.path # Unset
ProfileValid(p, requireComplete) ==
    /\ Len(p.rules) <= MaxRules
    /\ \A i, j \in DOMAIN p.rules : p.rules[i].id = p.rules[j].id => i = j
    /\ requireComplete => Complete(p)

ApplicationValid(a) == a.threads <= a.connections

\* Two enabled profiles may not answer on the same path.
RouteCollision(c) ==
    \E i, j \in DOMAIN c.profiles :
        /\ i # j
        /\ c.profiles[i].enabled /\ c.profiles[j].enabled
        /\ c.profiles[i].path = c.profiles[j].path

DocumentValid(c) ==
    /\ ApplicationValid(c.application)
    /\ \A i, j \in DOMAIN c.profiles : c.profiles[i].id = c.profiles[j].id => i = j
    /\ \A i \in DOMAIN c.profiles : ProfileValid(c.profiles[i], c.profiles[i].enabled)

\* Every pipeline that could run compiles, that of a disabled profile too.
CandidateValid(c) ==
    /\ DocumentValid(c)
    /\ \A i \in DOMAIN c.profiles : LET p == c.profiles[i] IN
        p.enabled \/ HasEnabledRule(p) => p.protocol # Unset /\ Compiles(p)
    /\ ~RouteCollision(c)

\* The runtime compiler runs the enabled profiles of a valid document, and
\* there must be one.
Runnable(c) == CandidateValid(c) /\ \E i \in DOMAIN c.profiles : c.profiles[i].enabled

\* What the profile list says of one profile.
Readiness(p) ==
    IF ~ProfileValid(p, FALSE) THEN "invalid"
    ELSE IF ~ProfileValid(p, TRUE) THEN "incomplete"
    ELSE IF ~Compiles(p) THEN "invalid"
    ELSE "ready"

-----------------------------------------------------------------------------
(* A batch of edits: a function from fields to values, Unset for a reset.  *)
(* The fields that are set come before those that are reset, the whole     *)
(* candidate may be validated at the end, and any failure keeps the draft. *)

ApplyEdits(Apply(_, _), c, fields) ==
    FoldSet(LAMBDA f, acc : IF acc = Refused THEN Refused ELSE Apply(acc, f), c, fields)

ApplyBatch(c, key, edits, validate) ==
    LET resets == {f \in DOMAIN edits : edits[f] = Unset}
        afterSets == ApplyEdits(LAMBDA d, f : SetField(d, key, f, edits[f]),
                                c, DOMAIN edits \ resets)
        candidate == IF afterSets = Refused THEN Refused
                     ELSE ApplyEdits(LAMBDA d, f : ResetField(d, key, f), afterSets, resets)
    IN  IF candidate = Refused THEN Refused
        ELSE IF validate /\ ~CandidateValid(candidate) THEN Refused
        ELSE candidate

-----------------------------------------------------------------------------
(* Profiles *)

NewProfile(key, id) ==
    [key |-> key, id |-> id, enabled |-> FALSE, protocol |-> Unset, path |-> Unset,
     rules |-> <<>>]

CreateProfile(c, key, id) ==
    IF id \notin Ids \/ IndexOfId(c, id) # 0 THEN Refused
    ELSE [c EXCEPT !.profiles = Append(@, NewProfile(key, id))]

RemoveProfile(c, key) ==
    IF IndexOf(c, key) = 0 THEN Refused
    ELSE [c EXCEPT !.profiles = RemoveAt(@, IndexOf(c, key))]

Moved(s, from, to) == InsertAt(RemoveAt(s, from), to, s[from])

MoveProfile(c, key, position) ==
    IF position \notin DOMAIN c.profiles \/ IndexOf(c, key) = 0 THEN Refused
    ELSE [c EXCEPT !.profiles = Moved(@, IndexOf(c, key), position)]

-----------------------------------------------------------------------------
(* Rules *)

\* An operation on the existing rule of a profile.
OnRule(c, key, id, Change(_, _)) ==
    LET i == IndexOf(c, key)
        r == IF i = 0 THEN 0 ELSE IndexOfRule(c.profiles[i], id)
    IN  IF r = 0 THEN Refused
        ELSE LET rules == Change(c.profiles[i].rules, r)
             IN  IF rules = Refused THEN Refused
                 ELSE [c EXCEPT !.profiles[i].rules = rules]

AddRule(c, key, id) ==
    LET i == IndexOf(c, key) IN
    IF \/ i = 0 \/ id \notin RuleIds
       \/ Len(c.profiles[i].rules) >= MaxRules
       \/ IndexOfRule(c.profiles[i], id) # 0
    THEN Refused
    ELSE [c EXCEPT !.profiles[i].rules =
            Append(@, [id |-> id, enabled |-> FALSE, option |-> NoOption])]

RemoveRule(c, key, id) == OnRule(c, key, id, LAMBDA s, r : RemoveAt(s, r))

SetRuleEnabled(c, key, id, enabled) ==
    OnRule(c, key, id, LAMBDA s, r : [s EXCEPT ![r].enabled = enabled])

SetRuleOption(c, key, id, option) ==
    OnRule(c, key, id, LAMBDA s, r : [s EXCEPT ![r].option = option])

UnsetRuleOption(c, key, id) ==
    OnRule(c, key, id, LAMBDA s, r :
        IF s[r].option = NoOption THEN Refused ELSE [s EXCEPT ![r].option = NoOption])

MoveRule(c, key, id, position) ==
    OnRule(c, key, id, LAMBDA s, r :
        IF position \notin DOMAIN s THEN Refused ELSE Moved(s, r, position))

-----------------------------------------------------------------------------
(* The rules of a profile as text: the rules a text says, and its layout   *)
(* (foreign line ends, as typed, or the canonical one).                    *)

Text(rules, layout) == [rules |-> rules, layout |-> layout]

\* Foreign line ends become newlines, outside strings.
NormalizeNewlines(t) ==
    IF t # Garbled /\ t.layout = "crlf" THEN [t EXCEPT !.layout = "typed"] ELSE t

WellFormed(t) == t # Garbled
OptionsAccepted(r) == r.enabled => r.option # NoOption

ParseRulesText(t) ==
    IF \/ ~WellFormed(t)
       \/ Len(t.rules) > MaxRules
       \/ \E i, j \in DOMAIN t.rules : i # j /\ t.rules[i].id = t.rules[j].id
       \/ \E i \in DOMAIN t.rules : ~OptionsAccepted(t.rules[i])
    THEN Refused
    ELSE t.rules

\* The canonical text is indented, so it may exceed the limit the typed one met.
FormatRulesText(rules) ==
    IF \E i \in DOMAIN rules : rules[i].option = LongOption THEN Refused
    ELSE Text(rules, "canonical")

ReplaceRulesText(c, key, t) ==
    LET i == IndexOf(c, key) IN
    IF i = 0 \/ ParseRulesText(t) = Refused THEN Refused
    ELSE [c EXCEPT !.profiles[i].rules = ParseRulesText(t)]
=============================================================================
