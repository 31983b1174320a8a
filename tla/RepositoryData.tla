--------------------------- MODULE RepositoryData ---------------------------
(***************************************************************************)
(* The two documents of the configuration repository, as its clients and   *)
(* its recovery tell them apart.                                           *)
(***************************************************************************)
EXTENDS Naturals

CONSTANTS
    App,          \* values of the application settings kept in config.json
    Prof,         \* values of the whole list of profiles and rules
    DefaultApp,   \* the settings a fresh installation starts with
    NoProfiles,   \* the empty list of profiles
    None          \* no file, no token

(***************************************************************************)
(* config.json: its schema, the settings, for schema v2 the profiles it    *)
(* embeds, and whether a user formatted it by hand (its bytes then differ  *)
(* from the serializer's for the same settings).                           *)
(***************************************************************************)
Doc == [schema : {"v2", "v3", "bad"}, app : App, prof : Prof, hand : BOOLEAN]

\* The bytes serialize_application_config_document produces.
Canonical(a) ==
    [schema |-> "v3", app |-> a, prof |-> NoProfiles, hand |-> FALSE]

(***************************************************************************)
(* profiles.db: ok is FALSE between the creation of the file and the       *)
(* commit of its schema.  mig is the v2 document it was imported from      *)
(* (the code keeps its SHA-256).                                           *)
(***************************************************************************)
Content == [ok : BOOLEAN, rev : Nat, prof : Prof, mig : Doc \cup {None}]

\* The revision token of a state: the bytes of config.json and the revision
\* of profiles.db.
TokenMatches(b, r) == b.config = r.config /\ b.rev = r.db.rev

ASSUME DataAssumption ==
    /\ DefaultApp \in App
    /\ NoProfiles \in Prof
    /\ None \notin Prof
    /\ None \notin Doc
    /\ None \notin Content
=============================================================================
