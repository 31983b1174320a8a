--------------------------- MODULE ConfigRegister ---------------------------
(***************************************************************************)
(* What the composite configuration repository promises to its clients:   *)
(* one register holding the pair (config.json, profiles.db), changed only  *)
(* by whole-pair steps, and by a client only when the revision token the   *)
(* client works from is still the current one.  Two files, a journal and a *)
(* crash do not appear here; CompositeRepository is shown to implement it. *)
(***************************************************************************)
EXTENDS RepositoryData

VARIABLES
    reg,    \* [config, db]: the two logical documents
    base,   \* the snapshot the client call in progress works from, or None
    edits   \* how often the user changed config.json by hand

-----------------------------------------------------------------------------

Init == reg.db = None /\ base = None /\ edits = 0

\* A client call announces what it works from.
Call == UNCHANGED <<reg, edits>>

\* First start: both documents appear together.
Initialize ==
    /\ reg = [config |-> None, db |-> None]
    /\ reg'.config = Canonical(DefaultApp)
    /\ reg'.db \in Content
    /\ reg'.db.ok /\ reg'.db.rev = 0
    /\ reg'.db.prof = NoProfiles /\ reg'.db.mig = None
    /\ UNCHANGED <<base, edits>>

\* A client replaces settings, profiles or both in one step, from a token
\* that is still current.
Commit ==
    /\ base # None
    /\ reg.config # None /\ reg.db # None
    /\ TokenMatches(base, reg)
    /\ \E a \in App : reg'.config = Canonical(a)
    /\ \/ reg'.db = reg.db
       \/ \E r \in Prof \ {reg.db.prof} :
             reg'.db = [reg.db EXCEPT !.rev = @ + 1, !.prof = r]
    /\ UNCHANGED <<base, edits>>

\* The v2 document becomes a v3 document and a database holding its profiles.
Migrated ==
    /\ reg.config # None /\ reg.config.schema = "v2"
    /\ reg'.config = Canonical(reg.config.app)
    /\ reg'.db \in Content
    /\ reg'.db.ok /\ reg'.db.prof = reg.config.prof /\ reg'.db.mig = reg.config

Migrate == Migrated /\ UNCHANGED <<base, edits>>

\* The user changes config.json and nothing else changes.
Edit ==
    /\ reg'.config \in Doc \cup {None} /\ reg'.db = reg.db
    /\ edits' = edits + 1 /\ base' = base

\* The user changes config.json while a migration that replaced a database
\* still has its journal.  Foreign bytes make recovery return both documents
\* to what they were before the migration; the journal's own bytes put back
\* make it complete the migration again.
EditDuringMigration ==
    /\ \/ /\ reg.db # None /\ reg.db.mig # None
          /\ reg'.config = reg.db.mig
          /\ reg'.db \in Content
       \/ Migrated
    /\ edits' = edits + 1 /\ base' = base

Next ==
    \/ Call \/ Initialize \/ Commit \/ Migrate \/ Edit \/ EditDuringMigration

Spec == Init /\ [][Next]_<<reg, base, edits>>
=============================================================================
