------------------------ MODULE CompositeRepository ------------------------
(***************************************************************************)
(* CompositeConfigRepository: config.json and profiles.db kept together by *)
(* a lock file, an undo/redo journal and recovery at the start of every    *)
(* operation, for several processes (the tray or menu host, the command    *)
(* line) that crash, fail and race with a user editing config.json.        *)
(*                                                                         *)
(* Every operation holds the repository lock from its first read to its    *)
(* return, so there is one call in progress at most and its registers are  *)
(* global: lock names the process, pc the next step.  A step is one        *)
(* durable effect on the disk with the reads and tests that follow it up   *)
(* to the next effect: a crash between two reads is a crash before both.   *)
(*                                                                         *)
(* Left out: the -wal/-shm sidecar files (SQLite commits are atomic, and   *)
(* the code checkpoints a database before it moves or hashes it), file     *)
(* permissions, temporary names, and the validation of the edited          *)
(* document, which happens before the lock is taken and changes nothing.   *)
(***************************************************************************)
EXTENDS RepositoryData

CONSTANTS
    Proc,        \* processes that open the repository
    UserDocs,    \* documents the user may put into config.json by hand
    MaxRev,      \* bound: profile revision at which no further save starts
    MaxInc,      \* bound: database files created when no further migration starts
    MaxFaults,   \* bound: crashes and I/O failures, together
    MaxEdits     \* bound: edits of config.json by the user

ASSUME RepositoryAssumption ==
    /\ UserDocs \subseteq Doc
    /\ None \notin Proc
    /\ MaxRev \in Nat /\ MaxInc \in Nat /\ MaxFaults \in Nat /\ MaxEdits \in Nat

VARIABLES
    \* the disk
    config,       \* config.json: a document or None
    db,           \* profiles.db: a database or None
    journal,      \* state/repository-transaction: a journal or None
    migrating,    \* profiles.db.migrating: a database or None
    v2Backups,    \* migrations/<sha256>/config-v2.json
    dbBackups,    \* migrations/<...>/profiles.db, with the v2 source they belong to
    \* the call in progress
    lock,         \* the process holding the repository lock, or None
    op,           \* its operation
    pc,           \* its next step
    then,         \* where recovery or clear_journal returns to
    err,          \* the result it will return
    base,         \* desired.revision and origin of save_snapshot, or None
    want,         \* the application settings and profiles save_snapshot is given
    inRecovery,   \* inside recover_locked
    \* the memory of each process
    snap,         \* snapshot_ of its repository object, None unless loaded_
    draft,        \* the snapshot its editor works from, or None
    \* bounds, and a history variable for the properties
    faults, edits, incs,
    before        \* the logical documents when the call in progress began

disk   == <<config, db, journal, migrating, v2Backups, dbBackups>>
call   == <<lock, op, pc, then, err, base, want, inRecovery, before>>
memory == <<snap, draft>>
limits == <<faults, edits, incs>>
vars   == <<disk, call, memory, limits>>

-----------------------------------------------------------------------------
(* Data *)

Config == Doc \cup {None}

\* detect_config_schema, "none" for a missing file.
Schema(c) == IF c = None THEN "none" ELSE c.schema

\* A database file.  inc numbers the files ever created: the code has no such
\* number, it tells apart files the code cannot tell apart.
Database ==
    [ok : BOOLEAN, inc : Nat, rev : Nat, prof : Prof, mig : Config]

\* RepositoryRevision, the migration origin and the profiles of a
\* ConfigurationSnapshot.
Snapshot == [config : Doc, inc : Nat, rev : Nat, prof : Prof, mig : Config]

\* (mutant) The revision is one too low.
SnapOfLow(c, d) ==
    [config |-> c, inc |-> d.inc, rev |-> d.rev - 1, prof |-> d.prof, mig |-> d.mig]

SnapOf(c, d) ==
    [config |-> c, inc |-> d.inc, rev |-> d.rev, prof |-> d.prof, mig |-> d.mig]

NewDb(i, r, p, m) ==
    [ok |-> TRUE, inc |-> i, rev |-> r, prof |-> p, mig |-> m]

\* The file SQLite has created before the schema transaction commits.
HalfDb(i) ==
    [ok |-> FALSE, inc |-> i, rev |-> 0, prof |-> NoProfiles, mig |-> None]

\* What a journal records of a database: revision, origin and, for a
\* migration, the SHA-256 of the file.  With the first two compared, what the
\* hash still tells apart is the profiles.
Fingerprint ==
    [rev : Nat, mig : Config, hash : Prof \cup {None}, inc : Nat]

Mark(d, hashed) ==
    [rev |-> d.rev, mig |-> d.mig, inc |-> d.inc,
     hash |-> IF hashed THEN d.prof ELSE None]

\* old: the database before the transaction, None if there was none.
\* backup: the journal names a database replacement backup.
\* whole: no file of the directory has been removed yet.
Journal ==
    [kind : {"initialize", "commit", "migration"},
     oldConfig : Config, newConfig : Doc,
     old : Fingerprint \cup {None}, target : Fingerprint,
     backup : BOOLEAN, whole : BOOLEAN]

ASSUME NoneAssumption ==
    /\ None \notin Database
    /\ None \notin Snapshot
    /\ None \notin Fingerprint
    /\ None \notin Journal

DatabaseMatches(d, f) ==
    IF f = None
    THEN d = None
    ELSE /\ d # None /\ d.ok
         /\ d.rev = f.rev /\ d.mig = f.mig
         /\ f.hash = None \/ f.hash = d.prof

\* read_database_state fails: the file exists and holds no schema.
Unreadable(d) == d # None /\ ~d.ok

\* read_journal succeeds.
Readable(j) == j # None /\ j.whole

ConfigIsOld(j, c) == c = j.oldConfig
ConfigIsNew(j, c) == c = j.newConfig
ConfigKnown(j, c) == ConfigIsOld(j, c) \/ ConfigIsNew(j, c)

\* (mutant) config.json is not compared with the journal's old and new bytes.
UndoneAnyConfig(j, c, d) == DatabaseMatches(d, j.old)

\* recover_locked finds the transaction not done, done, or neither.
Undone(j, c, d) == ConfigKnown(j, c) /\ DatabaseMatches(d, j.old)
Done(j, c, d) ==
    /\ ConfigKnown(j, c)
    /\ ~DatabaseMatches(d, j.old) /\ DatabaseMatches(d, j.target)

\* The replaced database as its backup holds it.
BackedUp(j) == NewDb(j.old.inc, j.old.rev, j.old.hash, j.old.mig)

(***************************************************************************)
(* The logical documents: what the next completed recovery leaves.  A      *)
(* journal whose transaction recovery can neither complete nor undo leaves *)
(* the files as they are.                                                  *)
(***************************************************************************)
ContentOf(d) ==
    IF d = None THEN None
    ELSE [ok |-> d.ok, rev |-> d.rev, prof |-> d.prof, mig |-> d.mig]

Docs(c, d) == [config |-> c, db |-> ContentOf(d)]

Logical ==
    IF ~Readable(journal) THEN Docs(config, db)
    ELSE IF journal.kind = "initialize" /\ Unreadable(db) THEN Docs(None, None)
    ELSE IF Undone(journal, config, db) THEN Docs(journal.oldConfig, db)
    ELSE IF Done(journal, config, db) THEN Docs(journal.newConfig, db)
    ELSE IF journal.backup THEN Docs(journal.oldConfig, BackedUp(journal))
    ELSE Docs(config, db)

-----------------------------------------------------------------------------
(* Control *)

Goto(l) == pc' = l /\ UNCHANGED <<lock, op, base, want, before>>

Step(l) == Goto(l) /\ UNCHANGED <<then, err, inRecovery>>

\* The operation returns r.
Finish(r) == Goto("done") /\ err' = r /\ inRecovery' = FALSE /\ then' = then

\* clear_journal, then on to t.
ClearThen(t) == Goto("clear") /\ then' = t /\ UNCHANGED <<err, inRecovery>>

\* The catch (...) of save_snapshot and migrate_v2: recover, then rethrow e.
\* The initialization has no such handler and leaves its journal behind.
Throw(e) ==
    IF op = "load"
    THEN Finish(e)
    ELSE /\ Goto("recover")
         /\ then' = "report" /\ err' = e /\ inRecovery' = TRUE

NoFault == UNCHANGED limits
Fault == faults < MaxFaults /\ faults' = faults + 1 /\ UNCHANGED <<edits, incs>>

-----------------------------------------------------------------------------
(* Calls *)

\* (mutant) The operation begins without recover_locked.
StartUnrecovered(p, o) ==
    /\ lock = None
    /\ lock' = p /\ op' = o /\ pc' = "body" /\ then' = "body"
    /\ err' = "ok" /\ inRecovery' = FALSE /\ before' = Logical
    /\ UNCHANGED disk /\ NoFault

Start(p, o) ==
    /\ lock = None
    /\ lock' = p /\ op' = o /\ pc' = "recover" /\ then' = "body"
    /\ err' = "ok" /\ inRecovery' = TRUE /\ before' = Logical
    /\ UNCHANGED disk /\ NoFault

\* loaded_ = false, before the lock is tried.
Unload(p) == snap' = [snap EXCEPT ![p] = None] /\ draft' = draft

Load(p) == Start(p, "load") /\ Unload(p) /\ UNCHANGED <<base, want>>

Inspect(p) == Start(p, "inspect") /\ UNCHANGED <<memory, base, want>>

Verify(p) == Start(p, "verify") /\ Unload(p) /\ UNCHANGED <<base, want>>

Migrate(p, replace) ==
    /\ incs < MaxInc
    /\ Start(p, IF replace THEN "replace" ELSE "migrate")
    /\ Unload(p) /\ UNCHANGED <<base, want>>

\* save_snapshot from the editor's draft.
SaveSnapshot(p, a, r) ==
    /\ draft[p] # None /\ draft[p].rev < MaxRev
    /\ base' = draft[p] /\ want' = [app |-> a, prof |-> r]
    /\ Start(p, "save") /\ UNCHANGED memory

\* save(ConfigDocument): the edits are those of the draft, the revision they
\* are checked against is that of snapshot_ as it is now.
SaveDocument(p, a, r) ==
    /\ draft[p] # None /\ snap[p] # None /\ snap[p].rev < MaxRev
    /\ base' = snap[p] /\ want' = [app |-> a, prof |-> r]
    /\ Start(p, "save_document") /\ UNCHANGED memory

Saves == {"save", "save_document"}

\* Another process holds the lock: Busy, with loaded_ already cleared by load,
\* verify_storage and migrate_v2.
Busy(p) ==
    /\ lock # None /\ lock # p /\ snap[p] # None
    /\ Unload(p) /\ UNCHANGED <<disk, call>> /\ NoFault

\* ConfigurationEditor::begin, after a discard if a draft was active.
BeginEdit(p) ==
    /\ lock # p /\ snap[p] # None
    /\ draft' = [draft EXCEPT ![p] = snap[p]]
    /\ UNCHANGED <<disk, call, snap>> /\ NoFault

NoWant == [app |-> DefaultApp, prof |-> NoProfiles]

\* No call in progress: the registers of the last one are gone.
Idle ==
    /\ lock = None /\ op = "load" /\ pc = "idle" /\ then = "body" /\ err = "ok"
    /\ base = None /\ want = NoWant /\ inRecovery = FALSE
    /\ before = Docs(None, None)

EndCall ==
    /\ lock' = None /\ op' = "load" /\ pc' = "idle" /\ then' = "body"
    /\ err' = "ok" /\ base' = None /\ want' = NoWant /\ inRecovery' = FALSE
    /\ before' = Docs(None, None)

\* The lock is released as the operation returns.
Return ==
    /\ pc = "done"
    /\ EndCall
    /\ UNCHANGED <<disk, memory>> /\ NoFault

-----------------------------------------------------------------------------
(* recover_locked and clear_journal *)

\* What runs after recovery or after the journal is gone.
Resume(res) ==
    /\ Goto(IF then \in {"body", "ready"} THEN then ELSE "done")
    /\ err' = res /\ inRecovery' = FALSE /\ then' = then

RecoverNothing ==
    /\ pc = "recover" /\ journal = None
    /\ Resume(err)
    /\ UNCHANGED <<disk, memory>> /\ NoFault

\* (mutant) Recovery always rolls config.json forward.
RecoverConfigForward ==
    /\ pc = "recover" /\ Readable(journal) /\ ~Unreadable(db)
    /\ Undone(journal, config, db) \/ Done(journal, config, db)
    /\ config' = journal.newConfig
    /\ Step("clear")
    /\ UNCHANGED <<db, journal, migrating, v2Backups, dbBackups, memory>>
    /\ NoFault

\* Roll back or roll forward config.json to go with the database.
RecoverConfig ==
    /\ pc = "recover" /\ Readable(journal) /\ ~Unreadable(db)
    /\ \/ Undone(journal, config, db) /\ config' = journal.oldConfig
       \/ Done(journal, config, db) /\ config' = journal.newConfig
    /\ Step("clear")
    /\ UNCHANGED <<db, journal, migrating, v2Backups, dbBackups, memory>>
    /\ NoFault

\* The state fits neither end of the transaction, or the database cannot be
\* read, and the journal names a backup: put the replaced database back.
NeedsBackup ==
    \/ Unreadable(db)
    \/ ~Undone(journal, config, db) /\ ~Done(journal, config, db)

\* validate_database_replacement_backup finds it intact.
UsableBackup(j) ==
    /\ j.backup
    /\ [src |-> j.oldConfig, db |-> BackedUp(j)] \in dbBackups

RecoverBackup ==
    /\ pc = "recover" /\ Readable(journal) /\ NeedsBackup /\ UsableBackup(journal)
    /\ db' = BackedUp(journal)
    /\ Step("restore")
    /\ UNCHANGED <<config, journal, migrating, v2Backups, dbBackups, memory>>
    /\ NoFault

RestoreConfig ==
    /\ pc = "restore"
    /\ config' = journal.oldConfig
    /\ Step("clear")
    /\ UNCHANGED <<db, journal, migrating, v2Backups, dbBackups, memory>>
    /\ NoFault

\* (mutant) Recovery tries again instead of giving up.
RecoverRetries ==
    /\ pc = "recover" /\ journal # None
    /\ ~journal.whole \/ (NeedsBackup /\ ~UsableBackup(journal))
    /\ Step("recover")
    /\ UNCHANGED <<disk, memory>> /\ NoFault

\* Nothing is touched: the journal is unreadable, or the state is foreign and
\* no backup can be used.
RecoverRefuses ==
    /\ pc = "recover" /\ journal # None
    /\ \/ ~journal.whole
       \/ NeedsBackup /\ ~UsableBackup(journal)
    /\ Finish("RecoveryRequired")
    /\ UNCHANGED <<disk, memory>> /\ NoFault

\* A read or a write of recovery fails; the journal stays.
RecoverFails ==
    /\ pc \in {"recover", "restore"} /\ journal # None
    /\ Fault
    /\ \/ UNCHANGED config
       \/ pc = "restore" /\ config' = journal.oldConfig
    /\ Finish(IF then = "report" THEN "RecoveryRequired" ELSE "Io")
    /\ UNCHANGED <<db, journal, migrating, v2Backups, dbBackups, memory>>

\* clear_journal removes the temporary database of a migration first.
ClearMigrating ==
    /\ pc = "clear"
    /\ migrating' = IF journal.kind = "migration" THEN None ELSE migrating
    /\ Step("remove")
    /\ UNCHANGED <<config, db, journal, v2Backups, dbBackups, memory>> /\ NoFault

\* remove_all deletes the files of the directory one by one, ...
RemoveFiles ==
    /\ pc = "remove" /\ journal.whole
    /\ journal' = [journal EXCEPT !.whole = FALSE]
    /\ Step("remove")
    /\ UNCHANGED <<config, db, migrating, v2Backups, dbBackups, memory>> /\ NoFault

\* ... then the directory.  A finished save now publishes its snapshot.
RemoveJournal ==
    /\ pc = "remove" /\ ~journal.whole
    /\ journal' = None
    /\ Resume(err)
    /\ IF then = "saved"
       THEN /\ snap' = [snap EXCEPT ![lock] = SnapOf(config, db)]
            /\ draft' = [draft EXCEPT ![lock] = None]
       ELSE UNCHANGED memory
    /\ UNCHANGED <<config, db, migrating, v2Backups, dbBackups>> /\ NoFault

\* A removal fails, or the sync of the parent directory after the last one.
\* Inside recovery and initialization the call ends; the other callers enter
\* their handler, which recovers once more if the directory is still there.
ClearFails ==
    /\ pc \in {"clear", "remove"} /\ Fault
    /\ \/ journal' = journal
       \/ pc = "remove" /\ ~journal.whole /\ journal' = None
    /\ IF inRecovery
       THEN Finish(IF then = "report" THEN "RecoveryRequired" ELSE "Io")
       ELSE IF journal' = None THEN Finish("Io") ELSE Throw("Io")
    /\ UNCHANGED <<config, db, migrating, v2Backups, dbBackups, memory>>

-----------------------------------------------------------------------------
(* load, initialize_fresh_locked, load_ready_locked, inspect, verify *)

LoadBody ==
    /\ pc = "body" /\ op \in {"load", "verify"}
    /\ op = "verify" \/ config # None \/ db # None
    /\ Step("ready")
    /\ UNCHANGED <<disk, memory>> /\ NoFault

InspectBody ==
    /\ pc = "body" /\ op = "inspect"
    /\ Finish("ok")
    /\ UNCHANGED <<disk, memory>> /\ NoFault

FreshJournal(i) ==
    [kind |-> "initialize",
     oldConfig |-> None, newConfig |-> Canonical(DefaultApp),
     old |-> None, target |-> Mark(NewDb(i, 0, NoProfiles, None), FALSE),
     backup |-> FALSE, whole |-> TRUE]

InitJournal ==
    /\ pc = "body" /\ op = "load" /\ config = None /\ db = None
    /\ journal' = FreshJournal(incs)
    /\ Step("init_config")
    /\ UNCHANGED <<config, db, migrating, v2Backups, dbBackups, memory>> /\ NoFault

InitJournalFails ==
    /\ pc = "body" /\ op = "load" /\ config = None /\ db = None /\ Fault
    /\ journal' \in {journal, FreshJournal(incs)}
    /\ Finish("Io")
    /\ UNCHANGED <<config, db, migrating, v2Backups, dbBackups, memory>>

InitConfig ==
    /\ pc = "init_config"
    /\ config' = journal.newConfig
    /\ Step("init_create")
    /\ UNCHANGED <<db, journal, migrating, v2Backups, dbBackups, memory>> /\ NoFault

\* sqlite3_open and the WAL pragma create the file ...
InitCreate ==
    /\ pc = "init_create"
    /\ db' = HalfDb(incs) /\ incs' = incs + 1
    /\ Step("init_schema")
    /\ UNCHANGED <<config, journal, migrating, v2Backups, dbBackups, memory>>
    /\ UNCHANGED <<faults, edits>>

\* ... and one transaction the schema.
InitSchema ==
    /\ pc = "init_schema"
    /\ db' = NewDb(db.inc, db.rev, db.prof, db.mig)
    /\ ClearThen("ready")
    /\ UNCHANGED <<config, journal, migrating, v2Backups, dbBackups, memory>>
    /\ NoFault

\* open_or_create fails: remove the database, restore config.json, clear.
InitUndoDb ==
    /\ pc \in {"init_create", "init_schema"} /\ Fault
    /\ db' = None
    /\ Goto("init_undo") /\ err' = "Io" /\ UNCHANGED <<then, inRecovery>>
    /\ UNCHANGED <<config, journal, migrating, v2Backups, dbBackups, memory>>

InitUndoConfig ==
    /\ pc = "init_undo"
    /\ config' = journal.oldConfig
    /\ ClearThen("report")
    /\ UNCHANGED <<db, journal, migrating, v2Backups, dbBackups, memory>> /\ NoFault

\* A write throws: the call ends and the next one recovers.
InitFails ==
    /\ pc \in {"init_config", "init_undo"} /\ Fault
    /\ \/ UNCHANGED config
       \/ pc = "init_config" /\ config' = journal.newConfig
    /\ Finish("Io")
    /\ UNCHANGED <<db, journal, migrating, v2Backups, dbBackups, memory>>

\* A read, or the backup of the v2 document, fails and the call ends.
BodyFails ==
    /\ pc \in {"body", "ready"} /\ Fault
    /\ Finish("Io")
    /\ UNCHANGED <<disk, memory>>

\* The checks of load_ready_locked, in their order.
ReadyFailure ==
    CASE Schema(config) = "none" -> "RecoveryRequired"
      [] Schema(config) = "bad"  -> "Invalid"
      [] Schema(config) = "v2"   -> "MigrationRequired"
      [] Schema(config) = "v3"   ->
            IF db = None THEN "RecoveryRequired"
            ELSE IF Unreadable(db) THEN "Corrupt" ELSE "ok"

LoadReady ==
    /\ pc = "ready"
    /\ Finish(ReadyFailure)
    /\ IF ReadyFailure = "ok"
       THEN snap' = [snap EXCEPT ![lock] = SnapOf(config, db)] /\ draft' = draft
       ELSE UNCHANGED memory
    /\ UNCHANGED disk /\ NoFault

-----------------------------------------------------------------------------
(* save_snapshot *)

NewConfig == Canonical(want.app)

ConfigChanged == config # NewConfig
ProfilesChanged == db.prof # want.prof

\* Revision and origin of the files are those of the desired snapshot.
Current == SnapOf(config, db)
\* (mutant) The profile revision is not part of the token.
SameConfigOnly(s, b) == s.config = b.config

SameRevision(s, b) == s.config = b.config /\ s.rev = b.rev

SaveDb(d) == NewDb(d.inc, d.rev + 1, want.prof, d.mig)

SaveRefused ==
    /\ pc = "body" /\ op \in Saves /\ ReadyFailure # "ok"
    /\ Finish(ReadyFailure)
    /\ UNCHANGED <<disk, memory>> /\ NoFault

\* From here on load_ready_locked has replaced snapshot_, whatever follows.
SaveReady ==
    /\ pc = "body" /\ op \in Saves /\ ReadyFailure = "ok"
    /\ snap' = [snap EXCEPT ![lock] = Current] /\ draft' = draft
    /\ UNCHANGED disk /\ NoFault
    /\ IF ~SameRevision(Current, base) THEN Finish("Stale")
       ELSE IF Current.mig # base.mig THEN Finish("Invalid")
       ELSE Step("save")

SavePublished ==
    /\ snap' = [snap EXCEPT ![lock] = SnapOf(config', db')]
    /\ draft' = [draft EXCEPT ![lock] = None]

\* At most one of the two documents changes: no journal.
SaveOne ==
    /\ pc = "save" /\ ~(ConfigChanged /\ ProfilesChanged)
    /\ config' = NewConfig
    /\ db' = IF ProfilesChanged THEN SaveDb(db) ELSE db
    /\ Finish("ok") /\ SavePublished
    /\ UNCHANGED <<journal, migrating, v2Backups, dbBackups>> /\ NoFault

\* The rename took effect and the directory sync failed, or nothing happened;
\* a failed SQLite transaction rolls back.
SaveOneFails ==
    /\ pc = "save" /\ ConfigChanged # ProfilesChanged /\ Fault
    /\ config' \in {config, NewConfig}
    /\ Finish("Io")
    /\ UNCHANGED <<db, journal, migrating, v2Backups, dbBackups, memory>>

\* (mutant) The target revision is the old one.
CommitRecordSameRev ==
    [kind |-> "commit", oldConfig |-> config, newConfig |-> NewConfig,
     old |-> Mark(db, FALSE), target |-> Mark(db, FALSE),
     backup |-> FALSE, whole |-> TRUE]

CommitRecord ==
    [kind |-> "commit", oldConfig |-> config, newConfig |-> NewConfig,
     old |-> Mark(db, FALSE), target |-> Mark(SaveDb(db), FALSE),
     backup |-> FALSE, whole |-> TRUE]

CommitJournal ==
    /\ pc = "save" /\ ConfigChanged /\ ProfilesChanged
    /\ journal' = CommitRecord
    /\ Step("commit_config")
    /\ UNCHANGED <<config, db, migrating, v2Backups, dbBackups, memory>> /\ NoFault

CommitJournalFails ==
    /\ pc = "save" /\ ConfigChanged /\ ProfilesChanged /\ Fault
    /\ journal' \in {journal, CommitRecord}
    /\ Finish("Io")
    /\ UNCHANGED <<config, db, migrating, v2Backups, dbBackups, memory>>

CommitConfig ==
    /\ pc = "commit_config"
    /\ config' = journal.newConfig
    /\ Step("commit_db")
    /\ UNCHANGED <<db, journal, migrating, v2Backups, dbBackups, memory>> /\ NoFault

CommitDb ==
    /\ pc = "commit_db"
    /\ db' = SaveDb(db)
    /\ ClearThen("saved")
    /\ UNCHANGED <<config, journal, migrating, v2Backups, dbBackups, memory>>
    /\ NoFault

CommitDbFails ==
    /\ pc = "commit_db" /\ Fault
    /\ Goto("commit_undo") /\ err' = "Io" /\ UNCHANGED <<then, inRecovery>>
    /\ UNCHANGED <<disk, memory>>

\* (mutant) A failed SQLite transaction leaves the new config.json in place.
CommitUndoSkipped ==
    /\ pc = "commit_undo"
    /\ ClearThen("report")
    /\ UNCHANGED <<disk, memory>> /\ NoFault

CommitUndo ==
    /\ pc = "commit_undo"
    /\ config' = journal.oldConfig
    /\ ClearThen("report")
    /\ UNCHANGED <<db, journal, migrating, v2Backups, dbBackups, memory>> /\ NoFault

CommitConfigFails ==
    /\ pc \in {"commit_config", "commit_undo"} /\ Fault
    /\ config' \in {config,
          IF pc = "commit_undo" THEN journal.oldConfig ELSE journal.newConfig}
    /\ Throw("Io")
    /\ UNCHANGED <<db, journal, migrating, v2Backups, dbBackups, memory>>

-----------------------------------------------------------------------------
(* migrate_v2 *)

Migration == op \in {"migrate", "replace"}

\* Early returns.  A v3 repository that came from a migration is left alone.
MigrateRefused ==
    /\ pc = "body" /\ Migration
    /\ \/ Schema(config) \in {"none", "bad"}
       \/ Schema(config) = "v2" /\ db # None /\ op = "migrate"
    /\ Finish(CASE Schema(config) = "none" -> "NotLoaded"
                [] Schema(config) = "bad"  -> "Invalid"
                [] Schema(config) = "v2"   -> "Constraint")
    /\ UNCHANGED <<disk, memory>> /\ NoFault

MigrateV3 ==
    /\ pc = "body" /\ Migration /\ Schema(config) = "v3"
    /\ IF ReadyFailure = "ok"
       THEN /\ Finish(IF db.mig = None THEN "Constraint" ELSE "ok")
            /\ snap' = [snap EXCEPT ![lock] = Current] /\ draft' = draft
       ELSE Finish(ReadyFailure) /\ UNCHANGED memory
    /\ UNCHANGED disk /\ NoFault

\* (mutant) The v2 document is not backed up.
MigrateNoBackup ==
    /\ pc = "body" /\ Migration /\ Schema(config) = "v2"
    /\ db = None \/ op = "replace"
    /\ Step(IF db = None THEN "mig_create" ELSE "mig_backup")
    /\ UNCHANGED <<disk, memory>> /\ NoFault

MigrateBackup ==
    /\ pc = "body" /\ Migration /\ Schema(config) = "v2"
    /\ db = None \/ op = "replace"
    /\ v2Backups' = v2Backups \cup {config}
    /\ Step(IF db = None THEN "mig_create" ELSE "mig_backup")
    /\ UNCHANGED <<config, db, journal, migrating, dbBackups, memory>> /\ NoFault

MigrateBackupDb ==
    /\ pc = "mig_backup"
    /\ dbBackups' = dbBackups \cup {[src |-> config, db |-> db]}
    /\ Step("mig_create")
    /\ UNCHANGED <<config, db, journal, migrating, v2Backups, memory>> /\ NoFault

\* profiles.db.migrating must not exist; SQLite creates it.
MigrateCreate ==
    /\ pc = "mig_create" /\ migrating = None
    /\ migrating' = HalfDb(incs) /\ incs' = incs + 1
    /\ Step("mig_import")
    /\ UNCHANGED <<config, db, journal, v2Backups, dbBackups, memory>>
    /\ UNCHANGED <<faults, edits>>

MigrateBlocked ==
    /\ pc = "mig_create" /\ migrating # None
    /\ Finish("RecoveryRequired")
    /\ UNCHANGED <<disk, memory>> /\ NoFault

\* Schema, import as revision 1 (an empty list is no change: revision 0),
\* mark_migrated and checkpoint_for_move.
MigrateImport ==
    /\ pc = "mig_import"
    /\ migrating' = NewDb(migrating.inc,
                          IF config.prof = NoProfiles THEN 0 ELSE 1,
                          config.prof, config)
    /\ Step("mig_journal")
    /\ UNCHANGED <<config, db, journal, v2Backups, dbBackups, memory>> /\ NoFault

MigrationRecord ==
    [kind |-> "migration",
     oldConfig |-> config, newConfig |-> Canonical(config.app),
     old |-> IF db = None THEN None ELSE Mark(db, TRUE),
     target |-> Mark(migrating, TRUE),
     backup |-> db # None, whole |-> TRUE]

MigrateJournal ==
    /\ pc = "mig_journal"
    /\ journal' = MigrationRecord
    /\ Step("mig_config")
    /\ UNCHANGED <<config, db, migrating, v2Backups, dbBackups, memory>> /\ NoFault

\* Before the journal: the temporary database is removed where the code
\* handles the failure, left behind where it does not (a failed creation).
MigrateFails ==
    /\ pc \in {"mig_backup", "mig_create", "mig_import", "mig_journal"} /\ Fault
    /\ migrating' = IF pc \in {"mig_import", "mig_journal"} THEN None ELSE migrating
    /\ IF pc = "mig_journal" THEN journal' \in {journal, MigrationRecord}
                             ELSE journal' = journal
    /\ Finish("Io")
    /\ UNCHANGED <<config, db, v2Backups, dbBackups, memory>>

MigrateCreateFails ==
    /\ pc = "mig_import" /\ ~migrating.ok /\ Fault
    /\ Finish("Io")
    /\ UNCHANGED <<disk, memory>>

MigrateConfig ==
    /\ pc = "mig_config"
    /\ config' = journal.newConfig
    /\ Step("mig_move")
    /\ UNCHANGED <<db, journal, migrating, v2Backups, dbBackups, memory>> /\ NoFault

MigrateMove ==
    /\ pc = "mig_move"
    /\ db' = migrating /\ migrating' = None
    /\ ClearThen("ready")
    /\ UNCHANGED <<config, journal, v2Backups, dbBackups, memory>> /\ NoFault

MigrateSwitchFails ==
    /\ pc \in {"mig_config", "mig_move"} /\ Fault
    /\ \/ UNCHANGED <<config, db, migrating>>
       \/ /\ pc = "mig_config" /\ config' = journal.newConfig
          /\ UNCHANGED <<db, migrating>>
       \/ /\ pc = "mig_move" /\ db' = migrating /\ migrating' = None
          /\ config' = config
    /\ Throw("Io")
    /\ UNCHANGED <<journal, v2Backups, dbBackups, memory>>

-----------------------------------------------------------------------------
(* Environment *)

\* The process holding the lock dies; the system releases its lock file.
Crash ==
    /\ lock # None /\ Fault
    /\ EndCall
    /\ snap' = [snap EXCEPT ![lock] = None]
    /\ draft' = [draft EXCEPT ![lock] = None]
    /\ UNCHANGED disk

\* The user changes or deletes config.json between two operations.
EditConfig ==
    /\ lock = None /\ edits < MaxEdits
    /\ config' \in (UserDocs \cup {None}) \ {config}
    /\ edits' = edits + 1
    /\ UNCHANGED <<db, journal, migrating, v2Backups, dbBackups>>
    /\ UNCHANGED <<call, memory, faults, incs>>

Init ==
    /\ config \in UserDocs \cup {None}
    /\ db = None /\ journal = None /\ migrating = None
    /\ v2Backups = {} /\ dbBackups = {}
    /\ Idle
    /\ snap = [p \in Proc |-> None] /\ draft = [p \in Proc |-> None]
    /\ faults = 0 /\ edits = 0 /\ incs = 0

Calls ==
    \E p \in Proc :
        \/ Load(p) \/ Inspect(p) \/ Verify(p)
        \/ \E replace \in BOOLEAN : Migrate(p, replace)
        \/ \E a \in App, r \in Prof : SaveSnapshot(p, a, r) \/ SaveDocument(p, a, r)
        \/ Busy(p) \/ BeginEdit(p)

Recovery ==
    \/ RecoverNothing \/ RecoverConfig \/ RecoverBackup \/ RestoreConfig
    \/ RecoverRefuses \/ RecoverFails
    \/ ClearMigrating \/ RemoveFiles \/ RemoveJournal \/ ClearFails

Loading ==
    \/ LoadBody \/ InspectBody \/ LoadReady \/ BodyFails
    \/ InitJournal \/ InitJournalFails \/ InitConfig \/ InitCreate \/ InitSchema
    \/ InitUndoDb \/ InitUndoConfig \/ InitFails

Saving ==
    \/ SaveRefused \/ SaveReady \/ SaveOne \/ SaveOneFails
    \/ CommitJournal \/ CommitJournalFails \/ CommitConfig \/ CommitConfigFails
    \/ CommitDb \/ CommitDbFails \/ CommitUndo

Migrating ==
    \/ MigrateRefused \/ MigrateV3 \/ MigrateBackup \/ MigrateBackupDb
    \/ MigrateCreate \/ MigrateBlocked \/ MigrateImport \/ MigrateJournal
    \/ MigrateFails \/ MigrateCreateFails \/ MigrateConfig \/ MigrateMove
    \/ MigrateSwitchFails

Next ==
    \/ Calls \/ Recovery \/ Loading \/ Saving \/ Migrating \/ Return
    \/ Crash \/ EditConfig

Spec == Init /\ [][Next]_vars

(***************************************************************************)
(* A process that holds the lock runs on until it returns or dies, and     *)
(* some process uses the repository again: the tray or menu host loads it  *)
(* at every start, the command line on every command.                      *)
(***************************************************************************)
Working == Recovery \/ Loading \/ Saving \/ Migrating \/ Return

Fairness == WF_vars(Working) /\ WF_vars(\E p \in Proc : Load(p) \/ Inspect(p))

FairSpec == Spec /\ Fairness

-----------------------------------------------------------------------------
(* Properties *)

Label ==
    {"idle", "recover", "restore", "clear", "remove", "body", "ready", "done",
     "init_config", "init_create", "init_schema", "init_undo",
     "save", "commit_config", "commit_db", "commit_undo",
     "mig_backup", "mig_create", "mig_import", "mig_journal",
     "mig_config", "mig_move"}

Result ==
    {"ok", "Io", "Stale", "Invalid", "Corrupt", "Constraint", "NotLoaded",
     "MigrationRequired", "RecoveryRequired"}

TypeDisk ==
    /\ config \in Config
    /\ db \in Database \cup {None}
    /\ journal \in Journal \cup {None}
    /\ migrating \in Database \cup {None}
    /\ v2Backups \subseteq Doc
    /\ dbBackups \subseteq [src : Doc, db : Database]

TypeCall ==
    /\ lock \in Proc \cup {None}
    /\ op \in {"load", "inspect", "verify", "migrate", "replace"} \cup Saves
    /\ pc \in Label
    /\ then \in {"body", "ready", "saved", "report"}
    /\ err \in Result
    /\ base \in Snapshot \cup {None}
    /\ want \in [app : App, prof : Prof]
    /\ inRecovery \in BOOLEAN
    /\ before \in [config : Config, db : Content \cup {None}]

TypeMemory ==
    /\ snap \in [Proc -> Snapshot \cup {None}]
    /\ draft \in [Proc -> Snapshot \cup {None}]

TypeLimits == faults \in Nat /\ edits \in Nat /\ incs \in Nat

\* Type invariant: every variable has its declared shape.
TypeOK == TypeDisk /\ TypeCall /\ TypeMemory /\ TypeLimits

R == INSTANCE ConfigRegister WITH reg <- Logical

\* The repository implements the atomic register: under crashes, failed writes,
\* recovery and user edits, the pair (config.json, profiles.db) only ever
\* changes as a whole, and a client's save only from the current token.
ImplementsRegister == R!Spec

\* Whatever a process holds in memory was, when it read it, the committed pair:
\* no load, no refresh inside a save and no migration ever returns the settings
\* of one transaction with the profiles of another.
ReadsCommittedPair ==
    [][\A p \in Proc :
          snap'[p] \notin {snap[p], None} =>
              /\ snap'[p].config = Logical'.config
              /\ snap'[p].prof = Logical'.db.prof
              /\ snap'[p].rev = Logical'.db.rev]_vars

\* The two documents a save asks for.
Wanted ==
    [config |-> NewConfig,
     db |-> IF before.db.prof = want.prof THEN before.db
            ELSE [before.db EXCEPT !.rev = @ + 1, !.prof = want.prof]]

\* What a returning save says is true: success means both documents are the
\* ones asked for, a refusal means nothing changed, and an I/O or recovery
\* failure leaves either all of the change or none of it.
SaveOutcomeTruthful ==
    pc = "done" /\ op \in Saves =>
        CASE err = "ok" -> Logical = Wanted
          [] err \in {"Io", "RecoveryRequired"} ->
                Logical = before \/ Logical = Wanted
          [] OTHER -> Logical = before

\* A save checked against the editor's draft overwrites only profiles that
\* draft was made from, as long as no migration replaced the database file
\* in between.
NoLostUpdate ==
    pc \in {"save", "commit_config", "commit_db"} /\ op = "save" =>
        /\ draft[lock].config = Logical.config
        /\ draft[lock].inc = db.inc => draft[lock].prof = db.prof

\* A readable journal always finds the database at one end of its transaction,
\* and config.json too unless the user changed it: recovery can complete or
\* undo every interrupted commit and migration.
JournalResolvable ==
    Readable(journal) =>
        /\ \/ DatabaseMatches(db, journal.old)
           \/ DatabaseMatches(db, journal.target)
           \/ journal.kind = "initialize" /\ Unreadable(db)
        /\ edits = 0 => ConfigKnown(journal, config)

\* The v2 document a database was imported from, and every database a migration
\* replaced, stay in the backup directory.
OriginalsRetained ==
    /\ db # None /\ db.mig # None => db.mig \in v2Backups
    /\ Readable(journal) /\ journal.backup => UsableBackup(journal)

\* A database file leaves its place only if it never got its schema, if a
\* backup holds it, or if recovery puts the backup it replaced back, and the
\* v2 document it was made from is still backed up.
ReplacedDatabaseRetained ==
    [][db # None /\ db.ok /\ (db' = None \/ db'.inc # db.inc) =>
          \/ \E b \in dbBackups : b.db = db
          \/ db.mig \in v2Backups /\ \E b \in dbBackups : b.db = db']_vars

\* The repository replaces or deletes bytes of config.json only if the
\* journal holds them, the client that asked for it had read them, or they
\* are backed up; recovery from a database replacement backup is excepted.
KnownBytes ==
    \/ config = None
    \/ Readable(journal) /\ ConfigKnown(journal, config)
    \/ base # None /\ base.config = config

EditsRespected ==
    [][config' # config /\ edits' = edits =>
          KnownBytes \/ (Readable(journal) /\ journal.backup)]_vars

\* Nothing the user may still need is destroyed: neither a database file nor
\* bytes of config.json that the repository did not know.
DataRespected == ReplacedDatabaseRetained /\ EditsRespected

\* Every operation returns, or its process dies: recovery inside a handler
\* never runs into itself.
CallReturns == (pc # "idle") ~> (pc = "idle")

\* An interrupted transaction whose files are at one of its two ends is
\* completed or undone by a later operation, unless the user changes
\* config.json first or clear_journal is interrupted in its turn.
TransactionResolved ==
    (/\ Readable(journal) /\ ConfigKnown(journal, config)
     /\ ~Unreadable(db)) ~>
        (journal = None \/ ~journal.whole \/ ~ConfigKnown(journal, config)
            \/ Unreadable(db))

\* Recovery ends and settles: the call that runs it returns, and the transaction
\* it found is completed or undone (recover_locked and its callers).
RecoverySettles == CallReturns /\ TransactionResolved

(***************************************************************************)
(* The inductive invariant behind the safety properties: what every step   *)
(* of a call may rely on, and what every journal records.                  *)
(***************************************************************************)
Control ==
    /\ pc = "idle" <=> lock = None
    /\ op \in Saves => base # None
    /\ pc = "idle" => op = "load" /\ then = "body"
    /\ pc \in {"recover", "restore"} => inRecovery
    /\ inRecovery => /\ pc \in {"recover", "restore", "clear", "remove"}
                     /\ then \in {"body", "report"}
    /\ pc \in {"body", "ready", "save", "mig_backup", "mig_create", "mig_import",
               "mig_journal"} => journal = None
    /\ pc \in {"save", "commit_config", "commit_db", "commit_undo"} =>
          op \in Saves /\ config # None /\ db # None /\ db.ok
    /\ pc = "ready" \/ then = "ready" => op \notin Saves
    /\ then = "saved" => op \in Saves /\ config # None /\ db # None
    /\ pc \in {"mig_backup", "mig_create", "mig_import", "mig_journal"} =>
          Schema(config) = "v2" /\ config \in v2Backups
    /\ pc = "mig_backup" => db # None
    /\ pc \in {"mig_create", "mig_import", "mig_journal"} /\ db # None =>
          db.ok /\ [src |-> config, db |-> db] \in dbBackups
    /\ pc \in {"mig_import", "mig_journal", "mig_config", "mig_move"} =>
          migrating # None
    /\ pc = "mig_journal" =>
          migrating = NewDb(migrating.inc, migrating.rev, config.prof, config)
    /\ pc \in {"mig_backup", "mig_create", "mig_import", "mig_journal",
               "mig_config", "mig_move"} => op \in {"migrate", "replace"}

\* The step in progress agrees with the journal it works under.
Underway ==
    /\ pc \in {"restore", "clear", "remove", "init_config", "init_create",
               "init_schema", "init_undo", "commit_config", "commit_db",
               "commit_undo", "mig_config", "mig_move"} => journal # None
    /\ pc \in {"restore", "clear", "init_config", "init_create",
               "init_schema", "init_undo", "commit_config", "commit_db",
               "commit_undo", "mig_config", "mig_move"} => journal.whole
    /\ pc \in {"init_config", "init_create", "init_schema", "init_undo"} =>
          journal.kind = "initialize" /\ op = "load"
    /\ pc \in {"init_config", "init_create", "init_undo"} => db = None
    /\ pc \in {"init_config", "init_create"} => journal.target.inc = incs
    /\ pc = "init_schema" =>
          /\ db = HalfDb(journal.target.inc)
          /\ journal.target = Mark(db, FALSE)
    /\ pc \in {"commit_config", "commit_db", "commit_undo"} =>
          /\ journal.kind = "commit"
          /\ journal.old = Mark(db, FALSE)
    /\ pc \in {"mig_config", "mig_move"} =>
          /\ journal.kind = "migration"
          /\ DatabaseMatches(db, journal.old)
          /\ migrating.ok /\ journal.target = Mark(migrating, TRUE)
    /\ pc = "restore" =>
          journal.backup /\ DatabaseMatches(db, journal.old)
    /\ pc \in {"clear", "remove"} => ~Unreadable(db)

JournalSound(j) ==
    /\ j.kind = "initialize" =>
          /\ j.old = None /\ j.target.rev = 0
          /\ j.target.mig = None /\ j.target.hash = None
    /\ j.kind = "commit" =>
          /\ j.old # None /\ j.target.hash = None /\ j.old.hash = None
          /\ j.target.rev = j.old.rev + 1 /\ j.target.mig = j.old.mig
          /\ j.old.mig # None => j.old.mig \in v2Backups
    /\ j.kind = "migration" =>
          /\ j.oldConfig # None /\ j.target.mig = j.oldConfig
          /\ j.oldConfig \in v2Backups
          /\ j.old # None => j.old.hash # None
    /\ j.backup <=> (j.kind = "migration" /\ j.old # None)
    /\ j.backup => UsableBackup(j)

\* Databases on disk carry an origin that is backed up.
OriginKept(d) == d # None /\ d.mig # None => d.mig \in v2Backups

Origins ==
    OriginKept(db) /\ OriginKept(migrating) /\ \A b \in dbBackups : OriginKept(b.db)

Sound ==
    /\ journal # None => JournalSound(journal)
    /\ Unreadable(db) => Readable(journal) /\ journal.kind = "initialize"

DiskInv == Origins /\ Sound /\ JournalResolvable

IInv == TypeOK /\ Control /\ Underway /\ DiskInv

(***************************************************************************)
(* Claims of the repository's documents that the code does not keep.       *)
(***************************************************************************)

\* docs/Archived/Planning-0.7.0.md: an interrupted initialization is recovered
\* to "both files absent" or "both files complete".  It is not if the process
\* dies between the creation of profiles.db and the commit of its schema.
FreshStartRecoverable ==
    lock = None /\ edits = 0 /\ Readable(journal)
        /\ journal.kind = "initialize" => ~Unreadable(db)

\* docs/Archived/Planning-0.7.0.md: config bytes that are neither the journal's
\* old nor its new ones are a suspected external modification and are not
\* overwritten.  Recovery from a database replacement backup overwrites them.
ForeignConfigKept ==
    [][config' # config /\ edits' = edits => KnownBytes]_vars

\* docs/Archived/Planning-0.7.0.md: if any part of the token changed the save
\* is Stale, no last writer wins.  A replacing migration starts the profile
\* revision over, so an old token can match again.
StaleAlwaysDetected ==
    pc \in {"save", "commit_config", "commit_db"} /\ op = "save" =>
        draft[lock].prof = db.prof
=============================================================================
