--------------------- MODULE CompositeRepositoryProofs ---------------------
(***************************************************************************)
(* Proofs about CompositeRepository, for every set of processes, settings, *)
(* profiles and user documents and every value of the bounds.              *)
(***************************************************************************)
EXTENDS CompositeRepository, TLAPS

USE DataAssumption, RepositoryAssumption, NoneAssumption

-----------------------------------------------------------------------------
(* The data *)

\* The bytes the serializer produces are a document.
LEMMA CanonicalType == \A a \in App : Canonical(a) \in Doc
BY DEF Canonical, Doc

\* Databases built field by field are databases, and are readable.
LEMMA NewDbType ==
    ASSUME NEW i \in Nat, NEW r \in Nat, NEW p \in Prof, NEW m \in Config
    PROVE  /\ NewDb(i, r, p, m) \in Database
           /\ NewDb(i, r, p, m) # None
           /\ NewDb(i, r, p, m).ok
           /\ NewDb(i, r, p, m).inc = i
           /\ NewDb(i, r, p, m).rev = r
           /\ NewDb(i, r, p, m).prof = p
           /\ NewDb(i, r, p, m).mig = m
<1>1. NewDb(i, r, p, m) \in Database BY DEF NewDb, Database
<1>2. NewDb(i, r, p, m) # None BY <1>1
<1>3. QED BY <1>1, <1>2 DEF NewDb

\* A half-created database is a database without a schema.
LEMMA HalfDbType ==
    ASSUME NEW i \in Nat
    PROVE  /\ HalfDb(i) \in Database
           /\ HalfDb(i) # None
           /\ ~HalfDb(i).ok
           /\ HalfDb(i).mig = None
           /\ HalfDb(i).inc = i
           /\ HalfDb(i).rev = 0
           /\ HalfDb(i).prof = NoProfiles
<1>1. HalfDb(i) \in Database BY DEF HalfDb, Database, Config
<1>2. HalfDb(i) # None BY <1>1
<1>3. QED BY <1>1, <1>2 DEF HalfDb

\* The fields of a database.
LEMMA DatabaseFields ==
    ASSUME NEW d \in Database
    PROVE  /\ d # None
           /\ d.ok \in BOOLEAN /\ d.inc \in Nat /\ d.rev \in Nat
           /\ d.prof \in Prof /\ d.mig \in Config
BY DEF Database

\* What a journal records of a database.
LEMMA MarkType ==
    ASSUME NEW d \in Database, NEW h \in BOOLEAN
    PROVE  /\ Mark(d, h) \in Fingerprint
           /\ Mark(d, h) # None
           /\ Mark(d, h).rev = d.rev /\ Mark(d, h).mig = d.mig
           /\ Mark(d, h).inc = d.inc
           /\ Mark(d, h).hash = IF h THEN d.prof ELSE None
<1>1. d.rev \in Nat /\ d.mig \in Config /\ d.inc \in Nat /\ d.prof \in Prof
  BY DEF Database
<1>2. QED BY <1>1 DEF Mark, Fingerprint

\* The fields of a fingerprint.
LEMMA FingerprintFields ==
    ASSUME NEW f \in Fingerprint
    PROVE  /\ f # None
           /\ f.rev \in Nat /\ f.mig \in Config /\ f.inc \in Nat
           /\ f.hash \in Prof \cup {None}
BY DEF Fingerprint

\* The fields of a journal.
LEMMA JournalFields ==
    ASSUME NEW j \in Journal
    PROVE  /\ j # None
           /\ j.kind \in {"initialize", "commit", "migration"}
           /\ j.oldConfig \in Config /\ j.newConfig \in Doc
           /\ j.old \in Fingerprint \cup {None} /\ j.target \in Fingerprint
           /\ j.backup \in BOOLEAN /\ j.whole \in BOOLEAN
BY DEF Journal

\* A database matches the fingerprint taken of it, hashed or not.
LEMMA MatchesOwnMark ==
    ASSUME NEW d \in Database, NEW h \in BOOLEAN, d.ok
    PROVE  DatabaseMatches(d, Mark(d, h))
<1>1. Mark(d, h) # None /\ d # None BY MarkType, DatabaseFields
<1>2. Mark(d, h).rev = d.rev /\ Mark(d, h).mig = d.mig BY MarkType
<1>3. Mark(d, h).hash = None \/ Mark(d, h).hash = d.prof BY MarkType
<1>4. QED BY <1>1, <1>2, <1>3 DEF DatabaseMatches

\* A snapshot of two readable files.
LEMMA SnapOfType ==
    ASSUME NEW c \in Doc, NEW d \in Database
    PROVE  SnapOf(c, d) \in Snapshot
BY DEF SnapOf, Snapshot, Database

\* Removing a file of the journal directory changes nothing else of it.
LEMMA PartialJournal ==
    ASSUME NEW j \in Journal
    PROVE  LET k == [j EXCEPT !.whole = FALSE]
           IN  /\ k \in Journal /\ ~k.whole
               /\ k.kind = j.kind /\ k.backup = j.backup
               /\ k.old = j.old /\ k.target = j.target
               /\ k.oldConfig = j.oldConfig /\ k.newConfig = j.newConfig
BY DEF Journal

\* The backup a sound journal names holds a readable database that matches
\* what the journal recorded.
LEMMA BackupMatches ==
    ASSUME TypeDisk, journal # None, JournalSound(journal), journal.backup
    PROVE  /\ BackedUp(journal) \in Database
           /\ BackedUp(journal).ok
           /\ BackedUp(journal).mig = journal.old.mig
           /\ DatabaseMatches(BackedUp(journal), journal.old)
           /\ [src |-> journal.oldConfig, db |-> BackedUp(journal)] \in dbBackups
<1>1. journal \in Journal BY DEF TypeDisk
<1>2. /\ journal.old \in Fingerprint /\ journal.old.hash # None
      /\ UsableBackup(journal)
  BY <1>1, JournalFields DEF JournalSound
<1>3. /\ journal.old.rev \in Nat /\ journal.old.mig \in Config
      /\ journal.old.inc \in Nat /\ journal.old.hash \in Prof
  BY <1>2, FingerprintFields
<1>4. /\ BackedUp(journal) \in Database /\ BackedUp(journal) # None
      /\ BackedUp(journal).ok
      /\ BackedUp(journal).mig = journal.old.mig
      /\ BackedUp(journal).rev = journal.old.rev
      /\ BackedUp(journal).prof = journal.old.hash
  BY <1>3, NewDbType DEF BackedUp
<1>5. QED BY <1>2, <1>4, FingerprintFields DEF DatabaseMatches, UsableBackup

\* The logical documents are a configuration and a database.
LEMMA LogicalType ==
    ASSUME TypeDisk, Sound
    PROVE  Logical \in [config : Config, db : Content \cup {None}]
<1>1. \A c \in Config, d \in Database \cup {None} :
        Docs(c, d) \in [config : Config, db : Content \cup {None}]
  BY DEF Docs, ContentOf, Content, Database, Config
<1>2. None \in Config BY DEF Config
<1>3. config \in Config /\ db \in Database \cup {None} BY DEF TypeDisk
<1>4. CASE journal = None BY <1>1, <1>3, <1>4 DEF Logical, Readable
<1>5. CASE journal # None
  <2>1. journal \in Journal /\ JournalSound(journal) BY <1>5 DEF TypeDisk, Sound
  <2>2. journal.oldConfig \in Config /\ journal.newConfig \in Config
    BY <2>1, JournalFields DEF Config
  <2>3. journal.backup => BackedUp(journal) \in Database
    BY <1>5, <2>1, BackupMatches
  <2>4. QED BY <1>1, <1>2, <1>3, <2>2, <2>3 DEF Logical
<1>6. QED BY <1>4, <1>5

\* What load_ready_locked accepts.
LEMMA ReadyFailureType ==
    ASSUME TypeDisk
    PROVE  /\ ReadyFailure \in Result
           /\ ReadyFailure = "ok" =>
                 config \in Doc /\ db \in Database /\ db.ok
<1>1. config = None \/ config \in Doc BY DEF TypeDisk, Config
<1>2. config \in Doc => config.schema \in {"v2", "v3", "bad"} BY DEF Doc
<1>3. Schema(config) \in {"none", "v2", "v3", "bad"} BY <1>1, <1>2 DEF Schema
<1>4. CASE Schema(config) = "none" BY <1>4 DEF ReadyFailure, Result
<1>5. CASE Schema(config) = "bad" BY <1>5 DEF ReadyFailure, Result
<1>6. CASE Schema(config) = "v2" BY <1>6 DEF ReadyFailure, Result
<1>7. CASE Schema(config) = "v3"
  <2>1. ReadyFailure = IF db = None THEN "RecoveryRequired"
                       ELSE IF Unreadable(db) THEN "Corrupt" ELSE "ok"
    BY <1>7 DEF ReadyFailure
  <2>2. config \in Doc BY <1>1, <1>7 DEF Schema
  <2>3. QED BY <2>1, <2>2 DEF Result, Unreadable, TypeDisk
<1>8. QED BY <1>3, <1>4, <1>5, <1>6, <1>7

\* The journal of an initialization.
LEMMA FreshJournalType ==
    ASSUME NEW i \in Nat
    PROVE  LET j == FreshJournal(i)
           IN  /\ j \in Journal /\ j # None /\ j.whole /\ ~j.backup
               /\ j.kind = "initialize"
               /\ j.old = None /\ j.oldConfig = None
               /\ j.target.rev = 0 /\ j.target.mig = None /\ j.target.hash = None
               /\ j.target.inc = i
<1>1. None \in Config BY DEF Config
<1>2. /\ NewDb(i, 0, NoProfiles, None) \in Database
      /\ NewDb(i, 0, NoProfiles, None).rev = 0
      /\ NewDb(i, 0, NoProfiles, None).mig = None
      /\ NewDb(i, 0, NoProfiles, None).inc = i
  BY <1>1, NewDbType, SMTT(60)
<1>3. /\ Mark(NewDb(i, 0, NoProfiles, None), FALSE) \in Fingerprint
      /\ Mark(NewDb(i, 0, NoProfiles, None), FALSE).rev = 0
      /\ Mark(NewDb(i, 0, NoProfiles, None), FALSE).mig = None
      /\ Mark(NewDb(i, 0, NoProfiles, None), FALSE).hash = None
      /\ Mark(NewDb(i, 0, NoProfiles, None), FALSE).inc = i
  BY <1>2, MarkType
<1>4. Canonical(DefaultApp) \in Doc BY CanonicalType
<1>5. FreshJournal(i) \in Journal BY <1>1, <1>3, <1>4 DEF FreshJournal, Journal
<1>6. QED BY <1>3, <1>5 DEF FreshJournal

\* The journal of a commit.
LEMMA CommitRecordType ==
    ASSUME config \in Doc, db \in Database, want \in [app : App, prof : Prof]
    PROVE  LET j == CommitRecord
           IN  /\ j \in Journal /\ j # None /\ j.whole /\ ~j.backup
               /\ j.kind = "commit"
               /\ j.oldConfig = config /\ j.newConfig = NewConfig
               /\ j.old = Mark(db, FALSE) /\ j.old # None /\ j.old.hash = None
               /\ j.old.rev = db.rev /\ j.old.mig = db.mig
               /\ j.target.rev = db.rev + 1 /\ j.target.mig = db.mig
               /\ j.target.hash = None
<1>1. SaveDb(db) \in Database /\ SaveDb(db).rev = db.rev + 1
      /\ SaveDb(db).mig = db.mig
  <2>1. /\ db.inc \in Nat /\ db.rev + 1 \in Nat /\ want.prof \in Prof
        /\ db.mig \in Config
    BY DatabaseFields
  <2>2. QED BY <2>1, NewDbType DEF SaveDb
<1>2. /\ Mark(db, FALSE) \in Fingerprint /\ Mark(db, FALSE) # None
      /\ Mark(db, FALSE).rev = db.rev /\ Mark(db, FALSE).mig = db.mig
      /\ Mark(db, FALSE).hash = None
  BY MarkType
<1>3. /\ Mark(SaveDb(db), FALSE) \in Fingerprint
      /\ Mark(SaveDb(db), FALSE).rev = db.rev + 1
      /\ Mark(SaveDb(db), FALSE).mig = db.mig
      /\ Mark(SaveDb(db), FALSE).hash = None
  BY <1>1, MarkType
<1>4. NewConfig \in Doc BY CanonicalType DEF NewConfig
<1>5. CommitRecord \in Journal
  BY <1>2, <1>3, <1>4 DEF CommitRecord, Journal, Config
<1>6. QED BY <1>2, <1>3, <1>5 DEF CommitRecord

\* The journal of a migration, with the backup if a database is replaced.
LEMMA MigrationRecordType ==
    ASSUME config \in Doc, db \in Database \cup {None}, migrating \in Database
    PROVE  LET j == MigrationRecord
           IN  /\ j \in Journal /\ j # None /\ j.whole
               /\ j.backup <=> db # None
               /\ j.kind = "migration"
               /\ j.oldConfig = config /\ j.newConfig = Canonical(config.app)
               /\ db = None => j.old = None
               /\ db # None => j.old = Mark(db, TRUE) /\ j.old # None
                                 /\ j.old.hash = db.prof
               /\ j.target = Mark(migrating, TRUE) /\ j.target.mig = migrating.mig
<1>1. Canonical(config.app) \in Doc BY CanonicalType DEF Doc
<1>2. /\ Mark(migrating, TRUE) \in Fingerprint
      /\ Mark(migrating, TRUE).mig = migrating.mig
  BY MarkType
<1>3. db # None => /\ Mark(db, TRUE) \in Fingerprint /\ Mark(db, TRUE) # None
                   /\ Mark(db, TRUE).hash = db.prof
  BY MarkType
<1>4. MigrationRecord \in Journal
  BY <1>1, <1>2, <1>3 DEF MigrationRecord, Journal, Config
<1>5. QED BY <1>2, <1>3, <1>4 DEF MigrationRecord

\* The database a save writes.
LEMMA SaveDbType ==
    ASSUME db \in Database, want \in [app : App, prof : Prof]
    PROVE  /\ SaveDb(db) \in Database /\ SaveDb(db) # None /\ SaveDb(db).ok
           /\ SaveDb(db).rev = db.rev + 1 /\ SaveDb(db).mig = db.mig
           /\ SaveDb(db).inc = db.inc /\ SaveDb(db).prof = want.prof
<1>1. /\ db.inc \in Nat /\ db.rev + 1 \in Nat /\ want.prof \in Prof
      /\ db.mig \in Config
  BY DatabaseFields
<1>2. QED BY <1>1, NewDbType DEF SaveDb


\* The journal a migration writes is sound: the database it starts from matches
\* the recorded one and, if there is one, is the backup's.
LEMMA MigrationRecordSound ==
    ASSUME IInv, pc = "mig_journal"
    PROVE  /\ MigrationRecord \in Journal /\ MigrationRecord # None
           /\ MigrationRecord.whole /\ MigrationRecord.kind = "migration"
           /\ MigrationRecord.oldConfig = config
           /\ JournalSound(MigrationRecord)
           /\ DatabaseMatches(db, MigrationRecord.old)
           /\ migrating.ok /\ MigrationRecord.target = Mark(migrating, TRUE)
<1>1. /\ config \in Doc /\ config \in v2Backups
      /\ migrating \in Database /\ db \in Database \cup {None}
      /\ migrating = NewDb(migrating.inc, migrating.rev, config.prof, config)
      /\ db # None => db.ok /\ [src |-> config, db |-> db] \in dbBackups
  BY DEF IInv, TypeOK, TypeDisk, Control
<1>2. migrating.ok /\ migrating.mig = config
  <2>1. /\ migrating.inc \in Nat /\ migrating.rev \in Nat /\ config.prof \in Prof
        /\ config \in Config
    BY <1>1, DatabaseFields DEF Doc, Config
  <2>2. QED BY <1>1, <2>1, NewDbType
<1>3. /\ MigrationRecord \in Journal /\ MigrationRecord # None
      /\ MigrationRecord.whole /\ (MigrationRecord.backup <=> db # None)
      /\ MigrationRecord.kind = "migration"
      /\ MigrationRecord.oldConfig = config
      /\ db = None => MigrationRecord.old = None
      /\ db # None => /\ MigrationRecord.old = Mark(db, TRUE)
                      /\ MigrationRecord.old # None
                      /\ MigrationRecord.old.hash = db.prof
      /\ MigrationRecord.target = Mark(migrating, TRUE)
      /\ MigrationRecord.target.mig = config
  BY <1>1, <1>2, MigrationRecordType
<1>4. DatabaseMatches(db, MigrationRecord.old)
  <2>1. CASE db = None BY <1>3, <2>1 DEF DatabaseMatches
  <2>2. CASE db # None BY <1>1, <1>3, <2>2, MatchesOwnMark
  <2>3. QED BY <2>1, <2>2
<1>5. db # None => UsableBackup(MigrationRecord)
  <2>1. SUFFICES ASSUME db # None PROVE UsableBackup(MigrationRecord) OBVIOUS
  <2>2. /\ MigrationRecord.old.inc = db.inc /\ MigrationRecord.old.rev = db.rev
        /\ MigrationRecord.old.mig = db.mig /\ MigrationRecord.old.hash = db.prof
    BY <1>1, <1>3, <2>1, MarkType
  <2>3. BackedUp(MigrationRecord) = db
    BY <1>1, <2>1, <2>2 DEF BackedUp, NewDb, Database
  <2>4. QED BY <1>1, <1>3, <2>1, <2>3 DEF UsableBackup
<1>6. db # None => db.prof \in Prof /\ db.prof # None
  BY <1>1, DatabaseFields
<1>7. JournalSound(MigrationRecord)
  BY <1>1, <1>3, <1>5, <1>6 DEF JournalSound
<1>8. QED BY <1>2, <1>3, <1>4, <1>7

-----------------------------------------------------------------------------
(* Steps that leave the disk alone *)

\* The part of the invariant about the disk holds as long as the disk and the
\* user's edits do not change.
LEMMA DiskFrame ==
    ASSUME IInv, UNCHANGED disk, edits' = edits
    PROVE  TypeDisk' /\ DiskInv'
<1>1. TypeDisk' BY DEF IInv, TypeOK, TypeDisk, disk
<1>2. Origins' BY DEF IInv, DiskInv, Origins, OriginKept, disk
<1>3. Sound' BY DEF IInv, DiskInv, Sound, JournalSound, UsableBackup, BackedUp,
                    NewDb, Readable, Unreadable, disk
<1>4. JournalResolvable'
  BY DEF IInv, DiskInv, JournalResolvable, Readable, disk
<1>5. QED BY <1>1, <1>2, <1>3, <1>4 DEF DiskInv

USE DEF disk, call, memory, limits, Goto, Step, Finish, ClearThen, Throw,
        NoFault, Fault, Start, Unload, EndCall, Resume, Saves

-----------------------------------------------------------------------------
(* The calls *)

\* Load preserves the invariant.
LEMMA LoadStep ==
    ASSUME NEW p \in Proc, IInv, Load(p)
    PROVE  IInv'
<1> USE DEF IInv, TypeOK
<1>1. TypeDisk' /\ DiskInv' BY DiskFrame DEF Load
<1>0. journal # None => journal \in Journal BY DEF TypeDisk
<1>2. TypeCall'
  BY LogicalType DEF Load, TypeCall, Label, Result, DiskInv, TypeMemory
<1>3. TypeMemory' BY DEF Load, TypeMemory
<1>4. TypeLimits' BY DEF Load, TypeLimits
<1>5. Control'
  BY <1>0, JournalFields DEF Load, Control, Underway, TypeCall, Schema
<1>6. Underway'
  BY <1>0, JournalFields DEF Load, Control, Underway, Readable, Unreadable
<1>7. QED BY <1>1, <1>2, <1>3, <1>4, <1>5, <1>6

\* Inspect preserves the invariant.
LEMMA InspectStep ==
    ASSUME NEW p \in Proc, IInv, Inspect(p)
    PROVE  IInv'
<1> USE DEF IInv, TypeOK
<1>1. TypeDisk' /\ DiskInv' BY DiskFrame DEF Inspect
<1>0. journal # None => journal \in Journal BY DEF TypeDisk
<1>2. TypeCall'
  BY LogicalType DEF Inspect, TypeCall, Label, Result, DiskInv, TypeMemory
<1>3. TypeMemory' BY DEF Inspect, TypeMemory
<1>4. TypeLimits' BY DEF Inspect, TypeLimits
<1>5. Control'
  BY <1>0, JournalFields DEF Inspect, Control, Underway, TypeCall, Schema
<1>6. Underway'
  BY <1>0, JournalFields DEF Inspect, Control, Underway, Readable, Unreadable
<1>7. QED BY <1>1, <1>2, <1>3, <1>4, <1>5, <1>6

\* Verify preserves the invariant.
LEMMA VerifyStep ==
    ASSUME NEW p \in Proc, IInv, Verify(p)
    PROVE  IInv'
<1> USE DEF IInv, TypeOK
<1>1. TypeDisk' /\ DiskInv' BY DiskFrame DEF Verify
<1>0. journal # None => journal \in Journal BY DEF TypeDisk
<1>2. TypeCall'
  BY LogicalType DEF Verify, TypeCall, Label, Result, DiskInv, TypeMemory
<1>3. TypeMemory' BY DEF Verify, TypeMemory
<1>4. TypeLimits' BY DEF Verify, TypeLimits
<1>5. Control'
  BY <1>0, JournalFields DEF Verify, Control, Underway, TypeCall, Schema
<1>6. Underway'
  BY <1>0, JournalFields DEF Verify, Control, Underway, Readable, Unreadable
<1>7. QED BY <1>1, <1>2, <1>3, <1>4, <1>5, <1>6

\* Migrate preserves the invariant.
LEMMA MigrateStep ==
    ASSUME NEW p \in Proc, NEW replace \in BOOLEAN, IInv, Migrate(p, replace)
    PROVE  IInv'
<1> USE DEF IInv, TypeOK
<1>1. TypeDisk' /\ DiskInv' BY DiskFrame DEF Migrate
<1>0. journal # None => journal \in Journal BY DEF TypeDisk
<1>2. TypeCall'
  BY LogicalType DEF Migrate, TypeCall, Label, Result, DiskInv, TypeMemory
<1>3. TypeMemory' BY DEF Migrate, TypeMemory
<1>4. TypeLimits' BY DEF Migrate, TypeLimits
<1>5. Control'
  BY <1>0, JournalFields DEF Migrate, Control, Underway, TypeCall, Schema
<1>6. Underway'
  BY <1>0, JournalFields DEF Migrate, Control, Underway, Readable, Unreadable
<1>7. QED BY <1>1, <1>2, <1>3, <1>4, <1>5, <1>6

\* SaveSnapshot preserves the invariant.
LEMMA SaveSnapshotStep ==
    ASSUME NEW p \in Proc, NEW a \in App, NEW r \in Prof, IInv, SaveSnapshot(p, a, r)
    PROVE  IInv'
<1> USE DEF IInv, TypeOK
<1>1. TypeDisk' /\ DiskInv' BY DiskFrame DEF SaveSnapshot
<1>0. journal # None => journal \in Journal BY DEF TypeDisk
<1>2. TypeCall'
  BY LogicalType DEF SaveSnapshot, TypeCall, Label, Result, DiskInv, TypeMemory
<1>3. TypeMemory' BY DEF SaveSnapshot, TypeMemory
<1>4. TypeLimits' BY DEF SaveSnapshot, TypeLimits
<1>5. Control'
  BY <1>0, JournalFields DEF SaveSnapshot, Control, Underway, TypeCall, Schema
<1>6. Underway'
  BY <1>0, JournalFields DEF SaveSnapshot, Control, Underway, Readable, Unreadable
<1>7. QED BY <1>1, <1>2, <1>3, <1>4, <1>5, <1>6

\* SaveDocument preserves the invariant.
LEMMA SaveDocumentStep ==
    ASSUME NEW p \in Proc, NEW a \in App, NEW r \in Prof, IInv, SaveDocument(p, a, r)
    PROVE  IInv'
<1> USE DEF IInv, TypeOK
<1>1. TypeDisk' /\ DiskInv' BY DiskFrame DEF SaveDocument
<1>0. journal # None => journal \in Journal BY DEF TypeDisk
<1>2. TypeCall'
  BY LogicalType DEF SaveDocument, TypeCall, Label, Result, DiskInv, TypeMemory
<1>3. TypeMemory' BY DEF SaveDocument, TypeMemory
<1>4. TypeLimits' BY DEF SaveDocument, TypeLimits
<1>5. Control'
  BY <1>0, JournalFields DEF SaveDocument, Control, Underway, TypeCall, Schema
<1>6. Underway'
  BY <1>0, JournalFields DEF SaveDocument, Control, Underway, Readable, Unreadable
<1>7. QED BY <1>1, <1>2, <1>3, <1>4, <1>5, <1>6

\* Busy preserves the invariant.
LEMMA BusyStep ==
    ASSUME NEW p \in Proc, IInv, Busy(p)
    PROVE  IInv'
<1> USE DEF IInv, TypeOK
<1>1. TypeDisk' /\ DiskInv' BY DiskFrame DEF Busy
<1>0. journal # None => journal \in Journal BY DEF TypeDisk
<1>2. TypeCall'
  BY LogicalType DEF Busy, TypeCall, Label, Result, DiskInv, TypeMemory
<1>3. TypeMemory' BY DEF Busy, TypeMemory
<1>4. TypeLimits' BY DEF Busy, TypeLimits
<1>5. Control'
  BY <1>0, JournalFields DEF Busy, Control, Underway, TypeCall, Schema
<1>6. Underway'
  BY <1>0, JournalFields DEF Busy, Control, Underway, Readable, Unreadable
<1>7. QED BY <1>1, <1>2, <1>3, <1>4, <1>5, <1>6

\* BeginEdit preserves the invariant.
LEMMA BeginEditStep ==
    ASSUME NEW p \in Proc, IInv, BeginEdit(p)
    PROVE  IInv'
<1> USE DEF IInv, TypeOK
<1>1. TypeDisk' /\ DiskInv' BY DiskFrame DEF BeginEdit
<1>0. journal # None => journal \in Journal BY DEF TypeDisk
<1>2. TypeCall'
  BY LogicalType DEF BeginEdit, TypeCall, Label, Result, DiskInv, TypeMemory
<1>3. TypeMemory' BY DEF BeginEdit, TypeMemory
<1>4. TypeLimits' BY DEF BeginEdit, TypeLimits
<1>5. Control'
  BY <1>0, JournalFields DEF BeginEdit, Control, Underway, TypeCall, Schema
<1>6. Underway'
  BY <1>0, JournalFields DEF BeginEdit, Control, Underway, Readable, Unreadable
<1>7. QED BY <1>1, <1>2, <1>3, <1>4, <1>5, <1>6

\* Return preserves the invariant.
LEMMA ReturnStep ==
    ASSUME IInv, Return
    PROVE  IInv'
<1> USE DEF IInv, TypeOK
<1>1. TypeDisk' /\ DiskInv' BY DiskFrame DEF Return
<1>0. journal # None => journal \in Journal BY DEF TypeDisk
<1>2. TypeCall'
  <2>1. before' \in [config : Config, db : Content \cup {None}]
    BY DEF Return, Docs, ContentOf, Config
  <2>2. QED BY <2>1 DEF Return, NoWant, TypeCall, Label, Result
<1>3. TypeMemory' BY DEF Return, TypeMemory
<1>4. TypeLimits' BY DEF Return, TypeLimits
<1>5. Control'
  BY <1>0, JournalFields DEF Return, Control, Underway, TypeCall, Schema
<1>6. Underway'
  BY <1>0, JournalFields DEF Return, Control, Underway, Readable, Unreadable
<1>7. QED BY <1>1, <1>2, <1>3, <1>4, <1>5, <1>6

-----------------------------------------------------------------------------
(* Recovery *)

\* RecoverNothing preserves the invariant.
LEMMA RecoverNothingStep ==
    ASSUME IInv, RecoverNothing
    PROVE  IInv'
<1> USE DEF IInv, TypeOK
<1>1. TypeDisk' /\ DiskInv' BY DiskFrame DEF RecoverNothing
<1>0. journal # None => journal \in Journal BY DEF TypeDisk
<1>2. TypeCall'
  BY LogicalType, ZenonT(60) DEF RecoverNothing, TypeCall, Label, Result, DiskInv, TypeMemory
<1>3. TypeMemory' BY DEF RecoverNothing, TypeMemory
<1>4. TypeLimits' BY DEF RecoverNothing, TypeLimits
<1>5. Control'
  BY <1>0, JournalFields DEF RecoverNothing, Control, Underway, TypeCall, Schema
<1>6. Underway'
  BY <1>0, JournalFields DEF RecoverNothing, Control, Underway, Readable, Unreadable
<1>7. QED BY <1>1, <1>2, <1>3, <1>4, <1>5, <1>6

\* RecoverConfig preserves the invariant.
LEMMA RecoverConfigStep ==
    ASSUME IInv, RecoverConfig
    PROVE  IInv'
<1> USE DEF IInv, TypeOK
<1>0. journal # None => journal \in Journal BY DEF TypeDisk
<1>1. TypeDisk'
  BY <1>0, JournalFields DEF RecoverConfig, TypeDisk, Underway, Config, Readable
<1>2. TypeCall'
  BY LogicalType DEF RecoverConfig, TypeCall, Label, Result, DiskInv, TypeMemory
<1>3. TypeMemory' BY DEF RecoverConfig, TypeMemory
<1>4. TypeLimits' BY DEF RecoverConfig, TypeLimits
<1>5. Control'
  BY <1>0, JournalFields DEF RecoverConfig, Control, Underway, TypeCall, Schema
<1>6. Underway'
  BY <1>0, JournalFields DEF RecoverConfig, Control, Underway, Readable, Unreadable
<1>7. Origins' BY DEF RecoverConfig, DiskInv, Origins, OriginKept
<1>8. Sound'
  BY <1>0, JournalFields DEF RecoverConfig, DiskInv, Sound, JournalSound, UsableBackup,
                    Readable, Unreadable, Underway
<1>9. JournalResolvable'
  BY DEF RecoverConfig, DiskInv, JournalResolvable, ConfigKnown, ConfigIsOld,
              ConfigIsNew, Readable, TypeLimits
<1>10. QED BY <1>1, <1>2, <1>3, <1>4, <1>5, <1>6, <1>7, <1>8, <1>9 DEF DiskInv

\* RecoverBackup preserves the invariant.
LEMMA RecoverBackupStep ==
    ASSUME IInv, RecoverBackup
    PROVE  IInv'
<1> USE DEF IInv, TypeOK
<1>a. JournalSound(journal) /\ journal.backup /\ journal # None /\ journal \in Journal
  BY DEF RecoverBackup, DiskInv, Sound, UsableBackup, Readable, TypeDisk
<1>b. /\ db' \in Database /\ db' # None /\ db'.ok /\ db'.mig = journal.old.mig
      /\ DatabaseMatches(db', journal.old)
      /\ [src |-> journal.oldConfig, db |-> db'] \in dbBackups
  BY <1>a, BackupMatches DEF RecoverBackup
<1>1. TypeDisk' BY <1>b DEF RecoverBackup, TypeDisk
<1>2. TypeCall'
  BY LogicalType DEF RecoverBackup, TypeCall, Label, Result, DiskInv, TypeMemory
<1>3. TypeMemory' BY DEF RecoverBackup, TypeMemory
<1>4. TypeLimits' BY DEF RecoverBackup, TypeLimits
<1>5. Control' BY <1>b DEF RecoverBackup, Control, Schema, Readable
<1>6. Underway' BY <1>a, <1>b DEF RecoverBackup, Control, Underway, Readable
<1>7. Origins'
  <2>1. OriginKept(db') BY <1>b DEF DiskInv, Origins, OriginKept, RecoverBackup
  <2>2. QED BY <2>1 DEF RecoverBackup, DiskInv, Origins, OriginKept
<1>8. Sound'
  <2>1. JournalSound(journal)' BY <1>a DEF RecoverBackup, JournalSound, UsableBackup, BackedUp,
          NewDb
  <2>2. QED BY <1>b, <2>1 DEF RecoverBackup, Sound, Unreadable
<1>9. JournalResolvable'
  BY <1>b DEF RecoverBackup, DiskInv, JournalResolvable, ConfigKnown, ConfigIsOld, ConfigIsNew,
     Readable
<1>10. QED BY <1>1, <1>2, <1>3, <1>4, <1>5, <1>6, <1>7, <1>8, <1>9 DEF DiskInv

\* RestoreConfig preserves the invariant.
LEMMA RestoreConfigStep ==
    ASSUME IInv, RestoreConfig
    PROVE  IInv'
<1> USE DEF IInv, TypeOK
<1>0. journal # None => journal \in Journal BY DEF TypeDisk
<1>1. TypeDisk'
  BY <1>0, JournalFields DEF RestoreConfig, TypeDisk, Underway, Config, Readable
<1>2. TypeCall'
  BY LogicalType DEF RestoreConfig, TypeCall, Label, Result, DiskInv, TypeMemory
<1>3. TypeMemory' BY DEF RestoreConfig, TypeMemory
<1>4. TypeLimits' BY DEF RestoreConfig, TypeLimits
<1>5. Control'
  BY <1>0, JournalFields DEF RestoreConfig, Control, Underway, TypeCall, Schema
<1>6. Underway'
  BY <1>0, JournalFields DEF RestoreConfig, Control, Underway, Unreadable, DatabaseMatches,
     DiskInv, Sound, JournalSound
<1>7. Origins' BY DEF RestoreConfig, DiskInv, Origins, OriginKept
<1>8. Sound'
  BY <1>0, JournalFields DEF RestoreConfig, DiskInv, Sound, JournalSound, UsableBackup,
                    Readable, Unreadable, Underway
<1>9. JournalResolvable'
  BY DEF RestoreConfig, DiskInv, JournalResolvable, ConfigKnown, ConfigIsOld,
              ConfigIsNew, Readable, TypeLimits
<1>10. QED BY <1>1, <1>2, <1>3, <1>4, <1>5, <1>6, <1>7, <1>8, <1>9 DEF DiskInv

\* RecoverRefuses preserves the invariant.
LEMMA RecoverRefusesStep ==
    ASSUME IInv, RecoverRefuses
    PROVE  IInv'
<1> USE DEF IInv, TypeOK
<1>1. TypeDisk' /\ DiskInv' BY DiskFrame DEF RecoverRefuses
<1>0. journal # None => journal \in Journal BY DEF TypeDisk
<1>2. TypeCall'
  BY LogicalType DEF RecoverRefuses, TypeCall, Label, Result, DiskInv, TypeMemory
<1>3. TypeMemory' BY DEF RecoverRefuses, TypeMemory
<1>4. TypeLimits' BY DEF RecoverRefuses, TypeLimits
<1>5. Control'
  BY <1>0, JournalFields DEF RecoverRefuses, Control, Underway, TypeCall, Schema
<1>6. Underway'
  BY <1>0, JournalFields DEF RecoverRefuses, Control, Underway, Readable, Unreadable
<1>7. QED BY <1>1, <1>2, <1>3, <1>4, <1>5, <1>6

\* RecoverFails preserves the invariant.
LEMMA RecoverFailsStep ==
    ASSUME IInv, RecoverFails
    PROVE  IInv'
<1> USE DEF IInv, TypeOK
<1>0. journal # None => journal \in Journal BY DEF TypeDisk
<1>1. TypeDisk'
  BY <1>0, JournalFields DEF RecoverFails, TypeDisk, Underway, Config, Readable
<1>2. TypeCall'
  BY LogicalType DEF RecoverFails, TypeCall, Label, Result, DiskInv, TypeMemory
<1>3. TypeMemory' BY DEF RecoverFails, TypeMemory
<1>4. TypeLimits' BY DEF RecoverFails, TypeLimits
<1>5. Control'
  BY <1>0, JournalFields DEF RecoverFails, Control, Underway, TypeCall, Schema
<1>6. Underway'
  BY <1>0, JournalFields DEF RecoverFails, Control, Underway, Readable, Unreadable
<1>7. Origins' BY DEF RecoverFails, DiskInv, Origins, OriginKept
<1>8. Sound'
  BY <1>0, JournalFields DEF RecoverFails, DiskInv, Sound, JournalSound, UsableBackup,
                    Readable, Unreadable, Underway
<1>9. JournalResolvable'
  BY DEF RecoverFails, DiskInv, JournalResolvable, ConfigKnown, ConfigIsOld,
              ConfigIsNew, Readable, TypeLimits
<1>10. QED BY <1>1, <1>2, <1>3, <1>4, <1>5, <1>6, <1>7, <1>8, <1>9 DEF DiskInv

\* ClearMigrating preserves the invariant.
LEMMA ClearMigratingStep ==
    ASSUME IInv, ClearMigrating
    PROVE  IInv'
<1> USE DEF IInv, TypeOK
<1>0. journal # None => journal \in Journal BY DEF TypeDisk
<1>1. TypeDisk'
  BY <1>0, JournalFields DEF ClearMigrating, TypeDisk, Underway, Config, Readable
<1>2. TypeCall'
  BY LogicalType DEF ClearMigrating, TypeCall, Label, Result, DiskInv, TypeMemory
<1>3. TypeMemory' BY DEF ClearMigrating, TypeMemory
<1>4. TypeLimits' BY DEF ClearMigrating, TypeLimits
<1>5. Control'
  BY <1>0, JournalFields DEF ClearMigrating, Control, Underway, TypeCall, Schema
<1>6. Underway'
  BY <1>0, JournalFields DEF ClearMigrating, Control, Underway, Readable, Unreadable
<1>7. Origins' BY DEF ClearMigrating, DiskInv, Origins, OriginKept
<1>8. Sound'
  BY <1>0, JournalFields DEF ClearMigrating, DiskInv, Sound, JournalSound, UsableBackup,
                    Readable, Unreadable, Underway
<1>9. JournalResolvable'
  BY DEF ClearMigrating, DiskInv, JournalResolvable, ConfigKnown, ConfigIsOld,
              ConfigIsNew, Readable, TypeLimits
<1>10. QED BY <1>1, <1>2, <1>3, <1>4, <1>5, <1>6, <1>7, <1>8, <1>9 DEF DiskInv

\* RemoveFiles preserves the invariant.
LEMMA RemoveFilesStep ==
    ASSUME IInv, RemoveFiles
    PROVE  IInv'
<1> USE DEF IInv, TypeOK
<1>a. journal \in Journal /\ JournalSound(journal)
  BY DEF RemoveFiles, Underway, TypeDisk, DiskInv, Sound
<1>b. /\ journal' \in Journal /\ journal' # None /\ ~journal'.whole
      /\ journal'.kind = journal.kind /\ journal'.backup = journal.backup
      /\ journal'.old = journal.old /\ journal'.target = journal.target
      /\ journal'.oldConfig = journal.oldConfig
      /\ journal'.newConfig = journal.newConfig
  BY <1>a, PartialJournal, JournalFields DEF RemoveFiles
<1>0. journal # None => journal \in Journal BY DEF TypeDisk
<1>1. TypeDisk' BY <1>b DEF RemoveFiles, TypeDisk
<1>2. TypeCall'
  BY LogicalType DEF RemoveFiles, TypeCall, Label, Result, DiskInv, TypeMemory
<1>3. TypeMemory' BY DEF RemoveFiles, TypeMemory
<1>4. TypeLimits' BY DEF RemoveFiles, TypeLimits
<1>5. Control'
  BY <1>0, JournalFields DEF RemoveFiles, Control, Underway, TypeCall, Schema
<1>6. Underway' BY <1>b DEF RemoveFiles, Control, Underway, Unreadable
<1>7. Origins' BY DEF RemoveFiles, DiskInv, Origins, OriginKept
<1>8. Sound'
  <2>1. JournalSound(journal)' BY <1>a, <1>b DEF RemoveFiles, JournalSound, UsableBackup,
          BackedUp, NewDb
  <2>2. QED BY <1>b, <2>1 DEF RemoveFiles, Sound, Underway, Unreadable
<1>9. JournalResolvable' BY <1>b DEF JournalResolvable, Readable
<1>10. QED BY <1>1, <1>2, <1>3, <1>4, <1>5, <1>6, <1>7, <1>8, <1>9 DEF DiskInv

\* RemoveJournal preserves the invariant.
LEMMA RemoveJournalStep ==
    ASSUME IInv, RemoveJournal
    PROVE  IInv'
<1> USE DEF IInv, TypeOK
<1>a. then = "saved" => SnapOf(config, db) \in Snapshot
  BY SnapOfType DEF Control, TypeDisk, Config
<1>0. journal # None => journal \in Journal BY DEF TypeDisk
<1>1. TypeDisk'
  BY <1>0, JournalFields DEF RemoveJournal, TypeDisk, Underway, Config, Readable
<1>2. TypeCall'
  BY LogicalType, ZenonT(60) DEF RemoveJournal, TypeCall, Label, Result, DiskInv, TypeMemory
<1>3. TypeMemory' BY <1>a DEF RemoveJournal, TypeMemory, TypeCall, Control
<1>4. TypeLimits' BY DEF RemoveJournal, TypeLimits
<1>5. Control'
  BY <1>0, JournalFields DEF RemoveJournal, Control, Underway, TypeCall, Schema
<1>6. Underway'
  BY <1>0, JournalFields DEF RemoveJournal, Control, Underway, Readable, Unreadable
<1>7. Origins' BY DEF RemoveJournal, DiskInv, Origins, OriginKept
<1>8. Sound'
  BY <1>0, JournalFields DEF RemoveJournal, DiskInv, Sound, JournalSound, UsableBackup,
                    Readable, Unreadable, Underway
<1>9. JournalResolvable'
  BY DEF RemoveJournal, DiskInv, JournalResolvable, ConfigKnown, ConfigIsOld,
              ConfigIsNew, Readable, TypeLimits
<1>10. QED BY <1>1, <1>2, <1>3, <1>4, <1>5, <1>6, <1>7, <1>8, <1>9 DEF DiskInv

\* ClearFails preserves the invariant.
LEMMA ClearFailsStep ==
    ASSUME IInv, ClearFails
    PROVE  IInv'
<1> USE DEF IInv, TypeOK
<1>0. journal # None => journal \in Journal BY DEF TypeDisk
<1>1. TypeDisk'
  BY <1>0, JournalFields DEF ClearFails, TypeDisk, Underway, Config, Readable
<1>2. TypeCall'
  BY LogicalType DEF ClearFails, TypeCall, Label, Result, DiskInv, TypeMemory
<1>3. TypeMemory' BY DEF ClearFails, TypeMemory
<1>4. TypeLimits' BY DEF ClearFails, TypeLimits
<1>5. Control'
  BY <1>0, JournalFields DEF ClearFails, Control, Underway, TypeCall, Schema
<1>6. Underway'
  BY <1>0, JournalFields DEF ClearFails, Control, Underway, Readable, Unreadable
<1>7. Origins' BY DEF ClearFails, DiskInv, Origins, OriginKept
<1>8. Sound'
  BY <1>0, JournalFields DEF ClearFails, DiskInv, Sound, JournalSound, UsableBackup,
                    Readable, Unreadable, Underway
<1>9. JournalResolvable'
  BY DEF ClearFails, DiskInv, JournalResolvable, ConfigKnown, ConfigIsOld,
              ConfigIsNew, Readable, TypeLimits
<1>10. QED BY <1>1, <1>2, <1>3, <1>4, <1>5, <1>6, <1>7, <1>8, <1>9 DEF DiskInv

-----------------------------------------------------------------------------
(* Loading and initialization *)

\* LoadBody preserves the invariant.
LEMMA LoadBodyStep ==
    ASSUME IInv, LoadBody
    PROVE  IInv'
<1> USE DEF IInv, TypeOK
<1>1. TypeDisk' /\ DiskInv' BY DiskFrame DEF LoadBody
<1>0. journal # None => journal \in Journal BY DEF TypeDisk
<1>2. TypeCall'
  BY LogicalType DEF LoadBody, TypeCall, Label, Result, DiskInv, TypeMemory
<1>3. TypeMemory' BY DEF LoadBody, TypeMemory
<1>4. TypeLimits' BY DEF LoadBody, TypeLimits
<1>5. Control'
  BY <1>0, JournalFields DEF LoadBody, Control, Underway, TypeCall, Schema
<1>6. Underway'
  BY <1>0, JournalFields DEF LoadBody, Control, Underway, Readable, Unreadable
<1>7. QED BY <1>1, <1>2, <1>3, <1>4, <1>5, <1>6

\* InspectBody preserves the invariant.
LEMMA InspectBodyStep ==
    ASSUME IInv, InspectBody
    PROVE  IInv'
<1> USE DEF IInv, TypeOK
<1>1. TypeDisk' /\ DiskInv' BY DiskFrame DEF InspectBody
<1>0. journal # None => journal \in Journal BY DEF TypeDisk
<1>2. TypeCall'
  BY LogicalType DEF InspectBody, TypeCall, Label, Result, DiskInv, TypeMemory
<1>3. TypeMemory' BY DEF InspectBody, TypeMemory
<1>4. TypeLimits' BY DEF InspectBody, TypeLimits
<1>5. Control'
  BY <1>0, JournalFields DEF InspectBody, Control, Underway, TypeCall, Schema
<1>6. Underway'
  BY <1>0, JournalFields DEF InspectBody, Control, Underway, Readable, Unreadable
<1>7. QED BY <1>1, <1>2, <1>3, <1>4, <1>5, <1>6

\* LoadReady preserves the invariant.
LEMMA LoadReadyStep ==
    ASSUME IInv, LoadReady
    PROVE  IInv'
<1> USE DEF IInv, TypeOK
<1>a. ReadyFailure \in Result BY ReadyFailureType
<1>b. ReadyFailure = "ok" => SnapOf(config, db) \in Snapshot
  BY ReadyFailureType, SnapOfType
<1>1. TypeDisk' /\ DiskInv' BY DiskFrame DEF LoadReady
<1>0. journal # None => journal \in Journal BY DEF TypeDisk
<1>2. TypeCall' BY <1>a DEF LoadReady, TypeCall, Label
<1>3. TypeMemory' BY <1>b DEF LoadReady, TypeMemory, TypeCall, Control
<1>4. TypeLimits' BY DEF LoadReady, TypeLimits
<1>5. Control'
  BY <1>0, JournalFields DEF LoadReady, Control, Underway, TypeCall, Schema
<1>6. Underway'
  BY <1>0, JournalFields DEF LoadReady, Control, Underway, Readable, Unreadable
<1>7. QED BY <1>1, <1>2, <1>3, <1>4, <1>5, <1>6

\* BodyFails preserves the invariant.
LEMMA BodyFailsStep ==
    ASSUME IInv, BodyFails
    PROVE  IInv'
<1> USE DEF IInv, TypeOK
<1>1. TypeDisk' /\ DiskInv' BY DiskFrame DEF BodyFails
<1>0. journal # None => journal \in Journal BY DEF TypeDisk
<1>2. TypeCall'
  BY LogicalType DEF BodyFails, TypeCall, Label, Result, DiskInv, TypeMemory
<1>3. TypeMemory' BY DEF BodyFails, TypeMemory
<1>4. TypeLimits' BY DEF BodyFails, TypeLimits
<1>5. Control'
  BY <1>0, JournalFields DEF BodyFails, Control, Underway, TypeCall, Schema
<1>6. Underway'
  BY <1>0, JournalFields DEF BodyFails, Control, Underway, Readable, Unreadable
<1>7. QED BY <1>1, <1>2, <1>3, <1>4, <1>5, <1>6

\* InitJournal preserves the invariant.
LEMMA InitJournalStep ==
    ASSUME IInv, InitJournal
    PROVE  IInv'
<1> USE DEF IInv, TypeOK
<1>a. incs \in Nat BY DEF TypeLimits
<1>1. TypeDisk' BY <1>a, FreshJournalType DEF InitJournal, TypeDisk
<1>2. TypeCall'
  BY LogicalType DEF InitJournal, TypeCall, Label, Result, DiskInv, TypeMemory
<1>3. TypeMemory' BY DEF InitJournal, TypeMemory
<1>4. TypeLimits' BY DEF InitJournal, TypeLimits
<1>5. Control' BY DEF InitJournal, Control, Schema
<1>6. Underway' BY <1>a, FreshJournalType DEF InitJournal, Control, Underway
<1>7. Origins' BY DEF InitJournal, DiskInv, Origins, OriginKept
<1>8. Sound'
  BY <1>a, FreshJournalType DEF InitJournal, Sound, JournalSound, Unreadable
<1>9. JournalResolvable'
  BY <1>a, FreshJournalType DEF InitJournal, JournalResolvable, ConfigKnown, ConfigIsOld,
     ConfigIsNew, Readable, DatabaseMatches
<1>10. QED BY <1>1, <1>2, <1>3, <1>4, <1>5, <1>6, <1>7, <1>8, <1>9 DEF DiskInv

\* InitJournalFails preserves the invariant.
LEMMA InitJournalFailsStep ==
    ASSUME IInv, InitJournalFails
    PROVE  IInv'
<1> USE DEF IInv, TypeOK
<1>a. incs \in Nat /\ journal = None BY DEF TypeLimits, InitJournalFails, Control
<1>1. TypeDisk' BY <1>a, FreshJournalType DEF InitJournalFails, TypeDisk
<1>2. TypeCall'
  BY LogicalType DEF InitJournalFails, TypeCall, Label, Result, DiskInv, TypeMemory
<1>3. TypeMemory' BY DEF InitJournalFails, TypeMemory
<1>4. TypeLimits' BY DEF InitJournalFails, TypeLimits
<1>5. Control' BY DEF InitJournalFails, Control, Schema
<1>6. Underway' BY DEF InitJournalFails, Underway
<1>7. Origins' BY DEF InitJournalFails, DiskInv, Origins, OriginKept
<1>8. Sound'
  BY <1>a, FreshJournalType DEF InitJournalFails, Sound, JournalSound, Unreadable
<1>9. JournalResolvable'
  BY <1>a, FreshJournalType DEF InitJournalFails, JournalResolvable, ConfigKnown, ConfigIsOld,
     ConfigIsNew, Readable, DatabaseMatches
<1>10. QED BY <1>1, <1>2, <1>3, <1>4, <1>5, <1>6, <1>7, <1>8, <1>9 DEF DiskInv

\* InitConfig preserves the invariant.
LEMMA InitConfigStep ==
    ASSUME IInv, InitConfig
    PROVE  IInv'
<1> USE DEF IInv, TypeOK
<1>0. journal # None => journal \in Journal BY DEF TypeDisk
<1>1. TypeDisk'
  BY <1>0, JournalFields DEF InitConfig, TypeDisk, Underway, Config, Readable
<1>2. TypeCall'
  BY LogicalType DEF InitConfig, TypeCall, Label, Result, DiskInv, TypeMemory
<1>3. TypeMemory' BY DEF InitConfig, TypeMemory
<1>4. TypeLimits' BY DEF InitConfig, TypeLimits
<1>5. Control'
  BY <1>0, JournalFields DEF InitConfig, Control, Underway, TypeCall, Schema
<1>6. Underway'
  BY <1>0, JournalFields DEF InitConfig, Control, Underway, Readable, Unreadable
<1>7. Origins' BY DEF InitConfig, DiskInv, Origins, OriginKept
<1>8. Sound'
  BY <1>0, JournalFields DEF InitConfig, DiskInv, Sound, JournalSound, UsableBackup,
                    Readable, Unreadable, Underway
<1>9. JournalResolvable'
  BY DEF InitConfig, DiskInv, JournalResolvable, ConfigKnown, ConfigIsOld,
              ConfigIsNew, Readable, TypeLimits
<1>10. QED BY <1>1, <1>2, <1>3, <1>4, <1>5, <1>6, <1>7, <1>8, <1>9 DEF DiskInv

\* InitCreate preserves the invariant.
LEMMA InitCreateStep ==
    ASSUME IInv, InitCreate
    PROVE  IInv'
<1> USE DEF IInv, TypeOK
<1>a. incs \in Nat BY DEF TypeLimits
<1>b. /\ db' \in Database /\ db' # None /\ ~db'.ok /\ db'.mig = None
      /\ db'.rev = 0 /\ db'.inc = incs
  BY <1>a, HalfDbType DEF InitCreate
<1>c. /\ journal \in Journal /\ journal.whole /\ journal.kind = "initialize"
      /\ journal.target.inc = incs
  BY DEF InitCreate, Underway, TypeDisk
<1>1. TypeDisk' BY <1>b DEF InitCreate, TypeDisk
<1>2. TypeCall'
  BY LogicalType DEF InitCreate, TypeCall, Label, Result, DiskInv, TypeMemory
<1>3. TypeMemory' BY DEF InitCreate, TypeMemory
<1>4. TypeLimits' BY DEF InitCreate, TypeLimits
<1>5. Control' BY <1>b DEF InitCreate, Control, Schema
<1>6. Underway'
  <2>1. journal.target = Mark(HalfDb(incs), FALSE)
    BY <1>a, <1>c, HalfDbType, MarkType, JournalFields, FingerprintFields DEF DiskInv, Sound,
       JournalSound, Fingerprint, Mark
  <2>2. QED BY <1>c, <2>1 DEF InitCreate, Underway
<1>7. Origins'
  <2>1. OriginKept(db') BY <1>b DEF OriginKept
  <2>2. QED BY <2>1 DEF InitCreate, DiskInv, Origins, OriginKept
<1>8. Sound'
  BY <1>b, <1>c DEF InitCreate, DiskInv, Sound, JournalSound, UsableBackup, BackedUp, NewDb,
     Readable, Unreadable
<1>9. JournalResolvable'
  BY <1>b, <1>c DEF InitCreate, DiskInv, JournalResolvable, ConfigKnown, ConfigIsOld,
     ConfigIsNew, Readable, Unreadable
<1>10. QED BY <1>1, <1>2, <1>3, <1>4, <1>5, <1>6, <1>7, <1>8, <1>9 DEF DiskInv

\* InitSchema preserves the invariant.
LEMMA InitSchemaStep ==
    ASSUME IInv, InitSchema
    PROVE  IInv'
<1> USE DEF IInv, TypeOK
<1>a. /\ journal \in Journal /\ journal.whole /\ journal.kind = "initialize"
      /\ db = HalfDb(journal.target.inc) /\ journal.target = Mark(db, FALSE)
  BY DEF InitSchema, Underway, TypeDisk
<1>b. journal.target.inc \in Nat BY <1>a, JournalFields, FingerprintFields
<1>c. /\ db \in Database /\ db.rev = 0 /\ db.mig = None
  BY <1>a, <1>b, HalfDbType
<1>d. /\ db' \in Database /\ db' # None /\ db'.ok
      /\ db'.rev = 0 /\ db'.mig = None
  BY <1>c, NewDbType, DatabaseFields DEF InitSchema
<1>1. TypeDisk' BY <1>d DEF InitSchema, TypeDisk
<1>2. TypeCall'
  BY LogicalType DEF InitSchema, TypeCall, Label, Result, DiskInv, TypeMemory
<1>3. TypeMemory' BY DEF InitSchema, TypeMemory
<1>4. TypeLimits' BY DEF InitSchema, TypeLimits
<1>5. Control' BY <1>d DEF InitSchema, Control, Schema, Underway
<1>6. Underway' BY <1>a, <1>d DEF InitSchema, Underway, Unreadable
<1>7. Origins'
  <2>1. OriginKept(db') BY <1>d DEF OriginKept
  <2>2. QED BY <2>1 DEF InitSchema, DiskInv, Origins, OriginKept
<1>8. Sound'
  BY <1>a, <1>d DEF InitSchema, DiskInv, Sound, JournalSound, UsableBackup, BackedUp, NewDb,
     Readable, Unreadable
<1>9. JournalResolvable'
  <2>1. /\ journal.target # None /\ journal.target.rev = 0
        /\ journal.target.mig = None /\ journal.target.hash = None
    BY <1>a, JournalFields, FingerprintFields DEF DiskInv, Sound, JournalSound
  <2>2. DatabaseMatches(db', journal.target) BY <1>d, <2>1 DEF DatabaseMatches
  <2>3. QED BY <2>2 DEF InitSchema, DiskInv, JournalResolvable, ConfigKnown, ConfigIsOld,
          ConfigIsNew, Readable
<1>10. QED BY <1>1, <1>2, <1>3, <1>4, <1>5, <1>6, <1>7, <1>8, <1>9 DEF DiskInv

\* InitUndoDb preserves the invariant.
LEMMA InitUndoDbStep ==
    ASSUME IInv, InitUndoDb
    PROVE  IInv'
<1> USE DEF IInv, TypeOK
<1>0. journal # None => journal \in Journal BY DEF TypeDisk
<1>1. TypeDisk'
  BY <1>0, JournalFields DEF InitUndoDb, TypeDisk, Underway, Config, Readable
<1>2. TypeCall'
  BY LogicalType DEF InitUndoDb, TypeCall, Label, Result, DiskInv, TypeMemory
<1>3. TypeMemory' BY DEF InitUndoDb, TypeMemory
<1>4. TypeLimits' BY DEF InitUndoDb, TypeLimits
<1>5. Control'
  BY <1>0, JournalFields DEF InitUndoDb, Control, Underway, TypeCall, Schema
<1>6. Underway'
  BY <1>0, JournalFields DEF InitUndoDb, Control, Underway, Readable, Unreadable
<1>7. Origins' BY DEF InitUndoDb, DiskInv, Origins, OriginKept
<1>8. Sound'
  BY <1>0, JournalFields DEF InitUndoDb, DiskInv, Sound, JournalSound, UsableBackup,
                    Readable, Unreadable, Underway
<1>9. JournalResolvable'
  <2>1. journal.old = None /\ db' = None
    BY <1>0 DEF InitUndoDb, Underway, DiskInv, Sound, JournalSound
  <2>2. DatabaseMatches(db', journal.old) BY <2>1 DEF DatabaseMatches
  <2>3. QED BY <2>2 DEF InitUndoDb, DiskInv, JournalResolvable, ConfigKnown, ConfigIsOld,
          ConfigIsNew, Readable
<1>10. QED BY <1>1, <1>2, <1>3, <1>4, <1>5, <1>6, <1>7, <1>8, <1>9 DEF DiskInv

\* InitUndoConfig preserves the invariant.
LEMMA InitUndoConfigStep ==
    ASSUME IInv, InitUndoConfig
    PROVE  IInv'
<1> USE DEF IInv, TypeOK
<1>0. journal # None => journal \in Journal BY DEF TypeDisk
<1>1. TypeDisk'
  BY <1>0, JournalFields DEF InitUndoConfig, TypeDisk, Underway, Config, Readable
<1>2. TypeCall'
  BY LogicalType DEF InitUndoConfig, TypeCall, Label, Result, DiskInv, TypeMemory
<1>3. TypeMemory' BY DEF InitUndoConfig, TypeMemory
<1>4. TypeLimits' BY DEF InitUndoConfig, TypeLimits
<1>5. Control'
  BY <1>0, JournalFields DEF InitUndoConfig, Control, Underway, TypeCall, Schema
<1>6. Underway'
  BY <1>0, JournalFields DEF InitUndoConfig, Control, Underway, Readable, Unreadable
<1>7. Origins' BY DEF InitUndoConfig, DiskInv, Origins, OriginKept
<1>8. Sound'
  BY <1>0, JournalFields DEF InitUndoConfig, DiskInv, Sound, JournalSound, UsableBackup,
                    Readable, Unreadable, Underway
<1>9. JournalResolvable'
  BY DEF InitUndoConfig, DiskInv, JournalResolvable, ConfigKnown, ConfigIsOld,
              ConfigIsNew, Readable, TypeLimits
<1>10. QED BY <1>1, <1>2, <1>3, <1>4, <1>5, <1>6, <1>7, <1>8, <1>9 DEF DiskInv

\* InitFails preserves the invariant.
LEMMA InitFailsStep ==
    ASSUME IInv, InitFails
    PROVE  IInv'
<1> USE DEF IInv, TypeOK
<1>0. journal # None => journal \in Journal BY DEF TypeDisk
<1>1. TypeDisk'
  BY <1>0, JournalFields DEF InitFails, TypeDisk, Underway, Config, Readable
<1>2. TypeCall'
  BY LogicalType DEF InitFails, TypeCall, Label, Result, DiskInv, TypeMemory
<1>3. TypeMemory' BY DEF InitFails, TypeMemory
<1>4. TypeLimits' BY DEF InitFails, TypeLimits
<1>5. Control'
  BY <1>0, JournalFields DEF InitFails, Control, Underway, TypeCall, Schema
<1>6. Underway'
  BY <1>0, JournalFields DEF InitFails, Control, Underway, Readable, Unreadable
<1>7. Origins' BY DEF InitFails, DiskInv, Origins, OriginKept
<1>8. Sound'
  BY <1>0, JournalFields DEF InitFails, DiskInv, Sound, JournalSound, UsableBackup,
                    Readable, Unreadable, Underway
<1>9. JournalResolvable'
  BY DEF InitFails, DiskInv, JournalResolvable, ConfigKnown, ConfigIsOld,
              ConfigIsNew, Readable, TypeLimits
<1>10. QED BY <1>1, <1>2, <1>3, <1>4, <1>5, <1>6, <1>7, <1>8, <1>9 DEF DiskInv

-----------------------------------------------------------------------------
(* Saving *)

\* SaveRefused preserves the invariant.
LEMMA SaveRefusedStep ==
    ASSUME IInv, SaveRefused
    PROVE  IInv'
<1> USE DEF IInv, TypeOK
<1>1. TypeDisk' /\ DiskInv' BY DiskFrame DEF SaveRefused
<1>0. journal # None => journal \in Journal BY DEF TypeDisk
<1>2. TypeCall' BY ReadyFailureType DEF SaveRefused, TypeCall, Label
<1>3. TypeMemory' BY DEF SaveRefused, TypeMemory
<1>4. TypeLimits' BY DEF SaveRefused, TypeLimits
<1>5. Control'
  BY <1>0, JournalFields DEF SaveRefused, Control, Underway, TypeCall, Schema
<1>6. Underway'
  BY <1>0, JournalFields DEF SaveRefused, Control, Underway, Readable, Unreadable
<1>7. QED BY <1>1, <1>2, <1>3, <1>4, <1>5, <1>6

\* SaveReady preserves the invariant.
LEMMA SaveReadyStep ==
    ASSUME IInv, SaveReady
    PROVE  IInv'
<1> USE DEF IInv, TypeOK
<1>a. config \in Doc /\ config # None /\ db \in Database /\ db # None /\ db.ok
  BY ReadyFailureType, DatabaseFields DEF SaveReady
<1>b. SnapOf(config, db) \in Snapshot BY <1>a, SnapOfType
<1>1. TypeDisk' /\ DiskInv' BY DiskFrame DEF SaveReady
<1>0. journal # None => journal \in Journal BY DEF TypeDisk
<1>2. TypeCall'
  BY LogicalType, ZenonT(60) DEF SaveReady, TypeCall, Label, Result, DiskInv, TypeMemory
<1>3. TypeMemory'
  BY <1>b DEF SaveReady, Current, TypeMemory, TypeCall, Control
<1>4. TypeLimits' BY DEF SaveReady, TypeLimits
<1>5. Control' BY <1>a DEF SaveReady, Control, Schema
<1>6. Underway'
  BY <1>0, JournalFields DEF SaveReady, Control, Underway, Readable, Unreadable
<1>7. QED BY <1>1, <1>2, <1>3, <1>4, <1>5, <1>6

\* SaveOne preserves the invariant.
LEMMA SaveOneStep ==
    ASSUME IInv, SaveOne
    PROVE  IInv'
<1> USE DEF IInv, TypeOK
<1>a. config \in Doc /\ db \in Database /\ want \in [app : App, prof : Prof] /\ db.ok
      /\ journal = None
  BY DEF SaveOne, Control, TypeDisk, TypeCall, Config
<1>b. config' \in Doc /\ config' # None BY <1>a, CanonicalType DEF SaveOne, NewConfig
<1>c. db' \in Database /\ db' # None /\ db'.ok /\ db'.mig = db.mig
  BY <1>a, SaveDbType, DatabaseFields DEF SaveOne
<1>d. SnapOf(config', db') \in Snapshot BY <1>b, <1>c, SnapOfType
<1>1. TypeDisk' BY <1>b, <1>c DEF SaveOne, TypeDisk, Config
<1>2. TypeCall'
  BY LogicalType DEF SaveOne, TypeCall, Label, Result, DiskInv, TypeMemory
<1>3. TypeMemory'
  BY <1>d DEF SaveOne, SavePublished, TypeMemory, TypeCall, Control
<1>4. TypeLimits' BY DEF SaveOne, TypeLimits
<1>5. Control' BY <1>a, <1>b, <1>c DEF SaveOne, Control, Schema
<1>6. Underway' BY DEF SaveOne, Underway
<1>7. Origins'
  <2>1. OriginKept(db') BY <1>a, <1>c, DatabaseFields DEF SaveOne, DiskInv, Origins, OriginKept
  <2>2. QED BY <2>1 DEF SaveOne, DiskInv, Origins, OriginKept
<1>8. Sound' BY <1>a, <1>c DEF SaveOne, Sound, Unreadable
<1>9. JournalResolvable' BY <1>a DEF SaveOne, JournalResolvable, Readable
<1>10. QED BY <1>1, <1>2, <1>3, <1>4, <1>5, <1>6, <1>7, <1>8, <1>9 DEF DiskInv

\* SaveOneFails preserves the invariant.
LEMMA SaveOneFailsStep ==
    ASSUME IInv, SaveOneFails
    PROVE  IInv'
<1> USE DEF IInv, TypeOK
<1>a. config \in Doc /\ want \in [app : App, prof : Prof] /\ journal = None
  BY DEF SaveOneFails, Control, TypeDisk, TypeCall, Config
<1>b. config' \in Doc /\ config' # None BY <1>a, CanonicalType DEF SaveOneFails, NewConfig
<1>0. journal # None => journal \in Journal BY DEF TypeDisk
<1>1. TypeDisk' BY <1>b DEF SaveOneFails, TypeDisk, Config
<1>2. TypeCall'
  BY LogicalType DEF SaveOneFails, TypeCall, Label, Result, DiskInv, TypeMemory
<1>3. TypeMemory' BY DEF SaveOneFails, TypeMemory
<1>4. TypeLimits' BY DEF SaveOneFails, TypeLimits
<1>5. Control' BY <1>a, <1>b DEF SaveOneFails, Control, Schema
<1>6. Underway'
  BY <1>0, JournalFields DEF SaveOneFails, Control, Underway, Readable, Unreadable
<1>7. Origins' BY DEF SaveOneFails, DiskInv, Origins, OriginKept
<1>8. Sound'
  BY <1>0, JournalFields DEF SaveOneFails, DiskInv, Sound, JournalSound, UsableBackup,
                    Readable, Unreadable, Underway
<1>9. JournalResolvable' BY <1>a DEF SaveOneFails, JournalResolvable, Readable
<1>10. QED BY <1>1, <1>2, <1>3, <1>4, <1>5, <1>6, <1>7, <1>8, <1>9 DEF DiskInv

\* CommitJournal preserves the invariant.
LEMMA CommitJournalStep ==
    ASSUME IInv, CommitJournal
    PROVE  IInv'
<1> USE DEF IInv, TypeOK
<1>a. config \in Doc /\ db \in Database /\ want \in [app : App, prof : Prof] /\ db.ok
      /\ journal = None
  BY DEF CommitJournal, Control, TypeDisk, TypeCall, Config
<1>b. /\ CommitRecord \in Journal /\ CommitRecord # None /\ CommitRecord.whole
      /\ ~CommitRecord.backup /\ CommitRecord.kind = "commit"
      /\ CommitRecord.oldConfig = config /\ CommitRecord.newConfig = NewConfig
      /\ CommitRecord.old = Mark(db, FALSE) /\ CommitRecord.old # None
      /\ CommitRecord.old.hash = None /\ CommitRecord.old.rev = db.rev
      /\ CommitRecord.old.mig = db.mig
      /\ CommitRecord.target.rev = db.rev + 1
      /\ CommitRecord.target.mig = db.mig /\ CommitRecord.target.hash = None
  BY <1>a, CommitRecordType
<1>1. TypeDisk' BY <1>a, <1>b DEF CommitJournal, TypeDisk
<1>2. TypeCall'
  BY LogicalType DEF CommitJournal, TypeCall, Label, Result, DiskInv, TypeMemory
<1>3. TypeMemory' BY DEF CommitJournal, TypeMemory
<1>4. TypeLimits' BY DEF CommitJournal, TypeLimits
<1>5. Control' BY <1>a, <1>b DEF CommitJournal, Control, Schema
<1>6. Underway' BY <1>a, <1>b DEF CommitJournal, Underway
<1>7. Origins' BY DEF CommitJournal, DiskInv, Origins, OriginKept
<1>8. Sound'
  <2>1. db.mig # None => db.mig \in v2Backups
    BY <1>a, DatabaseFields DEF DiskInv, Origins, OriginKept
  <2>2. QED BY <1>a, <1>b, <2>1 DEF CommitJournal, Sound, JournalSound, Unreadable
<1>9. JournalResolvable'
  <2>1. DatabaseMatches(db, CommitRecord.old) BY <1>a, <1>b, MatchesOwnMark
  <2>2. QED BY <1>a, <1>b, <2>1 DEF CommitJournal, JournalResolvable, ConfigKnown, ConfigIsOld,
          ConfigIsNew, Readable
<1>10. QED BY <1>1, <1>2, <1>3, <1>4, <1>5, <1>6, <1>7, <1>8, <1>9 DEF DiskInv

\* CommitJournalFails preserves the invariant.
LEMMA CommitJournalFailsStep ==
    ASSUME IInv, CommitJournalFails
    PROVE  IInv'
<1> USE DEF IInv, TypeOK
<1>a. config \in Doc /\ db \in Database /\ want \in [app : App, prof : Prof] /\ db.ok
      /\ journal = None
  BY DEF CommitJournalFails, Control, TypeDisk, TypeCall, Config
<1>b. /\ CommitRecord \in Journal /\ CommitRecord # None /\ CommitRecord.whole
      /\ ~CommitRecord.backup /\ CommitRecord.kind = "commit"
      /\ CommitRecord.oldConfig = config /\ CommitRecord.newConfig = NewConfig
      /\ CommitRecord.old = Mark(db, FALSE) /\ CommitRecord.old # None
      /\ CommitRecord.old.hash = None /\ CommitRecord.old.rev = db.rev
      /\ CommitRecord.old.mig = db.mig
      /\ CommitRecord.target.rev = db.rev + 1
      /\ CommitRecord.target.mig = db.mig /\ CommitRecord.target.hash = None
  BY <1>a, CommitRecordType
<1>1. TypeDisk' BY <1>a, <1>b DEF CommitJournalFails, TypeDisk
<1>2. TypeCall'
  BY LogicalType DEF CommitJournalFails, TypeCall, Label, Result, DiskInv, TypeMemory
<1>3. TypeMemory' BY DEF CommitJournalFails, TypeMemory
<1>4. TypeLimits' BY DEF CommitJournalFails, TypeLimits
<1>5. Control' BY <1>a, <1>b DEF CommitJournalFails, Control, Schema
<1>6. Underway' BY <1>a, <1>b DEF CommitJournalFails, Underway
<1>7. Origins' BY DEF CommitJournalFails, DiskInv, Origins, OriginKept
<1>8. Sound'
  <2>1. db.mig # None => db.mig \in v2Backups
    BY <1>a, DatabaseFields DEF DiskInv, Origins, OriginKept
  <2>2. QED BY <1>a, <1>b, <2>1 DEF CommitJournalFails, Sound, JournalSound, Unreadable
<1>9. JournalResolvable'
  <2>1. DatabaseMatches(db, CommitRecord.old) BY <1>a, <1>b, MatchesOwnMark
  <2>2. QED BY <1>a, <1>b, <2>1 DEF CommitJournalFails, JournalResolvable, ConfigKnown,
          ConfigIsOld, ConfigIsNew, Readable
<1>10. QED BY <1>1, <1>2, <1>3, <1>4, <1>5, <1>6, <1>7, <1>8, <1>9 DEF DiskInv

\* CommitConfig preserves the invariant.
LEMMA CommitConfigStep ==
    ASSUME IInv, CommitConfig
    PROVE  IInv'
<1> USE DEF IInv, TypeOK
<1>0. journal # None => journal \in Journal BY DEF TypeDisk
<1>1. TypeDisk'
  BY <1>0, JournalFields DEF CommitConfig, TypeDisk, Underway, Config, Readable
<1>2. TypeCall'
  BY LogicalType DEF CommitConfig, TypeCall, Label, Result, DiskInv, TypeMemory
<1>3. TypeMemory' BY DEF CommitConfig, TypeMemory
<1>4. TypeLimits' BY DEF CommitConfig, TypeLimits
<1>5. Control'
  BY <1>0, JournalFields DEF CommitConfig, Control, Underway, TypeCall, Schema
<1>6. Underway'
  BY <1>0, JournalFields DEF CommitConfig, Control, Underway, Readable, Unreadable
<1>7. Origins' BY DEF CommitConfig, DiskInv, Origins, OriginKept
<1>8. Sound'
  BY <1>0, JournalFields DEF CommitConfig, DiskInv, Sound, JournalSound, UsableBackup,
                    Readable, Unreadable, Underway
<1>9. JournalResolvable'
  BY DEF CommitConfig, DiskInv, JournalResolvable, ConfigKnown, ConfigIsOld,
              ConfigIsNew, Readable, TypeLimits
<1>10. QED BY <1>1, <1>2, <1>3, <1>4, <1>5, <1>6, <1>7, <1>8, <1>9 DEF DiskInv

\* CommitConfigFails preserves the invariant.
LEMMA CommitConfigFailsStep ==
    ASSUME IInv, CommitConfigFails
    PROVE  IInv'
<1> USE DEF IInv, TypeOK
<1>0. journal # None => journal \in Journal BY DEF TypeDisk
<1>1. TypeDisk'
  BY <1>0, JournalFields DEF CommitConfigFails, TypeDisk, Underway, Config, Readable
<1>2. TypeCall'
  BY LogicalType DEF CommitConfigFails, TypeCall, Label, Result, DiskInv, TypeMemory
<1>3. TypeMemory' BY DEF CommitConfigFails, TypeMemory
<1>4. TypeLimits' BY DEF CommitConfigFails, TypeLimits
<1>5. Control'
  BY <1>0, JournalFields DEF CommitConfigFails, Control, Underway, TypeCall, Schema
<1>6. Underway'
  BY <1>0, JournalFields DEF CommitConfigFails, Control, Underway, Readable, Unreadable
<1>7. Origins' BY DEF CommitConfigFails, DiskInv, Origins, OriginKept
<1>8. Sound'
  BY <1>0, JournalFields DEF CommitConfigFails, DiskInv, Sound, JournalSound, UsableBackup,
                    Readable, Unreadable, Underway
<1>9. JournalResolvable'
  BY DEF CommitConfigFails, DiskInv, JournalResolvable, ConfigKnown, ConfigIsOld,
              ConfigIsNew, Readable, TypeLimits
<1>10. QED BY <1>1, <1>2, <1>3, <1>4, <1>5, <1>6, <1>7, <1>8, <1>9 DEF DiskInv

\* CommitDb preserves the invariant.
LEMMA CommitDbStep ==
    ASSUME IInv, CommitDb
    PROVE  IInv'
<1> USE DEF IInv, TypeOK
<1>a. config \in Doc /\ db \in Database /\ want \in [app : App, prof : Prof] /\ db.ok
      /\ journal \in Journal /\ journal.kind = "commit" /\ journal.whole
      /\ journal.old = Mark(db, FALSE)
  BY DEF CommitDb, Control, Underway, TypeDisk, TypeCall, Config
<1>b. /\ db' \in Database /\ db' # None /\ db'.ok
      /\ db'.rev = db.rev + 1 /\ db'.mig = db.mig
  BY <1>a, SaveDbType DEF CommitDb
<1>1. TypeDisk' BY <1>b DEF CommitDb, TypeDisk
<1>2. TypeCall'
  BY LogicalType DEF CommitDb, TypeCall, Label, Result, DiskInv, TypeMemory
<1>3. TypeMemory' BY DEF CommitDb, TypeMemory
<1>4. TypeLimits' BY DEF CommitDb, TypeLimits
<1>5. Control' BY <1>a, <1>b DEF CommitDb, Control, Schema
<1>6. Underway' BY <1>a, <1>b DEF CommitDb, Underway, Unreadable
<1>7. Origins'
  <2>1. OriginKept(db') BY <1>a, <1>b, DatabaseFields DEF CommitDb, DiskInv, Origins, OriginKept
  <2>2. QED BY <2>1 DEF CommitDb, DiskInv, Origins, OriginKept
<1>8. Sound'
  BY <1>a, <1>b DEF CommitDb, DiskInv, Sound, JournalSound, UsableBackup, BackedUp, NewDb,
     Unreadable
<1>9. JournalResolvable'
  <2>1. /\ journal.target \in Fingerprint
        /\ journal.target.rev = db.rev + 1 /\ journal.target.mig = db.mig
        /\ journal.target.hash = None
    BY <1>a, JournalFields, MarkType, ZenonT(60) DEF DiskInv, Sound, JournalSound
  <2>2. DatabaseMatches(db', journal.target)
    BY <1>b, <2>1, FingerprintFields DEF DatabaseMatches
  <2>3. QED BY <2>2 DEF CommitDb, DiskInv, JournalResolvable, ConfigKnown, ConfigIsOld,
          ConfigIsNew, Readable
<1>10. QED BY <1>1, <1>2, <1>3, <1>4, <1>5, <1>6, <1>7, <1>8, <1>9 DEF DiskInv

\* CommitDbFails preserves the invariant.
LEMMA CommitDbFailsStep ==
    ASSUME IInv, CommitDbFails
    PROVE  IInv'
<1> USE DEF IInv, TypeOK
<1>1. TypeDisk' /\ DiskInv' BY DiskFrame DEF CommitDbFails
<1>0. journal # None => journal \in Journal BY DEF TypeDisk
<1>2. TypeCall'
  BY LogicalType DEF CommitDbFails, TypeCall, Label, Result, DiskInv, TypeMemory
<1>3. TypeMemory' BY DEF CommitDbFails, TypeMemory
<1>4. TypeLimits' BY DEF CommitDbFails, TypeLimits
<1>5. Control'
  BY <1>0, JournalFields DEF CommitDbFails, Control, Underway, TypeCall, Schema
<1>6. Underway'
  BY <1>0, JournalFields DEF CommitDbFails, Control, Underway, Readable, Unreadable
<1>7. QED BY <1>1, <1>2, <1>3, <1>4, <1>5, <1>6

\* CommitUndo preserves the invariant.
LEMMA CommitUndoStep ==
    ASSUME IInv, CommitUndo
    PROVE  IInv'
<1> USE DEF IInv, TypeOK
<1>0. journal # None => journal \in Journal BY DEF TypeDisk
<1>1. TypeDisk'
  BY <1>0, JournalFields DEF CommitUndo, TypeDisk, Underway, Config, Readable
<1>2. TypeCall'
  BY LogicalType DEF CommitUndo, TypeCall, Label, Result, DiskInv, TypeMemory
<1>3. TypeMemory' BY DEF CommitUndo, TypeMemory
<1>4. TypeLimits' BY DEF CommitUndo, TypeLimits
<1>5. Control'
  BY <1>0, JournalFields DEF CommitUndo, Control, Underway, TypeCall, Schema
<1>6. Underway'
  BY <1>0, JournalFields DEF CommitUndo, Control, Underway, Readable, Unreadable
<1>7. Origins' BY DEF CommitUndo, DiskInv, Origins, OriginKept
<1>8. Sound'
  BY <1>0, JournalFields DEF CommitUndo, DiskInv, Sound, JournalSound, UsableBackup,
                    Readable, Unreadable, Underway
<1>9. JournalResolvable'
  BY DEF CommitUndo, DiskInv, JournalResolvable, ConfigKnown, ConfigIsOld,
              ConfigIsNew, Readable, TypeLimits
<1>10. QED BY <1>1, <1>2, <1>3, <1>4, <1>5, <1>6, <1>7, <1>8, <1>9 DEF DiskInv

-----------------------------------------------------------------------------
(* Migration *)

\* MigrateRefused preserves the invariant.
LEMMA MigrateRefusedStep ==
    ASSUME IInv, MigrateRefused
    PROVE  IInv'
<1> USE DEF IInv, TypeOK
<1>1. TypeDisk' /\ DiskInv' BY DiskFrame DEF MigrateRefused
<1>0. journal # None => journal \in Journal BY DEF TypeDisk
<1>2. TypeCall'
  BY LogicalType DEF MigrateRefused, TypeCall, Label, Result, DiskInv, TypeMemory
<1>3. TypeMemory' BY DEF MigrateRefused, TypeMemory
<1>4. TypeLimits' BY DEF MigrateRefused, TypeLimits
<1>5. Control'
  BY <1>0, JournalFields DEF MigrateRefused, Control, Underway, TypeCall, Schema
<1>6. Underway'
  BY <1>0, JournalFields DEF MigrateRefused, Control, Underway, Readable, Unreadable
<1>7. QED BY <1>1, <1>2, <1>3, <1>4, <1>5, <1>6

\* MigrateV3 preserves the invariant.
LEMMA MigrateV3Step ==
    ASSUME IInv, MigrateV3
    PROVE  IInv'
<1> USE DEF IInv, TypeOK
<1>a. ReadyFailure \in Result BY ReadyFailureType
<1>b. ReadyFailure = "ok" => SnapOf(config, db) \in Snapshot
  BY ReadyFailureType, SnapOfType
<1>1. TypeDisk' /\ DiskInv' BY DiskFrame DEF MigrateV3
<1>0. journal # None => journal \in Journal BY DEF TypeDisk
<1>2. TypeCall' BY <1>a, ZenonT(60) DEF MigrateV3, TypeCall, Label, Result
<1>3. TypeMemory'
  BY <1>b DEF MigrateV3, Current, TypeMemory, TypeCall, Control
<1>4. TypeLimits' BY DEF MigrateV3, TypeLimits
<1>5. Control'
  BY <1>0, JournalFields DEF MigrateV3, Control, Underway, TypeCall, Schema
<1>6. Underway'
  BY <1>0, JournalFields DEF MigrateV3, Control, Underway, Readable, Unreadable
<1>7. QED BY <1>1, <1>2, <1>3, <1>4, <1>5, <1>6

\* MigrateBackup preserves the invariant.
LEMMA MigrateBackupStep ==
    ASSUME IInv, MigrateBackup
    PROVE  IInv'
<1> USE DEF IInv, TypeOK
<1>a. config \in Doc /\ journal = None /\ ~Unreadable(db)
  BY DEF MigrateBackup, TypeDisk, Config, Schema, Control, DiskInv, Sound, Readable
<1>0. journal # None => journal \in Journal BY DEF TypeDisk
<1>1. TypeDisk' BY <1>a DEF MigrateBackup, TypeDisk
<1>2. TypeCall'
  BY LogicalType DEF MigrateBackup, TypeCall, Label, Result, DiskInv, TypeMemory
<1>3. TypeMemory' BY DEF MigrateBackup, TypeMemory
<1>4. TypeLimits' BY DEF MigrateBackup, TypeLimits
<1>5. Control' BY <1>a DEF MigrateBackup, Migration, Control, Schema
<1>6. Underway'
  BY <1>0, JournalFields DEF MigrateBackup, Control, Underway, Readable, Unreadable
<1>7. Origins' BY DEF MigrateBackup, DiskInv, Origins, OriginKept
<1>8. Sound'
  BY <1>0, JournalFields DEF MigrateBackup, DiskInv, Sound, JournalSound, UsableBackup,
                    Readable, Unreadable, Underway
<1>9. JournalResolvable'
  BY DEF MigrateBackup, DiskInv, JournalResolvable, ConfigKnown, ConfigIsOld,
              ConfigIsNew, Readable, TypeLimits
<1>10. QED BY <1>1, <1>2, <1>3, <1>4, <1>5, <1>6, <1>7, <1>8, <1>9 DEF DiskInv

\* MigrateBackupDb preserves the invariant.
LEMMA MigrateBackupDbStep ==
    ASSUME IInv, MigrateBackupDb
    PROVE  IInv'
<1> USE DEF IInv, TypeOK
<1>a. /\ config \in Doc /\ journal = None /\ db \in Database /\ db.ok
  BY DEF MigrateBackupDb, TypeDisk, Config, Schema, Control, DiskInv, Sound, Readable, Unreadable
<1>0. journal # None => journal \in Journal BY DEF TypeDisk
<1>1. TypeDisk' BY <1>a DEF MigrateBackupDb, TypeDisk
<1>2. TypeCall'
  BY LogicalType DEF MigrateBackupDb, TypeCall, Label, Result, DiskInv, TypeMemory
<1>3. TypeMemory' BY DEF MigrateBackupDb, TypeMemory
<1>4. TypeLimits' BY DEF MigrateBackupDb, TypeLimits
<1>5. Control' BY <1>a DEF MigrateBackupDb, Control, Schema
<1>6. Underway'
  BY <1>0, JournalFields DEF MigrateBackupDb, Control, Underway, Readable, Unreadable
<1>7. Origins' BY DEF MigrateBackupDb, DiskInv, Origins, OriginKept
<1>8. Sound'
  BY <1>0, JournalFields DEF MigrateBackupDb, DiskInv, Sound, JournalSound, UsableBackup,
                    Readable, Unreadable, Underway
<1>9. JournalResolvable'
  BY DEF MigrateBackupDb, DiskInv, JournalResolvable, ConfigKnown, ConfigIsOld,
              ConfigIsNew, Readable, TypeLimits
<1>10. QED BY <1>1, <1>2, <1>3, <1>4, <1>5, <1>6, <1>7, <1>8, <1>9 DEF DiskInv

\* MigrateCreate preserves the invariant.
LEMMA MigrateCreateStep ==
    ASSUME IInv, MigrateCreate
    PROVE  IInv'
<1> USE DEF IInv, TypeOK
<1>a. incs \in Nat BY DEF TypeLimits
<1>b. migrating' \in Database /\ migrating' # None /\ migrating'.mig = None
  BY <1>a, HalfDbType DEF MigrateCreate
<1>0. journal # None => journal \in Journal BY DEF TypeDisk
<1>1. TypeDisk' BY <1>b DEF MigrateCreate, TypeDisk
<1>2. TypeCall'
  BY LogicalType DEF MigrateCreate, TypeCall, Label, Result, DiskInv, TypeMemory
<1>3. TypeMemory' BY DEF MigrateCreate, TypeMemory
<1>4. TypeLimits' BY DEF MigrateCreate, TypeLimits
<1>5. Control' BY <1>b DEF MigrateCreate, Control, Schema
<1>6. Underway'
  BY <1>0, JournalFields DEF MigrateCreate, Control, Underway, Readable, Unreadable
<1>7. Origins'
  <2>1. OriginKept(migrating') BY <1>b DEF OriginKept
  <2>2. QED BY <2>1 DEF MigrateCreate, DiskInv, Origins, OriginKept
<1>8. Sound'
  BY <1>0, JournalFields DEF MigrateCreate, DiskInv, Sound, JournalSound, UsableBackup,
                    Readable, Unreadable, Underway
<1>9. JournalResolvable'
  BY DEF MigrateCreate, DiskInv, JournalResolvable, ConfigKnown, ConfigIsOld,
              ConfigIsNew, Readable, TypeLimits
<1>10. QED BY <1>1, <1>2, <1>3, <1>4, <1>5, <1>6, <1>7, <1>8, <1>9 DEF DiskInv

\* MigrateBlocked preserves the invariant.
LEMMA MigrateBlockedStep ==
    ASSUME IInv, MigrateBlocked
    PROVE  IInv'
<1> USE DEF IInv, TypeOK
<1>1. TypeDisk' /\ DiskInv' BY DiskFrame DEF MigrateBlocked
<1>0. journal # None => journal \in Journal BY DEF TypeDisk
<1>2. TypeCall'
  BY LogicalType DEF MigrateBlocked, TypeCall, Label, Result, DiskInv, TypeMemory
<1>3. TypeMemory' BY DEF MigrateBlocked, TypeMemory
<1>4. TypeLimits' BY DEF MigrateBlocked, TypeLimits
<1>5. Control'
  BY <1>0, JournalFields DEF MigrateBlocked, Control, Underway, TypeCall, Schema
<1>6. Underway'
  BY <1>0, JournalFields DEF MigrateBlocked, Control, Underway, Readable, Unreadable
<1>7. QED BY <1>1, <1>2, <1>3, <1>4, <1>5, <1>6

\* MigrateImport preserves the invariant.
LEMMA MigrateImportStep ==
    ASSUME IInv, MigrateImport
    PROVE  IInv'
<1> USE DEF IInv, TypeOK
<1>a. config \in Doc /\ config \in v2Backups /\ migrating \in Database
  BY DEF MigrateImport, TypeDisk, Control
<1>b. config.prof \in Prof BY <1>a DEF Doc
<1>d. /\ migrating.inc \in Nat /\ config \in Config
      /\ (IF config.prof = NoProfiles THEN 0 ELSE 1) \in Nat
  BY <1>a, DatabaseFields DEF Config
<1>c. /\ migrating' \in Database /\ migrating' # None
      /\ migrating'.mig = config
      /\ migrating' = NewDb(migrating'.inc, migrating'.rev, config.prof, config)
  BY <1>b, <1>d, NewDbType DEF MigrateImport
<1>0. journal # None => journal \in Journal BY DEF TypeDisk
<1>1. TypeDisk' BY <1>c DEF MigrateImport, TypeDisk
<1>2. TypeCall'
  BY LogicalType DEF MigrateImport, TypeCall, Label, Result, DiskInv, TypeMemory
<1>3. TypeMemory' BY DEF MigrateImport, TypeMemory
<1>4. TypeLimits' BY DEF MigrateImport, TypeLimits
<1>5. Control' BY <1>c DEF MigrateImport, Control, Schema
<1>6. Underway'
  BY <1>0, JournalFields DEF MigrateImport, Control, Underway, Readable, Unreadable
<1>7. Origins'
  <2>1. OriginKept(migrating)'
    BY <1>a, <1>c DEF OriginKept, MigrateImport
  <2>2. QED BY <2>1 DEF MigrateImport, DiskInv, Origins, OriginKept
<1>8. Sound'
  BY <1>0, JournalFields DEF MigrateImport, DiskInv, Sound, JournalSound, UsableBackup,
                    Readable, Unreadable, Underway
<1>9. JournalResolvable'
  BY DEF MigrateImport, DiskInv, JournalResolvable, ConfigKnown, ConfigIsOld,
              ConfigIsNew, Readable, TypeLimits
<1>10. QED BY <1>1, <1>2, <1>3, <1>4, <1>5, <1>6, <1>7, <1>8, <1>9 DEF DiskInv

\* MigrateJournal preserves the invariant.
LEMMA MigrateJournalStep ==
    ASSUME IInv, MigrateJournal
    PROVE  IInv'
<1> USE DEF IInv, TypeOK
<1>a. /\ config \in Doc /\ journal = None /\ ~Unreadable(db)
  BY DEF MigrateJournal, TypeDisk, Config, Control, DiskInv, Sound, Readable, Unreadable
<1>b. pc = "mig_journal" =>
        /\ MigrationRecord \in Journal /\ MigrationRecord # None
        /\ MigrationRecord.whole /\ MigrationRecord.kind = "migration"
        /\ MigrationRecord.oldConfig = config
        /\ JournalSound(MigrationRecord)
        /\ DatabaseMatches(db, MigrationRecord.old)
        /\ migrating.ok /\ MigrationRecord.target = Mark(migrating, TRUE)
  BY MigrationRecordSound
<1>1. TypeDisk' BY <1>b DEF MigrateJournal, TypeDisk
<1>2. TypeCall'
  BY LogicalType DEF MigrateJournal, TypeCall, Label, Result, DiskInv, TypeMemory
<1>3. TypeMemory' BY DEF MigrateJournal, TypeMemory
<1>4. TypeLimits' BY DEF MigrateJournal, TypeLimits
<1>5. Control' BY <1>a, <1>b DEF MigrateJournal, Control, Schema
<1>6. Underway' BY <1>b DEF MigrateJournal, Underway, DatabaseMatches
<1>7. Origins' BY DEF MigrateJournal, DiskInv, Origins, OriginKept
<1>8. Sound'
  <2>1. CASE journal' = MigrationRecord /\ pc = "mig_journal"
    <3>1. JournalSound(journal)'
      BY <1>b, <2>1 DEF MigrateJournal, JournalSound, UsableBackup, BackedUp, NewDb
    <3>2. QED BY <1>a, <3>1 DEF MigrateJournal, Sound, Unreadable
  <2>2. CASE journal' = None BY <1>a, <2>2 DEF MigrateJournal, Sound, Unreadable
  <2>3. QED BY <1>a, <2>1, <2>2 DEF MigrateJournal
<1>9. JournalResolvable'
  BY <1>a, <1>b DEF MigrateJournal, JournalResolvable, ConfigKnown, ConfigIsOld, ConfigIsNew,
     Readable, DatabaseMatches
<1>10. QED BY <1>1, <1>2, <1>3, <1>4, <1>5, <1>6, <1>7, <1>8, <1>9 DEF DiskInv

\* MigrateFails preserves the invariant.
LEMMA MigrateFailsStep ==
    ASSUME IInv, MigrateFails
    PROVE  IInv'
<1> USE DEF IInv, TypeOK
<1>a. /\ config \in Doc /\ journal = None /\ ~Unreadable(db)
  BY DEF MigrateFails, TypeDisk, Config, Control, DiskInv, Sound, Readable, Unreadable
<1>b. pc = "mig_journal" =>
        /\ MigrationRecord \in Journal /\ MigrationRecord # None
        /\ MigrationRecord.whole /\ MigrationRecord.kind = "migration"
        /\ MigrationRecord.oldConfig = config
        /\ JournalSound(MigrationRecord)
        /\ DatabaseMatches(db, MigrationRecord.old)
        /\ migrating.ok /\ MigrationRecord.target = Mark(migrating, TRUE)
  BY MigrationRecordSound
<1>1. TypeDisk' BY <1>a, <1>b DEF MigrateFails, TypeDisk
<1>2. TypeCall'
  BY LogicalType DEF MigrateFails, TypeCall, Label, Result, DiskInv, TypeMemory
<1>3. TypeMemory' BY DEF MigrateFails, TypeMemory
<1>4. TypeLimits' BY DEF MigrateFails, TypeLimits
<1>5. Control' BY <1>a DEF MigrateFails, Control, Schema
<1>6. Underway' BY DEF MigrateFails, Underway
<1>7. Origins' BY DEF MigrateFails, DiskInv, Origins, OriginKept
<1>8. Sound'
  <2>1. CASE journal' = MigrationRecord /\ pc = "mig_journal"
    <3>1. JournalSound(journal)'
      BY <1>b, <2>1 DEF MigrateFails, JournalSound, UsableBackup, BackedUp, NewDb
    <3>2. QED BY <1>a, <3>1 DEF MigrateFails, Sound, Unreadable
  <2>2. CASE journal' = None BY <1>a, <2>2 DEF MigrateFails, Sound, Unreadable
  <2>3. QED BY <1>a, <2>1, <2>2 DEF MigrateFails
<1>9. JournalResolvable'
  BY <1>a, <1>b DEF MigrateFails, JournalResolvable, ConfigKnown, ConfigIsOld, ConfigIsNew,
     Readable, DatabaseMatches
<1>10. QED BY <1>1, <1>2, <1>3, <1>4, <1>5, <1>6, <1>7, <1>8, <1>9 DEF DiskInv

\* MigrateCreateFails preserves the invariant.
LEMMA MigrateCreateFailsStep ==
    ASSUME IInv, MigrateCreateFails
    PROVE  IInv'
<1> USE DEF IInv, TypeOK
<1>1. TypeDisk' /\ DiskInv' BY DiskFrame DEF MigrateCreateFails
<1>0. journal # None => journal \in Journal BY DEF TypeDisk
<1>2. TypeCall'
  BY LogicalType DEF MigrateCreateFails, TypeCall, Label, Result, DiskInv, TypeMemory
<1>3. TypeMemory' BY DEF MigrateCreateFails, TypeMemory
<1>4. TypeLimits' BY DEF MigrateCreateFails, TypeLimits
<1>5. Control'
  BY <1>0, JournalFields DEF MigrateCreateFails, Control, Underway, TypeCall, Schema
<1>6. Underway'
  BY <1>0, JournalFields DEF MigrateCreateFails, Control, Underway, Readable, Unreadable
<1>7. QED BY <1>1, <1>2, <1>3, <1>4, <1>5, <1>6

\* MigrateConfig preserves the invariant.
LEMMA MigrateConfigStep ==
    ASSUME IInv, MigrateConfig
    PROVE  IInv'
<1> USE DEF IInv, TypeOK
<1>0. journal # None => journal \in Journal BY DEF TypeDisk
<1>1. TypeDisk'
  BY <1>0, JournalFields DEF MigrateConfig, TypeDisk, Underway, Config, Readable
<1>2. TypeCall'
  BY LogicalType DEF MigrateConfig, TypeCall, Label, Result, DiskInv, TypeMemory
<1>3. TypeMemory' BY DEF MigrateConfig, TypeMemory
<1>4. TypeLimits' BY DEF MigrateConfig, TypeLimits
<1>5. Control'
  BY <1>0, JournalFields DEF MigrateConfig, Control, Underway, TypeCall, Schema
<1>6. Underway'
  BY <1>0, JournalFields DEF MigrateConfig, Control, Underway, Readable, Unreadable
<1>7. Origins' BY DEF MigrateConfig, DiskInv, Origins, OriginKept
<1>8. Sound'
  BY <1>0, JournalFields DEF MigrateConfig, DiskInv, Sound, JournalSound, UsableBackup,
                    Readable, Unreadable, Underway
<1>9. JournalResolvable'
  BY DEF MigrateConfig, DiskInv, JournalResolvable, ConfigKnown, ConfigIsOld,
              ConfigIsNew, Readable, TypeLimits
<1>10. QED BY <1>1, <1>2, <1>3, <1>4, <1>5, <1>6, <1>7, <1>8, <1>9 DEF DiskInv

\* MigrateMove preserves the invariant.
LEMMA MigrateMoveStep ==
    ASSUME IInv, MigrateMove
    PROVE  IInv'
<1> USE DEF IInv, TypeOK
<1>0. journal # None => journal \in Journal BY DEF TypeDisk
<1>1. TypeDisk'
  BY <1>0, JournalFields DEF MigrateMove, TypeDisk, Underway, Config, Readable
<1>2. TypeCall'
  BY LogicalType DEF MigrateMove, TypeCall, Label, Result, DiskInv, TypeMemory
<1>3. TypeMemory' BY DEF MigrateMove, TypeMemory
<1>4. TypeLimits' BY DEF MigrateMove, TypeLimits
<1>5. Control'
  BY <1>0, JournalFields DEF MigrateMove, Control, Underway, TypeCall, Schema
<1>6. Underway'
  BY <1>0, JournalFields DEF MigrateMove, Control, Underway, Readable, Unreadable
<1>7. Origins' BY DEF MigrateMove, DiskInv, Origins, OriginKept
<1>8. Sound'
  BY <1>0, JournalFields DEF MigrateMove, DiskInv, Sound, JournalSound, UsableBackup,
                    Readable, Unreadable, Underway
<1>9. JournalResolvable'
  <2>1. pc = "mig_move" => /\ migrating \in Database /\ migrating.ok
                          /\ journal.target = Mark(migrating, TRUE)
    BY DEF Control, Underway, TypeDisk
  <2>2. pc = "mig_move" => DatabaseMatches(migrating, journal.target)
    BY <2>1, MatchesOwnMark
  <2>3. QED BY <2>2 DEF MigrateMove, DiskInv, JournalResolvable, ConfigKnown, ConfigIsOld,
                        ConfigIsNew, Readable, Underway
<1>10. QED BY <1>1, <1>2, <1>3, <1>4, <1>5, <1>6, <1>7, <1>8, <1>9 DEF DiskInv

\* MigrateSwitchFails preserves the invariant.
LEMMA MigrateSwitchFailsStep ==
    ASSUME IInv, MigrateSwitchFails
    PROVE  IInv'
<1> USE DEF IInv, TypeOK
<1>0. journal # None => journal \in Journal BY DEF TypeDisk
<1>1. TypeDisk'
  BY <1>0, JournalFields DEF MigrateSwitchFails, TypeDisk, Underway, Config, Readable
<1>2. TypeCall'
  BY LogicalType DEF MigrateSwitchFails, TypeCall, Label, Result, DiskInv, TypeMemory
<1>3. TypeMemory' BY DEF MigrateSwitchFails, TypeMemory
<1>4. TypeLimits' BY DEF MigrateSwitchFails, TypeLimits
<1>5. Control'
  BY <1>0, JournalFields DEF MigrateSwitchFails, Control, Underway, TypeCall, Schema
<1>6. Underway'
  BY <1>0, JournalFields DEF MigrateSwitchFails, Control, Underway, Readable, Unreadable
<1>7. Origins' BY DEF MigrateSwitchFails, DiskInv, Origins, OriginKept
<1>8. Sound'
  BY <1>0, JournalFields DEF MigrateSwitchFails, DiskInv, Sound, JournalSound, UsableBackup,
                    Readable, Unreadable, Underway
<1>9. JournalResolvable'
  <2>1. pc = "mig_move" => /\ migrating \in Database /\ migrating.ok
                          /\ journal.target = Mark(migrating, TRUE)
    BY DEF Control, Underway, TypeDisk
  <2>2. pc = "mig_move" => DatabaseMatches(migrating, journal.target)
    BY <2>1, MatchesOwnMark
  <2>3. QED BY <2>2 DEF MigrateSwitchFails, DiskInv, JournalResolvable, ConfigKnown, ConfigIsOld,
                        ConfigIsNew, Readable, Underway
<1>10. QED BY <1>1, <1>2, <1>3, <1>4, <1>5, <1>6, <1>7, <1>8, <1>9 DEF DiskInv

-----------------------------------------------------------------------------
(* The environment *)

\* Crash preserves the invariant.
LEMMA CrashStep ==
    ASSUME IInv, Crash
    PROVE  IInv'
<1> USE DEF IInv, TypeOK
<1>1. TypeDisk' /\ DiskInv' BY DiskFrame DEF Crash
<1>0. journal # None => journal \in Journal BY DEF TypeDisk
<1>2. TypeCall'
  <2>1. before' \in [config : Config, db : Content \cup {None}]
    BY DEF Crash, Docs, ContentOf, Config
  <2>2. QED BY <2>1 DEF Crash, NoWant, TypeCall, Label, Result
<1>3. TypeMemory' BY DEF Crash, TypeMemory
<1>4. TypeLimits' BY DEF Crash, TypeLimits
<1>5. Control'
  BY <1>0, JournalFields DEF Crash, Control, Underway, TypeCall, Schema
<1>6. Underway'
  BY <1>0, JournalFields DEF Crash, Control, Underway, Readable, Unreadable
<1>7. QED BY <1>1, <1>2, <1>3, <1>4, <1>5, <1>6

\* EditConfig preserves the invariant.
LEMMA EditConfigStep ==
    ASSUME IInv, EditConfig
    PROVE  IInv'
<1> USE DEF IInv, TypeOK
<1>0. journal # None => journal \in Journal BY DEF TypeDisk
<1>1. TypeDisk'
  BY <1>0, JournalFields DEF EditConfig, TypeDisk, Underway, Config, Readable
<1>2. TypeCall'
  BY LogicalType DEF EditConfig, TypeCall, Label, Result, DiskInv, TypeMemory
<1>3. TypeMemory' BY DEF EditConfig, TypeMemory
<1>4. TypeLimits' BY DEF EditConfig, TypeLimits
<1>5. Control'
  BY <1>0, JournalFields DEF EditConfig, Control, Underway, TypeCall, Schema
<1>6. Underway'
  BY <1>0, JournalFields DEF EditConfig, Control, Underway, Readable, Unreadable
<1>7. Origins' BY DEF EditConfig, DiskInv, Origins, OriginKept
<1>8. Sound'
  BY <1>0, JournalFields DEF EditConfig, DiskInv, Sound, JournalSound, UsableBackup,
                    Readable, Unreadable, Underway
<1>9. JournalResolvable'
  BY DEF EditConfig, DiskInv, JournalResolvable, ConfigKnown, ConfigIsOld,
              ConfigIsNew, Readable, TypeLimits
<1>10. QED BY <1>1, <1>2, <1>3, <1>4, <1>5, <1>6, <1>7, <1>8, <1>9 DEF DiskInv

-----------------------------------------------------------------------------
(* The theorems *)

\* A fresh start, or one with only a user's config.json, satisfies the
\* invariant.
LEMMA InitIInv == Init => IInv
<1> SUFFICES ASSUME Init PROVE IInv OBVIOUS
<1>2. None \in Config BY DEF Config
<1>3. TypeDisk BY DEF Init, TypeDisk, Config
<1>4. TypeCall
  BY <1>2 DEF Init, Idle, TypeCall, Saves, Label, Result, NoWant, Docs, ContentOf
<1>5. TypeMemory /\ TypeLimits BY DEF Init, TypeMemory, TypeLimits
<1>6. Control /\ Underway BY DEF Init, Idle, Control, Underway, Saves
<1>7. DiskInv
  BY DEF Init, DiskInv, Origins, OriginKept, Sound, JournalResolvable, Unreadable,
         Readable
<1>8. QED BY <1>3, <1>4, <1>5, <1>6, <1>7 DEF IInv, TypeOK

\* Every step preserves the invariant: one case per action.
LEMMA NextIInv == IInv /\ [Next]_vars => IInv'
<1>1. SUFFICES ASSUME IInv, [Next]_vars PROVE IInv' OBVIOUS
<1>2. CASE Calls
  <2>1. PICK p \in Proc :
          \/ Load(p) \/ Inspect(p) \/ Verify(p)
          \/ \E replace \in BOOLEAN : Migrate(p, replace)
          \/ \E a \in App, r \in Prof :
                SaveSnapshot(p, a, r) \/ SaveDocument(p, a, r)
          \/ Busy(p) \/ BeginEdit(p)
    BY <1>2 DEF Calls
  <2>2. CASE Load(p) \/ Inspect(p) \/ Verify(p) \/ Busy(p) \/ BeginEdit(p)
    BY <1>1, <2>2, LoadStep, InspectStep, VerifyStep, BusyStep, BeginEditStep
  <2>3. CASE \E replace \in BOOLEAN : Migrate(p, replace)
    BY <1>1, <2>3, MigrateStep
  <2>4. CASE \E a \in App, r \in Prof :
                SaveSnapshot(p, a, r) \/ SaveDocument(p, a, r)
    BY <1>1, <2>4, SaveSnapshotStep, SaveDocumentStep
  <2>5. QED BY <2>1, <2>2, <2>3, <2>4
<1>3. CASE Recovery
  BY <1>1, <1>3, RecoverNothingStep, RecoverConfigStep, RecoverBackupStep,
     RestoreConfigStep, RecoverRefusesStep, RecoverFailsStep, ClearMigratingStep,
     RemoveFilesStep, RemoveJournalStep, ClearFailsStep DEF Recovery
<1>4. CASE Loading
  BY <1>1, <1>4, LoadBodyStep, InspectBodyStep, LoadReadyStep, BodyFailsStep,
     InitJournalStep, InitJournalFailsStep, InitConfigStep, InitCreateStep,
     InitSchemaStep, InitUndoDbStep, InitUndoConfigStep, InitFailsStep
  DEF Loading
<1>5. CASE Saving
  BY <1>1, <1>5, SaveRefusedStep, SaveReadyStep, SaveOneStep, SaveOneFailsStep,
     CommitJournalStep, CommitJournalFailsStep, CommitConfigStep,
     CommitConfigFailsStep, CommitDbStep, CommitDbFailsStep, CommitUndoStep
  DEF Saving
<1>6. CASE Migrating
  BY <1>1, <1>6, MigrateRefusedStep, MigrateV3Step, MigrateBackupStep,
     MigrateBackupDbStep, MigrateCreateStep, MigrateBlockedStep,
     MigrateImportStep, MigrateJournalStep, MigrateFailsStep,
     MigrateCreateFailsStep, MigrateConfigStep, MigrateMoveStep,
     MigrateSwitchFailsStep DEF Migrating
<1>7. CASE Return \/ Crash \/ EditConfig
  BY <1>1, <1>7, ReturnStep, CrashStep, EditConfigStep
<1>8. CASE UNCHANGED vars
  <2>1. TypeDisk' /\ DiskInv' BY <1>1, <1>8, DiskFrame DEF vars
  <2>2. UNCHANGED <<config, db, journal, migrating, v2Backups, dbBackups>>
        /\ UNCHANGED <<lock, op, pc, then, err, base, want, inRecovery, before>>
        /\ UNCHANGED <<snap, draft>> /\ UNCHANGED <<faults, edits, incs>>
    BY <1>8 DEF vars
  <2>3. TypeCall' /\ TypeMemory' /\ TypeLimits'
    BY <1>1, <2>2 DEF IInv, TypeOK, TypeCall, TypeMemory, TypeLimits
  <2>4. Control' BY <1>1, <2>2 DEF IInv, Control, Schema
  <2>5. Underway'
    BY <1>1, <2>2 DEF IInv, Underway, Unreadable, DatabaseMatches, HalfDb, Mark
  <2>6. QED BY <2>1, <2>3, <2>4, <2>5 DEF IInv, TypeOK
<1>9. QED BY <1>1, <1>2, <1>3, <1>4, <1>5, <1>6, <1>7, <1>8 DEF Next

\* The inductive invariant holds in every reachable state: what every step of a
\* call relies on, and what every journal records.
THEOREM RepositoryInvariant == Spec => []IInv
<1>1. QED BY InitIInv, NextIInv, PTL DEF Spec

\* Type correctness of the repository: disk, call registers and the memory of
\* every process keep their shape under every call, crash and user edit.
THEOREM RepositoryTypeCorrect == Spec => []TypeOK
<1>1. IInv => TypeOK BY DEF IInv
<1>2. QED BY <1>1, RepositoryInvariant, PTL

\* recover_locked can always decide an interrupted transaction: a journal it
\* can read finds the database at one end of the transaction, and config.json
\* at one of its two versions unless the user edited it.
THEOREM RepositoryJournalResolvable == Spec => []JournalResolvable
<1>1. IInv => JournalResolvable BY DEF IInv, DiskInv
<1>2. QED BY <1>1, RepositoryInvariant, PTL

\* Migration never loses an original: the v2 document behind a migrated
\* database, and the database a migration replaces, are in the backup
\* directory at every moment at which recovery may need them.
THEOREM RepositoryOriginalsRetained == Spec => []OriginalsRetained
<1>1. IInv => OriginalsRetained
  BY DEF IInv, DiskInv, Origins, OriginKept, Sound, JournalSound, Readable,
         OriginalsRetained
<1>2. QED BY <1>1, RepositoryInvariant, PTL
-----------------------------------------------------------------------------
(***************************************************************************)
(* What the repository promises its clients: it implements ConfigRegister, *)
(* its saves tell the truth and lose no update, its snapshots are          *)
(* committed pairs and it destroys nothing it does not know.               *)
(*                                                                         *)
(* IInv says that the disk can always be recovered.  These results need    *)
(* also to know where a call stands: PInv, in six parts, is invariant      *)
(* relative to IInv.                                                       *)
(***************************************************************************)
USE DEF disk, call, memory, limits, Goto, Step, Finish, ClearThen, Throw,
        NoFault, Fault, Start, Unload, EndCall, Resume, Saves

(***************************************************************************)
(* What a call relies on beyond IInv: which documents a journal names,     *)
(* where config.json stands between two steps, what a save is based on and *)
(* which version of a database file a process may still hold.              *)
(***************************************************************************)
Recorded(j) ==
    /\ j.kind = "initialize" => j.oldConfig = None /\ j.newConfig = Canonical(DefaultApp)
    /\ j.kind = "commit" => j.oldConfig # None /\ \E a \in App : j.newConfig = Canonical(a)
    /\ j.kind = "migration" =>
          /\ Schema(j.oldConfig) = "v2" /\ j.newConfig = Canonical(j.oldConfig.app)
          /\ j.target.hash = j.oldConfig.prof

Recording == journal # None => Recorded(journal)

\* A migration that replaces a database by an equal one is undone by recovery
\* as long as its journal is there, although it is complete.
AtEnd ==
    \/ config = journal.oldConfig /\ DatabaseMatches(db, journal.old)
    \/ /\ config = journal.newConfig /\ DatabaseMatches(db, journal.target)
       /\ DatabaseMatches(db, journal.old) => then = "ready" /\ journal.kind = "migration"

Position ==
    /\ pc \in {"init_config", "commit_config", "mig_config"} => config = journal.oldConfig
    /\ pc \in {"init_create", "init_schema", "init_undo", "commit_db", "commit_undo",
               "mig_move"} => config = journal.newConfig
    /\ pc \in {"mig_config", "mig_move"} /\ db # None => journal.old = Mark(db, TRUE)
    /\ pc \in {"clear", "remove"} /\ journal.whole => AtEnd

\* A save works from the files as they are.
SaveBase ==
    /\ pc = "save" => base.config = config /\ base.rev = db.rev
    /\ pc \in {"commit_config", "commit_db", "commit_undo"} =>
          /\ base.config = journal.oldConfig /\ base.rev = db.rev
          /\ journal.newConfig = NewConfig /\ db.prof # want.prof
    /\ op = "save" /\ pc # "done" => base = draft[lock]

Replacing ==
    Readable(journal) /\ journal.backup /\ db # None =>
        db = BackedUp(journal) \/ db.mig = journal.oldConfig

-----------------------------------------------------------------------------
(* Which steps change what *)

\* How the journal may change, and at which step of which call.
LEMMA JournalChanges ==
    ASSUME [Next]_vars
    PROVE  \/ journal' = journal \/ journal' = None
           \/ pc = "body" /\ op = "load" /\ config = None /\ journal' = FreshJournal(incs)
           \/ pc = "save" /\ ConfigChanged /\ ProfilesChanged /\ journal' = CommitRecord
           \/ pc = "mig_journal" /\ journal' = MigrationRecord
           \/ pc = "remove" /\ journal.whole /\ journal' = [journal EXCEPT !.whole = FALSE]
<1>1. CASE UNCHANGED vars BY <1>1 DEF vars
<1>2. ASSUME Calls PROVE journal' = journal
  BY <1>2 DEF Calls, Load, Inspect, Verify, Migrate, SaveSnapshot, SaveDocument, Busy, BeginEdit
<1>3. CASE Recovery
  BY <1>3 DEF Recovery, RecoverNothing, RecoverConfig, RecoverBackup, RestoreConfig,
     RecoverRefuses, RecoverFails, ClearMigrating, RemoveFiles, RemoveJournal, ClearFails
<1>4. CASE Loading
  BY <1>4 DEF Loading, LoadBody, InspectBody, LoadReady, BodyFails, InitJournal,
     InitJournalFails, InitConfig, InitCreate, InitSchema, InitUndoDb, InitUndoConfig, InitFails
<1>5. CASE Saving
  BY <1>5 DEF Saving, SaveRefused, SaveReady, SaveOne, SaveOneFails, CommitJournal,
     CommitJournalFails, CommitConfig, CommitConfigFails, CommitDb, CommitDbFails, CommitUndo
<1>6. CASE Migrating
  BY <1>6 DEF Migrating, MigrateRefused, MigrateV3, MigrateBackup, MigrateBackupDb,
     MigrateCreate, MigrateBlocked, MigrateImport, MigrateJournal, MigrateFails,
     MigrateCreateFails, MigrateConfig, MigrateMove, MigrateSwitchFails
<1>7. CASE Return \/ Crash \/ EditConfig
  BY <1>7 DEF Return, Crash, EditConfig
<1> QED BY <1>1, <1>2, <1>3, <1>4, <1>5, <1>6, <1>7 DEF Next

\* Labels at which nothing is claimed of the documents.
Quiet == {"idle", "recover", "restore", "body", "ready", "done", "mig_backup", "mig_create",
          "mig_import", "mig_journal"}

\* Which actions lead to a label PInv speaks about.
LEMMA PcChanges ==
    ASSUME [Next]_vars
    PROVE  \/ pc' \in Quiet \/ UNCHANGED <<disk, call>>
           \/ RecoverConfig \/ RestoreConfig \/ ClearMigrating \/ RemoveFiles
           \/ InitJournal \/ InitConfig \/ InitCreate \/ InitSchema \/ InitUndoDb
           \/ InitUndoConfig \/ SaveReady \/ CommitJournal \/ CommitConfig \/ CommitDb
           \/ CommitDbFails \/ CommitUndo \/ MigrateJournal \/ MigrateConfig \/ MigrateMove
           \/ EditConfig
<1> USE DEF Quiet
<1>1. CASE UNCHANGED vars BY <1>1 DEF vars
<1>2. ASSUME Calls PROVE pc' \in Quiet \/ UNCHANGED <<disk, call>>
  BY <1>2 DEF Calls, Load, Inspect, Verify, Migrate, SaveSnapshot, SaveDocument, Busy, BeginEdit
<1>3. ASSUME RecoverNothing \/ RecoverBackup \/ RecoverRefuses \/ RecoverFails \/ RemoveJournal
             \/ ClearFails
      PROVE  pc' \in Quiet
  BY <1>3 DEF RecoverNothing, RecoverBackup, RecoverRefuses, RecoverFails, RemoveJournal, ClearFails
<1>4. ASSUME LoadBody \/ InspectBody \/ LoadReady \/ BodyFails \/ InitJournalFails \/ InitFails
      PROVE  pc' \in Quiet
  BY <1>4 DEF LoadBody, InspectBody, LoadReady, BodyFails, InitJournalFails, InitFails
<1>5. ASSUME SaveRefused \/ SaveOne \/ SaveOneFails \/ CommitJournalFails \/ CommitConfigFails
      PROVE  pc' \in Quiet
  BY <1>5 DEF SaveRefused, SaveOne, SaveOneFails, CommitJournalFails, CommitConfigFails
<1>6. ASSUME MigrateRefused \/ MigrateV3 \/ MigrateBackup \/ MigrateBackupDb \/ MigrateCreate
             \/ MigrateBlocked \/ MigrateImport \/ MigrateFails \/ MigrateCreateFails
             \/ MigrateSwitchFails
      PROVE  pc' \in Quiet
  BY <1>6 DEF MigrateRefused, MigrateV3, MigrateBackup, MigrateBackupDb, MigrateCreate,
     MigrateBlocked, MigrateImport, MigrateFails, MigrateCreateFails, MigrateSwitchFails
<1>7. ASSUME Return \/ Crash PROVE pc' \in Quiet
  BY <1>7 DEF Return, Crash
<1> QED BY <1>1, <1>2, <1>3, <1>4, <1>5, <1>6, <1>7
        DEF Next, Recovery, Loading, Saving, Migrating

-----------------------------------------------------------------------------
\* Every journal records the documents its kind calls for.
LEMMA RecordingStep ==
    ASSUME IInv, Recording, [Next]_vars
    PROVE  Recording'
<1>1. CASE journal' = journal \/ journal' = None
  BY <1>1 DEF Recording
<1>2. CASE journal' = FreshJournal(incs)
  BY <1>2 DEF Recording, Recorded, FreshJournal
<1>3. CASE pc = "save" /\ journal' = CommitRecord
  <2>1. config # None /\ want.app \in App BY <1>3 DEF IInv, Control, TypeOK, TypeCall
  <2>2. /\ CommitRecord.kind = "commit" /\ CommitRecord.oldConfig = config
        /\ CommitRecord.newConfig = Canonical(want.app)
    BY DEF CommitRecord, NewConfig
  <2> QED BY <1>3, <2>1, <2>2 DEF Recording, Recorded
<1>4. CASE pc = "mig_journal" /\ journal' = MigrationRecord
  <2>1. /\ MigrationRecord.kind = "migration" /\ MigrationRecord.oldConfig = config
        /\ MigrationRecord.newConfig = Canonical(config.app)
        /\ MigrationRecord.target.hash = migrating.prof
    BY DEF MigrationRecord, Mark
  <2>2. Schema(config) = "v2" BY <1>4 DEF IInv, Control
  <2>3. migrating.prof = config.prof BY <1>4 DEF IInv, Control, NewDb
  <2> QED BY <1>4, <2>1, <2>2, <2>3 DEF Recording, Recorded
<1>5. CASE pc = "remove" /\ journal' = [journal EXCEPT !.whole = FALSE]
  <2>1. journal \in Journal BY <1>5 DEF IInv, Underway, TypeOK, TypeDisk
  <2>2. /\ journal'.kind = journal.kind /\ journal'.oldConfig = journal.oldConfig
        /\ journal'.newConfig = journal.newConfig /\ journal'.target = journal.target
        /\ journal # None
    BY <1>5, <2>1, PartialJournal, JournalFields
  <2> QED BY <2>2 DEF Recording, Recorded
<1> QED BY <1>1, <1>2, <1>3, <1>4, <1>5, JournalChanges

\* Facts the steps below use.
LEMMA DiskFacts ==
    ASSUME IInv
    PROVE  /\ journal # None => journal \in Journal
           /\ db # None => db \in Database
           /\ migrating # None => migrating \in Database
           /\ config = None \/ config \in Doc
           /\ want.app \in App /\ want.prof \in Prof
BY DEF IInv, TypeOK, TypeDisk, TypeCall, Config

\* config.json is at the document the next step expects.
LEMMA PositionStep ==
    ASSUME IInv, Recording, Position, [Next]_vars
    PROVE  Position'
<1> USE DEF Quiet
<1>0. journal # None => /\ journal.whole \in BOOLEAN /\ journal.oldConfig \in Config
                        /\ journal.target \in Fingerprint
                        /\ journal.old \in Fingerprint \cup {None}
  BY DiskFacts, JournalFields
<1>1. CASE pc' \in Quiet
  BY <1>1 DEF Position
<1>2. CASE UNCHANGED <<disk, call>>
  BY <1>2 DEF Position, AtEnd
<1>3. CASE RecoverConfig
  <2>1. /\ pc' = "clear" /\ then' = then /\ UNCHANGED <<journal, db>>
        /\ \/ Undone(journal, config, db) /\ config' = journal.oldConfig
           \/ Done(journal, config, db) /\ config' = journal.newConfig
    BY <1>3 DEF RecoverConfig
  <2> QED BY <2>1 DEF Position, AtEnd, Undone, Done
<1>4. CASE RestoreConfig
  BY <1>4 DEF RestoreConfig, Position, AtEnd, IInv, Underway
<1>5. CASE ClearMigrating
  BY <1>5 DEF ClearMigrating, Position, AtEnd
<1>6. CASE RemoveFiles
  <2>1. pc' = "remove" /\ journal'.whole = FALSE
    BY <1>6, DiskFacts, PartialJournal DEF RemoveFiles, IInv, Underway
  <2> QED BY <2>1 DEF Position
<1>7. CASE InitJournal
  BY <1>7 DEF InitJournal, Position, FreshJournal
<1>8. CASE InitConfig
  BY <1>8 DEF InitConfig, Position
<1>9. CASE InitCreate
  BY <1>9 DEF InitCreate, Position
<1>10. CASE InitSchema
  <2>1. /\ pc' = "clear" /\ UNCHANGED <<journal, config>>
        /\ db' = NewDb(db.inc, db.rev, db.prof, db.mig)
        /\ db = HalfDb(journal.target.inc) /\ journal.target = Mark(db, FALSE)
        /\ journal.kind = "initialize" /\ JournalSound(journal) /\ config = journal.newConfig
    BY <1>10 DEF InitSchema, Position, IInv, Underway, DiskInv, Sound
  <2>2. db \in Database
    <3>1. journal # None BY <1>10 DEF InitSchema, IInv, Underway
    <3>2. journal.target.inc \in Nat BY <1>0, <3>1, FingerprintFields
    <3> QED BY <2>1, <3>2, HalfDbType
  <2>3. /\ db' # None /\ db'.ok /\ db'.rev = db.rev /\ db'.mig = db.mig
    <3>1. db.inc \in Nat /\ db.rev \in Nat /\ db.prof \in Prof /\ db.mig \in Config
      BY <2>2, DatabaseFields
    <3>2. /\ NewDb(db.inc, db.rev, db.prof, db.mig) # None
          /\ NewDb(db.inc, db.rev, db.prof, db.mig).ok
          /\ NewDb(db.inc, db.rev, db.prof, db.mig).rev = db.rev
          /\ NewDb(db.inc, db.rev, db.prof, db.mig).mig = db.mig
      BY <3>1, NewDbType
    <3> QED BY <2>1, <3>2
  <2>4. /\ journal.target # None /\ journal.target.rev = db.rev
        /\ journal.target.mig = db.mig /\ journal.target.hash = None
    BY <2>1, <2>2, MarkType
  <2>5. DatabaseMatches(db', journal.target) /\ ~DatabaseMatches(db', journal.old)
    BY <2>1, <2>3, <2>4 DEF DatabaseMatches, JournalSound
  <2> QED BY <2>1, <2>5 DEF Position, AtEnd
<1>11. CASE InitUndoDb
  BY <1>11 DEF InitUndoDb, Position
<1>12. CASE InitUndoConfig
  <2>1. DatabaseMatches(db, journal.old)
    BY <1>12 DEF InitUndoConfig, IInv, Underway, DiskInv, Sound, JournalSound, DatabaseMatches
  <2> QED BY <1>12, <2>1 DEF InitUndoConfig, Position, AtEnd
<1>13. CASE SaveReady
  BY <1>13 DEF SaveReady, Position
<1>14. CASE CommitJournal
  BY <1>14 DEF CommitJournal, Position, CommitRecord
<1>15. CASE CommitConfig
  BY <1>15 DEF CommitConfig, Position
<1>16. CASE CommitDb
  <2>1. /\ pc' = "clear" /\ UNCHANGED <<journal, config>> /\ db' = SaveDb(db)
        /\ db # None /\ journal.old = Mark(db, FALSE) /\ JournalSound(journal)
        /\ journal.kind = "commit" /\ config = journal.newConfig
        /\ journal \in Journal
    BY <1>16, DiskFacts DEF CommitDb, Position, IInv, Underway, Control, DiskInv, Sound
  <2>2. db \in Database /\ want \in [app : App, prof : Prof]
    BY <2>1, DiskFacts DEF IInv, TypeOK, TypeCall
  <2>3. /\ db' # None /\ db'.ok /\ db'.rev = db.rev + 1 /\ db'.mig = db.mig
    BY <2>1, <2>2, SaveDbType
  <2>4. /\ journal.old # None /\ journal.old.rev = db.rev /\ journal.old.mig = db.mig
        /\ db.rev \in Nat
    BY <2>1, <2>2, MarkType, DatabaseFields
  <2>5. /\ journal.target # None /\ journal.target.rev = db.rev + 1
        /\ journal.target.mig = db.mig /\ journal.target.hash = None
    BY <2>1, <2>4, JournalFields, FingerprintFields DEF JournalSound
  <2>6. DatabaseMatches(db', journal.target)
    BY <2>3, <2>5 DEF DatabaseMatches
  <2>7. ~DatabaseMatches(db', journal.old)
    <3>1. db'.rev # journal.old.rev BY <2>3, <2>4
    <3> QED BY <2>4, <3>1 DEF DatabaseMatches
  <2> QED BY <2>1, <2>6, <2>7 DEF Position, AtEnd
<1>17. CASE CommitDbFails
  BY <1>17 DEF CommitDbFails, Position
<1>18. CASE CommitUndo
  <2>1. DatabaseMatches(db, journal.old)
    <3>1. db \in Database /\ db.ok /\ journal.old = Mark(db, FALSE)
      BY <1>18, DiskFacts DEF CommitUndo, IInv, Underway, Control
    <3> QED BY <3>1, MatchesOwnMark
  <2> QED BY <1>18, <2>1 DEF CommitUndo, Position, AtEnd
<1>19. CASE MigrateJournal
  <2>1. MigrationRecord.oldConfig = config /\ (db # None => MigrationRecord.old = Mark(db, TRUE))
    BY DEF MigrationRecord
  <2> QED BY <1>19, <2>1 DEF MigrateJournal, Position
<1>20. CASE MigrateConfig
  BY <1>20 DEF MigrateConfig, Position
<1>21. CASE MigrateMove
  <2>1. /\ pc' = "clear" /\ then' = "ready" /\ UNCHANGED <<journal, config>> /\ db' = migrating
        /\ config = journal.newConfig /\ migrating \in Database /\ migrating.ok
        /\ journal.target = Mark(migrating, TRUE) /\ journal.kind = "migration"
    BY <1>21, DiskFacts DEF MigrateMove, Position, IInv, Underway, Control
  <2>2. DatabaseMatches(db', journal.target) BY <2>1, MatchesOwnMark
  <2> QED BY <2>1, <2>2 DEF Position, AtEnd
<1>22. CASE EditConfig
  <2>1. pc = "idle" /\ pc' = pc BY <1>22 DEF EditConfig, IInv, Control
  <2> QED BY <2>1 DEF Position
<1> QED BY <1>1, <1>2, <1>3, <1>4, <1>5, <1>6, <1>7, <1>8, <1>9, <1>10, <1>11, <1>12, <1>13,
           <1>14, <1>15, <1>16, <1>17, <1>18, <1>19, <1>20, <1>21, <1>22, PcChanges

\* A call in progress keeps its registers, and the draft a save works from is
\* its process's own.
LEMMA CallKept ==
    ASSUME IInv, [Next]_vars
    PROVE  \/ UNCHANGED <<lock, op, base, want, before>>
              /\ (lock # None => draft'[lock] = draft[lock] \/ pc' = "done")
              /\ (pc = "done" => pc' = "done")
           \/ pc' = "idle"
           \/ pc' = "recover" /\ op' # "save"
           \/ pc' = "recover" /\ op' = "save" /\ base' = draft'[lock']
<1>0. snap \in [Proc -> Snapshot \cup {None}] /\ draft \in [Proc -> Snapshot \cup {None}]
  BY DEF IInv, TypeOK, TypeMemory
<1>1. CASE UNCHANGED vars BY <1>1 DEF vars
<1>2. CASE Calls
  <2>1. ASSUME NEW p \in Proc, Load(p) \/ Inspect(p) \/ Verify(p) PROVE pc' = "recover"
          /\ op' # "save"
    BY <2>1 DEF Load, Inspect, Verify
  <2>2. ASSUME NEW p \in Proc, NEW b \in BOOLEAN, Migrate(p, b) PROVE pc' = "recover"
          /\ op' # "save"
    BY <2>2 DEF Migrate
  <2>3. ASSUME NEW p \in Proc, NEW a, NEW r, SaveSnapshot(p, a, r)
        PROVE  pc' = "recover" /\ op' = "save" /\ base' = draft'[lock']
    BY <2>3 DEF SaveSnapshot
  <2>4. ASSUME NEW p \in Proc, NEW a, NEW r, SaveDocument(p, a, r) PROVE pc' = "recover"
          /\ op' # "save"
    BY <2>4 DEF SaveDocument
  <2>5. ASSUME NEW p \in Proc, Busy(p) \/ BeginEdit(p)
        PROVE  /\ UNCHANGED <<lock, op, base, want, before, pc>>
               /\ lock # None => draft'[lock] = draft[lock]
    <3>1. lock \in Proc \cup {None} BY DEF IInv, TypeOK, TypeCall
    <3> QED BY <1>0, <2>5, <3>1 DEF Busy, BeginEdit
  <2> QED BY <1>2, <2>1, <2>2, <2>3, <2>4, <2>5 DEF Calls
<1>3. CASE Recovery
  BY <1>3 DEF Recovery, RecoverNothing, RecoverConfig, RecoverBackup, RestoreConfig,
     RecoverRefuses, RecoverFails, ClearMigrating, RemoveFiles, RemoveJournal, ClearFails
<1>4. CASE Loading
  BY <1>4 DEF Loading, LoadBody, InspectBody, LoadReady, BodyFails, InitJournal,
     InitJournalFails, InitConfig, InitCreate, InitSchema, InitUndoDb, InitUndoConfig, InitFails
<1>5. CASE Saving
  BY <1>5 DEF Saving, SaveRefused, SaveReady, SaveOne, SaveOneFails, CommitJournal,
     CommitJournalFails, CommitConfig, CommitConfigFails, CommitDb, CommitDbFails, CommitUndo
<1>6. CASE Migrating
  BY <1>6 DEF Migrating, MigrateRefused, MigrateV3, MigrateBackup, MigrateBackupDb,
     MigrateCreate, MigrateBlocked, MigrateImport, MigrateJournal, MigrateFails,
     MigrateCreateFails, MigrateConfig, MigrateMove, MigrateSwitchFails
<1>7. CASE Return \/ Crash \/ EditConfig
  BY <1>7 DEF Return, Crash, EditConfig
<1> QED BY <1>1, <1>2, <1>3, <1>4, <1>5, <1>6, <1>7 DEF Next

\* The token of a save stays the one of the files it works on.
LEMMA SaveBaseStep ==
    ASSUME IInv, SaveBase, [Next]_vars
    PROVE  SaveBase'
<1> USE DEF Quiet
<1>1. op' = "save" /\ pc' # "done" => base' = draft'[lock']
  <2>1. CASE pc' = "idle" BY <2>1, NextIInv DEF IInv, Control
  <2>2. op = "save" => lock # None
    BY DEF IInv, Control
  <2> QED BY <2>1, <2>2, CallKept DEF SaveBase
<1> DEFINE Token == /\ pc = "save" => base.config = config /\ base.rev = db.rev
                    /\ pc \in {"commit_config", "commit_db", "commit_undo"} =>
                          /\ base.config = journal.oldConfig /\ base.rev = db.rev
                          /\ journal.newConfig = NewConfig /\ db.prof # want.prof
<1>2. Token BY DEF SaveBase
<1>3. CASE pc' \in Quiet \cup {"init_config", "init_create", "init_schema", "init_undo", "clear",
                               "remove", "mig_config", "mig_move"}
  BY <1>1, <1>3 DEF SaveBase
<1>4. Token'
  <2>1. CASE UNCHANGED <<disk, call>>
    BY <1>2, <2>1 DEF NewConfig
  <2>2. CASE SaveReady
    BY <2>2 DEF SaveReady, SameRevision, Current, SnapOf
  <2>3. CASE CommitJournal
    <3>1. CommitRecord.oldConfig = config /\ CommitRecord.newConfig = NewConfig
      BY DEF CommitRecord
    <3>2. /\ pc = "save" /\ pc' = "commit_config" /\ journal' = CommitRecord
          /\ UNCHANGED <<db, base, want>> /\ db.prof # want.prof
      BY <2>3 DEF CommitJournal, ProfilesChanged
    <3> QED BY <1>2, <3>1, <3>2 DEF NewConfig
  <2>4. CASE CommitConfig
    BY <1>2, <2>4 DEF CommitConfig, NewConfig
  <2>5. CASE CommitDbFails
    BY <1>2, <2>5 DEF CommitDbFails, NewConfig
  <2>6. CASE pc' \in Quiet BY <2>6
  <2>7. CASE RecoverConfig \/ RestoreConfig \/ ClearMigrating \/ RemoveFiles \/ InitJournal
             \/ InitConfig \/ InitCreate \/ InitSchema \/ InitUndoDb \/ InitUndoConfig
    BY <2>7 DEF RecoverConfig, RestoreConfig, ClearMigrating, RemoveFiles, InitJournal,
                InitConfig, InitCreate, InitSchema, InitUndoDb, InitUndoConfig
  <2>8. CASE CommitDb \/ CommitUndo \/ MigrateJournal \/ MigrateConfig \/ MigrateMove
    BY <2>8 DEF CommitDb, CommitUndo, MigrateJournal, MigrateConfig, MigrateMove
  <2>9. CASE EditConfig
    <3>1. pc' = "idle" BY <2>9 DEF EditConfig, IInv, Control
    <3> QED BY <3>1
  <2> HIDE DEF Token
  <2> QED BY <2>1, <2>2, <2>3, <2>4, <2>5, <2>6, <2>7, <2>8, <2>9, PcChanges
<1> QED BY <1>1, <1>4 DEF SaveBase

\* The database under a journal that names a backup is the one replaced or the
\* one that replaces it.
LEMMA DbChanges ==
    ASSUME IInv, [Next]_vars
    PROVE  \/ db' = db
           \/ RecoverBackup /\ db' = BackedUp(journal)
           \/ InitCreate \/ InitSchema \/ InitUndoDb
           \/ SaveOne /\ db' = SaveDb(db)
           \/ CommitDb
           \/ pc = "mig_move" /\ db' = migrating /\ migrating' = None
              /\ UNCHANGED <<journal, snap, draft, base, incs, edits, config, v2Backups, dbBackups>>
<1>1. CASE UNCHANGED vars BY <1>1 DEF vars
<1>2. CASE Calls
  BY <1>2 DEF Calls, Load, Inspect, Verify, Migrate, SaveSnapshot, SaveDocument, Busy, BeginEdit
<1>3. CASE Recovery
  BY <1>3 DEF Recovery, RecoverNothing, RecoverConfig, RecoverBackup, RestoreConfig,
     RecoverRefuses, RecoverFails, ClearMigrating, RemoveFiles, RemoveJournal, ClearFails
<1>4. CASE Loading
  BY <1>4 DEF Loading, LoadBody, InspectBody, LoadReady, BodyFails, InitJournal,
     InitJournalFails, InitConfig, InitUndoConfig, InitFails
<1>5. CASE Saving
  BY <1>5 DEF Saving, SaveRefused, SaveReady, SaveOne, SaveOneFails, CommitJournal,
     CommitJournalFails, CommitConfig, CommitConfigFails, CommitDbFails, CommitUndo
<1>6. CASE Migrating
  BY <1>6 DEF Migrating, MigrateRefused, MigrateV3, MigrateBackup, MigrateBackupDb,
     MigrateCreate, MigrateBlocked, MigrateImport, MigrateJournal, MigrateFails,
     MigrateCreateFails, MigrateConfig, MigrateMove, MigrateSwitchFails
<1>7. CASE Return \/ Crash \/ EditConfig
  BY <1>7 DEF Return, Crash, EditConfig
<1> QED BY <1>1, <1>2, <1>3, <1>4, <1>5, <1>6, <1>7 DEF Next

\* The replaced database and the one replacing it keep their origin.
LEMMA ReplacingStep ==
    ASSUME IInv, Recording, Position, Replacing, [Next]_vars
    PROVE  Replacing'
<1>1. CASE db' = db
  <2>1. CASE journal' = journal \/ journal' = None
    BY <1>1, <2>1 DEF Replacing, Readable, BackedUp, NewDb
  <2>2. CASE journal' = FreshJournal(incs) \/ journal' = CommitRecord
    <3>1. FreshJournal(incs).backup = FALSE /\ CommitRecord.backup = FALSE
      BY DEF FreshJournal, CommitRecord
    <3> QED BY <2>2, <3>1 DEF Replacing
  <2>3. CASE pc = "mig_journal" /\ journal' = MigrationRecord
    <3> SUFFICES ASSUME db # None PROVE db = BackedUp(MigrationRecord)
      BY <1>1, <2>3 DEF Replacing, BackedUp, NewDb
    <3>1. db \in Database /\ db.ok BY <2>3, DiskFacts DEF IInv, Control
    <3>2. MigrationRecord.old = Mark(db, TRUE) BY DEF MigrationRecord
    <3>3. /\ MigrationRecord.old.inc = db.inc /\ MigrationRecord.old.rev = db.rev
          /\ MigrationRecord.old.mig = db.mig /\ MigrationRecord.old.hash = db.prof
      BY <3>1, <3>2, MarkType, ZenonT(60)
    <3> QED BY <3>1, <3>3 DEF BackedUp, NewDb, Database
  <2>4. CASE pc = "remove" /\ journal' = [journal EXCEPT !.whole = FALSE]
    <3>1. journal \in Journal BY <2>4, DiskFacts DEF IInv, Underway
    <3>2. ~journal'.whole BY <2>4, <3>1, PartialJournal
    <3> QED BY <3>2 DEF Replacing, Readable
  <2> QED BY <2>1, <2>2, <2>3, <2>4, JournalChanges
<1>2. CASE RecoverBackup /\ db' = BackedUp(journal)
  BY <1>2 DEF Replacing, RecoverBackup, BackedUp, NewDb
<1>3. CASE InitCreate \/ InitSchema \/ InitUndoDb
  <2>1. journal' = journal /\ journal.kind = "initialize" /\ JournalSound(journal)
    BY <1>3 DEF InitCreate, InitSchema, InitUndoDb, IInv, Underway, DiskInv, Sound
  <2> QED BY <2>1 DEF Replacing, JournalSound
<1>4. CASE SaveOne
  <2>1. journal' = None BY <1>4 DEF SaveOne, IInv, Control
  <2> QED BY <2>1 DEF Replacing, Readable
<1>5. CASE CommitDb
  <2>1. journal' = journal /\ journal.kind = "commit" /\ JournalSound(journal)
    BY <1>5 DEF CommitDb, IInv, Underway, DiskInv, Sound
  <2> QED BY <2>1 DEF Replacing, JournalSound
<1>6. CASE pc = "mig_move" /\ db' = migrating /\ journal' = journal
  <2>1. /\ journal.target = Mark(migrating, TRUE) /\ migrating \in Database
        /\ JournalSound(journal) /\ journal.kind = "migration"
    BY <1>6, DiskFacts DEF IInv, Underway, Control, DiskInv, Sound
  <2>2. migrating.mig = journal.oldConfig
    <3>1. Mark(migrating, TRUE).mig = migrating.mig BY <2>1, MarkType
    <3> QED BY <2>1, <3>1 DEF JournalSound
  <2> QED BY <1>6, <2>2 DEF Replacing
<1> QED BY <1>1, <1>2, <1>3, <1>4, <1>5, <1>6, DbChanges

-----------------------------------------------------------------------------
(* What a process may hold *)

\* A snapshot enters the memory of a process only when no journal is left, and
\* is then the pair of documents on disk.
LEMMA SnapChanges ==
    ASSUME IInv, [Next]_vars, NEW p \in Proc, snap'[p] # snap[p], snap'[p] # None
    PROVE  /\ journal' = None /\ config' # None /\ db' # None
           /\ snap'[p] = SnapOf(config', db')
<1>0. snap \in [Proc -> Snapshot \cup {None}]
  BY DEF IInv, TypeOK, TypeMemory
<1>1. CASE UNCHANGED snap BY <1>1
<1>2. CASE Calls
  BY <1>0, <1>2 DEF Calls, Load, Inspect, Verify, Migrate, SaveSnapshot, SaveDocument, Busy,
                    BeginEdit
<1>3. CASE Return \/ Crash \/ EditConfig
  BY <1>0, <1>3 DEF Return, Crash, EditConfig
<1>4. ASSUME ReadyFailure = "ok" PROVE config # None /\ db # None
  BY <1>4, ReadyFailureType DEF IInv, TypeOK
<1>5. CASE LoadReady
  <2>1. journal' = None BY <1>5 DEF LoadReady, IInv, Control
  <2>2. /\ ReadyFailure = "ok" /\ UNCHANGED <<config, db>>
        /\ snap' = [snap EXCEPT ![lock] = SnapOf(config, db)]
    BY <1>5 DEF LoadReady
  <2> QED BY <1>0, <1>4, <2>1, <2>2 DEF SnapOf
<1>6. CASE SaveReady
  <2>1. journal' = None BY <1>6 DEF SaveReady, IInv, Control
  <2>2. /\ ReadyFailure = "ok" /\ UNCHANGED <<config, db>>
        /\ snap' = [snap EXCEPT ![lock] = SnapOf(config, db)]
    BY <1>6 DEF SaveReady, Current
  <2> QED BY <1>0, <1>4, <2>1, <2>2 DEF SnapOf
<1>7. CASE MigrateV3
  <2>1. journal' = None BY <1>7 DEF MigrateV3, IInv, Control
  <2>2. /\ ReadyFailure = "ok" /\ UNCHANGED <<config, db>>
        /\ snap' = [snap EXCEPT ![lock] = SnapOf(config, db)]
    BY <1>7 DEF MigrateV3, Current
  <2> QED BY <1>0, <1>4, <2>1, <2>2 DEF SnapOf
<1>8. CASE SaveOne
  <2>1. journal' = None /\ pc = "save" /\ snap' = [snap EXCEPT ![lock] = SnapOf(config', db')]
    BY <1>8 DEF SaveOne, SavePublished, IInv, Control
  <2>2. db \in Database /\ want \in [app : App, prof : Prof]
    BY <2>1, DiskFacts DEF IInv, Control, TypeOK, TypeCall
  <2>3. db' # None
    BY <1>8, <2>2, SaveDbType DEF SaveOne
  <2>4. config' # None
    <3>1. config' = Canonical(want.app) BY <1>8 DEF SaveOne, NewConfig
    <3> QED BY <2>2, <3>1, CanonicalType
  <2> QED BY <1>0, <2>1, <2>3, <2>4
<1>9. CASE RemoveJournal
  <2>1. /\ journal' = None /\ then = "saved" /\ UNCHANGED <<config, db>>
        /\ snap' = [snap EXCEPT ![lock] = SnapOf(config, db)]
    BY <1>9 DEF RemoveJournal
  <2>2. config # None /\ db # None BY <2>1 DEF IInv, Control
  <2> QED BY <1>0, <2>1, <2>2 DEF SnapOf
<1>10. CASE Recovery
  BY <1>9, <1>10 DEF Recovery, RecoverNothing, RecoverConfig, RecoverBackup, RestoreConfig,
     RecoverRefuses, RecoverFails, ClearMigrating, RemoveFiles, ClearFails
<1>11. CASE Loading
  BY <1>5, <1>11 DEF Loading, LoadBody, InspectBody, BodyFails, InitJournal,
     InitJournalFails, InitConfig, InitCreate, InitSchema, InitUndoDb, InitUndoConfig, InitFails
<1>12. CASE Saving
  BY <1>6, <1>8, <1>12 DEF Saving, SaveRefused, SaveOneFails, CommitJournal,
     CommitJournalFails, CommitConfig, CommitConfigFails, CommitDb, CommitDbFails, CommitUndo
<1>13. CASE Migrating
  BY <1>7, <1>13 DEF Migrating, MigrateRefused, MigrateBackup, MigrateBackupDb,
     MigrateCreate, MigrateBlocked, MigrateImport, MigrateJournal, MigrateFails,
     MigrateCreateFails, MigrateConfig, MigrateMove, MigrateSwitchFails
<1>14. CASE UNCHANGED vars BY <1>14 DEF vars
<1> QED BY <1>2, <1>3, <1>10, <1>11, <1>12, <1>13, <1>14 DEF Next

\* Drafts and the base of a save are snapshots their process holds.
LEMMA DraftChanges ==
    ASSUME IInv, [Next]_vars
    PROVE  /\ \A p \in Proc : draft'[p] \in {draft[p], snap[p], None}
           /\ base' = base \/ base' = None
              \/ (\E p \in Proc : base' = draft[p] \/ base' = snap[p])
<1>0. draft \in [Proc -> Snapshot \cup {None}]
  BY DEF IInv, TypeOK, TypeMemory
<1>1. CASE UNCHANGED vars BY <1>1 DEF vars
<1>2. CASE Calls
  BY <1>0, <1>2 DEF Calls, Load, Inspect, Verify, Migrate, SaveSnapshot, SaveDocument, Busy,
                    BeginEdit
<1>3. CASE Recovery
  BY <1>0, <1>3 DEF Recovery, RecoverNothing, RecoverConfig, RecoverBackup, RestoreConfig,
     RecoverRefuses, RecoverFails, ClearMigrating, RemoveFiles, RemoveJournal, ClearFails
<1>4. CASE Loading
  BY <1>0, <1>4 DEF Loading, LoadBody, InspectBody, LoadReady, BodyFails, InitJournal,
     InitJournalFails, InitConfig, InitCreate, InitSchema, InitUndoDb, InitUndoConfig, InitFails
<1>5. CASE Saving
  BY <1>0, <1>5 DEF Saving, SaveRefused, SaveReady, SaveOne, SaveOneFails, CommitJournal,
     CommitJournalFails, CommitConfig, CommitConfigFails, CommitDb, CommitDbFails, CommitUndo,
     SavePublished
<1>6. CASE Migrating
  BY <1>6 DEF Migrating, MigrateRefused, MigrateV3, MigrateBackup, MigrateBackupDb,
     MigrateCreate, MigrateBlocked, MigrateImport, MigrateJournal, MigrateFails,
     MigrateCreateFails, MigrateConfig, MigrateMove, MigrateSwitchFails
<1>7. CASE Return \/ Crash \/ EditConfig
  BY <1>0, <1>7 DEF Return, Crash, EditConfig
<1> QED BY <1>1, <1>2, <1>3, <1>4, <1>5, <1>6, <1>7 DEF Next

\* Every snapshot in the memory of a process or a call.
InMemory == ({snap[p] : p \in Proc} \cup {draft[p] : p \in Proc} \cup {base}) \ {None}

\* Whatever is new in memory is the pair on disk, with no journal left.
LEMMA MemoryChanges ==
    ASSUME IInv, [Next]_vars, NEW s \in InMemory', s \notin InMemory
    PROVE  journal' = None /\ config' # None /\ db' # None /\ s = SnapOf(config', db')
<1>1. CASE s = base'
  BY <1>1, DraftChanges DEF InMemory
<1>2. ASSUME NEW p \in Proc, s = draft'[p] PROVE FALSE
  BY <1>2, DraftChanges DEF InMemory
<1>3. ASSUME NEW p \in Proc, s = snap'[p]
      PROVE  journal' = None /\ config' # None /\ db' # None /\ s = SnapOf(config', db')
  <2>1. s # None BY DEF InMemory
  <2>2. s # snap[p] BY <2>1 DEF InMemory
  <2> QED BY <1>3, <2>1, <2>2, SnapChanges
<1> QED BY <1>1, <1>2, <1>3 DEF InMemory

-----------------------------------------------------------------------------
(* Versions of a database file *)

\* s was read from the file d, at its revision or an earlier one; at the same
\* revision the profiles are the same.
Older(s, d) == s.inc = d.inc => s.rev <= d.rev /\ (s.rev = d.rev => s.prof = d.prof)

Versions ==
    /\ db # None => db.inc < incs
    /\ migrating # None => migrating.inc < incs /\ (db # None => db.inc # migrating.inc)
    /\ \A s \in InMemory :
          /\ s.inc < incs
          /\ db # None => Older(s, db)
          /\ migrating # None => s.inc # migrating.inc
    /\ Readable(journal) /\ journal.backup =>
          /\ journal.old.inc < incs
          /\ migrating # None => journal.old.inc # migrating.inc
          /\ \A s \in InMemory : Older(s, BackedUp(journal))

\* How profiles.db.migrating and the number of files created change.
LEMMA MigratingChanges ==
    ASSUME IInv, [Next]_vars
    PROVE  /\ incs' = incs \/ incs' = incs + 1
           /\ \/ migrating' = migrating \/ migrating' = None
              \/ migrating' = HalfDb(incs) /\ incs' = incs + 1 /\ db' = db
              \/ migrating # None /\ migrating'.inc = migrating.inc /\ db' = db
<1>1. CASE UNCHANGED vars BY <1>1 DEF vars
<1>2. CASE Calls
  BY <1>2 DEF Calls, Load, Inspect, Verify, Migrate, SaveSnapshot, SaveDocument, Busy, BeginEdit
<1>3. CASE Recovery
  BY <1>3 DEF Recovery, RecoverNothing, RecoverConfig, RecoverBackup, RestoreConfig,
     RecoverRefuses, RecoverFails, ClearMigrating, RemoveFiles, RemoveJournal, ClearFails
<1>4. CASE Loading
  BY <1>4 DEF Loading, LoadBody, InspectBody, LoadReady, BodyFails, InitJournal,
     InitJournalFails, InitConfig, InitCreate, InitSchema, InitUndoDb, InitUndoConfig, InitFails
<1>5. CASE Saving
  BY <1>5 DEF Saving, SaveRefused, SaveReady, SaveOne, SaveOneFails, CommitJournal,
     CommitJournalFails, CommitConfig, CommitConfigFails, CommitDb, CommitDbFails, CommitUndo
<1>6. CASE MigrateImport
  <2>1. migrating # None BY <1>6 DEF MigrateImport, IInv, Control
  <2> QED BY <1>6, <2>1 DEF MigrateImport, NewDb
<1>7. CASE Migrating
  BY <1>6, <1>7 DEF Migrating, MigrateRefused, MigrateV3, MigrateBackup, MigrateBackupDb,
     MigrateCreate, MigrateBlocked, MigrateJournal, MigrateFails,
     MigrateCreateFails, MigrateConfig, MigrateMove, MigrateSwitchFails
<1>8. CASE Return \/ Crash \/ EditConfig
  BY <1>8 DEF Return, Crash, EditConfig
<1> QED BY <1>1, <1>2, <1>3, <1>4, <1>5, <1>7, <1>8 DEF Next

\* Where the file in place of profiles.db comes from.
LEMMA FileChanges ==
    ASSUME IInv, Position, [Next]_vars, db' # None
    PROVE  \/ db # None /\ db'.inc = db.inc /\ db'.rev = db.rev /\ db'.prof = db.prof
           \/ db # None /\ db'.inc = db.inc /\ db'.rev = db.rev + 1 /\ migrating' = migrating
           \/ db'.inc = incs /\ incs' = incs + 1 /\ migrating' = migrating
           \/ Readable(journal) /\ journal.backup /\ db' = BackedUp(journal)
              /\ migrating' = migrating
           \/ migrating # None /\ db' = migrating /\ migrating' = None
<1>1. CASE db' = db BY <1>1
<1>2. CASE RecoverBackup /\ db' = BackedUp(journal)
  BY <1>2 DEF RecoverBackup, UsableBackup
<1>3. CASE InitCreate
  BY <1>3, HalfDbType DEF InitCreate, IInv, TypeOK, TypeLimits
<1>4. CASE InitSchema
  <2>1. pc = "init_schema" /\ db' = NewDb(db.inc, db.rev, db.prof, db.mig) /\ migrating' = migrating
    BY <1>4 DEF InitSchema
  <2>2. db # None
    <3>1. journal \in Journal /\ db = HalfDb(journal.target.inc)
      BY <2>1, DiskFacts DEF IInv, Underway
    <3>2. journal.target.inc \in Nat BY <3>1, JournalFields, FingerprintFields
    <3> QED BY <3>1, <3>2, HalfDbType
  <2>3. db'.inc = db.inc /\ db'.rev = db.rev /\ db'.prof = db.prof
    BY <2>1 DEF NewDb
  <2> QED BY <2>1, <2>2, <2>3
<1>5. CASE InitUndoDb BY <1>5 DEF InitUndoDb
<1>6. CASE (SaveOne /\ db' = SaveDb(db)) \/ CommitDb
  <2>1. db # None /\ db' = SaveDb(db) /\ migrating' = migrating
    BY <1>6 DEF SaveOne, CommitDb, IInv, Control
  <2>2. db'.inc = db.inc /\ db'.rev = db.rev + 1 BY <2>1 DEF SaveDb, NewDb
  <2> QED BY <2>1, <2>2
<1>7. CASE pc = "mig_move" /\ db' = migrating /\ migrating' = None
  BY <1>7 DEF IInv, Control
<1> QED BY <1>1, <1>2, <1>3, <1>4, <1>5, <1>6, <1>7, DbChanges

\* A snapshot in memory has numbers for file and revision.
LEMMA HeldType ==
    ASSUME IInv, NEW s \in InMemory
    PROVE  s.inc \in Nat /\ s.rev \in Nat
<1>1. s \in Snapshot BY DEF IInv, TypeOK, TypeMemory, TypeCall, InMemory
<1> QED BY <1>1 DEF Snapshot

\* The part of Versions about the files.
LEMMA FilesStep ==
    ASSUME IInv, Position, Versions, [Next]_vars
    PROVE  /\ db' # None => db'.inc < incs'
           /\ migrating' # None =>
                 migrating'.inc < incs' /\ (db' # None => db'.inc # migrating'.inc)
<1>0. /\ incs \in Nat
      /\ db # None => db.inc \in Nat
      /\ migrating # None => migrating.inc \in Nat
      /\ Readable(journal) /\ journal.backup => journal.old.inc \in Nat
  <2>1. incs \in Nat BY DEF IInv, TypeOK, TypeLimits
  <2>2. ASSUME Readable(journal), journal.backup PROVE journal.old.inc \in Nat
    <3>1. journal.old \in Fingerprint
      BY <2>2, DiskFacts, JournalFields DEF Readable, IInv, DiskInv, Sound, JournalSound
    <3> QED BY <3>1, FingerprintFields
  <2> QED BY <2>1, <2>2, DiskFacts, DatabaseFields
<1>1. /\ db # None => db.inc < incs
      /\ migrating # None => migrating.inc < incs /\ (db # None => db.inc # migrating.inc)
      /\ Readable(journal) /\ journal.backup =>
            /\ journal.old.inc < incs
            /\ migrating # None => journal.old.inc # migrating.inc
  BY DEF Versions
<1>2. /\ incs' = incs \/ incs' = incs + 1
      /\ \/ migrating' = migrating \/ migrating' = None
         \/ migrating' = HalfDb(incs) /\ incs' = incs + 1 /\ db' = db
         \/ migrating # None /\ migrating'.inc = migrating.inc /\ db' = db
  BY MigratingChanges
<1>3. HalfDb(incs).inc = incs BY DEF HalfDb
<1>4. Readable(journal) /\ journal.backup => BackedUp(journal).inc = journal.old.inc
  BY DEF BackedUp, NewDb
<1>5. ASSUME db' # None PROVE db'.inc < incs'
  BY <1>0, <1>1, <1>2, <1>4, <1>5, FileChanges
<1>6. ASSUME migrating' # None PROVE migrating'.inc < incs'
  BY <1>0, <1>1, <1>2, <1>3, <1>6
<1>7. ASSUME migrating' # None, db' # None PROVE db'.inc # migrating'.inc
  <2>1. CASE db' = db BY <1>0, <1>1, <1>2, <1>3, <1>7, <2>1
  <2>2. CASE db' # db /\ migrating' = migrating
    BY <1>0, <1>1, <1>4, <1>7, <2>2, FileChanges
  <2> QED BY <1>2, <1>7, <2>1, <2>2
<1> QED BY <1>5, <1>6, <1>7

\* No process holds a later version of a file than the disk or its backup.
LEMMA VersionsStep ==
    ASSUME IInv, Position, Versions, [Next]_vars
    PROVE  Versions'
<1>0. IInv' BY NextIInv
<1>1. incs \in Nat /\ incs' \in {incs, incs + 1}
  BY MigratingChanges DEF IInv, TypeOK, TypeLimits
<1>2. /\ db # None => db.inc \in Nat /\ db.rev \in Nat
      /\ migrating # None => migrating.inc \in Nat
  BY DiskFacts, DatabaseFields
<1>3. ASSUME NEW s \in InMemory'
      PROVE  /\ s.inc < incs'
             /\ db' # None => Older(s, db')
             /\ migrating' # None => s.inc # migrating'.inc
  <2>1. CASE s \notin InMemory
    <3>1. db' # None /\ s = SnapOf(config', db') BY <2>1, MemoryChanges
    <3>2. s.inc = db'.inc /\ s.rev = db'.rev /\ s.prof = db'.prof BY <3>1 DEF SnapOf
    <3>3. db'.rev \in Nat BY <1>0, <3>1, DatabaseFields DEF IInv, TypeOK, TypeDisk
    <3> QED BY <3>1, <3>2, <3>3, FilesStep DEF Older
  <2>2. CASE s \in InMemory
    <3>0. s.inc \in Nat /\ s.rev \in Nat BY <2>2, HeldType
    <3>1. /\ s.inc < incs
          /\ db # None => Older(s, db)
          /\ migrating # None => s.inc # migrating.inc
          /\ Readable(journal) /\ journal.backup => Older(s, BackedUp(journal))
      BY <2>2 DEF Versions
    <3>2. s.inc < incs' BY <1>1, <3>0, <3>1
    <3>3. ASSUME db' # None PROVE Older(s, db')
      <4>1. CASE db # None /\ db'.inc = db.inc /\ db'.rev = db.rev /\ db'.prof = db.prof
        BY <3>1, <4>1 DEF Older
      <4>2. CASE db # None /\ db'.inc = db.inc /\ db'.rev = db.rev + 1
        BY <1>2, <3>0, <3>1, <4>2 DEF Older
      <4>3. CASE db'.inc = incs
        BY <1>1, <3>0, <3>1, <4>3 DEF Older
      <4>4. CASE Readable(journal) /\ journal.backup /\ db' = BackedUp(journal)
        BY <3>1, <4>4
      <4>5. CASE migrating # None /\ db' = migrating
        BY <3>1, <4>5 DEF Older
      <4> QED BY <3>3, <4>1, <4>2, <4>3, <4>4, <4>5, FileChanges
    <3>4. ASSUME migrating' # None PROVE s.inc # migrating'.inc
      <4>1. HalfDb(incs).inc = incs BY DEF HalfDb
      <4> QED BY <1>1, <3>0, <3>1, <3>4, <4>1, MigratingChanges
    <3> QED BY <3>2, <3>3, <3>4
  <2> QED BY <2>1, <2>2
<1>4. ASSUME Readable(journal)', (journal.backup)'
      PROVE  /\ journal'.old.inc < incs'
             /\ migrating' # None => journal'.old.inc # migrating'.inc
             /\ \A s \in InMemory' : Older(s, BackedUp(journal)')
  <2>0. journal' # None BY <1>4 DEF Readable
  <2>1. \A s \in InMemory' : s \in InMemory BY <2>0, MemoryChanges
  <2>2. CASE journal' = journal
    <3>1. /\ journal.old.inc < incs
          /\ migrating # None => journal.old.inc # migrating.inc
          /\ \A s \in InMemory : Older(s, BackedUp(journal))
      BY <1>4, <2>2 DEF Versions, Readable
    <3>2. journal.old.inc \in Nat
      <4>1. journal.old \in Fingerprint
        BY <1>4, <2>2, <2>0, DiskFacts, JournalFields DEF IInv, DiskInv, Sound, JournalSound
      <4> QED BY <4>1, FingerprintFields
    <3>3. BackedUp(journal)' = BackedUp(journal) BY <2>2 DEF BackedUp, NewDb
    <3>4. HalfDb(incs).inc = incs BY DEF HalfDb
    <3>5. journal.old.inc < incs' BY <1>1, <3>1, <3>2
    <3>6. migrating' # None => journal.old.inc # migrating'.inc
      BY <1>1, <3>1, <3>2, <3>4, MigratingChanges
    <3> QED BY <2>1, <2>2, <3>1, <3>3, <3>5, <3>6
  <2>3. CASE journal' = FreshJournal(incs) \/ journal' = CommitRecord
    <3>1. FreshJournal(incs).backup = FALSE /\ CommitRecord.backup = FALSE
      BY DEF FreshJournal, CommitRecord
    <3> QED BY <1>4, <2>3, <3>1
  <2>4. CASE pc = "mig_journal" /\ journal' = MigrationRecord
    <3>1. db # None /\ db' = db
      <4>1. MigrationRecord.backup <=> db # None BY DEF MigrationRecord
      <4>2. db' = db BY <2>4, DbChanges DEF RecoverBackup, InitCreate, InitSchema, InitUndoDb,
                                         SaveOne, CommitDb
      <4> QED BY <1>4, <2>4, <4>1, <4>2
    <3>2. db \in Database /\ db.ok BY <2>4, <3>1, DiskFacts DEF IInv, Control
    <3>3. MigrationRecord.old = Mark(db, TRUE) BY <3>1 DEF MigrationRecord
    <3>4. /\ MigrationRecord.old.inc = db.inc /\ MigrationRecord.old.rev = db.rev
          /\ MigrationRecord.old.mig = db.mig /\ MigrationRecord.old.hash = db.prof
      BY <3>2, <3>3, MarkType, ZenonT(60)
    <3>5. BackedUp(journal)' = db BY <2>4, <3>2, <3>4 DEF BackedUp, NewDb, Database
    <3> QED BY <1>3, <2>4, <3>1, <3>4, <3>5, FilesStep
  <2>5. CASE pc = "remove" /\ journal' = [journal EXCEPT !.whole = FALSE]
    <3>1. journal \in Journal BY <2>5, DiskFacts DEF IInv, Underway
    <3>2. ~journal'.whole BY <2>5, <3>1, PartialJournal
    <3> QED BY <1>4, <3>2 DEF Readable
  <2> QED BY <2>0, <2>2, <2>3, <2>4, <2>5, JournalChanges
<1> QED BY <1>3, <1>4, FilesStep DEF Versions

-----------------------------------------------------------------------------
(* The logical documents *)

LogicalOf(c, d, j) ==
    IF ~Readable(j) THEN Docs(c, d)
    ELSE IF j.kind = "initialize" /\ Unreadable(d) THEN Docs(None, None)
    ELSE IF Undone(j, c, d) THEN Docs(j.oldConfig, d)
    ELSE IF Done(j, c, d) THEN Docs(j.newConfig, d)
    ELSE IF j.backup THEN Docs(j.oldConfig, BackedUp(j))
    ELSE Docs(c, d)

\* Logical, as an operator of the three files it depends on.
LEMMA LogicalIs == Logical = LogicalOf(config, db, journal)
BY DEF Logical, LogicalOf, Undone, Done, ConfigKnown, ConfigIsOld, ConfigIsNew, Readable,
       Unreadable, BackedUp, Docs, DatabaseMatches, NewDb, ContentOf

\* The same in the next state.
LEMMA LogicalIsNext == Logical' = LogicalOf(config', db', journal')
BY DEF Logical, LogicalOf, Undone, Done, ConfigKnown, ConfigIsOld, ConfigIsNew, Readable,
       Unreadable, BackedUp, Docs, DatabaseMatches, NewDb, ContentOf

\* Without a readable journal the files are what they are.
LEMMA OfNone ==
    ASSUME NEW c, NEW d, NEW j, ~Readable(j)
    PROVE  LogicalOf(c, d, j) = Docs(c, d)
BY DEF LogicalOf

\* A database without schema under the journal of an initialization counts as
\* nothing.
LEMMA OfHalf ==
    ASSUME NEW c, NEW d, NEW j, Readable(j), j.kind = "initialize", Unreadable(d)
    PROVE  LogicalOf(c, d, j) = Docs(None, None)
BY DEF LogicalOf

\* A transaction whose database part is not done means the old documents.
LEMMA OfUndone ==
    ASSUME NEW c, NEW d, NEW j, Readable(j), Undone(j, c, d)
    PROVE  LogicalOf(c, d, j) = Docs(j.oldConfig, d)
<1>1. ~Unreadable(d) BY DEF Undone, Unreadable, DatabaseMatches
<1> QED BY <1>1 DEF LogicalOf

\* One whose database part is done means the new ones.
LEMMA OfDone ==
    ASSUME NEW c, NEW d, NEW j, Readable(j), j.target # None, Done(j, c, d)
    PROVE  LogicalOf(c, d, j) = Docs(j.newConfig, d)
<1>1. ~Unreadable(d) BY DEF Done, Unreadable, DatabaseMatches
<1>2. ~Undone(j, c, d) BY DEF Done, Undone
<1> QED BY <1>1, <1>2 DEF LogicalOf

\* Foreign bytes in config.json: the backup counts, or the files as they are.
LEMMA OfForeign ==
    ASSUME NEW c, NEW d, NEW j, Readable(j), ~Unreadable(d), ~Undone(j, c, d), ~Done(j, c, d)
    PROVE  LogicalOf(c, d, j) = IF j.backup THEN Docs(j.oldConfig, BackedUp(j)) ELSE Docs(c, d)
BY DEF LogicalOf

\* The facts about the journal in place.
LEMMA JournalFacts ==
    ASSUME IInv, Recording, journal # None
    PROVE  /\ journal \in Journal /\ JournalSound(journal) /\ Recorded(journal)
           /\ journal.target # None /\ (journal.whole => Readable(journal))
           /\ journal.target \in Fingerprint /\ journal.old \in Fingerprint \cup {None}
           /\ journal.oldConfig \in Config /\ journal.newConfig \in Doc
<1>1. journal \in Journal BY DiskFacts
<1>2. journal.target # None /\ journal.target \in Fingerprint
  BY <1>1, JournalFields, FingerprintFields
<1> QED BY <1>1, <1>2, JournalFields DEF IInv, DiskInv, Sound, Recording, Readable

\* A migration's fingerprint of the replaced database determines its contents.
LEMMA SameContent ==
    ASSUME NEW j, NEW d \in Database, j.old \in Fingerprint, j.old.hash # None,
           DatabaseMatches(d, j.old)
    PROVE  ContentOf(BackedUp(j)) = ContentOf(d)
<1>1. d.ok /\ d.rev = j.old.rev /\ d.mig = j.old.mig /\ d.prof = j.old.hash
  BY FingerprintFields DEF DatabaseMatches
<1>2. d # None /\ d.ok \in BOOLEAN BY DatabaseFields
<1>3. /\ j.old.inc \in Nat /\ j.old.rev \in Nat /\ j.old.hash \in Prof /\ j.old.mig \in Config
  BY FingerprintFields
<1>4. /\ BackedUp(j) # None /\ BackedUp(j).ok = TRUE /\ BackedUp(j).rev = j.old.rev
      /\ BackedUp(j).prof = j.old.hash /\ BackedUp(j).mig = j.old.mig
  <2>1. BackedUp(j) # None BY <1>3, NewDbType DEF BackedUp
  <2> QED BY <2>1 DEF BackedUp, NewDb
<1> QED BY <1>1, <1>2, <1>4 DEF ContentOf

\* A transaction whose database part is not done: whichever of its two
\* documents config.json holds, the old one is meant.
LEMMA StaysUndone ==
    ASSUME Readable(journal), DatabaseMatches(db, journal.old), ConfigKnown(journal, config),
           config' \in {config, journal.oldConfig, journal.newConfig},
           UNCHANGED <<db, journal>>
    PROVE  Logical' = Logical /\ Logical = Docs(journal.oldConfig, db)
<1>1. Undone(journal, config, db) BY DEF Undone
<1>2. Undone(journal, config', db)
  BY DEF Undone, ConfigKnown, ConfigIsOld, ConfigIsNew
<1> QED BY <1>1, <1>2, OfUndone, LogicalIs, LogicalIsNext

\* Recovery completes or undoes what a journal records and changes no logical
\* document.
LEMMA RecoveryKeepsLogical ==
    ASSUME IInv, Recording, Position, Recovery
    PROVE  Logical' = Logical \/ (RemoveFiles /\ then = "ready")
<1>1. CASE UNCHANGED <<config, db, journal>>
  BY <1>1, LogicalIs, LogicalIsNext
<1>2. CASE RecoverConfig
  <2>1. Readable(journal) /\ journal # None /\ UNCHANGED <<db, journal>>
    BY <1>2 DEF RecoverConfig, Readable
  <2>2. CASE Undone(journal, config, db) /\ config' = journal.oldConfig
    BY <2>1, <2>2, StaysUndone DEF Undone
  <2>3. CASE Done(journal, config, db) /\ config' = journal.newConfig
    <3>1. Done(journal, config', db)
      BY <2>3 DEF Done, ConfigKnown, ConfigIsNew
    <3> QED BY <2>1, <2>3, <3>1, OfDone, JournalFacts, LogicalIs, LogicalIsNext
  <2> QED BY <1>2, <2>2, <2>3 DEF RecoverConfig
<1>3. CASE RecoverBackup
  <2>1. /\ Readable(journal) /\ journal # None /\ NeedsBackup /\ journal.backup
        /\ db' = BackedUp(journal) /\ UNCHANGED <<config, journal>>
    BY <1>3 DEF RecoverBackup, Readable, UsableBackup
  <2>2. JournalSound(journal) /\ journal.kind = "migration"
    BY <2>1, JournalFacts DEF JournalSound
  <2>3. ~Unreadable(db) BY <2>2 DEF IInv, DiskInv, Sound
  <2>4. ~Undone(journal, config, db) /\ ~Done(journal, config, db)
    BY <2>1, <2>3 DEF NeedsBackup
  <2>5. Logical = Docs(journal.oldConfig, BackedUp(journal))
    BY <2>1, <2>3, <2>4, OfForeign, LogicalIs
  <2>6. /\ DatabaseMatches(BackedUp(journal), journal.old)
        /\ BackedUp(journal) \in Database /\ BackedUp(journal).ok
    BY <2>1, <2>2, BackupMatches DEF IInv, TypeOK
  <2>7. CASE ConfigKnown(journal, config)
    <3>1. Undone(journal, config, BackedUp(journal)) BY <2>6, <2>7 DEF Undone
    <3> QED BY <2>1, <2>5, <3>1, OfUndone, LogicalIsNext
  <2>8. CASE ~ConfigKnown(journal, config)
    <3>1. /\ ~Undone(journal, config, BackedUp(journal))
          /\ ~Done(journal, config, BackedUp(journal)) /\ ~Unreadable(BackedUp(journal))
      BY <2>6, <2>8 DEF Undone, Done, Unreadable
    <3> QED BY <2>1, <2>5, <3>1, OfForeign, LogicalIsNext
  <2> QED BY <2>7, <2>8
<1>4. CASE RestoreConfig \/ RecoverFails
  <2> SUFFICES ASSUME pc = "restore", config' = journal.oldConfig, UNCHANGED <<db, journal>>
               PROVE  Logical' = Logical
    BY <1>1, <1>4 DEF RestoreConfig, RecoverFails
  <2>1. /\ journal # None /\ journal.whole /\ journal.backup
        /\ DatabaseMatches(db, journal.old)
    BY DEF IInv, Underway
  <2>2. /\ Readable(journal) /\ journal.old \in Fingerprint /\ journal.old.hash # None
    BY <2>1, JournalFacts DEF JournalSound
  <2>3. CASE ConfigKnown(journal, config)
    BY <2>1, <2>2, <2>3, StaysUndone
  <2>4. CASE ~ConfigKnown(journal, config)
    <3>1. db # None /\ ~Unreadable(db) /\ db \in Database
      BY <2>1, <2>2, DiskFacts, FingerprintFields DEF DatabaseMatches, Unreadable
    <3>2. ~Undone(journal, config, db) /\ ~Done(journal, config, db)
      BY <2>4 DEF Undone, Done
    <3>3. Logical = Docs(journal.oldConfig, BackedUp(journal))
      BY <2>1, <2>2, <3>1, <3>2, OfForeign, LogicalIs
    <3>4. Undone(journal, config', db)
      BY <2>1 DEF Undone, ConfigKnown, ConfigIsOld
    <3>5. Logical' = Docs(journal.oldConfig, db)
      BY <2>2, <3>4, OfUndone, LogicalIsNext
    <3>6. ContentOf(BackedUp(journal)) = ContentOf(db)
      BY <2>1, <2>2, <3>1, SameContent
    <3> QED BY <3>3, <3>5, <3>6 DEF Docs
  <2> QED BY <2>3, <2>4
<1>5. CASE RemoveFiles
  <2>1. /\ pc = "remove" /\ journal # None /\ journal.whole /\ UNCHANGED <<config, db>>
        /\ journal' = [journal EXCEPT !.whole = FALSE]
    BY <1>5 DEF RemoveFiles, IInv, Underway
  <2>2. ~Readable(journal')
    BY <2>1, JournalFacts, PartialJournal DEF Readable
  <2>3. Logical' = Docs(config, db) BY <2>1, <2>2, OfNone, LogicalIsNext
  <2>4. AtEnd /\ Readable(journal) BY <2>1, JournalFacts DEF Position
  <2>5. CASE config = journal.oldConfig /\ DatabaseMatches(db, journal.old)
    <3>1. Undone(journal, config, db) BY <2>5 DEF Undone, ConfigKnown, ConfigIsOld
    <3> QED BY <2>3, <2>4, <2>5, <3>1, OfUndone, LogicalIs
  <2>6. CASE config = journal.newConfig /\ DatabaseMatches(db, journal.target)
             /\ ~DatabaseMatches(db, journal.old)
    <3>1. Done(journal, config, db) BY <2>6 DEF Done, ConfigKnown, ConfigIsNew
    <3> QED BY <2>1, <2>3, <2>4, <2>6, <3>1, OfDone, JournalFacts, LogicalIs
  <2> QED BY <1>5, <2>4, <2>5, <2>6 DEF AtEnd
<1>6. CASE RemoveJournal \/ ClearFails
  <2> SUFFICES ASSUME ~journal.whole, journal' = None, UNCHANGED <<config, db>>
               PROVE  Logical' = Logical
    BY <1>1, <1>6 DEF RemoveJournal, ClearFails
  <2> QED BY OfNone, LogicalIs, LogicalIsNext DEF Readable
<1> QED BY <1>1, <1>2, <1>3, <1>4, <1>5, <1>6
        DEF Recovery, RecoverNothing, RecoverRefuses, ClearMigrating

\* The steps of the initialization before the schema transaction commits leave
\* the pair absent.
LEMMA LoadingKeepsLogical ==
    ASSUME IInv, Recording, Position, Loading
    PROVE  Logical' = Logical \/ InitSchema
<1>1. CASE UNCHANGED <<config, db, journal>>
  BY <1>1, LogicalIs, LogicalIsNext
<1>2. CASE InitJournal \/ InitJournalFails
  <2> SUFFICES ASSUME pc = "body", config = None, db = None, journal' = FreshJournal(incs),
                      UNCHANGED <<config, db>>
               PROVE  Logical' = Logical
    BY <1>1, <1>2 DEF InitJournal, InitJournalFails
  <2>1. journal = None BY DEF IInv, Control
  <2>2. /\ Readable(FreshJournal(incs)) /\ FreshJournal(incs).old = None
        /\ FreshJournal(incs).oldConfig = None
    BY FreshJournalType DEF Readable, IInv, TypeOK, TypeLimits
  <2>3. Undone(FreshJournal(incs), None, None)
    BY <2>2 DEF Undone, ConfigKnown, ConfigIsOld, DatabaseMatches
  <2>4. Logical' = Docs(None, None)
    BY <2>2, <2>3, OfUndone, LogicalIsNext
  <2> QED BY <2>1, <2>4, OfNone, LogicalIs DEF Readable
<1>3. CASE InitConfig \/ InitUndoConfig \/ InitFails
  <2>1. /\ pc \in {"init_config", "init_undo"} /\ UNCHANGED <<db, journal>>
        /\ config' \in {config, journal.oldConfig, journal.newConfig}
    BY <1>3 DEF InitConfig, InitUndoConfig, InitFails
  <2>2. /\ journal # None /\ Readable(journal) /\ db = None /\ journal.old = None
        /\ config \in {journal.oldConfig, journal.newConfig}
    BY <2>1, JournalFacts DEF IInv, Underway, JournalSound, Position
  <2> QED BY <2>1, <2>2, StaysUndone DEF DatabaseMatches, ConfigKnown, ConfigIsOld, ConfigIsNew
<1>4. CASE InitCreate \/ InitUndoDb
  <2>1. /\ pc \in {"init_create", "init_schema"} /\ UNCHANGED <<config, journal>>
        /\ db' = HalfDb(incs) \/ db' = None
    BY <1>4 DEF InitCreate, InitUndoDb
  <2>2. /\ journal # None /\ Readable(journal) /\ journal.kind = "initialize"
        /\ journal.old = None /\ journal.oldConfig = None /\ config = journal.newConfig
        /\ db = None \/ db = HalfDb(journal.target.inc)
    BY <2>1, JournalFacts DEF IInv, Underway, JournalSound, Recorded, Position
  <2>3. \A i \in Nat : Unreadable(HalfDb(i)) BY HalfDbType DEF Unreadable
  <2>4. \A i \in Nat : LogicalOf(config, HalfDb(i), journal) = Docs(None, None)
    BY <2>2, <2>3, OfHalf
  <2>5. LogicalOf(config, None, journal) = Docs(None, None)
    <3>1. Undone(journal, config, None)
      BY <2>2 DEF Undone, ConfigKnown, ConfigIsNew, DatabaseMatches
    <3> QED BY <2>2, <3>1, OfUndone
  <2>6. incs \in Nat /\ journal.target.inc \in Nat
    BY <2>2, JournalFacts, FingerprintFields DEF IInv, TypeOK, TypeLimits
  <2> QED BY <2>1, <2>2, <2>4, <2>5, <2>6, LogicalIs, LogicalIsNext
<1> QED BY <1>1, <1>2, <1>3, <1>4 DEF Loading, LoadBody, InspectBody, LoadReady, BodyFails

\* A save changes the pair in one step: the write of one document or the
\* SQLite transaction of a commit.
LEMMA SavingKeepsLogical ==
    ASSUME IInv, Recording, Position, Saving
    PROVE  Logical' = Logical \/ SaveOne \/ SaveOneFails \/ CommitDb
<1>1. CASE UNCHANGED <<config, db, journal>>
  BY <1>1, LogicalIs, LogicalIsNext
<1>2. CASE CommitJournal \/ CommitJournalFails
  <2> SUFFICES ASSUME pc = "save", journal' = CommitRecord, UNCHANGED <<config, db>>
               PROVE  Logical' = Logical
    BY <1>1, <1>2 DEF CommitJournal, CommitJournalFails
  <2>1. journal = None /\ config \in Doc /\ db \in Database /\ db.ok
        /\ want \in [app : App, prof : Prof]
    BY DiskFacts DEF IInv, Control, TypeOK, TypeCall
  <2>2. /\ CommitRecord # None /\ CommitRecord.whole /\ CommitRecord.oldConfig = config
        /\ CommitRecord.old = Mark(db, FALSE)
    BY <2>1, CommitRecordType
  <2>3. Undone(CommitRecord, config, db)
    <3>1. DatabaseMatches(db, Mark(db, FALSE)) BY <2>1, MatchesOwnMark
    <3> QED BY <2>2, <3>1 DEF Undone, ConfigKnown, ConfigIsOld
  <2>4. Logical' = Docs(config, db) BY <2>2, <2>3, OfUndone, LogicalIsNext DEF Readable
  <2> QED BY <2>1, <2>4, OfNone, LogicalIs DEF Readable
<1>3. CASE CommitConfig \/ CommitConfigFails \/ CommitUndo
  <2>1. /\ pc \in {"commit_config", "commit_undo"} /\ UNCHANGED <<db, journal>>
        /\ config' \in {config, journal.oldConfig, journal.newConfig}
    BY <1>3 DEF CommitConfig, CommitConfigFails, CommitUndo
  <2>2. /\ journal # None /\ Readable(journal) /\ journal.old = Mark(db, FALSE)
        /\ config \in {journal.oldConfig, journal.newConfig} /\ db \in Database /\ db.ok
    BY <2>1, JournalFacts, DiskFacts DEF IInv, Underway, Control, Position
  <2>3. DatabaseMatches(db, journal.old) BY <2>2, MatchesOwnMark
  <2> QED BY <2>1, <2>2, <2>3, StaysUndone DEF ConfigKnown, ConfigIsOld, ConfigIsNew
<1> QED BY <1>1, <1>2, <1>3 DEF Saving, SaveRefused, SaveReady, CommitDbFails

\* So does a migration, when the imported database takes its place.
LEMMA MigratingKeepsLogical ==
    ASSUME IInv, Recording, Position, Migrating
    PROVE  \/ Logical' = Logical
           \/ /\ pc = "mig_move" /\ db' = migrating
              /\ UNCHANGED <<config, journal, base, edits, op>>
<1>1. CASE UNCHANGED <<config, db, journal>>
  BY <1>1, LogicalIs, LogicalIsNext
<1>2. CASE MigrateJournal \/ MigrateFails
  <2> SUFFICES ASSUME pc = "mig_journal", journal' = MigrationRecord, UNCHANGED <<config, db>>
               PROVE  Logical' = Logical
    BY <1>1, <1>2 DEF MigrateJournal, MigrateFails
  <2>1. journal = None BY DEF IInv, Control
  <2>2. /\ MigrationRecord # None /\ MigrationRecord.whole /\ MigrationRecord.oldConfig = config
        /\ DatabaseMatches(db, MigrationRecord.old)
    BY MigrationRecordSound
  <2>3. Undone(MigrationRecord, config, db) BY <2>2 DEF Undone, ConfigKnown, ConfigIsOld
  <2>4. Logical' = Docs(config, db) BY <2>2, <2>3, OfUndone, LogicalIsNext DEF Readable
  <2> QED BY <2>1, <2>4, OfNone, LogicalIs DEF Readable
<1>3. CASE MigrateConfig \/ MigrateSwitchFails
  <2> SUFFICES ASSUME pc \in {"mig_config", "mig_move"}, UNCHANGED <<db, journal>>,
                      config' \in {config, journal.newConfig}
               PROVE  Logical' = Logical
    BY <1>3 DEF MigrateConfig, MigrateSwitchFails
  <2>1. /\ journal # None /\ Readable(journal) /\ DatabaseMatches(db, journal.old)
        /\ config \in {journal.oldConfig, journal.newConfig}
    BY JournalFacts DEF IInv, Underway, Position
  <2> QED BY <2>1, StaysUndone DEF ConfigKnown, ConfigIsOld, ConfigIsNew
<1>4. CASE MigrateMove BY <1>4 DEF MigrateMove
<1> QED BY <1>1, <1>2, <1>3, <1>4 DEF Migrating, MigrateRefused, MigrateV3, MigrateBackup,
     MigrateBackupDb, MigrateCreate, MigrateBlocked, MigrateImport, MigrateCreateFails

\* Every step but the ones named leaves both logical documents alone.
LEMMA LogicalChanges ==
    ASSUME IInv, Recording, Position, [Next]_vars
    PROVE  \/ Logical' = Logical
           \/ InitSchema \/ SaveOne \/ SaveOneFails \/ CommitDb \/ EditConfig
           \/ RemoveFiles /\ then = "ready"
           \/ /\ pc = "mig_move" /\ db' = migrating
              /\ UNCHANGED <<config, journal, base, edits, op>>
<1>1. CASE UNCHANGED vars BY <1>1, LogicalIs, LogicalIsNext DEF vars
<1>2. CASE Calls
  <2>1. UNCHANGED disk
    BY <1>2 DEF Calls, Load, Inspect, Verify, Migrate, SaveSnapshot, SaveDocument, Busy, BeginEdit
  <2> QED BY <2>1, LogicalIs, LogicalIsNext
<1>3. CASE Return \/ Crash
  BY <1>3, LogicalIs, LogicalIsNext DEF Return, Crash
<1> QED BY <1>1, <1>2, <1>3, RecoveryKeepsLogical, LoadingKeepsLogical, SavingKeepsLogical,
           MigratingKeepsLogical DEF Next

\* What a save asks for, from the documents r.
After(r) ==
    [config |-> NewConfig,
     db |-> IF r.db.prof = want.prof THEN r.db
            ELSE [r.db EXCEPT !.rev = @ + 1, !.prof = want.prof]]

\* The contents of a database, without the number of its file.
LEMMA ContentFields ==
    ASSUME NEW d \in Database
    PROVE  /\ ContentOf(d) \in Content /\ ContentOf(d) # None
           /\ ContentOf(d).ok = d.ok /\ ContentOf(d).rev = d.rev
           /\ ContentOf(d).prof = d.prof /\ ContentOf(d).mig = d.mig
<1>1. ContentOf(d) = [ok |-> d.ok, rev |-> d.rev, prof |-> d.prof, mig |-> d.mig]
  BY DatabaseFields DEF ContentOf
<1>2. ContentOf(d) \in Content BY <1>1, DatabaseFields DEF Content, Config
<1> QED BY <1>1, <1>2

\* An update of revision and profiles, field by field.
LEMMA UpdatedContent ==
    ASSUME NEW k \in Content, NEW n \in Nat, NEW w \in Prof
    PROVE  [k EXCEPT !.rev = n, !.prof = w] = [ok |-> k.ok, rev |-> n, prof |-> w, mig |-> k.mig]
<1> DEFINE x == [k EXCEPT !.rev = n, !.prof = w]
<1>1. x \in Content BY DEF Content
<1>2. x.ok = k.ok /\ x.rev = n /\ x.prof = w /\ x.mig = k.mig BY DEF Content
<1> HIDE DEF x
<1>3. x = [ok |-> x.ok, rev |-> x.rev, prof |-> x.prof, mig |-> x.mig] BY <1>1 DEF Content
<1>4. x = [ok |-> k.ok, rev |-> n, prof |-> w, mig |-> k.mig] BY <1>2, <1>3
<1> QED BY <1>4 DEF x

\* What a save makes of the contents.
LEMMA SavedContent ==
    ASSUME db \in Database, db.ok, want \in [app : App, prof : Prof]
    PROVE  ContentOf(SaveDb(db)) = [ContentOf(db) EXCEPT !.rev = @ + 1, !.prof = want.prof]
<1>1. /\ ContentOf(db) \in Content /\ ContentOf(db).ok = db.ok
      /\ ContentOf(db).rev = db.rev /\ ContentOf(db).mig = db.mig
  BY ContentFields
<1>2. db.ok = TRUE /\ db.rev + 1 \in Nat /\ want.prof \in Prof BY DatabaseFields
<1>3. SaveDb(db) # None BY SaveDbType
<1>4. ContentOf(SaveDb(db)) = [ok |-> TRUE, rev |-> db.rev + 1, prof |-> want.prof, mig |-> db.mig]
  BY <1>3 DEF ContentOf, SaveDb, NewDb
<1>5. [ContentOf(db) EXCEPT !.rev = db.rev + 1, !.prof = want.prof]
        = [ok |-> TRUE, rev |-> db.rev + 1, prof |-> want.prof, mig |-> db.mig]
  <2>1. ASSUME NEW k \in Content, k.ok = TRUE, k.mig = db.mig
        PROVE  [k EXCEPT !.rev = db.rev + 1, !.prof = want.prof]
                 = [ok |-> TRUE, rev |-> db.rev + 1, prof |-> want.prof, mig |-> db.mig]
    <3>1. [k EXCEPT !.rev = db.rev + 1, !.prof = want.prof]
            = [ok |-> k.ok, rev |-> db.rev + 1, prof |-> want.prof, mig |-> k.mig]
      BY <1>2, UpdatedContent
    <3> QED BY <2>1, <3>1
  <2> QED BY <1>1, <1>2, <2>1
<1> QED BY <1>1, <1>4, <1>5

\* The save, in one step, from the token it was given.
LEMMA SaveEffect ==
    ASSUME IInv, Recording, Position, SaveBase, SaveOne \/ SaveOneFails \/ CommitDb
    PROVE  /\ Logical' = After(Logical) \/ (SaveOneFails /\ Logical' = Logical)
           /\ base # None /\ Logical.config # None /\ Logical.db # None
           /\ Logical.config = base.config /\ Logical.db.rev = base.rev
           /\ Logical.db = ContentOf(db) /\ db \in Database /\ op \in Saves
           /\ UNCHANGED <<base, edits>>
<1>0. /\ pc \in {"save", "commit_db"} /\ UNCHANGED <<base, edits>>
  BY DEF SaveOne, SaveOneFails, CommitDb
<1>1. /\ config \in Doc /\ db \in Database /\ db.ok /\ want \in [app : App, prof : Prof]
      /\ op \in Saves /\ base # None
  BY <1>0, DiskFacts DEF IInv, Control, TypeOK, TypeCall
<1>2. ContentOf(db) # None /\ ContentOf(db).rev = db.rev /\ ContentOf(db).prof = db.prof
  BY <1>1, ContentFields
<1>3. CASE SaveOne \/ SaveOneFails
  <2>1. pc = "save" /\ journal = None /\ journal' = journal
    BY <1>3 DEF SaveOne, SaveOneFails, IInv, Control
  <2>2. Logical = Docs(config, db) /\ Logical' = Docs(config', db')
    BY <2>1, OfNone, LogicalIs, LogicalIsNext DEF Readable
  <2>3. Logical.config = config /\ Logical.db = ContentOf(db) BY <2>2 DEF Docs
  <2>4. base.config = config /\ base.rev = db.rev BY <2>1 DEF SaveBase
  <2>5. ASSUME config' = NewConfig, db' = IF db.prof # want.prof THEN SaveDb(db) ELSE db
        PROVE  Logical' = After(Logical)
    <3>1. CASE db.prof = want.prof
      BY <1>2, <2>2, <2>3, <2>5, <3>1 DEF After, Docs
    <3>2. CASE db.prof # want.prof
      BY <1>1, <1>2, <2>2, <2>3, <2>5, <3>2, SavedContent DEF After, Docs
    <3> QED BY <3>1, <3>2
  <2>6. CASE SaveOne
    <3>1. config' = NewConfig /\ db' = IF db.prof # want.prof THEN SaveDb(db) ELSE db
      BY <2>6 DEF SaveOne, ProfilesChanged
    <3> QED BY <1>0, <1>1, <1>2, <2>3, <2>4, <2>5, <3>1
  <2>7. CASE SaveOneFails
    <3>1. config' \in {config, NewConfig} /\ db' = db
          /\ (config' # config => db.prof = want.prof)
      BY <2>7 DEF SaveOneFails, ConfigChanged, ProfilesChanged
    <3>2. CASE config' = config
      BY <1>0, <1>1, <1>2, <2>2, <2>3, <2>4, <2>7, <3>1, <3>2
    <3>3. CASE config' # config
      BY <1>0, <1>1, <1>2, <2>3, <2>4, <2>5, <3>1, <3>3
    <3> QED BY <3>2, <3>3
  <2> QED BY <1>3, <2>6, <2>7
<1>4. CASE CommitDb
  <2>1. /\ pc = "commit_db" /\ db' = SaveDb(db) /\ UNCHANGED <<config, journal>>
    BY <1>4 DEF CommitDb
  <2>2. /\ journal # None /\ Readable(journal) /\ journal.kind = "commit" /\ JournalSound(journal)
        /\ journal.old = Mark(db, FALSE) /\ config = journal.newConfig
    BY <2>1, JournalFacts DEF IInv, Underway, Position
  <2>3. /\ base.config = journal.oldConfig /\ base.rev = db.rev
        /\ journal.newConfig = NewConfig /\ db.prof # want.prof
    BY <2>1 DEF SaveBase
  <2>4. Undone(journal, config, db)
    <3>1. DatabaseMatches(db, Mark(db, FALSE)) BY <1>1, MatchesOwnMark
    <3> QED BY <2>2, <3>1 DEF Undone, ConfigKnown, ConfigIsNew
  <2>5. Logical = Docs(journal.oldConfig, db) BY <2>2, <2>4, OfUndone, LogicalIs
  <2>6. Done(journal, config, SaveDb(db))
    <3>1. /\ SaveDb(db) # None /\ SaveDb(db).ok /\ SaveDb(db).rev = db.rev + 1
          /\ SaveDb(db).mig = db.mig
      BY <1>1, SaveDbType
    <3>2. /\ journal.old # None /\ journal.old.rev = db.rev /\ journal.old.mig = db.mig
          /\ db.rev \in Nat
      BY <1>1, <2>2, MarkType, DatabaseFields, ZenonT(60)
    <3>3. /\ journal.target # None /\ journal.target.rev = db.rev + 1
          /\ journal.target.mig = db.mig /\ journal.target.hash = None
      BY <2>2, <3>2, JournalFacts DEF JournalSound
    <3>4. DatabaseMatches(SaveDb(db), journal.target)
      BY <3>1, <3>3 DEF DatabaseMatches
    <3>5. SaveDb(db).rev # journal.old.rev BY <3>1, <3>2
    <3>6. ~DatabaseMatches(SaveDb(db), journal.old)
      BY <3>2, <3>5 DEF DatabaseMatches
    <3> QED BY <2>2, <3>4, <3>6 DEF Done, ConfigKnown, ConfigIsNew
  <2>7. Logical' = Docs(NewConfig, SaveDb(db))
    BY <2>1, <2>2, <2>3, <2>6, OfDone, JournalFacts, LogicalIsNext
  <2>8. Logical.config = journal.oldConfig /\ Logical.db = ContentOf(db) BY <2>5 DEF Docs
  <2>9. Logical' = After(Logical)
    BY <1>1, <1>2, <2>3, <2>7, <2>8, SavedContent DEF After, Docs
  <2>10. base.config # None
    BY <2>2, <2>3, JournalFacts DEF Recorded
  <2> QED BY <1>0, <1>1, <1>2, <2>3, <2>8, <2>9, <2>10
<1> QED BY <1>3, <1>4

\* The register speaks of the same documents.
LEMMA RegisterData ==
    /\ \A a : R!Canonical(a) = Canonical(a)
    /\ R!Content = Content /\ R!Doc = Doc
    /\ \A b, r : R!TokenMatches(b, r) <=> TokenMatches(b, r)
<1>1. R!Doc = Doc BY DEF R!Doc, Doc
<1> QED BY <1>1 DEF R!Canonical, Canonical, R!Content, Content, R!TokenMatches, TokenMatches

\* First start: the pair appears with the schema transaction.
LEMMA InitializeEffect ==
    ASSUME IInv, Recording, Position, InitSchema
    PROVE  R!Initialize
<1>1. /\ pc = "init_schema" /\ db' = NewDb(db.inc, db.rev, db.prof, db.mig)
      /\ UNCHANGED <<config, journal, base, edits>>
  BY DEF InitSchema
<1>2. /\ journal # None /\ Readable(journal) /\ journal.kind = "initialize"
      /\ JournalSound(journal) /\ db = HalfDb(journal.target.inc)
      /\ journal.target = Mark(db, FALSE)
      /\ config = journal.newConfig /\ journal.newConfig = Canonical(DefaultApp)
      /\ journal.target \in Fingerprint
  BY <1>1, JournalFacts DEF IInv, Underway, Position, Recorded
<1>3. journal.target.inc \in Nat BY <1>2, FingerprintFields
<1>4. /\ db \in Database /\ Unreadable(db) /\ db.rev = 0 /\ db.prof = NoProfiles /\ db.mig = None
      /\ db.inc \in Nat
  BY <1>2, <1>3, HalfDbType DEF Unreadable
<1>5. Logical = [config |-> None, db |-> None]
  <2>1. Logical = Docs(None, None) BY <1>2, <1>4, OfHalf, LogicalIs
  <2> QED BY <2>1 DEF Docs, ContentOf
<1>6. /\ db' \in Database /\ db' # None /\ db'.ok /\ db'.rev = 0 /\ db'.prof = NoProfiles
      /\ db'.mig = None
  <2>1. /\ NoProfiles \in Prof /\ None \in Config /\ db.inc \in Nat /\ 0 \in Nat
        /\ db' = NewDb(db.inc, 0, NoProfiles, None)
    BY <1>1, <1>4 DEF Config
  <2>2. ASSUME NEW i, i \in Nat, NEW r, r \in Nat, NEW p, p \in Prof, NEW m, m \in Config
        PROVE  /\ NewDb(i, r, p, m) \in Database /\ NewDb(i, r, p, m) # None
               /\ NewDb(i, r, p, m).ok /\ NewDb(i, r, p, m).rev = r
               /\ NewDb(i, r, p, m).prof = p /\ NewDb(i, r, p, m).mig = m
    BY <2>2, NewDbType
  <2> HIDE DEF Database, NewDb
  <2> QED BY <2>1, <2>2, SMTT(60)
<1>7. journal.target.rev = 0 /\ journal.target.mig = None /\ journal.target.hash = None
  BY <1>2 DEF JournalSound
<1>8. Done(journal, config, db')
  BY <1>2, <1>6, <1>7, FingerprintFields
     DEF Done, ConfigKnown, ConfigIsNew, DatabaseMatches, JournalSound
<1>9. Logical' = Docs(Canonical(DefaultApp), db')
  <2>1. journal.target # None BY <1>2, FingerprintFields
  <2>2. LogicalOf(config, db', journal) = Docs(journal.newConfig, db')
    BY <1>2, <1>8, <2>1, OfDone
  <2> QED BY <1>1, <1>2, <2>2, LogicalIsNext
<1>10. Logical'.config = Canonical(DefaultApp) /\ Logical'.db = ContentOf(db')
  BY <1>9 DEF Docs
<1>11. /\ ContentOf(db') \in Content /\ ContentOf(db').ok /\ ContentOf(db').rev = 0
       /\ ContentOf(db').prof = NoProfiles /\ ContentOf(db').mig = None
  BY <1>6, ContentFields
<1> QED BY <1>1, <1>5, <1>10, <1>11, RegisterData DEF R!Initialize

\* A document a migration starts from and the database it produces.
LEMMA MigrationPair ==
    ASSUME IInv, Recording, journal # None, journal.kind = "migration",
           NEW d \in Database, DatabaseMatches(d, journal.target)
    PROVE  /\ journal.oldConfig # None /\ journal.oldConfig.schema = "v2"
           /\ journal.newConfig = Canonical(journal.oldConfig.app)
           /\ d.ok /\ d.prof = journal.oldConfig.prof /\ d.mig = journal.oldConfig
<1>1. /\ journal.oldConfig # None /\ Schema(journal.oldConfig) = "v2"
      /\ journal.newConfig = Canonical(journal.oldConfig.app)
      /\ journal.target.hash = journal.oldConfig.prof /\ journal.target.mig = journal.oldConfig
      /\ journal.target # None /\ journal.oldConfig \in Doc
  BY JournalFacts DEF JournalSound, Recorded, Config
<1>2. journal.oldConfig.prof \in Prof BY <1>1 DEF Doc
<1> QED BY <1>1, <1>2 DEF DatabaseMatches, Schema

\* The import takes the place of profiles.db, or the journal of a migration
\* that changed nothing else disappears.
LEMMA MigrateEffect ==
    ASSUME IInv, Recording, Position,
           \/ RemoveFiles /\ then = "ready"
           \/ /\ pc = "mig_move" /\ db' = migrating
              /\ UNCHANGED <<config, journal, base, edits, op>>
    PROVE  Logical' = Logical \/ R!Migrate
<1>1. ASSUME NEW d \in Database, DatabaseMatches(d, journal.target), journal # None,
             journal.kind = "migration", Logical.config = journal.oldConfig,
             Logical' = Docs(journal.newConfig, d)
      PROVE  R!Migrated
  <2>1. /\ journal.oldConfig # None /\ journal.oldConfig.schema = "v2"
        /\ journal.newConfig = Canonical(journal.oldConfig.app)
        /\ d.ok /\ d.prof = journal.oldConfig.prof /\ d.mig = journal.oldConfig
    BY <1>1, MigrationPair
  <2>2. Logical'.config = journal.newConfig /\ Logical'.db = ContentOf(d) BY <1>1 DEF Docs
  <2>3. /\ ContentOf(d) \in Content /\ ContentOf(d).ok = d.ok
        /\ ContentOf(d).prof = d.prof /\ ContentOf(d).mig = d.mig
    BY ContentFields
  <2> QED BY <1>1, <2>1, <2>2, <2>3, RegisterData DEF R!Migrated
<1>2. CASE RemoveFiles /\ then = "ready"
  <2>1. /\ pc = "remove" /\ journal # None /\ journal.whole /\ UNCHANGED <<config, db, base, edits>>
        /\ journal' = [journal EXCEPT !.whole = FALSE]
    BY <1>2 DEF RemoveFiles, IInv, Underway
  <2>2. ~Readable(journal') BY <2>1, JournalFacts, PartialJournal DEF Readable
  <2>3. Logical' = Docs(config, db) BY <2>1, <2>2, OfNone, LogicalIsNext
  <2>4. AtEnd /\ Readable(journal) BY <2>1, JournalFacts DEF Position
  <2>5. CASE config = journal.oldConfig /\ DatabaseMatches(db, journal.old)
    <3>1. Undone(journal, config, db) BY <2>5 DEF Undone, ConfigKnown, ConfigIsOld
    <3> QED BY <2>3, <2>4, <2>5, <3>1, OfUndone, LogicalIs
  <2>6. CASE config = journal.newConfig /\ DatabaseMatches(db, journal.target)
             /\ ~DatabaseMatches(db, journal.old)
    <3>1. Done(journal, config, db) BY <2>6 DEF Done, ConfigKnown, ConfigIsNew
    <3> QED BY <2>1, <2>3, <2>4, <2>6, <3>1, OfDone, JournalFacts, LogicalIs
  <2>7. CASE config = journal.newConfig /\ DatabaseMatches(db, journal.target)
             /\ DatabaseMatches(db, journal.old) /\ journal.kind = "migration"
    <3>1. Undone(journal, config, db) BY <2>7 DEF Undone, ConfigKnown, ConfigIsNew
    <3>2. Logical.config = journal.oldConfig
      BY <2>4, <3>1, OfUndone, LogicalIs DEF Docs
    <3>3. db \in Database BY <2>1, <2>7, DiskFacts, JournalFacts DEF DatabaseMatches
    <3>4. Logical' = Docs(journal.newConfig, db) BY <2>3, <2>7
    <3>5. R!Migrated BY <1>1, <2>1, <2>7, <3>2, <3>3, <3>4
    <3> QED BY <2>1, <3>5 DEF R!Migrate
  <2> QED BY <2>4, <2>5, <2>6, <2>7 DEF AtEnd
<1>3. CASE pc = "mig_move" /\ db' = migrating /\ UNCHANGED <<config, journal, base, edits, op>>
  <2>1. /\ journal # None /\ Readable(journal) /\ journal.kind = "migration"
        /\ DatabaseMatches(db, journal.old) /\ config = journal.newConfig
        /\ migrating \in Database /\ migrating.ok /\ journal.target = Mark(migrating, TRUE)
    BY <1>3, JournalFacts, DiskFacts DEF IInv, Underway, Control, Position
  <2>2. DatabaseMatches(migrating, journal.target) BY <2>1, MatchesOwnMark
  <2>3. Undone(journal, config, db) BY <2>1 DEF Undone, ConfigKnown, ConfigIsNew
  <2>4. Logical = Docs(journal.oldConfig, db) BY <2>1, <2>3, OfUndone, LogicalIs
  <2>5. CASE DatabaseMatches(migrating, journal.old)
    <3>1. Undone(journal, config, migrating) BY <2>1, <2>5 DEF Undone, ConfigKnown, ConfigIsNew
    <3>2. Logical' = Docs(journal.oldConfig, migrating)
      BY <1>3, <2>1, <3>1, OfUndone, LogicalIsNext
    <3>3. journal.old \in Fingerprint /\ journal.old.hash # None
      BY <2>1, <2>5, JournalFacts, DatabaseFields DEF DatabaseMatches, JournalSound
    <3>4. db \in Database BY <2>1, <3>3, DiskFacts, FingerprintFields DEF DatabaseMatches
    <3>5. ContentOf(migrating) = ContentOf(BackedUp(journal))
              /\ ContentOf(db) = ContentOf(BackedUp(journal))
      BY <2>1, <2>5, <3>3, <3>4, SameContent
    <3> QED BY <2>4, <3>2, <3>5 DEF Docs
  <2>6. CASE ~DatabaseMatches(migrating, journal.old)
    <3>1. Done(journal, config, migrating)
      BY <2>1, <2>2, <2>6 DEF Done, ConfigKnown, ConfigIsNew
    <3>2. Logical' = Docs(journal.newConfig, migrating)
      BY <1>3, <2>1, <3>1, OfDone, JournalFacts, LogicalIsNext
    <3>3. Logical.config = journal.oldConfig BY <2>4 DEF Docs
    <3>4. R!Migrated BY <1>1, <2>1, <2>2, <3>2, <3>3
    <3> QED BY <1>3, <3>4 DEF R!Migrate
  <2> QED BY <2>5, <2>6
<1> QED BY <1>2, <1>3

\* The user changes config.json: the database stays, unless the edit makes
\* recovery undo a replacement or lets it complete one again.
LEMMA EditEffect ==
    ASSUME IInv, Recording, EditConfig
    PROVE  R!Edit \/ R!EditDuringMigration
<1>1. /\ UNCHANGED <<db, journal, base>> /\ edits' = edits + 1
      /\ config \in Config /\ config' \in Config
  BY DEF EditConfig, IInv, TypeOK, TypeDisk, Config
<1>2. ASSUME NEW c \in Config, Logical' = Docs(c, db), Logical.db = ContentOf(db) PROVE R!Edit
  BY <1>1, <1>2, RegisterData DEF R!Edit, Docs, Config
<1>3. CASE ~Readable(journal)
  <2>1. Logical = Docs(config, db) /\ Logical' = Docs(config', db)
    BY <1>1, <1>3, OfNone, LogicalIs, LogicalIsNext
  <2> QED BY <1>1, <1>2, <2>1 DEF Docs
<1>4. CASE Readable(journal) /\ Unreadable(db)
  <2>1. journal.kind = "initialize" BY <1>4 DEF IInv, DiskInv, Sound
  <2>2. Logical = Docs(None, None) /\ Logical' = Docs(None, None)
    BY <1>1, <1>4, <2>1, OfHalf, LogicalIs, LogicalIsNext
  <2> QED BY <1>1, <2>2 DEF R!Edit, Docs
<1>5. CASE Readable(journal) /\ ~Unreadable(db)
  <2>0. /\ journal # None /\ JournalSound(journal) /\ journal.target # None
        /\ journal.oldConfig \in Config /\ journal.newConfig \in Config
    BY <1>5, JournalFacts DEF Readable, Config
  <2>1. CASE DatabaseMatches(db, journal.old)
    <3>1. ASSUME NEW c \in Config
          PROVE  \E e \in Config : LogicalOf(c, db, journal) = Docs(e, db)
      <4>1. CASE Undone(journal, c, db)
        BY <1>5, <2>0, <4>1, OfUndone
      <4>2. CASE ~Undone(journal, c, db) /\ journal.backup
        <5>1. ~Done(journal, c, db) BY <2>1 DEF Done
        <5>2. LogicalOf(c, db, journal) = Docs(journal.oldConfig, BackedUp(journal))
          BY <1>5, <4>2, <5>1, OfForeign
        <5>3. journal.old \in Fingerprint /\ journal.old.hash # None
          BY <2>0, <4>2, JournalFacts DEF JournalSound
        <5>4. db \in Database BY <2>1, <5>3, DiskFacts, FingerprintFields DEF DatabaseMatches
        <5>5. ContentOf(BackedUp(journal)) = ContentOf(db) BY <2>1, <5>3, <5>4, SameContent
        <5> QED BY <2>0, <5>2, <5>5 DEF Docs
      <4>3. CASE ~Undone(journal, c, db) /\ ~journal.backup
        <5>1. ~Done(journal, c, db) BY <2>1 DEF Done
        <5> QED BY <1>5, <4>3, <5>1, OfForeign
      <4> QED BY <4>1, <4>2, <4>3
    <3>2. PICK e \in Config : LogicalOf(config, db, journal) = Docs(e, db) BY <1>1, <3>1
    <3>3. PICK f \in Config : LogicalOf(config', db, journal) = Docs(f, db) BY <1>1, <3>1
    <3> QED BY <1>1, <1>2, <3>2, <3>3, LogicalIs, LogicalIsNext DEF Docs
  <2>2. CASE ~DatabaseMatches(db, journal.old)
    <3>0. DatabaseMatches(db, journal.target) /\ db \in Database
      <4>1. DatabaseMatches(db, journal.target)
        BY <1>5, <2>2 DEF IInv, DiskInv, JournalResolvable
      <4> QED BY <2>0, <4>1, DiskFacts DEF DatabaseMatches
    <3>1. \A c : ~Undone(journal, c, db) /\ (Done(journal, c, db) <=> ConfigKnown(journal, c))
      BY <2>2, <3>0 DEF Undone, Done
    <3>2. \A c : ConfigKnown(journal, c) => LogicalOf(c, db, journal) = Docs(journal.newConfig, db)
      BY <1>5, <2>0, <3>1, OfDone
    <3>3. \A c : ~ConfigKnown(journal, c) =>
             LogicalOf(c, db, journal) = IF journal.backup
                                         THEN Docs(journal.oldConfig, BackedUp(journal))
                                         ELSE Docs(c, db)
      BY <1>5, <3>1, OfForeign
    <3>4. CASE ~journal.backup
      <4>1. \A c \in Config : \E e \in Config : LogicalOf(c, db, journal) = Docs(e, db)
        BY <2>0, <3>2, <3>3, <3>4
      <4>2. PICK e \in Config : LogicalOf(config, db, journal) = Docs(e, db) BY <1>1, <4>1
      <4>3. PICK f \in Config : LogicalOf(config', db, journal) = Docs(f, db) BY <1>1, <4>1
      <4> QED BY <1>1, <1>2, <4>2, <4>3, LogicalIs, LogicalIsNext DEF Docs
    <3>5. CASE journal.backup
      <4>0. /\ journal.kind = "migration"
            /\ BackedUp(journal) \in Database
        BY <2>0, <3>5, BackupMatches DEF JournalSound, IInv, TypeOK
      <4>1. /\ journal.oldConfig # None /\ journal.oldConfig.schema = "v2"
            /\ journal.newConfig = Canonical(journal.oldConfig.app)
            /\ db.ok /\ db.prof = journal.oldConfig.prof /\ db.mig = journal.oldConfig
        BY <2>0, <3>0, <4>0, MigrationPair
      <4>2. /\ ContentOf(db) \in Content /\ ContentOf(db) # None /\ ContentOf(db).ok = db.ok
            /\ ContentOf(db).prof = db.prof /\ ContentOf(db).mig = db.mig
            /\ ContentOf(BackedUp(journal)) \in Content
        BY <3>0, <4>0, ContentFields
      <4>3. CASE ConfigKnown(journal, config) /\ ConfigKnown(journal, config')
        BY <1>1, <1>2, <2>0, <3>2, <4>3, LogicalIs, LogicalIsNext DEF Docs
      <4>4. CASE ConfigKnown(journal, config) /\ ~ConfigKnown(journal, config')
        <5>1. Logical = Docs(journal.newConfig, db) BY <3>2, <4>4, LogicalIs
        <5>2. Logical' = Docs(journal.oldConfig, BackedUp(journal))
          BY <1>1, <3>3, <3>5, <4>4, LogicalIsNext
        <5>3. Logical.db = ContentOf(db) BY <5>1 DEF Docs
        <5>4. Logical'.config = journal.oldConfig /\ Logical'.db = ContentOf(BackedUp(journal))
          BY <5>2 DEF Docs
        <5> QED BY <1>1, <4>1, <4>2, <5>3, <5>4, RegisterData DEF R!EditDuringMigration
      <4>5. CASE ~ConfigKnown(journal, config) /\ ConfigKnown(journal, config')
        <5>1. Logical = Docs(journal.oldConfig, BackedUp(journal)) BY <3>3, <3>5, <4>5, LogicalIs
        <5>2. Logical' = Docs(journal.newConfig, db) BY <1>1, <3>2, <4>5, LogicalIsNext
        <5>3. Logical.config = journal.oldConfig BY <5>1 DEF Docs
        <5>4. Logical'.config = journal.newConfig /\ Logical'.db = ContentOf(db) BY <5>2 DEF Docs
        <5>5. R!Migrated BY <4>1, <4>2, <5>3, <5>4, RegisterData DEF R!Migrated
        <5> QED BY <1>1, <5>5 DEF R!EditDuringMigration
      <4>6. CASE ~ConfigKnown(journal, config) /\ ~ConfigKnown(journal, config')
        <5>1. /\ Logical = Docs(journal.oldConfig, BackedUp(journal))
              /\ Logical' = Docs(journal.oldConfig, BackedUp(journal))
          BY <1>1, <3>3, <3>5, <4>6, LogicalIs, LogicalIsNext
        <5> QED BY <1>1, <2>0, <5>1, RegisterData DEF R!Edit, Docs, Config
      <4> QED BY <4>3, <4>4, <4>5, <4>6
    <3> QED BY <3>4, <3>5
  <2> QED BY <2>1, <2>2
<1> QED BY <1>3, <1>4, <1>5

-----------------------------------------------------------------------------
(* What a save reports *)

Outcome ==
    op \in Saves =>
       /\ Logical = before \/ Logical = Wanted
       /\ pc \in {"body", "save", "commit_config", "commit_db"} => Logical = before /\ err = "ok"
       /\ pc = "commit_undo" => Logical = before /\ err = "Io"
       /\ pc \in {"recover", "restore", "clear", "remove"} =>
            /\ then = "body" => Logical = before /\ err = "ok"
            /\ then = "saved" => Logical = Wanted /\ err = "ok"
            /\ then = "report" => err = "Io"
       /\ SaveOutcomeTruthful

\* A call in progress keeps what it was asked and what it started from.
LEMMA RegistersKept ==
    ASSUME IInv, [Next]_vars, op' \in Saves
    PROVE  \/ /\ UNCHANGED <<op, want, before>>
              /\ Recovery \/ BodyFails \/ Saving \/ UNCHANGED <<disk, call>>
           \/ pc' = "recover" /\ then' = "body" /\ err' = "ok" /\ before' = Logical
              /\ UNCHANGED disk
<1>1. CASE UNCHANGED vars BY <1>1 DEF vars
<1>2. CASE Calls
  BY <1>2 DEF Calls, Load, Inspect, Verify, Migrate, SaveSnapshot, SaveDocument, Busy, BeginEdit
<1>3. CASE Recovery
  BY <1>3 DEF Recovery, RecoverNothing, RecoverConfig, RecoverBackup, RestoreConfig,
     RecoverRefuses, RecoverFails, ClearMigrating, RemoveFiles, RemoveJournal, ClearFails
<1>4. CASE Loading
  <2>1. CASE BodyFails BY <2>1 DEF BodyFails
  <2>2. ASSUME LoadBody \/ InspectBody \/ InitJournal \/ InitJournalFails PROVE FALSE
    BY <2>2 DEF LoadBody, InspectBody, InitJournal, InitJournalFails
  <2>3. ASSUME LoadReady PROVE FALSE
    BY <2>3 DEF LoadReady, IInv, Control
  <2>4. ASSUME InitConfig \/ InitCreate \/ InitSchema \/ InitUndoDb \/ InitUndoConfig \/ InitFails
        PROVE  FALSE
    BY <2>4 DEF InitConfig, InitCreate, InitSchema, InitUndoDb, InitUndoConfig, InitFails,
       IInv, Underway
  <2> QED BY <1>4, <2>1, <2>2, <2>3, <2>4 DEF Loading
<1>5. CASE Saving
  BY <1>5 DEF Saving, SaveRefused, SaveReady, SaveOne, SaveOneFails, CommitJournal,
     CommitJournalFails, CommitConfig, CommitConfigFails, CommitDb, CommitDbFails, CommitUndo
<1>6. ASSUME Migrating PROVE FALSE
  BY <1>6 DEF Migrating, MigrateRefused, MigrateV3, MigrateBackup, MigrateBackupDb,
     MigrateCreate, MigrateBlocked, MigrateImport, MigrateJournal, MigrateFails,
     MigrateCreateFails, MigrateConfig, MigrateMove, MigrateSwitchFails, Migration, IInv, Control
<1>7. ASSUME Return \/ Crash \/ EditConfig PROVE FALSE
  BY <1>7 DEF Return, Crash, EditConfig, IInv, Control
<1> QED BY <1>1, <1>2, <1>3, <1>4, <1>5, <1>6, <1>7 DEF Next

\* An answer other than success or a failure is given only before anything
\* was written.
LEMMA Truthful ==
    ASSUME Logical' \in {before', Wanted'},
           err' = "ok" => Logical' = Wanted',
           err' \notin {"ok", "Io", "RecoveryRequired"} => Logical' = before'
    PROVE  SaveOutcomeTruthful'
BY DEF SaveOutcomeTruthful

\* Until the save's own step the pair is what it was, afterwards what it asked for.
LEMMA OutcomeStep ==
    ASSUME IInv, Recording, Position, SaveBase, Outcome, [Next]_vars
    PROVE  Outcome'
<1> SUFFICES ASSUME op' \in Saves PROVE Outcome' BY DEF Outcome
<1>1. CASE pc' = "recover" /\ then' = "body" /\ err' = "ok" /\ before' = Logical /\ UNCHANGED disk
  <2>1. Logical' = before' BY <1>1, LogicalIs, LogicalIsNext
  <2> QED BY <1>1, <2>1 DEF Outcome, SaveOutcomeTruthful
<1>2. CASE UNCHANGED <<op, want, before>>
      /\ (Recovery \/ BodyFails \/ Saving \/ UNCHANGED <<disk, call>>)
  <2>0. Wanted' = Wanted /\ op \in Saves /\ op' = op
    BY <1>2 DEF Wanted, NewConfig
  <2>1. /\ Logical = before \/ Logical = Wanted
        /\ pc \in {"body", "save", "commit_config", "commit_db"} => Logical = before /\ err = "ok"
        /\ pc = "commit_undo" => Logical = before /\ err = "Io"
        /\ pc \in {"recover", "restore", "clear", "remove"} =>
             /\ then = "body" => Logical = before /\ err = "ok"
             /\ then = "saved" => Logical = Wanted /\ err = "ok"
             /\ then = "report" => err = "Io"
        /\ SaveOutcomeTruthful
    BY <2>0 DEF Outcome
  <2>2. then # "ready" /\ then \in {"body", "ready", "saved", "report"}
    BY <2>0 DEF IInv, Control, TypeOK, TypeCall
  <2>3. CASE UNCHANGED <<disk, call>>
    <3>1. Logical' = Logical BY <2>3, LogicalIs, LogicalIsNext
    <3> QED BY <2>0, <2>1, <2>3, <3>1 DEF Outcome, SaveOutcomeTruthful
  <2>4. CASE Recovery
    <3>1. Logical' = Logical /\ before' = before
      BY <1>2, <2>2, <2>4, RecoveryKeepsLogical
    <3>2. CASE pc' # "done"
      <4>1. /\ pc' \in {"recover", "restore", "clear", "remove"} =>
                 \/ then' = then /\ err' = err /\ pc \in {"recover", "restore", "clear", "remove"}
                 \/ then' = "report" /\ err' = "Io"
            /\ pc' \in {"recover", "restore", "clear", "remove", "body"}
            /\ pc' = "body" => /\ then = "body" /\ err' = err
                               /\ pc \in {"recover", "restore", "clear", "remove"}
        BY <2>0, <2>2, <2>4, <3>2 DEF Recovery, RecoverNothing, RecoverConfig, RecoverBackup,
           RestoreConfig, RecoverRefuses, RecoverFails, ClearMigrating, RemoveFiles,
           RemoveJournal, ClearFails
      <4> QED BY <2>0, <2>1, <3>1, <3>2, <4>1 DEF Outcome, SaveOutcomeTruthful
    <3>3. CASE pc' = "done"
      <4>1. \/ err' \in {"Io", "RecoveryRequired"}
            \/ err' = err /\ then # "body" /\ pc \in {"recover", "remove"}
        BY <2>0, <2>2, <2>4, <3>3 DEF Recovery, RecoverNothing, RecoverConfig, RecoverBackup,
           RestoreConfig, RecoverRefuses, RecoverFails, ClearMigrating, RemoveFiles,
           RemoveJournal, ClearFails
      <4>2. err' \in {"Io", "RecoveryRequired"} \/ (err' = "ok" /\ Logical = Wanted)
        BY <2>1, <2>2, <4>1
      <4>3. SaveOutcomeTruthful' BY <2>0, <2>1, <3>1, <4>2, Truthful
      <4> QED BY <2>0, <2>1, <3>1, <3>3, <4>3 DEF Outcome
    <3> QED BY <3>2, <3>3
  <2>5. CASE BodyFails
    <3>1. Logical' = Logical /\ before' = before /\ pc' = "done" /\ err' = "Io"
      BY <1>2, <2>5, LogicalIs, LogicalIsNext DEF BodyFails
    <3>2. SaveOutcomeTruthful' BY <2>0, <2>1, <3>1, Truthful
    <3> QED BY <2>0, <2>1, <3>1, <3>2 DEF Outcome
  <2>6. CASE SaveOne \/ SaveOneFails \/ CommitDb
    <3>1. /\ pc \in {"save", "commit_db"} /\ before' = before
          /\ \/ pc' = "done" /\ (err' = "Io" \/ (SaveOne /\ err' = "ok"))
             \/ (CommitDb /\ pc' = "clear" /\ then' = "saved" /\ err' = err)
      BY <1>2, <2>6 DEF SaveOne, SaveOneFails, CommitDb
    <3>2. Logical = before /\ err = "ok" BY <2>1, <3>1
    <3>3. Wanted = After(Logical) BY <3>2 DEF Wanted, After
    <3>4. Logical' = Wanted \/ (SaveOneFails /\ Logical' = Logical)
      BY <2>6, <3>3, SaveEffect
    <3>5. ~(SaveOneFails /\ SaveOne /\ err' = "ok") /\ ~(SaveOneFails /\ CommitDb)
      BY DEF SaveOne, SaveOneFails, CommitDb
    <3>6. CASE pc' = "done"
      <4>1. SaveOutcomeTruthful' BY <2>0, <3>1, <3>2, <3>4, <3>5, <3>6, Truthful
      <4> QED BY <2>0, <3>1, <3>2, <3>4, <3>6, <4>1 DEF Outcome
    <3>7. CASE CommitDb /\ pc' = "clear" /\ then' = "saved" /\ err' = err
      BY <2>0, <3>2, <3>4, <3>5, <3>7 DEF Outcome, SaveOutcomeTruthful
    <3> QED BY <3>1, <3>6, <3>7
  <2>7. CASE Saving /\ Logical' = Logical /\ ~SaveOne /\ ~SaveOneFails /\ ~CommitDb
    <3>0. before' = before BY <1>2
    <3>1. CASE SaveRefused
      <4>1. pc = "body" /\ pc' = "done" /\ err' = ReadyFailure /\ ReadyFailure # "ok"
        BY <3>1 DEF SaveRefused
      <4>2. SaveOutcomeTruthful' BY <2>0, <2>1, <2>7, <3>0, <4>1, Truthful
      <4> QED BY <2>0, <2>1, <2>7, <3>0, <4>1, <4>2 DEF Outcome
    <3>2. CASE SaveReady
      <4>1. /\ pc = "body"
            /\ (pc' = "done" /\ err' \in {"Stale", "Invalid"}) \/ (pc' = "save" /\ err' = err)
        BY <3>2 DEF SaveReady
      <4>2. pc' = "done" => SaveOutcomeTruthful' BY <2>0, <2>1, <2>7, <3>0, <4>1, Truthful
      <4> QED BY <2>0, <2>1, <2>7, <3>0, <4>1, <4>2 DEF Outcome, SaveOutcomeTruthful
    <3>3. CASE CommitJournal \/ CommitConfig
      <4>1. /\ pc \in {"save", "commit_config"} /\ pc' \in {"commit_config", "commit_db"}
            /\ err' = err
        BY <3>3 DEF CommitJournal, CommitConfig
      <4> QED BY <2>0, <2>1, <2>7, <3>0, <4>1 DEF Outcome, SaveOutcomeTruthful
    <3>4. CASE CommitJournalFails
      <4>1. pc' = "done" /\ err' = "Io" BY <3>4 DEF CommitJournalFails
      <4>2. SaveOutcomeTruthful' BY <2>0, <2>1, <2>7, <3>0, <4>1, Truthful
      <4> QED BY <2>0, <2>1, <2>7, <3>0, <4>1, <4>2 DEF Outcome
    <3>5. CASE CommitConfigFails
      <4>1. pc' = "recover" /\ then' = "report" /\ err' = "Io"
        BY <2>0, <3>5 DEF CommitConfigFails
      <4> QED BY <2>0, <2>1, <2>7, <3>0, <4>1 DEF Outcome, SaveOutcomeTruthful
    <3>6. CASE CommitDbFails
      <4>1. pc = "commit_db" /\ pc' = "commit_undo" /\ err' = "Io" BY <3>6 DEF CommitDbFails
      <4> QED BY <2>0, <2>1, <2>7, <3>0, <4>1 DEF Outcome, SaveOutcomeTruthful
    <3>7. CASE CommitUndo
      <4>1. pc = "commit_undo" /\ pc' = "clear" /\ then' = "report" /\ err' = err
        BY <3>7 DEF CommitUndo
      <4> QED BY <2>0, <2>1, <2>7, <3>0, <4>1 DEF Outcome, SaveOutcomeTruthful
    <3> QED BY <2>7, <3>1, <3>2, <3>3, <3>4, <3>5, <3>6, <3>7 DEF Saving
  <2> QED BY <1>2, <2>3, <2>4, <2>5, <2>6, <2>7, SavingKeepsLogical
<1> QED BY <1>1, <1>2, RegistersKept

-----------------------------------------------------------------------------
(* The theorems *)

PInv == Recording /\ Position /\ SaveBase /\ Replacing /\ Versions /\ Outcome

\* Nothing is in progress at the start.
LEMMA InitPInv == Init => PInv
<1> SUFFICES ASSUME Init PROVE PInv OBVIOUS
<1>1. /\ journal = None /\ db = None /\ migrating = None /\ pc = "idle" /\ op = "load"
      /\ base = None
      /\ snap = [p \in Proc |-> None] /\ draft = [p \in Proc |-> None]
  BY DEF Init, Idle
<1>2. \A s : s \notin InMemory BY <1>1 DEF InMemory
<1>3. Recording /\ Position /\ SaveBase /\ Replacing /\ Outcome
  BY <1>1 DEF Recording, Position, SaveBase, Replacing, Readable, Outcome
<1>4. Versions BY <1>1, <1>2 DEF Versions, Readable
<1> QED BY <1>3, <1>4 DEF PInv

\* Each part of PInv is kept by every step, given IInv.
LEMMA NextPInv == IInv /\ PInv /\ [Next]_vars => PInv'
BY RecordingStep, PositionStep, SaveBaseStep, ReplacingStep, VersionsStep, OutcomeStep DEF PInv

\* The second layer of the invariant: which documents every journal names, where
\* config.json stands between the steps of a transaction, what a save is based
\* on, which version of which file a process holds, and what the save in
\* progress has done so far.
THEOREM RepositoryWorkingState == Spec => [](IInv /\ PInv)
<1>1. Init => IInv /\ PInv BY InitIInv, InitPInv
<1>2. IInv /\ PInv /\ [Next]_vars => (IInv /\ PInv)' BY NextIInv, NextPInv
<1> QED BY <1>1, <1>2, PTL DEF Spec

\* The answer of every save is true: success means both documents are the ones
\* asked for, a refusal means nothing changed, and a failure means all or nothing,
\* whatever crashed, failed or was edited before.
THEOREM SaveOutcome == Spec => []SaveOutcomeTruthful
<1>1. PInv => SaveOutcomeTruthful BY DEF PInv, Outcome, SaveOutcomeTruthful
<1> QED BY <1>1, RepositoryWorkingState, PTL

\* A save that passed the token check works on the files its draft was made from:
\* the same config.json and, unless a migration replaced the file, the same
\* profiles.
THEOREM NoUpdateIsLost == Spec => []NoLostUpdate
<1>1. ASSUME IInv, PInv, pc \in {"save", "commit_config", "commit_db"}, op = "save"
      PROVE  /\ draft[lock].config = Logical.config
             /\ draft[lock].inc = db.inc => draft[lock].prof = db.prof
  <2>1. base = draft[lock] BY <1>1 DEF PInv, SaveBase
  <2>2. base # None /\ db # None /\ db.ok BY <1>1 DEF IInv, Control
  <2>3. base.rev = db.rev BY <1>1 DEF PInv, SaveBase
  <2>4. Older(base, db) BY <1>1, <2>2 DEF PInv, Versions, InMemory
  <2>5. base.inc = db.inc => base.prof = db.prof BY <2>3, <2>4 DEF Older
  <2>6. base.config = Logical.config
    <3>1. CASE pc = "save"
      <4>1. journal = None /\ base.config = config BY <1>1, <3>1 DEF IInv, Control, PInv, SaveBase
      <4> QED BY <4>1, OfNone, LogicalIs DEF Readable, Docs
    <3>2. CASE pc \in {"commit_config", "commit_db"}
      <4>1. /\ journal # None /\ Readable(journal) /\ journal.old = Mark(db, FALSE)
            /\ config \in {journal.oldConfig, journal.newConfig}
            /\ base.config = journal.oldConfig
        BY <1>1, <3>2, JournalFacts DEF IInv, Underway, PInv, Position, SaveBase
      <4>2. DatabaseMatches(db, journal.old) BY <1>1, <2>2, <4>1, DiskFacts, MatchesOwnMark
      <4>3. Undone(journal, config, db)
        BY <4>1, <4>2 DEF Undone, ConfigKnown, ConfigIsOld, ConfigIsNew
      <4> QED BY <4>1, <4>3, OfUndone, LogicalIs DEF Docs
    <3> QED BY <1>1, <3>1, <3>2
  <2> QED BY <2>1, <2>5, <2>6
<1>2. IInv /\ PInv => NoLostUpdate BY <1>1 DEF NoLostUpdate
<1> QED BY <1>2, RepositoryWorkingState, PTL

\* What load_ready_locked and a finished save put into snapshot_ is the
\* committed pair, never the settings of one transaction with the profiles of
\* another.
THEOREM ReadsAreCommitted == Spec => ReadsCommittedPair
<1>1. ASSUME IInv, [Next]_vars, NEW p \in Proc, snap'[p] \notin {snap[p], None}
      PROVE  /\ snap'[p].config = Logical'.config
             /\ snap'[p].prof = Logical'.db.prof
             /\ snap'[p].rev = Logical'.db.rev
  <2>1. /\ journal' = None /\ config' # None /\ db' # None /\ snap'[p] = SnapOf(config', db')
    BY <1>1, SnapChanges
  <2>2. Logical' = Docs(config', db') BY <2>1, OfNone, LogicalIsNext DEF Readable
  <2>3. db' \in Database BY <1>1, <2>1, NextIInv DEF IInv, TypeOK, TypeDisk
  <2>4. ContentOf(db').prof = db'.prof /\ ContentOf(db').rev = db'.rev
    BY <2>3, ContentFields
  <2> QED BY <2>1, <2>2, <2>4 DEF Docs, SnapOf
<1>2. IInv /\ [Next]_vars =>
        [\A p \in Proc :
            snap'[p] \notin {snap[p], None} =>
                /\ snap'[p].config = Logical'.config
                /\ snap'[p].prof = Logical'.db.prof
                /\ snap'[p].rev = Logical'.db.rev]_vars
  BY <1>1
<1> QED BY <1>2, RepositoryInvariant, PTL DEF Spec, ReadsCommittedPair

\* A database leaves its place only with a copy left behind.
LEMMA ReplacedIsKept ==
    ASSUME IInv, PInv, [Next]_vars, db # None, db.ok, db' = None \/ db'.inc # db.inc
    PROVE  \/ \E b \in dbBackups : b.db = db
           \/ db.mig \in v2Backups /\ \E b \in dbBackups : b.db = db'
<1>0. db \in Database BY DiskFacts
<1>1. CASE db' = db BY <1>1
<1>2. CASE RecoverBackup /\ db' = BackedUp(journal)
  <2>1. Readable(journal) /\ journal # None /\ journal.backup /\ UsableBackup(journal)
    BY <1>2 DEF RecoverBackup, UsableBackup, Readable
  <2>2. db.mig = journal.oldConfig BY <1>2, <2>1 DEF PInv, Replacing
  <2>3. journal.oldConfig \in v2Backups
    BY <2>1, JournalFacts DEF PInv, JournalSound
  <2>4. \E b \in dbBackups : b.db = db' BY <1>2, <2>1 DEF UsableBackup
  <2> QED BY <2>2, <2>3, <2>4
<1>3. ASSUME InitCreate \/ InitSchema \/ InitUndoDb PROVE FALSE
  <2>1. pc \in {"init_create", "init_schema"} BY <1>3 DEF InitCreate, InitSchema, InitUndoDb
  <2>2. db = HalfDb(journal.target.inc) BY <2>1 DEF IInv, Underway
  <2> QED BY <2>2 DEF HalfDb
<1>4. ASSUME (SaveOne /\ db' = SaveDb(db)) \/ CommitDb PROVE FALSE
  <2>1. db' = SaveDb(db) BY <1>4 DEF CommitDb
  <2>2. SaveDb(db) # None /\ SaveDb(db).inc = db.inc
    BY <1>0, SaveDbType DEF IInv, TypeOK, TypeCall
  <2> QED BY <2>1, <2>2
<1>5. CASE pc = "mig_move"
  <2>1. /\ journal # None /\ journal.old = Mark(db, TRUE) /\ journal.kind = "migration"
    BY <1>5 DEF IInv, Underway, PInv, Position
  <2>2. /\ journal.old # None /\ journal.old.inc = db.inc /\ journal.old.rev = db.rev
        /\ journal.old.mig = db.mig /\ journal.old.hash = db.prof
    BY <1>0, <2>1, MarkType, ZenonT(60)
  <2>3. UsableBackup(journal) BY <2>1, <2>2, JournalFacts DEF PInv, JournalSound
  <2>4. BackedUp(journal) = db BY <1>0, <2>2 DEF BackedUp, NewDb, Database
  <2> QED BY <2>3, <2>4 DEF UsableBackup
<1> QED BY <1>1, <1>2, <1>3, <1>4, <1>5, DbChanges

\* The repository writes config.json only over bytes it knows.
LEMMA EditsAreKept ==
    ASSUME IInv, PInv, [Next]_vars, config' # config, edits' = edits
    PROVE  KnownBytes \/ (Readable(journal) /\ journal.backup)
<1>1. ASSUME pc \in {"init_config", "init_create", "init_undo", "commit_config", "commit_undo",
                     "mig_config", "mig_move"}
      PROVE  KnownBytes
  <2>1. journal # None /\ Readable(journal) BY <1>1 DEF IInv, Underway, Readable
  <2>2. config = journal.oldConfig \/ config = journal.newConfig
    BY <1>1 DEF PInv, Position
  <2> QED BY <2>1, <2>2 DEF KnownBytes, ConfigKnown, ConfigIsOld, ConfigIsNew
<1>2. ASSUME pc = "save" PROVE KnownBytes
  BY <1>2 DEF PInv, SaveBase, IInv, Control, KnownBytes
<1>3. ASSUME pc = "restore" PROVE Readable(journal) /\ journal.backup
  BY <1>3 DEF IInv, Underway, Readable
<1>4. CASE Recovery
  <2>1. CASE RecoverConfig
    BY <2>1 DEF RecoverConfig, KnownBytes, Undone, Done
  <2>2. CASE RestoreConfig \/ RecoverFails
    BY <1>3, <2>2 DEF RestoreConfig, RecoverFails
  <2> QED BY <1>4, <2>1, <2>2 DEF Recovery, RecoverNothing, RecoverBackup, RecoverRefuses,
             ClearMigrating, RemoveFiles, RemoveJournal, ClearFails
<1>5. CASE Loading
  BY <1>1, <1>5 DEF Loading, LoadBody, InspectBody, LoadReady, BodyFails, InitJournal,
     InitJournalFails, InitConfig, InitCreate, InitSchema, InitUndoDb, InitUndoConfig, InitFails
<1>6. CASE Saving
  BY <1>1, <1>2, <1>6 DEF Saving, SaveRefused, SaveReady, SaveOne, SaveOneFails, CommitJournal,
     CommitJournalFails, CommitConfig, CommitConfigFails, CommitDb, CommitDbFails, CommitUndo
<1>7. CASE Migrating
  BY <1>1, <1>7 DEF Migrating, MigrateRefused, MigrateV3, MigrateBackup, MigrateBackupDb,
     MigrateCreate, MigrateBlocked, MigrateImport, MigrateJournal, MigrateFails,
     MigrateCreateFails, MigrateConfig, MigrateMove, MigrateSwitchFails
<1>8. ASSUME UNCHANGED vars \/ Calls \/ Return \/ Crash PROVE FALSE
  BY <1>8 DEF vars, Calls, Load, Inspect, Verify, Migrate, SaveSnapshot, SaveDocument, Busy,
     BeginEdit, Return, Crash
<1>9. ASSUME EditConfig PROVE FALSE
  BY <1>9 DEF EditConfig, IInv, TypeOK, TypeLimits
<1> QED BY <1>4, <1>5, <1>6, <1>7, <1>8, <1>9 DEF Next

\* Neither a database file nor bytes of config.json that the repository did not
\* know are destroyed, by migrations, saves, the initialization or recovery.
THEOREM DataIsRespected == Spec => DataRespected
<1>1. IInv /\ PInv /\ [Next]_vars =>
        [db # None /\ db.ok /\ (db' = None \/ db'.inc # db.inc) =>
            \/ \E b \in dbBackups : b.db = db
            \/ db.mig \in v2Backups /\ \E b \in dbBackups : b.db = db']_vars
  BY ReplacedIsKept
<1>2. IInv /\ PInv /\ [Next]_vars =>
        [config' # config /\ edits' = edits =>
            KnownBytes \/ (Readable(journal) /\ journal.backup)]_vars
  BY EditsAreKept
<1> QED BY <1>1, <1>2, RepositoryWorkingState, PTL
        DEF Spec, DataRespected, ReplacedDatabaseRetained, EditsRespected

\* Only the user's edit counts as one.
LEMMA EditsChange ==
    ASSUME [Next]_vars
    PROVE  edits' = edits \/ EditConfig
<1>1. CASE UNCHANGED vars BY <1>1 DEF vars
<1>2. CASE Calls
  BY <1>2 DEF Calls, Load, Inspect, Verify, Migrate, SaveSnapshot, SaveDocument, Busy, BeginEdit
<1>3. CASE Recovery
  BY <1>3 DEF Recovery, RecoverNothing, RecoverConfig, RecoverBackup, RestoreConfig,
     RecoverRefuses, RecoverFails, ClearMigrating, RemoveFiles, RemoveJournal, ClearFails
<1>4. CASE Loading
  BY <1>4 DEF Loading, LoadBody, InspectBody, LoadReady, BodyFails, InitJournal,
     InitJournalFails, InitConfig, InitCreate, InitSchema, InitUndoDb, InitUndoConfig, InitFails
<1>5. CASE Saving
  BY <1>5 DEF Saving, SaveRefused, SaveReady, SaveOne, SaveOneFails, CommitJournal,
     CommitJournalFails, CommitConfig, CommitConfigFails, CommitDb, CommitDbFails, CommitUndo
<1>6. CASE Migrating
  BY <1>6 DEF Migrating, MigrateRefused, MigrateV3, MigrateBackup, MigrateBackupDb,
     MigrateCreate, MigrateBlocked, MigrateImport, MigrateJournal, MigrateFails,
     MigrateCreateFails, MigrateConfig, MigrateMove, MigrateSwitchFails
<1>7. CASE Return \/ Crash BY <1>7 DEF Return, Crash
<1> QED BY <1>1, <1>2, <1>3, <1>4, <1>5, <1>6, <1>7 DEF Next

\* Every step of the repository is a step of the register or changes nothing of
\* it.
LEMMA RegisterStep ==
    ASSUME IInv, PInv, [Next]_vars
    PROVE  R!Next
<1>0. Recording /\ Position /\ SaveBase BY DEF PInv
<1>1. CASE Logical' = Logical /\ ~EditConfig
  BY <1>1, EditsChange DEF R!Next, R!Call
<1>2. CASE EditConfig
  BY <1>0, <1>2, EditEffect DEF R!Next
<1>3. CASE InitSchema
  BY <1>0, <1>3, InitializeEffect DEF R!Next
<1>4. CASE (SaveOne \/ SaveOneFails \/ CommitDb) /\ Logical' # Logical
  <2>1. /\ Logical' = After(Logical)
        /\ base # None /\ Logical.config # None /\ Logical.db # None
        /\ Logical.config = base.config /\ Logical.db.rev = base.rev
        /\ UNCHANGED <<base, edits>>
    BY <1>0, <1>4, SaveEffect
  <2>2. want.app \in App /\ want.prof \in Prof BY DiskFacts
  <2>3. Logical'.config = Canonical(want.app)
    BY <2>1 DEF After, NewConfig
  <2>4. Logical'.db = IF Logical.db.prof = want.prof THEN Logical.db
                      ELSE [Logical.db EXCEPT !.rev = @ + 1, !.prof = want.prof]
    BY <2>1 DEF After
  <2>5. \/ Logical'.db = Logical.db
        \/ \E r \in Prof \ {Logical.db.prof} :
              Logical'.db = [Logical.db EXCEPT !.rev = @ + 1, !.prof = r]
    BY <2>2, <2>4
  <2>6. R!TokenMatches(base, Logical) BY <2>1, RegisterData DEF TokenMatches
  <2>7. \E a \in App : Logical'.config = R!Canonical(a) BY <2>2, <2>3, RegisterData
  <2>8. R!Commit BY <2>1, <2>5, <2>6, <2>7 DEF R!Commit
  <2> QED BY <2>8 DEF R!Next
<1>5. CASE /\ \/ RemoveFiles /\ then = "ready"
              \/ /\ pc = "mig_move" /\ db' = migrating
                 /\ UNCHANGED <<config, journal, base, edits, op>>
           /\ Logical' # Logical
  BY <1>0, <1>5, MigrateEffect DEF R!Next
<1> QED BY <1>0, <1>1, <1>2, <1>3, <1>4, <1>5, LogicalChanges

\* The repository implements the register: crashes, failed writes, recovery and
\* user edits included, the pair (config.json, profiles.db) only ever changes as
\* a whole, and by a client only from the current token.
THEOREM RepositoryImplementsRegister == Spec => ImplementsRegister
<1>1. Init => R!Init
  <2> SUFFICES ASSUME Init PROVE R!Init OBVIOUS
  <2>1. journal = None /\ db = None /\ base = None /\ edits = 0 BY DEF Init, Idle
  <2>2. Logical.db = None BY <2>1, OfNone, LogicalIs DEF Readable, Docs, ContentOf
  <2> QED BY <2>1, <2>2 DEF R!Init
<1>2. IInv /\ PInv /\ [Next]_vars => [R!Next]_<<Logical, base, edits>>
  BY RegisterStep
<1> QED BY <1>1, <1>2, RepositoryWorkingState, PTL DEF Spec, ImplementsRegister, R!Spec
=============================================================================
