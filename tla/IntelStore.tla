----------------------------- MODULE IntelStore -----------------------------
(***************************************************************************)
(* The advisory database: pkgsafe update-db and the background refresh     *)
(* write it bucket by bucket, db export-bundle copies it into a ZIP, db    *)
(* import-bundle verifies a ZIP and puts its copy in place, db status      *)
(* judges how fresh it is.  Every command is a process of its own that may *)
(* be killed between two steps; a process keeps the file it opened, even   *)
(* when an import puts another at the same path.                           *)
(*                                                                         *)
(* OSV publishes one more advisory per bucket at every tick of the clock,  *)
(* so that advisory n is the one published at time n.                      *)
(***************************************************************************)
EXTENDS Integers, Sequences, FiniteSets, FiniteSetsExt

CONSTANTS
  Updaters, Exporters, Importers,   \* processes
  AllEcosystems,   \* the OSV buckets, in the order they are synchronised
  BatchSize,       \* saveBatchSize
  RefreshAfter,    \* age at which a scan refreshes them in the background
  InitialDatabases,   \* what may be at the path at first
  Unreadable,      \* for a bucket, the advisories whose entry in it is oversize or malformed
  MaxTime,         \* bound on the clock
  MaxFiles,        \* bound on the databases at the path, for an import to begin
  MaxCommands,     \* bound on the commands started
  None

ASSUME IntelAssumption ==
  /\ {BatchSize, RefreshAfter, MaxTime, MaxFiles, MaxCommands} \subseteq Nat \ {0}
  /\ None \notin Nat

Buckets == {AllEcosystems[i] : i \in DOMAIN AllEcosystems}
Published(time) == 1..time

\* ParseBulkZip skips an entry that it cannot read and goes on.
Delivered(bucket, time) == Published(time) \ Unreadable[bucket]

\* "last_update_" followed by the bucket's OSV name ...
MarkKey(bucket) == CASE bucket = "npm" -> "last_update_npm"
                     [] bucket = "PyPI" -> "last_update_PyPI"
                     [] bucket = "Go" -> "last_update_Go"
                     [] bucket = "crates.io" -> "last_update_crates.io"
\* ... and the keys that status and manifest look up.
LastUpdateKeys == {"last_update", "last_update_npm", "last_update_pypi",
                   "last_update_go", "last_update_cargo"}
Keys == {"last_update"} \cup {MarkKey(b) : b \in Buckets}

VARIABLES
  now,
  started,    \* how many commands were started
  files,      \* the databases, the newest at the path; see Database
  bundle,     \* the ZIP at the bundle's path; see Bundle
  tmp,        \* the temporary file that all imports share
  updater, exporter, importer    \* what each process is doing

vars == <<now, started, files, bundle, tmp, updater, exporter, importer>>

----------------------------------------------------------------------------
(* Databases.  earned and intact are history fields: when the              *)
(* synchronisation that last marked a bucket in this database had fetched  *)
(* it, and whether the database was never rewritten by hand in a bundle    *)
(* nor written by two imports at a time.  whole is FALSE in a copy taken,  *)
(* or cut, in the middle of a write.                                       *)

Marks    == [Keys -> {None} \cup 1..MaxTime]
Database == [rows : [Buckets -> SUBSET (1..MaxTime)], marks : Marks,
             popular : SUBSET {"seed", "remote"}, compositeKey : BOOLEAN,
             earned : [Buckets -> 0..MaxTime], intact : BOOLEAN, whole : BOOLEAN]

EmptyDatabase ==
  [rows |-> [b \in Buckets |-> {}], marks |-> [k \in Keys |-> None], popular |-> {},
   compositeKey |-> TRUE, earned |-> [b \in Buckets |-> 0], intact |-> TRUE, whole |-> TRUE]

\* A database of an older release: keyed by advisory alone, one mark for all.
LegacyDatabase ==
  [EmptyDatabase EXCEPT !.compositeKey = FALSE, !.rows = [b \in Buckets |-> {1}],
                        !.marks["last_update"] = 1, !.earned = [b \in Buckets |-> 1]]

\* Opening drops the table of an older schema; a synchronisation fills it again.
Migrate(d) ==
  IF d.compositeKey THEN d
  ELSE [d EXCEPT !.compositeKey = TRUE, !.rows = [b \in Buckets |-> {}],
                 !.earned = [b \in Buckets |-> 0]]

MarksAreEarned(d) ==
  \A b \in Buckets :
    d.marks[MarkKey(b)] # None =>
      /\ d.earned[b] > 0 /\ d.earned[b] <= d.marks[MarkKey(b)]
      /\ Delivered(b, d.earned[b]) \subseteq d.rows[b]

\* What one can open: marks that were earned, and in the older schema, whose rows a
\* migration drops, none of a bucket.
Sound(d) ==
  /\ d \in Database
  /\ d.intact => /\ MarksAreEarned(d)
                 /\ d.compositeKey \/ \A b \in Buckets : d.marks[MarkKey(b)] = None

ASSUME DatabaseAssumption ==
  /\ AllEcosystems \in Seq({"npm", "PyPI", "Go", "crates.io"}) /\ AllEcosystems # <<>>
  /\ \A d \in InitialDatabases : Sound(d)

Current == Len(files)

NeedsUpdateKey(d, key, threshold) ==
  d.marks[key] # None => now - d.marks[key] > threshold

\* The looked-up keys that are set.
Recorded(d) == {k \in LastUpdateKeys \cap Keys : d.marks[k] # None}

----------------------------------------------------------------------------
(* update-db and the background refresh of a scan.                         *)

Resting == [pc |-> "idle"]

Init ==
  /\ now = 1 /\ started = 0
  /\ \E d \in InitialDatabases : files = <<d>>
  /\ bundle = None /\ tmp = None
  /\ updater = [u \in Updaters |-> Resting]
  /\ exporter = [e \in Exporters |-> Resting]
  /\ importer = [i \in Importers |-> Resting]

\* A process opens, and so migrates, the database at the path.
Start == started < MaxCommands /\ started' = started + 1

Open == files' = [files EXCEPT ![Current] = Migrate(@)]

Update(u) == updater[u]
Write(u, d) == files' = [files EXCEPT ![Update(u).file] = d]
Handle(u) == files[Update(u).file]
Bucket(u) == Head(Update(u).todo)

Begin(u, buckets) ==
  /\ updater[u].pc = "idle"
  /\ Start /\ Open
  /\ updater' = [updater EXCEPT ![u] =
       [pc |-> "fetch", file |-> Current, todo |-> buckets, records |-> {},
        fetched |-> 0, failures |-> 0, requested |-> Len(buckets)]]
  /\ UNCHANGED <<now, bundle, tmp, exporter, importer>>

UpdateDB(u) == \E buckets \in {AllEcosystems} \cup {<<b>> : b \in Buckets} : Begin(u, buckets)

\* A scan refreshes its own ecosystem, a server all of them, when they are old.
UpdateDBAsync(u) ==
  \/ \E b \in Buckets :
       NeedsUpdateKey(Migrate(files[Current]), MarkKey(b), RefreshAfter) /\ Begin(u, <<b>>)
  \/ NeedsUpdateKey(Migrate(files[Current]), "last_update", RefreshAfter)
       /\ Begin(u, AllEcosystems)

\* The next bucket, or what follows the last one.
NextBucket(state, failed) ==
  [state EXCEPT !.todo = Tail(@), !.records = {}, !.failures = @ + failed,
                !.pc = IF Len(state.todo) = 1 THEN "finish" ELSE "fetch"]

Step(u, state) == updater' = [updater EXCEPT ![u] = state]
Others == <<now, started, bundle, tmp, exporter, importer>>

\* What the archive delivers; what it does not is not missed.
FetchBulk(u) ==
  /\ Update(u).pc = "fetch"
  /\ Step(u, [Update(u) EXCEPT !.pc = "save", !.records = Delivered(Bucket(u), now), !.fetched = now])
  /\ UNCHANGED <<files, Others>>

\* Mutant: the mark is set although the synchronisation failed.
SyncFails_Marked(u) ==
  /\ Update(u).pc \in {"fetch", "save"}
  /\ Write(u, [Handle(u) EXCEPT !.marks[MarkKey(Bucket(u))] = now])
  /\ Step(u, NextBucket(Update(u), 1))
  /\ UNCHANGED Others

\* The download fails, or a transaction does: what was committed stays.
SyncFails(u) ==
  /\ Update(u).pc = "fetch" \/ (Update(u).pc = "save" /\ Update(u).records # {})
  /\ Step(u, NextBucket(Update(u), 1))
  /\ UNCHANGED <<files, Others>>

\* One transaction per batch, each row inserted or replaced.
SaveVulnerabilities(u) ==
  /\ Update(u).pc = "save" /\ Update(u).records # {}
  /\ LET records == Update(u).records
         batch == {r \in records : Cardinality({s \in records : s < r}) < BatchSize}
     IN /\ Write(u, [Handle(u) EXCEPT !.rows[Bucket(u)] = @ \cup batch])
        /\ Step(u, [Update(u) EXCEPT !.records = @ \ batch])
  /\ UNCHANGED Others

\* The mark is the time at the end, and an error of writing it is ignored.
MarkSynced(u) ==
  /\ Update(u).pc = "save" /\ Update(u).records = {}
  /\ \E written \in BOOLEAN :
       Write(u, [Handle(u) EXCEPT
         !.marks[MarkKey(Bucket(u))] = IF written THEN now ELSE @,
         !.earned[Bucket(u)] = IF written THEN Update(u).fetched ELSE @])
  /\ Step(u, NextBucket(Update(u), 0))
  /\ UNCHANGED Others

\* The list of popular packages is saved, the remote one or else the built-in seeds, or
\* that fails; last_update is set whatever failed.
FinishUpdate(u) ==
  /\ Update(u).pc = "finish"
  /\ \E list \in {{"remote"}, {"seed"}, {}} :
       Write(u, [Handle(u) EXCEPT !.popular = @ \cup list, !.marks["last_update"] = now])
  /\ Step(u, Resting)
  /\ UNCHANGED Others

UpdaterKilled(u) ==
  /\ Update(u).pc # "idle"
  /\ Step(u, Resting)
  /\ UNCHANGED <<files, Others>>

----------------------------------------------------------------------------
(* Bundles.  A checksum or a digest is a copy of what it was computed from;*)
(* origin is a history field, what the bundle was sealed over.             *)

Manifest(d) == [marks |-> [k \in Recorded(d) |-> d.marks[k]],
                count |-> [b \in Buckets |-> Cardinality(d.rows[b])]]

\* A bundle of a manifest and a database, its checksums computed over them.
Sealed(content, db) ==
  LET m == [content |-> content, sha256 |-> db]
  IN [readable |-> TRUE, known |-> TRUE, manifest |-> m, db |-> db,
      checksums |-> <<m, db>>, signed |-> FALSE, origin |-> <<content, db>>]

\* An import that has verified a bundle.  seen is a history field: the database that it
\* saw, or None once the bundle was replaced before it was read again.
Verified(db) == [pc |-> "verified", seen |-> db]

\* The bundle at the path is another one, under the hands of the imports that verified it.
BundleReplaced(b) ==
  /\ bundle' = b
  /\ importer' = [i \in Importers |->
                   IF importer[i].pc = "verified" THEN Verified(None) ELSE importer[i]]

Others2 == <<now, started, tmp, updater>>
ExportStep(e, state) == exporter' = [exporter EXCEPT ![e] = state]

ExportManifest(e) ==
  /\ exporter[e].pc = "idle"
  /\ Start /\ Open
  /\ ExportStep(e, [pc |-> "read", manifest |-> Manifest(Migrate(files[Current]))])
  /\ UNCHANGED <<now, bundle, tmp, updater, importer>>

\* The database file is read from the path as it is, from its first to its last byte.
ExportReadBegins(e) ==
  /\ exporter[e].pc = "read"
  /\ ExportStep(e, [pc |-> "reading", manifest |-> exporter[e].manifest,
                    file |-> Current, first |-> files[Current]])
  /\ UNCHANGED <<files, bundle, importer, Others2>>

ExportReadEnds(e) ==
  /\ exporter[e].pc = "reading"
  /\ LET last == files[exporter[e].file]
         copy == [last EXCEPT !.whole = @ /\ exporter[e].first = last]
     IN ExportStep(e, [pc |-> "write", manifest |-> exporter[e].manifest, db |-> copy])
  /\ UNCHANGED <<files, bundle, importer, Others2>>

\* The ZIP at the path is truncated, then written.
ExportWriteBegins(e) ==
  /\ exporter[e].pc = "write"
  /\ BundleReplaced([readable |-> FALSE])
  /\ ExportStep(e, [exporter[e] EXCEPT !.pc = "writing"])
  /\ UNCHANGED <<files, Others2>>

ExportWriteEnds(e) ==
  /\ exporter[e].pc = "writing"
  /\ BundleReplaced(Sealed(exporter[e].manifest, exporter[e].db))
  /\ ExportStep(e, Resting)
  /\ UNCHANGED <<files, Others2>>

ExporterKilled(e) ==
  /\ exporter[e].pc # "idle"
  /\ ExportStep(e, Resting)
  /\ UNCHANGED <<files, bundle, importer, Others2>>

\* On its way the bundle may, once, lose bytes of its database, or its manifest, or turn into one of
\* another kind, schema or distribution.
BundleAltered ==
  /\ bundle # None /\ bundle.readable /\ bundle.known /\ ~bundle.signed
  /\ bundle.origin = <<bundle.manifest.content, bundle.db>>
  /\ \/ BundleReplaced([bundle EXCEPT !.db.whole = FALSE])
     \/ BundleReplaced([bundle EXCEPT !.manifest.content.marks = [k \in {} |-> 0]])
     \/ BundleReplaced([bundle EXCEPT !.known = FALSE])
     \/ BundleReplaced([bundle EXCEPT !.signed = TRUE])
  /\ UNCHANGED <<now, started, files, tmp, updater, exporter>>

\* Or somebody rewrites it and computes its sums again, which nothing in it can tell:
\* here, to a database without its advisories.
BundleRewritten ==
  /\ bundle # None /\ bundle.readable
  /\ LET db == [bundle.db EXCEPT !.rows = [b \in Buckets |-> {}], !.intact = FALSE]
     IN BundleReplaced(Sealed(Manifest(db), db))
  /\ UNCHANGED <<now, started, files, tmp, updater, exporter>>

\* Mutant: neither checksums.txt nor the digest of the manifest is compared.
Verify_NoChecksums(b) == b.readable /\ b.known /\ ~b.signed

\* Kind and schema, then checksums.txt, then the digest in the manifest; a signature
\* has no verifier in this build.
Verify(b) ==
  /\ b.readable /\ b.known
  /\ b.checksums = <<b.manifest, b.db>>
  /\ b.manifest.sha256 = b.db
  /\ ~b.signed

(* Imports share the name of their temporary file, and a writer keeps the  *)
(* file it opened: into says which, the one of that name (Temporary), one  *)
(* that another import has put in place meanwhile (its index in files) or  *)
(* has removed (Gone).  alone is a history field: no other import has used *)
(* the name since this one opened it.                                      *)
Temporary == 0
Gone == -1

Others3 == <<now, started, updater, exporter>>
ImportStep(i, state) == importer' = [importer EXCEPT ![i] = state]
Writers == {i \in Importers : importer[i].pc \in {"writing", "rename"}}

ImportVerify(i) ==
  /\ importer[i].pc = "idle" /\ bundle # None /\ Current < MaxFiles
  /\ Verify(bundle)
  /\ Start
  /\ ImportStep(i, Verified(bundle.db))
  /\ UNCHANGED <<now, files, bundle, tmp, updater, exporter>>

\* The bundle is read a second time, for its payload; one that is no longer there, or
\* that has lost its header, ends the import.
ImportRead(i) ==
  /\ importer[i].pc = "verified"
  /\ \/ /\ bundle.readable
        /\ ImportStep(i, [pc |-> "write", payload |-> bundle.db, seen |-> importer[i].seen,
                          alone |-> FALSE, into |-> Temporary])
     \/ /\ bundle.readable => ~bundle.db.whole
        /\ ImportStep(i, Resting)
  /\ UNCHANGED <<files, bundle, tmp, Others3>>

ImportWriteBegins(i) ==
  /\ importer[i].pc = "write"
  /\ tmp' = [importer[i].payload EXCEPT !.whole = FALSE]
  /\ importer' = [j \in Importers |->
       IF j = i THEN [importer[j] EXCEPT !.pc = "writing", !.alone = Writers = {}]
       ELSE IF j \in Writers THEN [importer[j] EXCEPT !.alone = FALSE]
       ELSE importer[j]]
  /\ UNCHANGED <<files, bundle, Others3>>

\* Two writers of one file may leave a mixture.
ImportWriteEnds(i) ==
  /\ importer[i].pc = "writing"
  /\ \E mixed \in IF importer[i].alone THEN {FALSE} ELSE BOOLEAN :
       LET payload == importer[i].payload
           content == IF importer[i].alone THEN payload
                      ELSE [payload EXCEPT !.whole = @ /\ ~mixed, !.intact = FALSE]
           into == importer[i].into
       IN /\ tmp' = IF into = Temporary THEN content ELSE tmp
          /\ files' = IF into > 0 THEN [files EXCEPT ![into] = content] ELSE files
  /\ ImportStep(i, [importer[i] EXCEPT !.pc = "rename"])
  /\ UNCHANGED <<bundle, Others3>>

\* The import ends, and the file under the name is elsewhere, also for its other writers.
TemporaryMoves(i, to) ==
  /\ tmp' = None
  /\ importer' = [j \in Importers |->
       IF j = i THEN Resting
       ELSE IF importer[j].pc = "writing" /\ importer[j].into = Temporary
         THEN [importer[j] EXCEPT !.into = to]
       ELSE importer[j]]

Installed(i) == IF importer[i].alone THEN tmp ELSE [tmp EXCEPT !.intact = FALSE]

\* Mutant: the temporary file is put in place before it is complete.
ImportRename_Early(i) ==
  /\ importer[i].pc \in {"writing", "rename"} /\ tmp # None
  /\ files' = Append(files, Installed(i))
  /\ TemporaryMoves(i, Len(files) + 1)
  /\ UNCHANGED <<bundle, Others3>>

\* Whatever has that name is put in place.
ImportRename(i) ==
  /\ importer[i].pc = "rename" /\ tmp # None
  /\ files' = Append(files, Installed(i))
  /\ TemporaryMoves(i, Len(files) + 1)
  /\ UNCHANGED <<bundle, Others3>>

\* Another import has renamed it first, or renaming fails, and it is removed.
ImportRenameFails(i) ==
  /\ importer[i].pc = "rename"
  /\ TemporaryMoves(i, Gone)
  /\ UNCHANGED <<files, bundle, Others3>>

ImporterKilled(i) ==
  /\ importer[i].pc # "idle"
  /\ ImportStep(i, Resting)
  /\ UNCHANGED <<files, bundle, tmp, Others3>>

----------------------------------------------------------------------------
DBStatus == Open /\ UNCHANGED <<now, started, bundle, tmp, updater, exporter, importer>>

Tick == now < MaxTime /\ now' = now + 1
        /\ UNCHANGED <<started, files, bundle, tmp, updater, exporter, importer>>

UpdaterStep(u) ==
  \/ UpdateDB(u) \/ UpdateDBAsync(u) \/ FetchBulk(u) \/ SyncFails(u)
  \/ SaveVulnerabilities(u) \/ MarkSynced(u) \/ FinishUpdate(u) \/ UpdaterKilled(u)
ExporterStep(e) ==
  \/ ExportManifest(e) \/ ExportReadBegins(e) \/ ExportReadEnds(e)
  \/ ExportWriteBegins(e) \/ ExportWriteEnds(e) \/ ExporterKilled(e)
ImporterStep(i) ==
  \/ ImportVerify(i) \/ ImportRead(i) \/ ImportWriteBegins(i) \/ ImportWriteEnds(i)
  \/ ImportRename(i) \/ ImportRenameFails(i) \/ ImporterKilled(i)

Next ==
  \/ \E u \in Updaters : UpdaterStep(u)
  \/ \E e \in Exporters : ExporterStep(e)
  \/ \E i \in Importers : ImporterStep(i)
  \/ DBStatus \/ BundleAltered \/ BundleRewritten \/ Tick

Spec == Init /\ [][Next]_vars

----------------------------------------------------------------------------
\* A bucket's mark is there only when one synchronisation of that bucket was completed,
\* and every advisory that its archive then delivered is in the database (an entry too
\* large or malformed is passed over and missed by nobody), through failures, kills,
\* concurrent updates, migrations and imports.  Not so in a database that was rewritten
\* inside a bundle, or that imports side by side have written (internal/cli update_db.go
\* updateDB, internal/db migrations.go, internal/dbbundle bundle.go Import).
MarkIsEarned == \A f \in 1..Len(files) : files[f].intact => MarksAreEarned(files[f])

InstallsPayload(i) ==
  /\ importer[i].pc = "rename" /\ importer'[i].pc = "idle"
  /\ importer[i].alone =>
       /\ files' = Append(files, importer[i].payload)
       /\ importer[i].seen # None => importer[i].payload = importer[i].seen
OnlyImportsInstall == Len(files') # Len(files) => \E i \in Importers : InstallsPayload(i)

\* What replaces the database is put there by an import, and by one that had the temporary
\* file to itself exactly the payload it read, complete if that was: the half of a file
\* that a killed import left is never put in place.  That is the database it verified, if
\* the bundle at the path stayed what it was until it was read again; what replaced it
\* meanwhile is installed as it is.  Imports side by side, which share the file, may put
\* anything there, each other's half among it (internal/dbbundle bundle.go Import).
ImportInstallsPayload == [][OnlyImportsInstall]_files

\* A bundle that passes verification holds a database and a manifest that were sealed
\* together, by one export or by somebody who computed the sums again: exports that
\* overwrite each other and changes that leave the sums as they were never pass (bundle.go
\* Export, Verify).
VerifiedIsOneSealing ==
  (bundle # None /\ Verify(bundle)) => bundle.origin = <<bundle.manifest.content, bundle.db>>
=============================================================================
