-------------------------- MODULE IntelStore_proofs --------------------------
(***************************************************************************)
(* What the files of the advisory store are worth, for any number of       *)
(* processes, any times, advisories and databases.                         *)
(*                                                                         *)
(* A bundle that verifies was sealed as it is (VerifiedIsOneSealing): what  *)
(* the checksums were computed from is never written again alone, and      *)
(* verification compares everything else with it.                          *)
(*                                                                         *)
(* A time of update recorded for an ecosystem was earned by a download of  *)
(* it (MarkIsEarned).  A database gets into the store by a migration, a    *)
(* transaction, an export and an import, so StoreInv says of every copy,   *)
(* in a file, in a transaction or in a bundle, that its marks are earned.  *)
(*                                                                         *)
(* An import that has the temporary file to itself installs exactly what   *)
(* it read (ImportInstallsPayload), however many run beside it and         *)
(* wherever others were killed.                                            *)
(***************************************************************************)
EXTENDS IntelStore, SequenceTheorems, TLAPS

BundleFields == {"readable", "known", "manifest", "db", "checksums", "signed", "origin"}

\* A complete bundle has checksums of what its export put in.
ChecksumsAreOfOrigin(b) ==
  /\ DOMAIN b = BundleFields
  /\ b.origin = <<b.checksums[1].content, b.checksums[2]>>

BundleInv == bundle # None => (bundle.readable => ChecksumsAreOfOrigin(bundle))

\* What is sealed has the checksums of its manifest and database
\* (bundle.go Export, checksums.txt).
LEMMA SealedBundle ==
  ASSUME NEW content, NEW db
  PROVE  ChecksumsAreOfOrigin(Sealed(content, db)) /\ Sealed(content, db).db = db
<1> DEFINE m == [content |-> content, sha256 |-> db]
           b == [readable |-> TRUE, known |-> TRUE, manifest |-> m, db |-> db,
                 checksums |-> <<m, db>>, signed |-> FALSE, origin |-> <<content, db>>]
<1>1. DOMAIN b = BundleFields
  BY Zenon DEF BundleFields
<1>2. b.checksums = <<m, db>> /\ b.db = db
  BY Zenon
<1>3. b.origin = <<content, db>>
  BY Zenon
<1>4. m.content = content
  BY Zenon
<1> HIDE DEF m, b
<1>5. b.checksums[1] = m /\ b.checksums[2] = db
  BY <1>2
<1>6. ChecksumsAreOfOrigin(b)
  BY <1>1, <1>3, <1>4, <1>5 DEF ChecksumsAreOfOrigin
<1> QED BY <1>2, <1>6, Zenon DEF b, m, Sealed

\* Writing another field of a bundle leaves its checksums and origin.
LEMMA OtherField ==
  ASSUME NEW b, ChecksumsAreOfOrigin(b), NEW f \in {"db", "manifest", "known", "signed"}, NEW v
  PROVE  ChecksumsAreOfOrigin([b EXCEPT ![f] = v])
<1> DEFINE c == [b EXCEPT ![f] = v]
<1>1. DOMAIN c = DOMAIN b
  OBVIOUS
<1>2. c["checksums"] = b["checksums"] /\ c["origin"] = b["origin"]
  BY DEF ChecksumsAreOfOrigin, BundleFields
<1> QED BY <1>1, <1>2, Zenon DEF ChecksumsAreOfOrigin

\* A bundle on its way may change in any field it was not computed over.
LEMMA AlteredKeeps == BundleInv /\ BundleAltered => BundleInv'
<1> SUFFICES ASSUME BundleInv, BundleAltered PROVE BundleInv'
  OBVIOUS
<1>1. ChecksumsAreOfOrigin(bundle)
  BY DEF BundleInv, BundleAltered
<1>2. \E f \in {"db", "manifest", "known", "signed"} : \E v : bundle' = [bundle EXCEPT ![f] = v]
  <2>1. CASE bundle' = [bundle EXCEPT !.db.whole = FALSE]
    BY <2>1, Zenon
  <2>2. CASE bundle' = [bundle EXCEPT !.manifest.content.marks = [k \in {} |-> 0]]
    BY <2>2, Zenon
  <2>3. CASE bundle' = [bundle EXCEPT !.known = FALSE]
    BY <2>3, Zenon
  <2>4. CASE bundle' = [bundle EXCEPT !.signed = TRUE]
    BY <2>4, Zenon
  <2> QED BY <2>1, <2>2, <2>3, <2>4, Zenon DEF BundleAltered, BundleReplaced
<1>3. PICK f \in {"db", "manifest", "known", "signed"} : \E v : bundle' = [bundle EXCEPT ![f] = v]
  BY <1>2
<1>4. PICK v : bundle' = [bundle EXCEPT ![f] = v]
  BY <1>3
<1>5. ChecksumsAreOfOrigin([bundle EXCEPT ![f] = v])
  BY <1>1, OtherField
<1>6. ChecksumsAreOfOrigin(bundle')
  BY <1>4, <1>5
<1> QED BY <1>6, Zenon DEF BundleInv, ChecksumsAreOfOrigin

\* Whoever rewrites it seals it again.
LEMMA RewrittenKeeps == BundleRewritten => BundleInv'
<1> SUFFICES ASSUME BundleRewritten PROVE BundleInv'
  OBVIOUS
<1>1. PICK content, db : bundle' = Sealed(content, db)
  BY Zenon DEF BundleRewritten, BundleReplaced
<1>2. ChecksumsAreOfOrigin(bundle')
  BY <1>1, SealedBundle, Zenon
<1> QED BY <1>2, Zenon DEF BundleInv, ChecksumsAreOfOrigin

\* The steps of an export: it truncates the bundle's path, then writes it whole.
LEMMA ExportKeeps == ASSUME NEW e \in Exporters, BundleInv, ExporterStep(e) PROVE BundleInv'
<1>1. CASE ExportWriteBegins(e)
  <2>1. bundle' = [readable |-> FALSE]
    BY <1>1, Zenon DEF ExportWriteBegins, BundleReplaced
  <2>2. ~bundle'.readable
    BY <2>1, Zenon
  <2> QED BY <2>2, Zenon DEF BundleInv
<1>2. CASE ExportWriteEnds(e)
  <2>1. ChecksumsAreOfOrigin(bundle')
    <3>1. bundle' = Sealed(exporter[e].manifest, exporter[e].db)
      BY <1>2 DEF ExportWriteEnds, BundleReplaced
    <3> QED BY <3>1, SealedBundle, Zenon
  <2> QED BY <2>1, Zenon DEF BundleInv, ChecksumsAreOfOrigin
<1>3. CASE ~ExportWriteBegins(e) /\ ~ExportWriteEnds(e)
  <2>1. bundle' = bundle
    BY <1>3, Zenon DEF ExporterStep, ExportManifest, ExportReadBegins, ExportReadEnds,
                       ExporterKilled, Others2
  <2> QED BY <2>1, Zenon DEF BundleInv, ChecksumsAreOfOrigin
<1> QED BY <1>1, <1>2, <1>3

\* Synchronisations and imports leave the bundle alone.
LEMMA UpdaterKeeps == ASSUME NEW u \in Updaters, UpdaterStep(u) PROVE bundle' = bundle
  BY Zenon DEF UpdaterStep, UpdateDB, UpdateDBAsync, Begin, FetchBulk, SyncFails,
               SaveVulnerabilities, MarkSynced, FinishUpdate, UpdaterKilled, Others

LEMMA ImporterKeeps == ASSUME NEW i \in Importers, ImporterStep(i) PROVE bundle' = bundle
  BY Zenon DEF ImporterStep, ImportVerify, ImportRead, ImportWriteBegins, ImportWriteEnds,
               ImportRename, ImportRenameFails, ImporterKilled, Others3

LEMMA BundleKeeps == BundleInv /\ [Next]_vars => BundleInv'
<1> SUFFICES ASSUME BundleInv, [Next]_vars PROVE BundleInv'
  OBVIOUS
<1>1. CASE bundle' = bundle
  BY <1>1, Zenon DEF BundleInv, ChecksumsAreOfOrigin
<1>2. CASE UNCHANGED vars
  BY <1>1, <1>2 DEF vars
<1>3. ASSUME NEW u \in Updaters, UpdaterStep(u) PROVE BundleInv'
  BY <1>1, <1>3, UpdaterKeeps
<1>4. ASSUME NEW e \in Exporters, ExporterStep(e) PROVE BundleInv'
  BY <1>4, ExportKeeps
<1>5. ASSUME NEW i \in Importers, ImporterStep(i) PROVE BundleInv'
  BY <1>1, <1>5, ImporterKeeps
<1>6. CASE DBStatus \/ Tick
  BY <1>1, <1>6, Zenon DEF DBStatus, Tick
<1>7. CASE BundleAltered \/ BundleRewritten
  BY <1>7, AlteredKeeps, RewrittenKeeps
<1> QED BY <1>2, <1>3, <1>4, <1>5, <1>6, <1>7 DEF Next

\* A bundle that passes verification holds a database and a manifest that were sealed
\* together, by one export or by whoever computed the sums again: exports that overwrite
\* each other and changes that leave the sums as they were never pass (bundle.go Export,
\* Verify).
THEOREM VerifiedIsOneSealingTheorem == Spec => []VerifiedIsOneSealing
<1>1. Init => BundleInv
  BY DEF Init, BundleInv
<1>2. BundleInv /\ [Next]_vars => BundleInv'
  BY BundleKeeps
<1>3. BundleInv => VerifiedIsOneSealing
  <2> SUFFICES ASSUME BundleInv, bundle # None, Verify(bundle)
               PROVE  bundle.origin = <<bundle.manifest.content, bundle.db>>
    BY DEF VerifiedIsOneSealing
  <2>1. bundle.origin = <<bundle.checksums[1].content, bundle.checksums[2]>>
    BY Zenon DEF BundleInv, ChecksumsAreOfOrigin, Verify
  <2>2. bundle.checksums = <<bundle.manifest, bundle.db>>
    BY Zenon DEF Verify
  <2>3. bundle.checksums[1] = bundle.manifest /\ bundle.checksums[2] = bundle.db
    BY <2>2
  <2> QED BY <2>1, <2>3, Zenon
<1> QED BY <1>1, <1>2, <1>3, PTL DEF Spec

----------------------------------------------------------------------------
(* Every mark is earned: MarkIsEarned.  The databases at the path, in a     *)
(* bundle and on their way into or out of one are all Sound, and what an    *)
(* updater fetched is in its file or among the records it still has to      *)
(* save.                                                                    *)

Working(u) == updater[u].pc # "idle"

UpdaterType(u) ==
  /\ updater[u].file \in 1..Len(files)
  /\ updater[u].todo \in Seq(Buckets)
  /\ updater[u].records \in SUBSET (1..MaxTime)
  /\ updater[u].fetched \in 0..now

\* What an updater fetched and did not save yet it still holds.
FetchedIsKept(u) ==
  /\ updater[u].fetched > 0
  /\ Delivered(Head(updater[u].todo), updater[u].fetched)
       \subseteq files[updater[u].file].rows[Head(updater[u].todo)] \cup updater[u].records

\* What it relies on as long as nobody overwrites its database.
HandleInv(u) ==
  /\ files[updater[u].file].compositeKey
  /\ updater[u].pc = "save" => FetchedIsKept(u)

UpdaterInv(u) ==
  Working(u) =>
    /\ DOMAIN updater[u] =
         {"pc", "file", "todo", "records", "fetched", "failures", "requested"}
    /\ updater[u].pc \in {"fetch", "save", "finish"}
    /\ UpdaterType(u)
    /\ updater[u].pc # "finish" => updater[u].todo # << >>
    /\ files[updater[u].file].intact => HandleInv(u)

ExporterInv(e) ==
  /\ exporter[e].pc = "reading" => exporter[e].file \in 1..Len(files)
  /\ exporter[e].pc \in {"write", "writing"} =>
       DOMAIN exporter[e] = {"pc", "manifest", "db"} /\ Sound(exporter[e].db)

BundleIsSound == bundle.readable => Sound(bundle.db)

ImportFields == {"pc", "seen", "payload", "alone", "into"}

\* A file that was put in place under a writer is no longer intact.
PayloadInv(i) ==
  /\ importer[i].pc = "write" => importer[i].into = Temporary
  /\ DOMAIN importer[i] = ImportFields /\ Sound(importer[i].payload)
  /\ importer[i].into \in Int /\ importer[i].into <= Len(files)
  /\ importer[i].into > 0 => ~files[importer[i].into].intact

\* A bundle that was verified may be another when it is read, and is sound all the same.
ImporterInv(i) ==
  /\ importer[i].pc = "verified" => BundleIsSound
  /\ importer[i].pc \in {"write", "writing", "rename"} => PayloadInv(i)

FilesInv ==
  files \in Seq(Database) /\ files # << >> /\ \A f \in 1..Len(files) : Sound(files[f])

IsFunction(f, S) == f = [x \in S |-> f[x]]

\* An import that is alone is the only writer, and of the file of that name.
AloneInv(i) ==
  i \in Writers /\ importer[i].alone =>
    /\ Writers = {i} /\ importer[i].into = Temporary
    /\ importer[i].pc = "rename" => tmp = importer[i].payload

StoreInv ==
  /\ now \in 1..MaxTime /\ FilesInv
  /\ IsFunction(updater, Updaters) /\ \A u \in Updaters : UpdaterInv(u)
  /\ IsFunction(exporter, Exporters) /\ \A e \in Exporters : ExporterInv(e)
  /\ IsFunction(importer, Importers) /\ \A i \in Importers : ImporterInv(i) /\ AloneInv(i)
  /\ tmp # None => Sound(tmp)
  /\ bundle # None => BundleIsSound

\* The buckets' marks are kept apart from each other and from the mark of them all.
LEMMA MarkKeys ==
  ASSUME NEW b \in Buckets
  PROVE  /\ MarkKey(b) \in Keys /\ MarkKey(b) # "last_update"
         /\ \A c \in Buckets : MarkKey(c) = MarkKey(b) => c = b
<1>1. Buckets \subseteq {"npm", "PyPI", "Go", "crates.io"}
  BY DatabaseAssumption DEF Buckets
<1>2. \A c \in Buckets :
        \/ c = "npm" /\ MarkKey(c) = "last_update_npm"
        \/ c = "PyPI" /\ MarkKey(c) = "last_update_PyPI"
        \/ c = "Go" /\ MarkKey(c) = "last_update_Go"
        \/ c = "crates.io" /\ MarkKey(c) = "last_update_crates.io"
  BY <1>1 DEF MarkKey
<1>3. MarkKey(b) \in Keys
  BY DEF Keys
<1> QED BY <1>2, <1>3

\* Opening migrates; a database of the older schema then has no rows, and never had a
\* bucket's mark (internal/db migrations.go Migrate).
LEMMA MigrateIsSound ==
  ASSUME NEW d, Sound(d)
  PROVE  /\ Sound(Migrate(d)) /\ Migrate(d).compositeKey /\ Migrate(d).intact = d.intact
         /\ d.compositeKey => Migrate(d) = d
<1>1. CASE d.compositeKey
  BY <1>1 DEF Migrate
<1>2. CASE ~d.compositeKey
  <2> DEFINE m == [d EXCEPT !.compositeKey = TRUE, !.rows = [b \in Buckets |-> {}],
                            !.earned = [b \in Buckets |-> 0]]
  <2>1. Migrate(d) = m
    BY <1>2 DEF Migrate
  <2>2. d \in Database /\ (d.intact => \A b \in Buckets : d.marks[MarkKey(b)] = None)
    BY <1>2 DEF Sound
  <2>3. MaxTime \in Nat
    BY IntelAssumption
  <2>4. /\ [b \in Buckets |-> {}] \in [Buckets -> SUBSET (1..MaxTime)]
        /\ [b \in Buckets |-> 0] \in [Buckets -> 0..MaxTime]
    BY <2>3
  <2>5. m \in Database /\ m.compositeKey /\ m.marks = d.marks /\ m.intact = d.intact
    BY <2>2, <2>4 DEF Database
  <2>6. m.intact => MarksAreEarned(m)
    BY <2>2, <2>5 DEF MarksAreEarned
  <2> QED BY <1>2, <2>1, <2>5, <2>6 DEF Sound
<1> QED BY <1>1, <1>2

\* A database that was rewritten claims nothing.
LEMMA NotIntactIsSound == ASSUME NEW d \in Database, ~d.intact PROVE Sound(d)
  BY DEF Sound

\* Whether a copy is complete says nothing about its marks.
LEMMA CopyIsSound ==
  ASSUME NEW d, Sound(d), NEW w \in BOOLEAN
  PROVE  Sound([d EXCEPT !.whole = w])
<1> DEFINE c == [d EXCEPT !.whole = w]
<1>1. d \in Database
  BY DEF Sound
<1>2. /\ c \in Database /\ c.marks = d.marks /\ c.earned = d.earned
      /\ c.rows = d.rows /\ c.compositeKey = d.compositeKey /\ c.intact = d.intact
  BY <1>1 DEF Database
<1> QED BY <1>2 DEF Sound, MarksAreEarned

\* The file that two imports have written.
LEMMA MixtureIsSound ==
  ASSUME NEW d, Sound(d), NEW w \in BOOLEAN
  PROVE  /\ Sound([d EXCEPT !.whole = w, !.intact = FALSE])
         /\ ~[d EXCEPT !.whole = w, !.intact = FALSE].intact
         /\ Sound([d EXCEPT !.intact = FALSE]) /\ ~[d EXCEPT !.intact = FALSE].intact
<1>1. d \in Database
  BY DEF Sound
<1>2. /\ [d EXCEPT !.whole = w, !.intact = FALSE] \in Database
      /\ ~[d EXCEPT !.whole = w, !.intact = FALSE].intact
      /\ [d EXCEPT !.intact = FALSE] \in Database /\ ~[d EXCEPT !.intact = FALSE].intact
  BY <1>1 DEF Database
<1> QED BY <1>2, NotIntactIsSound

\* A batch that is saved adds rows (internal/db SaveVulnerabilities).
LEMMA SavedIsSound ==
  ASSUME NEW d, Sound(d), NEW b \in Buckets, NEW batch \in SUBSET (1..MaxTime)
  PROVE  LET s == [d EXCEPT !.rows[b] = @ \cup batch]
         IN  /\ Sound(s) /\ s.compositeKey = d.compositeKey /\ s.intact = d.intact
             /\ s.rows[b] = d.rows[b] \cup batch
             /\ \A c \in Buckets : d.rows[c] \subseteq s.rows[c]
<1> DEFINE s == [d EXCEPT !.rows[b] = @ \cup batch]
<1>1. d \in Database
  BY DEF Sound
<1>2. s = [d EXCEPT !.rows = [d.rows EXCEPT ![b] = d.rows[b] \cup batch]]
  BY Zenon
<1>3. d.rows \in [Buckets -> SUBSET (1..MaxTime)]
  BY <1>1 DEF Database
<1>4. [d.rows EXCEPT ![b] = d.rows[b] \cup batch] \in [Buckets -> SUBSET (1..MaxTime)]
  BY <1>3
<1>5. /\ s \in Database /\ s.marks = d.marks /\ s.earned = d.earned
      /\ s.compositeKey = d.compositeKey /\ s.intact = d.intact
      /\ s.rows = [d.rows EXCEPT ![b] = d.rows[b] \cup batch]
  BY <1>1, <1>2, <1>4 DEF Database
<1>6. s.rows[b] = d.rows[b] \cup batch /\ \A c \in Buckets : d.rows[c] \subseteq s.rows[c]
  BY <1>3, <1>5
<1> HIDE DEF s
<1>7. Sound(s)
  BY <1>5, <1>6 DEF Sound, MarksAreEarned
<1> QED BY <1>5, <1>6, <1>7 DEF s

WithMark(d, b, time, fetched) ==
  [d EXCEPT !.marks[MarkKey(b)] = time, !.earned[b] = fetched]

\* The mark of a bucket whose fetched advisories are all saved is earned
\* (internal/cli update_db.go SetMetadata).
LEMMA MarkedIsSound ==
  ASSUME NEW d, Sound(d), NEW b \in Buckets, NEW time \in 1..MaxTime,
         NEW fetched \in 0..MaxTime,
         d.intact => /\ d.compositeKey /\ fetched \in 1..time
                     /\ Delivered(b, fetched) \subseteq d.rows[b]
  PROVE  LET m == WithMark(d, b, time, fetched)
         IN  Sound(m) /\ m.compositeKey = d.compositeKey /\ m.intact = d.intact /\ m.rows = d.rows
<1> DEFINE m == WithMark(d, b, time, fetched)
           marks == [d.marks EXCEPT ![MarkKey(b)] = time]
           earned == [d.earned EXCEPT ![b] = fetched]
<1>1. m = [d EXCEPT !.marks = marks, !.earned = earned]
  BY Zenon DEF WithMark
<1>2. d \in Database /\ (d.intact => MarksAreEarned(d))
  BY DEF Sound
<1>3. /\ d.marks \in [Keys -> {None} \cup 1..MaxTime]
      /\ d.earned \in [Buckets -> 0..MaxTime]
      /\ MaxTime \in Nat
  BY <1>2, IntelAssumption DEF Database, Marks
<1>4. marks \in Marks /\ earned \in [Buckets -> 0..MaxTime]
  BY <1>3, MarkKeys DEF Marks
<1>5. marks[MarkKey(b)] = time /\ earned[b] = fetched
  BY <1>3, MarkKeys
<1>6. \A c \in Buckets \ {b} : marks[MarkKey(c)] = d.marks[MarkKey(c)] /\ earned[c] = d.earned[c]
  BY <1>3, MarkKeys
<1> HIDE DEF marks, earned
<1>7. /\ m \in Database /\ m.marks = marks /\ m.earned = earned
      /\ m.compositeKey = d.compositeKey /\ m.rows = d.rows /\ m.intact = d.intact
  BY <1>2, <1>4, <1>1 DEF Database
<1> HIDE DEF m
<1>8. ASSUME d.intact PROVE MarksAreEarned(m)
  <2> SUFFICES ASSUME NEW c \in Buckets, m.marks[MarkKey(c)] # None
               PROVE  /\ m.earned[c] > 0 /\ m.earned[c] <= m.marks[MarkKey(c)]
                      /\ Delivered(c, m.earned[c]) \subseteq m.rows[c]
    BY DEF MarksAreEarned
  <2>1. CASE c = b
    <3>1. m.earned[c] = fetched /\ m.marks[MarkKey(c)] = time /\ m.rows = d.rows
      BY <1>5, <1>7, <2>1
    <3>2. fetched > 0 /\ fetched <= time
      BY <1>3, <1>8
    <3> QED BY <1>8, <2>1, <3>1, <3>2
  <2>2. CASE c # b
    BY <1>2, <1>6, <1>7, <1>8, <2>2 DEF MarksAreEarned
  <2> QED BY <2>1, <2>2
<1>9. Sound(m)
  BY <1>7, <1>8 DEF Sound
<1> QED BY <1>7, <1>9 DEF m

\* The end of a synchronisation writes no bucket's mark.
LEMMA FinishedIsSound ==
  ASSUME NEW d, Sound(d), NEW list \in SUBSET {"seed", "remote"}, NEW time \in 1..MaxTime
  PROVE  LET m == [d EXCEPT !.popular = @ \cup list, !.marks["last_update"] = time]
         IN  /\ Sound(m) /\ m.compositeKey = d.compositeKey
             /\ m.rows = d.rows /\ m.intact = d.intact
<1> DEFINE m == [d EXCEPT !.popular = @ \cup list, !.marks["last_update"] = time]
           marks == [d.marks EXCEPT !["last_update"] = time]
           popular == d.popular \cup list
<1>1. d \in Database
  BY DEF Sound
<1>2. m = [d EXCEPT !.popular = popular, !.marks = marks]
  BY Zenon
<1>3. d.marks \in Marks /\ popular \in SUBSET {"seed", "remote"}
  BY <1>1 DEF Database
<1>4. marks \in Marks
  BY <1>3 DEF Marks
<1>5. \A c \in Buckets : marks[MarkKey(c)] = d.marks[MarkKey(c)]
  BY <1>3, MarkKeys DEF Marks
<1> HIDE DEF marks, popular
<1>6. /\ m \in Database /\ m.marks = marks /\ m.earned = d.earned
      /\ m.compositeKey = d.compositeKey /\ m.rows = d.rows /\ m.intact = d.intact
  BY <1>1, <1>2, <1>3, <1>4 DEF Database
<1> HIDE DEF m
<1>7. Sound(m)
  BY <1>5, <1>6 DEF Sound, MarksAreEarned
<1> QED BY <1>6, <1>7 DEF m

\* What may follow a database in its file: it keeps its rows, unless it is overwritten,
\* and is then never intact again.
Follows(d, e) ==
  e.intact =>
    /\ d.intact
    /\ d.compositeKey => e.compositeKey /\ \A b \in Buckets : d.rows[b] \subseteq e.rows[b]

\* What a step does to the databases: none is lost.
Grows ==
  /\ now <= now' /\ now' \in 1..MaxTime
  /\ Len(files) <= Len(files')
  /\ \A f \in 1..Len(files) : Follows(files[f], files'[f])

\* Writing a sound database over a file.
LEMMA FileWritten ==
  ASSUME FilesInv, now \in 1..MaxTime, now' = now, NEW f \in 1..Len(files), NEW d, Sound(d),
         Follows(files[f], d), files' = [files EXCEPT ![f] = d]
  PROVE  FilesInv' /\ Grows /\ Len(files') = Len(files) /\ files'[f] = d
<1>1. files \in Seq(Database) /\ d \in Database /\ files # << >>
  BY DEF FilesInv, Sound
<1>2. /\ files' \in Seq(Database) /\ Len(files') = Len(files) /\ files' # << >>
      /\ \A g \in 1..Len(files) : files'[g] = IF g = f THEN d ELSE files[g]
  BY <1>1
<1>3. \A g \in 1..Len(files') : Sound(files'[g])
  BY <1>2 DEF FilesInv
<1>4. FilesInv'
  BY <1>2, <1>3 DEF FilesInv, Sound, MarksAreEarned
<1>5. Grows
  <2>1. now <= now' /\ now' \in 1..MaxTime /\ Len(files) <= Len(files')
    BY <1>1, <1>2, IntelAssumption
  <2>2. \A g \in 1..Len(files) : Follows(files[g], files'[g])
    BY <1>2 DEF Follows
  <2> QED BY <2>1, <2>2 DEF Grows
<1> QED BY <1>2, <1>4, <1>5

\* Leaving the files alone.
LEMMA FilesKept ==
  ASSUME FilesInv, now \in 1..MaxTime, now <= now', now' \in 1..MaxTime, files' = files
  PROVE  FilesInv' /\ Grows
<1>1. FilesInv'
  BY DEF FilesInv, Sound, MarksAreEarned
<1>2. Grows
  BY DEF Grows, FilesInv, Follows
<1> QED BY <1>1, <1>2

\* Opening the database at the path.
LEMMA Opened ==
  ASSUME FilesInv, now \in 1..MaxTime, now' = now, Open
  PROVE  /\ FilesInv' /\ Grows /\ Len(files') = Len(files)
         /\ Current \in 1..Len(files) /\ files'[Current].compositeKey
<1>1. Current \in 1..Len(files) /\ files \in Seq(Database)
  BY DEF FilesInv, Current
<1> DEFINE d == Migrate(files[Current])
<1>2. /\ Sound(d) /\ d.compositeKey /\ d.intact = files[Current].intact
      /\ files[Current].compositeKey => d = files[Current]
  BY <1>1, MigrateIsSound DEF FilesInv
<1>3. files' = [files EXCEPT ![Current] = d]
  BY Zenon DEF Open
<1>4. Follows(files[Current], d)
  BY <1>2 DEF Follows
<1> HIDE DEF d
<1>5. FilesInv' /\ Grows /\ Len(files') = Len(files) /\ files'[Current] = d
  BY <1>1, <1>2, <1>3, <1>4, FileWritten
<1> QED BY <1>1, <1>2, <1>5

\* A step that is not an updater's takes nothing from it.
LEMMA UpdaterUntouched ==
  ASSUME NEW u \in Updaters, UpdaterInv(u), Grows, FilesInv, updater'[u] = updater[u],
         now \in 1..MaxTime
  PROVE  UpdaterInv(u)'
<1> SUFFICES ASSUME Working(u)' PROVE UpdaterInv(u)'
  BY Zenon DEF UpdaterInv
<1> DEFINE s == updater[u]
<1>1. /\ DOMAIN s = {"pc", "file", "todo", "records", "fetched", "failures", "requested"}
      /\ s.pc \in {"fetch", "save", "finish"}
      /\ UpdaterType(u)
      /\ s.pc # "finish" => s.todo # << >>
      /\ files[s.file].intact => HandleInv(u)
  BY Zenon DEF UpdaterInv, Working
<1>2. UpdaterType(u)'
  BY <1>1 DEF UpdaterType, Grows, FilesInv
<1>3. files'[s.file].intact => HandleInv(u)'
  <2> SUFFICES ASSUME files'[s.file].intact PROVE HandleInv(u)'
    OBVIOUS
  <2>1. HandleInv(u) /\ Follows(files[s.file], files'[s.file])
    BY <1>1 DEF Grows, UpdaterType, Follows
  <2>2. /\ files'[s.file].compositeKey
        /\ \A b \in Buckets : files[s.file].rows[b] \subseteq files'[s.file].rows[b]
    BY <2>1 DEF HandleInv, Follows
  <2>3. s.pc = "save" => FetchedIsKept(u)'
    <3> SUFFICES ASSUME s.pc = "save" PROVE FetchedIsKept(u)'
      OBVIOUS
    <3>1. s.todo \in Seq(Buckets) /\ s.todo # << >>
      BY <1>1 DEF UpdaterType
    <3>2. Head(s.todo) \in Buckets
      BY <3>1
    <3> QED BY <2>1, <2>2, <3>2 DEF FetchedIsKept, HandleInv
  <2> QED BY <2>2, <2>3 DEF HandleInv
<1> QED BY <1>1, <1>2, <1>3, Zenon DEF UpdaterInv

\* A process's step is recorded under its name only.
LEMMA StepOf ==
  ASSUME NEW f, NEW S, IsFunction(f, S), NEW x \in S, NEW v, NEW g, g = [f EXCEPT ![x] = v]
  PROVE  IsFunction(g, S) /\ g[x] = v /\ \A y \in S \ {x} : g[y] = f[y]
  BY DEF IsFunction

\* A process that has gone to rest owes nothing.
LEMMA RestingUpdater ==
  ASSUME NEW u \in Updaters, updater'[u] = Resting
  PROVE  UpdaterInv(u)'
<1>1. Resting.pc = "idle"
  BY DEF Resting
<1>2. updater'[u].pc = "idle"
  BY <1>1
<1> QED BY <1>2, Zenon DEF UpdaterInv, Working

\* A command begins with what it opened, and with nothing fetched.
LEMMA BeginKeeps ==
  ASSUME StoreInv, NEW u \in Updaters, NEW buckets \in Seq(Buckets), buckets # << >>,
         Begin(u, buckets)
  PROVE  FilesInv' /\ Grows /\ UpdaterInv(u)'
<1>1. FilesInv /\ now \in 1..MaxTime /\ now' = now /\ Open /\ IsFunction(updater, Updaters)
  BY DEF StoreInv, Begin
<1>2. /\ FilesInv' /\ Grows /\ Len(files') = Len(files)
      /\ Current \in 1..Len(files) /\ files'[Current].compositeKey
  BY <1>1, Opened
<1> DEFINE s == [pc |-> "fetch", file |-> Current, todo |-> buckets, records |-> {},
                 fetched |-> 0, failures |-> 0, requested |-> Len(buckets)]
<1>3. updater'[u] = s
  <2>1. updater' = [updater EXCEPT ![u] = s]
    BY Zenon DEF Begin
  <2>2. DOMAIN updater = Updaters
    BY <1>1 DEF IsFunction
  <2> HIDE DEF s
  <2> QED BY <2>1, <2>2
<1>4. /\ s.pc = "fetch" /\ s.file = Current /\ s.todo = buckets
      /\ s.records = {} /\ s.fetched = 0
      /\ DOMAIN s = {"pc", "file", "todo", "records", "fetched", "failures", "requested"}
  BY Zenon
<1> HIDE DEF s
<1>5. UpdaterType(u)'
  BY <1>1, <1>2, <1>3, <1>4 DEF UpdaterType
<1>6. UpdaterInv(u)'
  BY <1>2, <1>3, <1>4, <1>5 DEF UpdaterInv, HandleInv
<1> QED BY <1>2, <1>6

LEMMA StartKeeps ==
  ASSUME StoreInv, NEW u \in Updaters, UpdateDB(u) \/ UpdateDBAsync(u)
  PROVE  FilesInv' /\ Grows /\ UpdaterInv(u)'
<1>1. \A buckets \in {AllEcosystems} \cup {<<b>> : b \in Buckets} :
        buckets \in Seq(Buckets) /\ buckets # << >>
  <2>1. AllEcosystems \in Seq(Buckets) /\ AllEcosystems # << >>
    BY DatabaseAssumption DEF Buckets
  <2>2. \A b \in Buckets : <<b>> \in Seq(Buckets) /\ <<b>> # << >>
    OBVIOUS
  <2> QED BY <2>1, <2>2
<1>2. PICK buckets \in {AllEcosystems} \cup {<<b>> : b \in Buckets} : Begin(u, buckets)
  BY Zenon DEF UpdateDB, UpdateDBAsync
<1> QED BY <1>1, <1>2, BeginKeeps

\* The state after a bucket: the next one is fetched, or the synchronisation ends.
LEMMA NextBucketKeeps ==
  ASSUME NEW u \in Updaters, NEW s, NEW failed, updater[u] = s, UpdaterInv(u),
         s.pc \in {"fetch", "save"}, updater'[u] = NextBucket(s, failed),
         Grows, FilesInv, FilesInv', now \in 1..MaxTime
  PROVE  UpdaterInv(u)'
<1>1. /\ DOMAIN s = {"pc", "file", "todo", "records", "fetched", "failures", "requested"}
      /\ s.file \in 1..Len(files) /\ s.todo \in Seq(Buckets) /\ s.fetched \in 0..now
      /\ s.todo # << >> /\ (files[s.file].intact => files[s.file].compositeKey)
  BY DEF UpdaterInv, Working, UpdaterType, HandleInv
<1> DEFINE n == NextBucket(s, failed)
<1>2. /\ DOMAIN n = {"pc", "file", "todo", "records", "fetched", "failures", "requested"}
      /\ n.pc = IF Len(s.todo) = 1 THEN "finish" ELSE "fetch"
      /\ n.file = s.file /\ n.todo = Tail(s.todo) /\ n.records = {} /\ n.fetched = s.fetched
  BY <1>1 DEF NextBucket
<1> HIDE DEF n
<1>3. Tail(s.todo) \in Seq(Buckets) /\ (Len(s.todo) # 1 => Tail(s.todo) # << >>)
  <2> DEFINE t == s.todo
  <2>1. t \in Seq(Buckets) /\ t # << >>
    BY <1>1
  <2> HIDE DEF t
  <2>2. Len(t) \in Nat /\ Len(t) # 0 /\ Tail(t) \in Seq(Buckets) /\ Len(Tail(t)) = Len(t) - 1
    BY <2>1, HeadTailProperties, EmptySeq
  <2>3. Len(<< >>) = 0
    OBVIOUS
  <2>4. Len(t) # 1 => Len(Tail(t)) # 0
    BY <2>2
  <2>5. Len(t) # 1 => Tail(t) # << >>
    BY <2>3, <2>4, Zenon
  <2> QED BY <2>2, <2>5 DEF t
<1>4. updater'[u] = n
  BY DEF n
<1>5. UpdaterType(u)'
  <2>1. Len(files) \in Nat /\ Len(files') \in Nat /\ Len(files) <= Len(files')
    BY LenProperties DEF FilesInv, Grows
  <2>2. n.file \in 1..Len(files')
    BY <1>1, <1>2, <2>1
  <2>3. n.fetched \in 0..now'
    BY <1>1, <1>2 DEF Grows
  <2> QED BY <1>2, <1>3, <1>4, <2>2, <2>3 DEF UpdaterType
<1>6. files'[n.file].intact => files'[n.file].compositeKey
  BY <1>1, <1>2 DEF Grows, Follows
<1> QED BY <1>2, <1>3, <1>4, <1>5, <1>6 DEF UpdaterInv, HandleInv

\* A fetch, and a bucket given up.
LEMMA FetchKeeps ==
  ASSUME StoreInv, NEW u \in Updaters, FetchBulk(u) \/ SyncFails(u)
  PROVE  FilesInv' /\ Grows /\ UpdaterInv(u)'
<1>1. /\ FilesInv /\ now \in 1..MaxTime /\ now' = now /\ files' = files
      /\ DOMAIN updater = Updaters /\ UpdaterInv(u) /\ Working(u)
  BY DEF StoreInv, IsFunction, FetchBulk, SyncFails, Others, Working, Update
<1>2. FilesInv' /\ Grows
  BY <1>1, FilesKept
<1> DEFINE s == updater[u]
<1>3. /\ DOMAIN s = {"pc", "file", "todo", "records", "fetched", "failures", "requested"}
      /\ UpdaterType(u) /\ (files[s.file].intact => files[s.file].compositeKey)
      /\ s.pc # "finish" => s.todo # << >>
  BY <1>1 DEF UpdaterInv, HandleInv
<1>4. CASE FetchBulk(u)
  <2> DEFINE delivered == Delivered(Head(s.todo), now)
             n == [s EXCEPT !.pc = "save", !.records = delivered, !.fetched = now]
  <2>1. updater'[u] = n /\ s.pc = "fetch"
    BY <1>1, <1>4 DEF FetchBulk, Step, Update, Bucket
  <2>2. /\ DOMAIN n = DOMAIN s /\ n.pc = "save" /\ n.records = delivered
        /\ n.fetched = now /\ n.file = s.file /\ n.todo = s.todo
    BY <1>3
  <2> HIDE DEF n
  <2>3. delivered \in SUBSET (1..MaxTime)
    BY <1>1, IntelAssumption DEF Delivered, Published
  <2>4. UpdaterType(u)'
    BY <1>1, <1>3, <2>1, <2>2, <2>3 DEF UpdaterType
  <2>5. FetchedIsKept(u)'
    BY <1>1, <2>1, <2>2 DEF FetchedIsKept
  <2>6. UpdaterInv(u)'
    BY <1>1, <1>3, <2>1, <2>2, <2>4, <2>5 DEF UpdaterInv, HandleInv
  <2> QED BY <1>2, <2>6
<1>5. CASE SyncFails(u)
  <2>1. updater'[u] = NextBucket(s, 1) /\ s.pc \in {"fetch", "save"}
    BY <1>1, <1>5 DEF SyncFails, Step, Update
  <2>2. UpdaterInv(u)'
    BY <1>1, <1>2, <2>1, NextBucketKeeps
  <2> QED BY <1>2, <2>2
<1> QED BY <1>4, <1>5

\* A batch that is committed leaves the records it held (internal/db SaveVulnerabilities).
LEMMA SaveKeeps ==
  ASSUME StoreInv, NEW u \in Updaters, SaveVulnerabilities(u)
  PROVE  FilesInv' /\ Grows /\ UpdaterInv(u)'
<1> DEFINE s == updater[u]
           b == Head(s.todo)
           batch == {r \in s.records : Cardinality({x \in s.records : x < r}) < BatchSize}
           d == [files[s.file] EXCEPT !.rows[b] = @ \cup batch]
           n == [s EXCEPT !.records = @ \ batch]
<1>1. /\ FilesInv /\ now \in 1..MaxTime /\ now' = now /\ s.pc = "save"
      /\ DOMAIN updater = Updaters /\ UpdaterInv(u) /\ Working(u)
  BY DEF StoreInv, IsFunction, SaveVulnerabilities, Others, Working, Update
<1>2. /\ DOMAIN s = {"pc", "file", "todo", "records", "fetched", "failures", "requested"}
      /\ UpdaterType(u) /\ s.todo # << >>
      /\ files[s.file].intact => files[s.file].compositeKey /\ FetchedIsKept(u)
  BY <1>1 DEF UpdaterInv, HandleInv
<1>3. files' = [files EXCEPT ![s.file] = d] /\ updater' = [updater EXCEPT ![u] = n]
  BY Zenon DEF SaveVulnerabilities, Write, Handle, Bucket, Step, Update
<1>4. b \in Buckets /\ s.file \in 1..Len(files) /\ Sound(files[s.file])
  BY <1>1, <1>2 DEF UpdaterType, FilesInv
<1>5. batch \in SUBSET (1..MaxTime) /\ batch \subseteq s.records
  BY <1>2 DEF UpdaterType
<1>6. /\ DOMAIN n = DOMAIN s /\ n.pc = s.pc /\ n.file = s.file /\ n.todo = s.todo
      /\ n.fetched = s.fetched /\ n.records = s.records \ batch
  BY <1>2
<1> HIDE DEF batch, n
<1>7. /\ Sound(d) /\ d.compositeKey = files[s.file].compositeKey
      /\ d.intact = files[s.file].intact
      /\ d.rows[b] = files[s.file].rows[b] \cup batch
      /\ \A c \in Buckets : files[s.file].rows[c] \subseteq d.rows[c]
  <2> DEFINE old == files[s.file]
             saved == [old EXCEPT !.rows[b] = @ \cup batch]
  <2>1. Sound(old) /\ b \in Buckets /\ batch \in SUBSET (1..MaxTime)
    BY <1>4, <1>5
  <2> HIDE DEF old, b
  <2>2. /\ Sound(saved) /\ saved.compositeKey = old.compositeKey /\ saved.intact = old.intact
        /\ saved.rows[b] = old.rows[b] \cup batch
        /\ \A c \in Buckets : old.rows[c] \subseteq saved.rows[c]
    BY <2>1, SavedIsSound, Zenon
  <2>3. saved = d
    BY DEF old
  <2> HIDE DEF saved
  <2> QED BY <2>2, <2>3 DEF old
<1> HIDE DEF d
<1>13. Follows(files[s.file], d)
  BY <1>7 DEF Follows
<1>8. FilesInv' /\ Grows /\ Len(files') = Len(files) /\ files'[s.file] = d
  BY <1>1, <1>3, <1>4, <1>7, <1>13, FileWritten
<1>9. updater'[u] = n
  BY <1>1, <1>3
<1>10. UpdaterType(u)'
  BY <1>1, <1>2, <1>6, <1>8, <1>9 DEF UpdaterType
<1>11. files[s.file].intact => FetchedIsKept(u)'
  BY <1>2, <1>6, <1>7, <1>8, <1>9 DEF FetchedIsKept
<1>12. UpdaterInv(u)'
  BY <1>1, <1>2, <1>6, <1>7, <1>8, <1>9, <1>10, <1>11 DEF UpdaterInv, HandleInv
<1> QED BY <1>8, <1>12

\* A bucket is marked, or is not although all of it was saved.
LEMMA MarkKeeps ==
  ASSUME StoreInv, NEW u \in Updaters, MarkSynced(u)
  PROVE  FilesInv' /\ Grows /\ UpdaterInv(u)'
<1> DEFINE s == updater[u]
           b == Head(s.todo)
           old == files[s.file]
<1>1. /\ FilesInv /\ now \in 1..MaxTime /\ now' = now /\ s.pc = "save" /\ s.records = {}
      /\ DOMAIN updater = Updaters /\ UpdaterInv(u) /\ Working(u)
  BY DEF StoreInv, IsFunction, MarkSynced, Others, Working, Update
<1>2. /\ UpdaterType(u) /\ s.todo # << >>
      /\ old.intact => old.compositeKey /\ FetchedIsKept(u)
  BY <1>1 DEF UpdaterInv, HandleInv
<1>3. b \in Buckets /\ s.file \in 1..Len(files) /\ Sound(old)
  BY <1>1, <1>2 DEF UpdaterType, FilesInv
<1>4. /\ s.fetched \in 0..MaxTime
      /\ old.intact => s.fetched \in 1..now /\ Delivered(b, s.fetched) \subseteq old.rows[b]
  BY <1>1, <1>2, IntelAssumption DEF UpdaterType, FetchedIsKept
<1>5. PICK written \in BOOLEAN :
        files' = [files EXCEPT ![s.file] =
          [old EXCEPT !.marks[MarkKey(b)] = IF written THEN now ELSE @,
                      !.earned[b] = IF written THEN s.fetched ELSE @]]
  BY Zenon DEF MarkSynced, Write, Handle, Bucket, Update
<1> DEFINE d == [old EXCEPT !.marks[MarkKey(b)] = IF written THEN now ELSE @,
                            !.earned[b] = IF written THEN s.fetched ELSE @]
<1>6. /\ Sound(d) /\ d.compositeKey = old.compositeKey
      /\ d.rows = old.rows /\ d.intact = old.intact
  <2>1. CASE written
    <3> DEFINE fetched == s.fetched
               m == WithMark(old, b, now, fetched)
    <3>1. d = m
      BY <2>1, Zenon DEF WithMark
    <3>2. /\ Sound(m) /\ m.compositeKey = old.compositeKey
          /\ m.rows = old.rows /\ m.intact = old.intact
      <4>1. /\ fetched \in 0..MaxTime
            /\ old.intact => /\ old.compositeKey /\ fetched \in 1..now
                             /\ Delivered(b, fetched) \subseteq old.rows[b]
        BY <1>2, <1>4
      <4>2. Sound(old) /\ b \in Buckets /\ now \in 1..MaxTime
        BY <1>1, <1>3
      <4> HIDE DEF old, b, fetched
      <4> QED BY <4>1, <4>2, MarkedIsSound
    <3> HIDE DEF d, m
    <3> QED BY <3>1, <3>2
  <2>2. CASE ~written
    <3>1. old \in Database
      BY <1>3 DEF Sound
    <3>2. [old.marks EXCEPT ![MarkKey(b)] = @] = old.marks /\ [old.earned EXCEPT ![b] = @] = old.earned
      BY <3>1 DEF Database, Marks
    <3>3. d = [old EXCEPT !.marks = [old.marks EXCEPT ![MarkKey(b)] = @],
                          !.earned = [old.earned EXCEPT ![b] = @]]
      BY <2>2, Zenon
    <3>4. d = [old EXCEPT !.marks = old.marks, !.earned = old.earned]
      BY <3>2, <3>3
    <3>5. d = old
      BY <3>1, <3>4 DEF Database
    <3> HIDE DEF d
    <3> QED BY <1>3, <3>5
  <2> QED BY <2>1, <2>2
<1> HIDE DEF d
<1>7. files' = [files EXCEPT ![s.file] = d] /\ Follows(old, d)
  BY <1>5, <1>6 DEF d, Follows
<1>8. FilesInv' /\ Grows
  BY <1>1, <1>3, <1>6, <1>7, FileWritten
<1>9. updater'[u] = NextBucket(s, 0)
  BY <1>1 DEF MarkSynced, Step, Update
<1>10. UpdaterInv(u)'
  BY <1>1, <1>8, <1>9, NextBucketKeeps
<1> QED BY <1>8, <1>10

\* The end of a synchronisation, and that of a process that is killed.
LEMMA EndKeeps ==
  ASSUME StoreInv, NEW u \in Updaters, FinishUpdate(u) \/ UpdaterKilled(u)
  PROVE  FilesInv' /\ Grows /\ UpdaterInv(u)'
<1>1. /\ FilesInv /\ now \in 1..MaxTime /\ now' = now
      /\ DOMAIN updater = Updaters /\ UpdaterInv(u) /\ Working(u)
  BY DEF StoreInv, IsFunction, FinishUpdate, UpdaterKilled, Others, Working, Update
<1>2. updater'[u] = Resting
  BY <1>1 DEF FinishUpdate, UpdaterKilled, Step
<1>3. UpdaterInv(u)'
  BY <1>2, RestingUpdater
<1>4. CASE FinishUpdate(u)
  <2> DEFINE f == updater[u].file
  <2>1. f \in 1..Len(files)
    BY <1>1 DEF UpdaterInv, UpdaterType
  <2>2. PICK list \in {{"remote"}, {"seed"}, {}} :
          files' = [files EXCEPT ![f] = [files[f] EXCEPT !.popular = @ \cup list,
                                                         !.marks["last_update"] = now]]
    BY <1>4, Zenon DEF FinishUpdate, Write, Handle, Update
  <2> DEFINE old == files[f]
             d == [old EXCEPT !.popular = @ \cup list, !.marks["last_update"] = now]
  <2>3. list \in SUBSET {"seed", "remote"}
    OBVIOUS
  <2>4. Sound(old)
    BY <1>1, <2>1 DEF FilesInv
  <2>5. Sound(d) /\ Follows(files[f], d)
    <3> HIDE DEF old
    <3>1. /\ Sound(d) /\ d.compositeKey = old.compositeKey
          /\ d.rows = old.rows /\ d.intact = old.intact
      BY <1>1, <2>3, <2>4, FinishedIsSound, Zenon
    <3> QED BY <3>1 DEF old, Follows
  <2> HIDE DEF d
  <2>6. files' = [files EXCEPT ![f] = d]
    BY <2>2 DEF d
  <2>7. FilesInv' /\ Grows
    BY <1>1, <2>1, <2>5, <2>6, FileWritten
  <2> QED BY <1>3, <2>7
<1>5. CASE UpdaterKilled(u)
  <2>1. files' = files
    BY <1>5 DEF UpdaterKilled
  <2>2. FilesInv' /\ Grows
    BY <1>1, <2>1, FilesKept
  <2> QED BY <1>3, <2>2
<1> QED BY <1>4, <1>5

\* An updater's step keeps the files, itself and the other updaters.
LEMMA UpdaterStepKeeps ==
  ASSUME StoreInv, NEW u \in Updaters, UpdaterStep(u)
  PROVE  /\ FilesInv' /\ Grows /\ IsFunction(updater, Updaters)'
         /\ \A v \in Updaters : UpdaterInv(v)'
         /\ UNCHANGED <<bundle, tmp, exporter, importer>>
<1>1. FilesInv' /\ Grows /\ UpdaterInv(u)'
  BY StartKeeps, FetchKeeps, SaveKeeps, MarkKeeps, EndKeeps DEF UpdaterStep
<1>2. /\ \E state : updater' = [updater EXCEPT ![u] = state]
      /\ UNCHANGED <<bundle, tmp, exporter, importer>>
  BY Zenon DEF UpdaterStep, UpdateDB, UpdateDBAsync, Begin, FetchBulk, SyncFails,
               SaveVulnerabilities, MarkSynced, FinishUpdate, UpdaterKilled, Others, Step
<1>3. IsFunction(updater, Updaters) /\ FilesInv /\ now \in 1..MaxTime
  BY DEF StoreInv
<1>4. IsFunction(updater, Updaters)' /\ \A v \in Updaters \ {u} : updater'[v] = updater[v]
  BY <1>2, <1>3 DEF IsFunction
<1>5. \A v \in Updaters \ {u} : UpdaterInv(v)'
  BY <1>1, <1>3, <1>4, UpdaterUntouched DEF StoreInv
<1> QED BY <1>1, <1>2, <1>4, <1>5

\* A process's state that no step of another changes.
LEMMA ExporterUntouched ==
  ASSUME NEW e \in Exporters, ExporterInv(e), exporter'[e] = exporter[e], Grows, FilesInv, FilesInv'
  PROVE  ExporterInv(e)'
<1>1. Len(files) \in Nat /\ Len(files') \in Nat /\ Len(files) <= Len(files')
  BY LenProperties DEF FilesInv, Grows
<1>2. exporter[e].pc = "reading" => exporter[e].file \in 1..Len(files')
  BY <1>1 DEF ExporterInv
<1> QED BY <1>2, Zenon DEF ExporterInv, Sound, MarksAreEarned

\* Bundle and imports stay as they are, or another sound bundle is there.
BundleMove ==
  \/ UNCHANGED <<bundle, importer>>
  \/ BundleReplaced(bundle') /\ BundleIsSound'

\* Another process leaves an import as it was, no longer alone, with its file elsewhere or
\* with another bundle.
LEMMA ImporterUntouched ==
  ASSUME NEW j \in Importers, ImporterInv(j), FilesInv, FilesInv', Grows,
         bundle' = bundle \/ BundleIsSound',
         NEW to \in Int, to <= Len(files'), to > 0 => ~files'[to].intact,
         \/ importer'[j] = importer[j]
         \/ j \in Writers /\ importer'[j] = [importer[j] EXCEPT !.alone = FALSE]
         \/ importer[j].pc = "writing" /\ importer'[j] = [importer[j] EXCEPT !.into = to]
         \/ importer[j].pc = "verified" /\ importer'[j] = Verified(None) /\ BundleIsSound'
  PROVE  ImporterInv(j)'
<1> DEFINE s == importer[j]
           n == importer'[j]
<1>1. s.pc = "verified" /\ n = s => BundleIsSound'
  BY Zenon DEF ImporterInv, BundleIsSound, Sound, MarksAreEarned
<1>2. s.pc \in {"write", "writing", "rename"} => PayloadInv(j)'
  <2> SUFFICES ASSUME s.pc \in {"write", "writing", "rename"} PROVE PayloadInv(j)'
    OBVIOUS
  <2>1. /\ PayloadInv(j) /\ DOMAIN s = ImportFields /\ Sound(s.payload) /\ s.into \in Int
        /\ s.into <= Len(files) /\ (s.into > 0 => ~files[s.into].intact)
        /\ s.pc = "write" => s.into = Temporary
    BY DEF ImporterInv, PayloadInv
  <2>2. /\ n.pc = s.pc /\ n.payload = s.payload /\ DOMAIN n = ImportFields
        /\ n.into = s.into \/ (s.pc # "write" /\ n.into = to)
    BY <2>1 DEF ImportFields, Writers
  <2>3. n.into <= Len(files') /\ (n.into > 0 => ~files'[n.into].intact)
    <3>1. Len(files) \in Nat /\ Len(files') \in Nat /\ Len(files) <= Len(files')
      BY LenProperties DEF FilesInv, Grows
    <3>2. s.into > 0 => ~files'[s.into].intact
      BY <2>1, <3>1 DEF Grows, Follows
    <3> QED BY <2>1, <2>2, <3>1, <3>2
  <2> QED BY <2>1, <2>2, <2>3 DEF PayloadInv
<1>3. \/ n = s
      \/ n.pc \in {"writing", "rename"} /\ n.pc = s.pc
      \/ n = Verified(None) /\ BundleIsSound'
  <2>1. (j \in Writers \/ s.pc = "writing") =>
          s.pc \in {"writing", "rename"} /\ DOMAIN s = ImportFields
    BY DEF Writers, ImporterInv, PayloadInv
  <2>2. CASE n = [s EXCEPT !.alone = FALSE] /\ j \in Writers
    BY <2>1, <2>2 DEF ImportFields
  <2>3. CASE n = [s EXCEPT !.into = to] /\ s.pc = "writing"
    BY <2>1, <2>3 DEF ImportFields
  <2> QED BY <2>2, <2>3, Zenon
<1>4. CASE n = Verified(None) /\ BundleIsSound'
  <2>1. Verified(None).pc = "verified"
    BY DEF Verified
  <2>2. n.pc = "verified"
    BY <1>4, <2>1
  <2> QED BY <1>4, <2>2 DEF ImporterInv
<1>5. CASE n = s
  BY <1>1, <1>2, <1>5 DEF ImporterInv
<1> QED BY <1>2, <1>3, <1>4, <1>5 DEF ImporterInv

\* Nor does it end an import's being alone, unless it begins to write.
LEMMA AloneUntouched ==
  ASSUME NEW j \in Importers, AloneInv(j), importer'[j] = importer[j],
         Writers' \subseteq Writers, tmp' = tmp
  PROVE  AloneInv(j)'
<1>1. j \in Writers' => j \in Writers
  OBVIOUS
<1>2. Writers = {j} /\ j \in Writers' => Writers' = {j}
  OBVIOUS
<1> QED BY <1>1, <1>2 DEF AloneInv

\* The steps of an export: it copies a sound database, complete or not.
LEMMA ExporterStepKeeps ==
  ASSUME StoreInv, NEW e \in Exporters, ExporterStep(e)
  PROVE  /\ FilesInv' /\ Grows /\ IsFunction(exporter, Exporters)'
         /\ \A v \in Exporters : ExporterInv(v)'
         /\ BundleMove
         /\ UNCHANGED <<tmp, updater>>
<1> DEFINE s == exporter[e]
<1>1. /\ FilesInv /\ now \in 1..MaxTime /\ IsFunction(exporter, Exporters)
      /\ DOMAIN exporter = Exporters /\ ExporterInv(e)
  BY DEF StoreInv, IsFunction
<1>2. /\ \E state : exporter' = [exporter EXCEPT ![e] = state]
      /\ UNCHANGED <<tmp, updater>> /\ now' = now
      /\ Open \/ files' = files
      /\ UNCHANGED <<bundle, importer>> \/ BundleReplaced(bundle')
  BY Zenon DEF ExporterStep, ExportManifest, ExportReadBegins, ExportReadEnds, ExportWriteBegins,
               ExportWriteEnds, ExporterKilled, Others2, ExportStep, BundleReplaced
<1>3. FilesInv' /\ Grows
  BY <1>1, <1>2, Opened, FilesKept, IntelAssumption
<1>4. IsFunction(exporter, Exporters)' /\ \A v \in Exporters \ {e} : exporter'[v] = exporter[v]
  BY <1>1, <1>2 DEF IsFunction
<1>5. \A v \in Exporters \ {e} : ExporterInv(v)'
  BY <1>1, <1>3, <1>4, ExporterUntouched DEF StoreInv
<1>6. CASE ExportManifest(e)
  <2>1. UNCHANGED <<bundle, importer>>
    BY <1>6 DEF ExportManifest
  <2>2. PICK m : exporter' = [exporter EXCEPT ![e] = [pc |-> "read", manifest |-> m]]
    BY <1>6, Zenon DEF ExportManifest, ExportStep
  <2>3. exporter'[e] = [pc |-> "read", manifest |-> m]
    BY <1>1, <2>2
  <2>4. exporter'[e].pc = "read"
    BY <2>3
  <2> QED BY <1>2, <1>3, <1>4, <1>5, <2>1, <2>4 DEF ExporterInv, BundleMove
<1>7. CASE ExportReadBegins(e)
  <2>1. UNCHANGED <<bundle, importer>> /\ files' = files
    BY <1>7 DEF ExportReadBegins
  <2> DEFINE n == [pc |-> "reading", manifest |-> s.manifest, file |-> Current, first |-> files[Current]]
  <2>2. exporter'[e] = n
    BY <1>1, <1>7 DEF ExportReadBegins, ExportStep
  <2>3. n.pc = "reading" /\ n.file = Current
    BY Zenon
  <2>4. Current \in 1..Len(files)
    BY <1>1 DEF FilesInv, Current
  <2> HIDE DEF n
  <2>5. ExporterInv(e)'
    BY <2>1, <2>2, <2>3, <2>4 DEF ExporterInv
  <2> QED BY <1>2, <1>3, <1>4, <1>5, <2>1, <2>5 DEF BundleMove
<1>8. CASE ExportReadEnds(e)
  <2> DEFINE last == files[s.file]
             copy == [last EXCEPT !.whole = @ /\ s.first = last]
             n == [pc |-> "write", manifest |-> s.manifest, db |-> copy]
  <2>1. s.pc = "reading" /\ UNCHANGED <<bundle, importer>>
    BY <1>8 DEF ExportReadEnds
  <2>2. s.file \in 1..Len(files)
    BY <1>1, <2>1 DEF ExporterInv
  <2>3. Sound(last)
    BY <1>1, <2>2 DEF FilesInv
  <2>4. (last.whole /\ s.first = last) \in BOOLEAN
    BY Zenon
  <2>5. copy = [last EXCEPT !.whole = (last.whole /\ s.first = last)]
    BY Zenon
  <2>6. exporter' = [exporter EXCEPT ![e] = n]
    BY <1>8, Zenon DEF ExportReadEnds, ExportStep
  <2> HIDE DEF last, copy
  <2>7. Sound(copy)
    BY <2>3, <2>4, <2>5, CopyIsSound
  <2>8. n.pc = "write" /\ n.db = copy /\ DOMAIN n = {"pc", "manifest", "db"}
    BY Zenon
  <2> HIDE DEF n
  <2>9. exporter'[e] = n
    BY <1>1, <2>6
  <2>10. ExporterInv(e)'
    BY <2>7, <2>8, <2>9, Zenon DEF ExporterInv
  <2> QED BY <1>2, <1>3, <1>4, <1>5, <2>1, <2>10 DEF BundleMove
<1>9. CASE ExportWriteBegins(e)
  <2> DEFINE n == [s EXCEPT !.pc = "writing"]
  <2>1. /\ s.pc = "write" /\ bundle' = [readable |-> FALSE]
        /\ BundleReplaced(bundle')
    BY <1>9 DEF ExportWriteBegins, BundleReplaced
  <2>2. DOMAIN s = {"pc", "manifest", "db"} /\ Sound(s.db)
    BY <1>1, <2>1 DEF ExporterInv
  <2>3. exporter'[e] = n
    BY <1>1, <1>9 DEF ExportWriteBegins, ExportStep
  <2>4. n.pc = "writing" /\ n.db = s.db /\ DOMAIN n = {"pc", "manifest", "db"}
    BY <2>2
  <2> HIDE DEF n
  <2>5. Sound(n.db)
    BY <2>2, <2>4
  <2>6. ExporterInv(e)'
    BY <2>3, <2>4, <2>5, Zenon DEF ExporterInv, Sound, MarksAreEarned
  <2>7. BundleIsSound'
    BY <2>1, Zenon DEF BundleIsSound
  <2> QED BY <1>2, <1>3, <1>4, <1>5, <2>1, <2>6, <2>7 DEF BundleMove
<1>10. CASE ExportWriteEnds(e)
  <2>1. s.pc = "writing" /\ exporter'[e] = Resting /\ BundleReplaced(bundle')
    BY <1>1, <1>10 DEF ExportWriteEnds, ExportStep, BundleReplaced
  <2>2. Sound(s.db)
    BY <1>1, <2>1 DEF ExporterInv
  <2>3. bundle'.db = s.db
    BY <1>10, SealedBundle DEF ExportWriteEnds, BundleReplaced
  <2>4. Resting.pc = "idle"
    BY DEF Resting
  <2>5. exporter'[e].pc = "idle"
    BY <2>1, <2>4
  <2>6. ExporterInv(e)'
    BY <2>5 DEF ExporterInv
  <2>7. BundleIsSound'
    BY <2>2, <2>3, Zenon DEF BundleIsSound, Sound, MarksAreEarned
  <2> QED BY <1>2, <1>3, <1>4, <1>5, <2>1, <2>6, <2>7 DEF BundleMove
<1>11. CASE ExporterKilled(e)
  <2>1. exporter'[e] = Resting /\ UNCHANGED <<bundle, importer>>
    BY <1>1, <1>11 DEF ExporterKilled, ExportStep
  <2>2. Resting.pc = "idle"
    BY DEF Resting
  <2>3. exporter'[e].pc = "idle"
    BY <2>1, <2>2
  <2>4. ExporterInv(e)'
    BY <2>3 DEF ExporterInv
  <2> QED BY <1>2, <1>3, <1>4, <1>5, <2>1, <2>4 DEF BundleMove
<1> QED BY <1>6, <1>7, <1>8, <1>9, <1>10, <1>11 DEF ExporterStep

\* What an import's step keeps.
ImportKeeps ==
  /\ FilesInv' /\ Grows /\ IsFunction(importer, Importers)'
  /\ \A j \in Importers : ImporterInv(j)' /\ AloneInv(j)'
  /\ tmp' # None => Sound(tmp')
  /\ UNCHANGED <<bundle, updater, exporter>>

\* A step of an import that does not write: the others stay as they are.
LEMMA QuietImport ==
  ASSUME StoreInv, NEW i \in Importers, NEW n, importer' = [importer EXCEPT ![i] = n],
         UNCHANGED <<now, files, bundle, tmp, updater, exporter>>,
         \/ n.pc = "idle"
         \/ n.pc = "verified" /\ BundleIsSound
         \/ n.pc = "write" /\ DOMAIN n = ImportFields /\ Sound(n.payload) /\ n.into = Temporary
  PROVE  ImportKeeps
<1>1. /\ FilesInv /\ now \in 1..MaxTime /\ IsFunction(importer, Importers)
      /\ DOMAIN importer = Importers /\ (tmp # None => Sound(tmp))
      /\ \A j \in Importers : ImporterInv(j) /\ AloneInv(j)
  BY DEF StoreInv, IsFunction
<1>2. FilesInv' /\ Grows
  BY <1>1, FilesKept, IntelAssumption
<1>3. /\ IsFunction(importer, Importers)' /\ importer'[i] = n
      /\ \A j \in Importers \ {i} : importer'[j] = importer[j]
  BY <1>1 DEF IsFunction
<1>4. n.pc \notin {"writing", "rename"}
  OBVIOUS
<1>5. Writers' \subseteq Writers /\ i \notin Writers'
  BY <1>3, <1>4 DEF Writers
<1>6. Len(files') \in Nat
  BY <1>2, LenProperties DEF FilesInv
<1>7. \A j \in Importers \ {i} : ImporterInv(j)'
  <2> TAKE j \in Importers \ {i}
  <2> DEFINE to == 0
  <2>1. to \in Int /\ to <= Len(files') /\ ~(to > 0)
    BY <1>6
  <2> HIDE DEF to
  <2> QED BY <1>1, <1>2, <1>3, <2>1, ImporterUntouched
<1>8. \A j \in Importers : AloneInv(j)'
  <2>1. AloneInv(i)'
    BY <1>5 DEF AloneInv
  <2>2. \A j \in Importers \ {i} : AloneInv(j)'
    BY <1>1, <1>3, <1>5, AloneUntouched
  <2> QED BY <2>1, <2>2
<1>9. ImporterInv(i)'
  <2>1. CASE n.pc = "idle"
    BY <1>3, <2>1 DEF ImporterInv
  <2>2. CASE n.pc = "verified" /\ BundleIsSound
    <3>1. BundleIsSound'
      BY <2>2, Zenon DEF BundleIsSound, Sound, MarksAreEarned
    <3> QED BY <1>3, <2>2, <3>1 DEF ImporterInv
  <2>3. CASE n.pc = "write" /\ DOMAIN n = ImportFields /\ Sound(n.payload) /\ n.into = Temporary
    <3>1. PayloadInv(i)'
      BY <1>3, <1>6, <2>3 DEF PayloadInv, Temporary
    <3> QED BY <1>3, <2>3, <3>1 DEF ImporterInv
  <2> QED BY <2>1, <2>2, <2>3
<1> QED BY <1>1, <1>2, <1>3, <1>7, <1>8, <1>9 DEF ImportKeeps, Sound, MarksAreEarned

\* An import begins, reads its payload or is killed.
LEMMA ImportReadKeeps ==
  ASSUME StoreInv, NEW i \in Importers, ImportVerify(i) \/ ImportRead(i) \/ ImporterKilled(i)
  PROVE  ImportKeeps
<1> DEFINE s == importer[i]
<1>1. DOMAIN importer = Importers /\ ImporterInv(i) /\ (bundle # None => BundleIsSound)
  BY DEF StoreInv, IsFunction
<1>2. UNCHANGED <<now, files, bundle, tmp, updater, exporter>>
  BY DEF ImportVerify, ImportRead, ImporterKilled, Others3
<1>3. Resting.pc = "idle"
  BY DEF Resting
<1>4. CASE importer' = [importer EXCEPT ![i] = Resting]
  BY <1>2, <1>3, <1>4, QuietImport
<1>5. CASE ImportVerify(i)
  <2> DEFINE n == Verified(bundle.db)
  <2>1. bundle # None /\ importer' = [importer EXCEPT ![i] = n]
    BY <1>5, Zenon DEF ImportVerify, ImportStep
  <2>2. n.pc = "verified"
    BY DEF Verified
  <2> HIDE DEF n
  <2> QED BY <1>1, <1>2, <2>1, <2>2, QuietImport
<1>6. CASE ImportRead(i)
  <2> DEFINE n == [pc |-> "write", payload |-> bundle.db, seen |-> s.seen,
                   alone |-> FALSE, into |-> Temporary]
  <2>1. \/ bundle.readable /\ importer' = [importer EXCEPT ![i] = n]
        \/ importer' = [importer EXCEPT ![i] = Resting]
    BY <1>6, Zenon DEF ImportRead, ImportStep
  <2>2. s.pc = "verified"
    BY <1>6 DEF ImportRead
  <2>3. CASE bundle.readable /\ importer' = [importer EXCEPT ![i] = n]
    <3>1. n.pc = "write" /\ n.payload = bundle.db /\ DOMAIN n = ImportFields /\ n.into = Temporary
      BY Zenon DEF ImportFields
    <3> HIDE DEF n
    <3>2. Sound(n.payload)
      BY <1>1, <2>2, <2>3, <3>1 DEF ImporterInv, BundleIsSound
    <3> QED BY <1>2, <2>3, <3>1, <3>2, QuietImport
  <2> QED BY <1>4, <2>1, <2>3
<1>7. CASE ImporterKilled(i)
  BY <1>4, <1>7 DEF ImporterKilled, ImportStep
<1> QED BY <1>5, <1>6, <1>7

\* An import opens the temporary file: from now on nobody is alone but it, if nobody was
\* there (bundle.go Import, os.WriteFile).
LEMMA ImportBeginKeeps ==
  ASSUME StoreInv, NEW i \in Importers, ImportWriteBegins(i)
  PROVE  ImportKeeps
<1> DEFINE s == importer[i]
           n == [s EXCEPT !.pc = "writing", !.alone = Writers = {}]
<1>1. /\ FilesInv /\ now \in 1..MaxTime /\ ImporterInv(i) /\ s.pc = "write"
      /\ \A j \in Importers : ImporterInv(j)
      /\ UNCHANGED <<now, files, bundle, updater, exporter>>
  BY DEF StoreInv, ImportWriteBegins, Others3
<1>2. FilesInv' /\ Grows /\ Len(files') \in Nat
  BY <1>1, FilesKept, IntelAssumption, LenProperties DEF FilesInv
<1>3. DOMAIN s = ImportFields /\ Sound(s.payload) /\ s.into = Temporary
  BY <1>1 DEF ImporterInv, PayloadInv
<1>4. importer' = [j \in Importers |->
        IF j = i THEN [importer[j] EXCEPT !.pc = "writing", !.alone = Writers = {}]
        ELSE IF j \in Writers THEN [importer[j] EXCEPT !.alone = FALSE]
        ELSE importer[j]]
  BY DEF ImportWriteBegins
<1>5. /\ IsFunction(importer, Importers)' /\ importer'[i] = n
      /\ \A j \in Importers \ {i} :
           \/ j \in Writers /\ importer'[j] = [importer[j] EXCEPT !.alone = FALSE]
           \/ j \notin Writers /\ importer'[j] = importer[j]
  BY <1>4 DEF IsFunction
<1>6. /\ n.pc = "writing" /\ n.payload = s.payload /\ DOMAIN n = ImportFields
      /\ n.into = Temporary /\ n.alone = (Writers = {})
  BY <1>3 DEF ImportFields
<1> HIDE DEF n
<1>7. tmp' # None => Sound(tmp')
  <2>1. tmp' = [s.payload EXCEPT !.whole = FALSE]
    BY DEF ImportWriteBegins
  <2> QED BY <1>3, <2>1, CopyIsSound
<1>8. \A j \in Importers \ {i} : ImporterInv(j)'
  <2> TAKE j \in Importers \ {i}
  <2> DEFINE to == 0
  <2>1. to \in Int /\ to <= Len(files') /\ ~(to > 0)
    BY <1>2
  <2> HIDE DEF to
  <2> QED BY <1>1, <1>2, <1>5, <2>1, ImporterUntouched
<1>9. ImporterInv(i)'
  <2>1. PayloadInv(i)'
    BY <1>2, <1>3, <1>5, <1>6 DEF PayloadInv, Temporary
  <2> QED BY <1>5, <1>6, <2>1 DEF ImporterInv
<1>10. \A j \in Importers \ {i} : j \in Writers' => ~importer'[j].alone
  <2> TAKE j \in Importers \ {i}
  <2>1. CASE j \in Writers
    <3>1. DOMAIN importer[j] = ImportFields
      BY <1>1, <2>1 DEF ImporterInv, PayloadInv, Writers
    <3> QED BY <1>5, <2>1, <3>1 DEF ImportFields
  <2>2. CASE j \notin Writers
    BY <1>5, <2>2 DEF Writers
  <2> QED BY <2>1, <2>2
<1>11. importer'[i].alone => Writers' = {i}
  <2> SUFFICES ASSUME Writers = {} PROVE Writers' = {i}
    BY <1>5, <1>6
  <2>1. \A j \in Importers \ {i} : j \notin Writers'
    BY <1>5 DEF Writers
  <2>2. i \in Writers'
    BY <1>5, <1>6 DEF Writers
  <2>3. Writers' \subseteq Importers
    BY DEF Writers
  <2> QED BY <2>1, <2>2, <2>3
<1>12. \A j \in Importers : AloneInv(j)'
  <2>1. AloneInv(i)'
    BY <1>5, <1>6, <1>11 DEF AloneInv
  <2> QED BY <1>10, <2>1 DEF AloneInv
<1> QED BY <1>1, <1>2, <1>5, <1>7, <1>8, <1>9, <1>12 DEF ImportKeeps

\* It has written its payload, into the file it had opened.
LEMMA ImportEndKeeps ==
  ASSUME StoreInv, NEW i \in Importers, ImportWriteEnds(i)
  PROVE  ImportKeeps
<1> DEFINE s == importer[i]
           n == [s EXCEPT !.pc = "rename"]
<1>1. /\ FilesInv /\ now \in 1..MaxTime /\ s.pc = "writing" /\ (tmp # None => Sound(tmp))
      /\ IsFunction(importer, Importers) /\ DOMAIN importer = Importers
      /\ \A j \in Importers : ImporterInv(j) /\ AloneInv(j)
      /\ UNCHANGED <<now, bundle, updater, exporter>>
  BY DEF StoreInv, IsFunction, ImportWriteEnds, Others3
<1>2. /\ DOMAIN s = ImportFields /\ Sound(s.payload) /\ s.into \in Int /\ s.into <= Len(files)
      /\ s.into > 0 => ~files[s.into].intact
  BY <1>1 DEF ImporterInv, PayloadInv
<1>3. i \in Writers /\ (s.alone => Writers = {i} /\ s.into = Temporary)
  BY <1>1 DEF Writers, AloneInv
<1>4. /\ IsFunction(importer, Importers)' /\ importer'[i] = n
      /\ \A j \in Importers \ {i} : importer'[j] = importer[j]
  <2>1. importer' = [importer EXCEPT ![i] = n]
    BY Zenon DEF ImportWriteEnds, ImportStep
  <2> QED BY <1>1, <2>1 DEF IsFunction
<1>5. /\ n.pc = "rename" /\ n.payload = s.payload /\ DOMAIN n = ImportFields
      /\ n.into = s.into /\ n.alone = s.alone
  BY <1>2 DEF ImportFields
<1> HIDE DEF n
<1>6. PICK content :
        /\ Sound(content) /\ (s.alone => content = s.payload) /\ (~s.alone => ~content.intact)
        /\ tmp' = IF s.into = Temporary THEN content ELSE tmp
        /\ files' = IF s.into > 0 THEN [files EXCEPT ![s.into] = content] ELSE files
  <2>1. PICK mixed \in BOOLEAN :
          LET content == IF s.alone THEN s.payload
                         ELSE [s.payload EXCEPT !.whole = @ /\ ~mixed, !.intact = FALSE]
          IN /\ tmp' = IF s.into = Temporary THEN content ELSE tmp
             /\ files' = IF s.into > 0 THEN [files EXCEPT ![s.into] = content] ELSE files
    BY Zenon DEF ImportWriteEnds
  <2> DEFINE w == s.payload.whole /\ ~mixed
             mixture == [s.payload EXCEPT !.whole = w, !.intact = FALSE]
             content == IF s.alone THEN s.payload ELSE mixture
  <2>2. /\ tmp' = IF s.into = Temporary THEN content ELSE tmp
        /\ files' = IF s.into > 0 THEN [files EXCEPT ![s.into] = content] ELSE files
    BY <2>1, Zenon
  <2>3. w \in BOOLEAN
    BY Zenon
  <2> HIDE DEF w
  <2>4. Sound(mixture) /\ ~mixture.intact
    BY <1>2, <2>3, MixtureIsSound
  <2> HIDE DEF mixture
  <2>5. /\ Sound(content) /\ (s.alone => content = s.payload)
        /\ ~s.alone => ~content.intact
    BY <1>2, <2>4
  <2> HIDE DEF content
  <2> QED BY <2>2, <2>5
<1>7. tmp' # None => Sound(tmp')
  BY <1>1, <1>6
<1>8. FilesInv' /\ Grows /\ Len(files') = Len(files)
  <2>1. CASE s.into > 0
    <3>1. Follows(files[s.into], content)
      BY <1>3, <1>6, <2>1 DEF Follows, Temporary
    <3>2. Len(files) \in Nat
      BY <1>1, LenProperties DEF FilesInv
    <3>3. s.into \in 1..Len(files)
      BY <1>2, <2>1, <3>2
    <3> QED BY <1>1, <1>6, <2>1, <3>1, <3>3, FileWritten
  <2>2. CASE ~(s.into > 0)
    BY <1>1, <1>6, <2>2, FilesKept, IntelAssumption
  <2> QED BY <2>1, <2>2
<1>9. Len(files') \in Nat
  BY <1>8, LenProperties DEF FilesInv
<1>10. \A j \in Importers \ {i} : ImporterInv(j)'
  <2> TAKE j \in Importers \ {i}
  <2> DEFINE to == 0
  <2>1. to \in Int /\ to <= Len(files') /\ ~(to > 0)
    BY <1>9
  <2> HIDE DEF to
  <2> QED BY <1>1, <1>4, <1>8, <2>1, ImporterUntouched
<1>11. ImporterInv(i)'
  <2>1. s.into > 0 => ~files'[s.into].intact
    BY <1>1, <1>2, <1>8 DEF Grows, Follows
  <2>2. PayloadInv(i)'
    BY <1>2, <1>4, <1>5, <1>8, <2>1 DEF PayloadInv
  <2> QED BY <1>4, <1>5, <2>2 DEF ImporterInv
<1>12. Writers' = Writers
  BY <1>1, <1>4, <1>5 DEF Writers
<1>13. AloneInv(i)'
  BY <1>3, <1>4, <1>5, <1>6, <1>12 DEF AloneInv
<1>14. \A j \in Importers \ {i} : AloneInv(j)'
  BY <1>1, <1>3, <1>4, <1>12 DEF AloneInv
<1> QED BY <1>1, <1>4, <1>7, <1>8, <1>10, <1>11, <1>13, <1>14 DEF ImportKeeps

\* It ends, and with it the file of that name.
LEMMA ImportRenameKeeps ==
  ASSUME StoreInv, NEW i \in Importers, ImportRename(i) \/ ImportRenameFails(i)
  PROVE  ImportKeeps
<1> DEFINE s == importer[i]
           to == IF ImportRename(i) THEN Len(files) + 1 ELSE Gone
<1>1. /\ FilesInv /\ now \in 1..MaxTime /\ s.pc = "rename" /\ (tmp # None => Sound(tmp))
      /\ \A j \in Importers : ImporterInv(j) /\ AloneInv(j)
      /\ UNCHANGED <<now, bundle, updater, exporter>> /\ tmp' = None
  BY DEF StoreInv, ImportRename, ImportRenameFails, TemporaryMoves, Others3
<1>2. i \in Writers /\ (s.alone => Writers = {i})
  BY <1>1 DEF Writers, AloneInv
<1>3. Len(files) \in Nat
  BY <1>1, LenProperties DEF FilesInv
<1>4. /\ FilesInv' /\ Grows
      /\ ImportRename(i) => Len(files') = Len(files) + 1 /\ files'[Len(files) + 1] = Installed(i)
      /\ ~ImportRename(i) => files' = files
  <2>1. CASE ImportRename(i)
    <3> DEFINE d == Installed(i)
    <3>1. files' = Append(files, d) /\ Sound(tmp)
      BY <1>1, <2>1 DEF ImportRename
    <3>2. Sound(d)
      BY <3>1, MixtureIsSound DEF Installed
    <3> HIDE DEF d
    <3>3. files \in Seq(Database) /\ d \in Database
      BY <1>1, <3>2 DEF FilesInv, Sound
    <3>4. /\ files' \in Seq(Database) /\ files' # << >> /\ Len(files') = Len(files) + 1
          /\ \A f \in 1..Len(files) : files'[f] = files[f]
          /\ files'[Len(files) + 1] = d
      BY <1>3, <3>1, <3>3
    <3>5. \A f \in 1..Len(files') : Sound(files'[f])
      <4> SUFFICES ASSUME NEW f \in 1..Len(files') PROVE Sound(files'[f])
        OBVIOUS
      <4>1. f \in 1..Len(files) \/ f = Len(files) + 1
        BY <1>3, <3>4
      <4> QED BY <1>1, <3>2, <3>4, <4>1 DEF FilesInv
    <3>6. FilesInv'
      BY <3>4, <3>5 DEF FilesInv, Sound, MarksAreEarned
    <3>7. now <= now' /\ now' \in 1..MaxTime /\ Len(files) <= Len(files')
      BY <1>1, <1>3, <3>4, IntelAssumption
    <3>8. Grows
      BY <3>4, <3>7 DEF Grows, Follows
    <3> QED BY <2>1, <3>4, <3>6, <3>8 DEF d
  <2>2. CASE ~ImportRename(i)
    <3>1. files' = files
      BY <2>2 DEF ImportRenameFails
    <3> QED BY <1>1, <2>2, <3>1, FilesKept, IntelAssumption
  <2> QED BY <2>1, <2>2
<1>5. importer' = [j \in Importers |->
        IF j = i THEN Resting
        ELSE IF importer[j].pc = "writing" /\ importer[j].into = Temporary
          THEN [importer[j] EXCEPT !.into = to]
        ELSE importer[j]]
  BY Zenon DEF ImportRename, ImportRenameFails, TemporaryMoves
<1>6. to \in Int /\ to = IF ImportRename(i) THEN Len(files) + 1 ELSE -1
  BY <1>3 DEF Gone
<1> HIDE DEF to
<1>7. /\ IsFunction(importer, Importers)' /\ importer'[i] = Resting
      /\ \A j \in Importers \ {i} :
           \/ importer'[j] = importer[j]
           \/ importer[j].pc = "writing" /\ importer'[j] = [importer[j] EXCEPT !.into = to]
  BY <1>5 DEF IsFunction
<1>8. importer'[i].pc = "idle"
  BY <1>7 DEF Resting
<1>9. \A j \in Importers \ {i} : ImporterInv(j)'
  <2> TAKE j \in Importers \ {i}
  <2>1. CASE importer'[j] = importer[j]
    <3> DEFINE z == 0
    <3>1. z \in Int /\ z <= Len(files') /\ ~(z > 0)
      BY <1>4, LenProperties DEF FilesInv
    <3> HIDE DEF z
    <3> QED BY <1>1, <1>4, <2>1, <3>1, ImporterUntouched
  <2>2. CASE importer[j].pc = "writing" /\ importer'[j] = [importer[j] EXCEPT !.into = to]
    <3>1. ~s.alone
      BY <1>2, <2>2 DEF Writers
    <3>2. ImportRename(i) => ~files'[Len(files) + 1].intact
      <4> SUFFICES ASSUME ImportRename(i) PROVE ~files'[Len(files) + 1].intact
        OBVIOUS
      <4>1. Sound(tmp) /\ Installed(i) = [tmp EXCEPT !.intact = FALSE]
        BY <1>1, <3>1 DEF ImportRename, Installed
      <4> QED BY <1>4, <4>1, MixtureIsSound
    <3>3. to <= Len(files') /\ (to > 0 => ~files'[to].intact)
      BY <1>3, <1>4, <1>6, <3>2
    <3> QED BY <1>1, <1>4, <1>6, <2>2, <3>3, ImporterUntouched
  <2> QED BY <1>7, <2>1, <2>2
<1>10. ImporterInv(i)'
  BY <1>8 DEF ImporterInv
<1>11. \A j \in Importers \ {i} :
         importer'[j].pc = importer[j].pc /\ (j \in Writers => importer'[j].alone = importer[j].alone)
  <2> TAKE j \in Importers \ {i}
  <2>1. j \in Writers => DOMAIN importer[j] = ImportFields
    BY <1>1 DEF Writers, ImporterInv, PayloadInv
  <2>2. importer[j].pc = "writing" => j \in Writers
    BY DEF Writers
  <2> QED BY <1>7, <2>1, <2>2 DEF ImportFields
<1>12. \A j \in Importers : AloneInv(j)'
  <2> TAKE j \in Importers
  <2>1. CASE j = i
    BY <1>8, <2>1 DEF AloneInv, Writers
  <2>2. CASE j # i
    <3>1. j \in Writers' => j \in Writers /\ ~importer'[j].alone
      <4> SUFFICES ASSUME j \in Writers' PROVE j \in Writers /\ ~importer'[j].alone
        OBVIOUS
      <4>1. j \in Writers
        BY <1>11, <2>2 DEF Writers
      <4>2. ~importer[j].alone
        BY <1>1, <1>2, <2>2, <4>1 DEF AloneInv
      <4> QED BY <1>11, <2>2, <4>1, <4>2
    <3> QED BY <3>1 DEF AloneInv
  <2> QED BY <2>1, <2>2
<1> QED BY <1>1, <1>4, <1>7, <1>9, <1>10, <1>12 DEF ImportKeeps

LEMMA ImporterStepKeeps ==
  ASSUME StoreInv, NEW i \in Importers, ImporterStep(i)
  PROVE  ImportKeeps
  BY ImportReadKeeps, ImportBeginKeeps, ImportEndKeeps, ImportRenameKeeps DEF ImporterStep

\* What a bundle loses on its way says nothing about its marks.
LEMMA AlteredIsSound ==
  ASSUME StoreInv, BundleInv, BundleAltered
  PROVE  BundleIsSound'
<1>1. /\ DOMAIN bundle = BundleFields /\ Sound(bundle.db)
  BY DEF BundleInv, BundleAltered, ChecksumsAreOfOrigin, StoreInv, BundleIsSound
<1>2. CASE bundle' = [bundle EXCEPT !.db.whole = FALSE]
  <2> DEFINE d == bundle.db
             c == [d EXCEPT !.whole = FALSE]
  <2>1. Sound(c)
    BY <1>1, CopyIsSound
  <2>2. bundle' = [bundle EXCEPT !.db = c]
    BY <1>2, Zenon
  <2> HIDE DEF c
  <2>3. bundle'.db = c
    BY <1>1, <2>2 DEF BundleFields
  <2> QED BY <2>1, <2>3, Zenon DEF BundleIsSound, Sound, MarksAreEarned
<1>3. CASE bundle' # [bundle EXCEPT !.db.whole = FALSE]
  <2>1. \E f \in {"manifest", "known", "signed"} : \E v : bundle' = [bundle EXCEPT ![f] = v]
    <3>1. CASE bundle' = [bundle EXCEPT !.manifest.content.marks = [k \in {} |-> 0]]
      BY <3>1, Zenon
    <3>2. CASE bundle' = [bundle EXCEPT !.known = FALSE]
      BY <3>2, Zenon
    <3>3. CASE bundle' = [bundle EXCEPT !.signed = TRUE]
      BY <3>3, Zenon
    <3> QED BY <1>3, <3>1, <3>2, <3>3, Zenon DEF BundleAltered, BundleReplaced
  <2>2. PICK f \in {"manifest", "known", "signed"} : \E v : bundle' = [bundle EXCEPT ![f] = v]
    BY <2>1
  <2>3. PICK v : bundle' = [bundle EXCEPT ![f] = v]
    BY <2>2
  <2>4. bundle'["db"] = bundle["db"]
    BY <1>1, <2>3 DEF BundleFields
  <2> QED BY <1>1, <2>4, Zenon DEF BundleIsSound, Sound, MarksAreEarned
<1> QED BY <1>2, <1>3

\* A database that was rewritten in a bundle is none of ours.
LEMMA RewrittenIsSound ==
  ASSUME StoreInv, BundleRewritten
  PROVE  BundleIsSound'
<1> DEFINE rows == [b \in Buckets |-> {}]
           db == [bundle.db EXCEPT !.rows = rows, !.intact = FALSE]
<1>1. bundle' = Sealed(Manifest(db), db) /\ Sound(bundle.db)
  BY DEF BundleRewritten, BundleReplaced, StoreInv, BundleIsSound
<1>2. bundle.db \in Database /\ rows \in [Buckets -> SUBSET (1..MaxTime)]
  BY <1>1 DEF Sound
<1> HIDE DEF rows
<1>3. db \in Database /\ ~db.intact
  BY <1>2 DEF Database
<1> HIDE DEF db
<1>4. Sound(db) /\ bundle'.db = db
  BY <1>1, <1>3, NotIntactIsSound, SealedBundle
<1> QED BY <1>4, Zenon DEF BundleIsSound, Sound, MarksAreEarned

LEMMA InitIsSound == Init => StoreInv
<1> SUFFICES ASSUME Init PROVE StoreInv
  OBVIOUS
<1>1. PICK d \in InitialDatabases : files = <<d>>
  BY DEF Init
<1>2. Sound(d) /\ d \in Database
  BY DatabaseAssumption DEF Sound
<1>3. FilesInv
  BY <1>1, <1>2 DEF FilesInv
<1>4. now \in 1..MaxTime /\ tmp = None /\ bundle = None
  BY IntelAssumption DEF Init
<1>5. Resting.pc = "idle"
  BY DEF Resting
<1>6. IsFunction(updater, Updaters) /\ \A u \in Updaters : updater[u].pc = "idle"
  BY <1>5 DEF Init, IsFunction
<1>7. IsFunction(exporter, Exporters) /\ \A e \in Exporters : exporter[e].pc = "idle"
  BY <1>5 DEF Init, IsFunction
<1>8. IsFunction(importer, Importers) /\ \A i \in Importers : importer[i].pc = "idle"
  BY <1>5 DEF Init, IsFunction
<1>9. /\ \A u \in Updaters : UpdaterInv(u)
      /\ \A e \in Exporters : ExporterInv(e)
      /\ \A i \in Importers : ImporterInv(i) /\ AloneInv(i)
  BY <1>6, <1>7, <1>8 DEF UpdaterInv, Working, ExporterInv, ImporterInv, AloneInv, Writers
<1> QED BY <1>3, <1>4, <1>6, <1>7, <1>8, <1>9 DEF StoreInv

\* Whoever is not at work keeps its part of the invariant.
LEMMA UpdatersUntouched ==
  ASSUME StoreInv, FilesInv', Grows, updater' = updater
  PROVE  IsFunction(updater, Updaters)' /\ \A u \in Updaters : UpdaterInv(u)'
<1>1. IsFunction(updater, Updaters)'
  BY DEF StoreInv, IsFunction
<1> QED BY <1>1, UpdaterUntouched DEF StoreInv

LEMMA ExportersUntouched ==
  ASSUME StoreInv, FilesInv', Grows, exporter' = exporter
  PROVE  IsFunction(exporter, Exporters)' /\ \A e \in Exporters : ExporterInv(e)'
<1>1. IsFunction(exporter, Exporters)'
  BY DEF StoreInv, IsFunction
<1> QED BY <1>1, ExporterUntouched DEF StoreInv

LEMMA ImportersUntouched ==
  ASSUME StoreInv, FilesInv', Grows, tmp' = tmp, BundleMove
  PROVE  /\ IsFunction(importer, Importers)'
         /\ \A i \in Importers : ImporterInv(i)' /\ AloneInv(i)'
<1>1. /\ IsFunction(importer, Importers)' /\ FilesInv
      /\ \A i \in Importers :
           \/ importer'[i] = importer[i]
           \/ importer[i].pc = "verified" /\ importer'[i] = Verified(None)
  BY DEF StoreInv, IsFunction, BundleMove, BundleReplaced
<1>2. Verified(None).pc = "verified"
  BY DEF Verified
<1>3. Writers' = Writers
  BY <1>1, <1>2 DEF Writers
<1>4. /\ bundle' = bundle \/ BundleIsSound'
      /\ \A i \in Importers :
           \/ importer'[i] = importer[i]
           \/ importer[i].pc = "verified" /\ importer'[i] = Verified(None) /\ BundleIsSound'
  BY <1>1, Zenon DEF BundleMove
<1>5. \A i \in Importers : ImporterInv(i)'
  <2> TAKE i \in Importers
  <2> DEFINE to == 0
  <2>1. to \in Int /\ to <= Len(files') /\ ~(to > 0)
    BY LenProperties DEF FilesInv
  <2> HIDE DEF to
  <2> QED BY <1>1, <1>4, <2>1, ImporterUntouched DEF StoreInv
<1>6. \A i \in Importers : AloneInv(i)'
  <2> TAKE i \in Importers
  <2>1. CASE importer'[i] = importer[i]
    BY <1>3, <2>1, AloneUntouched DEF StoreInv
  <2>2. CASE importer[i].pc = "verified"
    BY <1>3, <2>2 DEF AloneInv, Writers
  <2> QED BY <1>1, <2>1, <2>2
<1> QED BY <1>1, <1>5, <1>6

LEMMA BundleUntouched ==
  ASSUME StoreInv, bundle' = bundle
  PROVE  bundle' # None => BundleIsSound'
  BY Zenon DEF StoreInv, BundleIsSound, Sound, MarksAreEarned

LEMMA NextIsSound == StoreInv /\ BundleInv /\ [Next]_vars => StoreInv'
<1> SUFFICES ASSUME StoreInv, BundleInv, [Next]_vars PROVE StoreInv'
  OBVIOUS
<1> USE DEF Grows
<1>1. ASSUME NEW u \in Updaters, UpdaterStep(u) PROVE StoreInv'
  <2>1. /\ FilesInv' /\ Grows /\ IsFunction(updater, Updaters)'
        /\ \A v \in Updaters : UpdaterInv(v)'
        /\ UNCHANGED <<bundle, tmp, exporter, importer>>
    BY <1>1, UpdaterStepKeeps
  <2> QED BY <2>1, ExportersUntouched, ImportersUntouched, BundleUntouched DEF StoreInv, BundleMove
<1>2. ASSUME NEW e \in Exporters, ExporterStep(e) PROVE StoreInv'
  <2>1. /\ FilesInv' /\ Grows /\ IsFunction(exporter, Exporters)'
        /\ \A v \in Exporters : ExporterInv(v)'
        /\ BundleMove
        /\ UNCHANGED <<tmp, updater>>
    BY <1>2, ExporterStepKeeps
  <2> QED BY <2>1, UpdatersUntouched, ImportersUntouched, BundleUntouched DEF StoreInv, BundleMove
<1>3. ASSUME NEW i \in Importers, ImporterStep(i) PROVE StoreInv'
  <2>1. ImportKeeps
    BY <1>3, ImporterStepKeeps
  <2> QED BY <2>1, UpdatersUntouched, ExportersUntouched, BundleUntouched DEF StoreInv, ImportKeeps
<1>4. ASSUME FilesInv', Grows, BundleMove, UNCHANGED <<tmp, updater, exporter>>
      PROVE  StoreInv'
  BY <1>4, UpdatersUntouched, ExportersUntouched, ImportersUntouched, BundleUntouched
     DEF StoreInv, BundleMove
<1>5. FilesInv /\ now \in 1..MaxTime /\ MaxTime \in Nat
  BY IntelAssumption DEF StoreInv
<1>6. CASE DBStatus
  BY <1>4, <1>5, <1>6, Opened DEF DBStatus, BundleMove
<1>7. CASE Tick \/ BundleAltered \/ BundleRewritten \/ UNCHANGED vars
  <2>1. files' = files /\ UNCHANGED <<tmp, updater, exporter>>
    BY <1>7 DEF Tick, BundleAltered, BundleRewritten, vars
  <2>2. now <= now' /\ now' \in 1..MaxTime
    BY <1>5, <1>7 DEF Tick, BundleAltered, BundleRewritten, vars
  <2>3. FilesInv' /\ Grows
    BY <1>5, <2>1, <2>2, FilesKept
  <2>4. CASE Tick \/ UNCHANGED vars
    BY <1>4, <2>1, <2>3, <2>4 DEF Tick, vars, BundleMove
  <2>5. CASE BundleAltered \/ BundleRewritten
    <3>1. BundleReplaced(bundle')
      BY <2>5 DEF BundleAltered, BundleRewritten, BundleReplaced
    <3> QED BY <1>4, <2>1, <2>3, <2>5, <3>1, AlteredIsSound, RewrittenIsSound DEF BundleMove
  <2> QED BY <1>7, <2>4, <2>5
<1> QED BY <1>1, <1>2, <1>3, <1>6, <1>7 DEF Next

\* A bucket's mark is there only when one synchronisation of it was completed, and
\* every advisory that its archive then delivered is in the database: in those at the path,
\* through failures, kills, concurrent updates, migrations and imports, unless the database
\* was rewritten in a bundle or by imports side by side (internal/cli update_db.go,
\* internal/db migrations.go, internal/dbbundle bundle.go).
THEOREM MarkIsEarnedTheorem == Spec => []MarkIsEarned
<1>1. Init => StoreInv /\ BundleInv
  BY InitIsSound DEF Init, BundleInv
<1>2. StoreInv /\ BundleInv /\ [Next]_vars => StoreInv' /\ BundleInv'
  BY NextIsSound, BundleKeeps
<1>3. StoreInv => MarkIsEarned
  BY DEF StoreInv, FilesInv, Sound, MarkIsEarned
<1> QED BY <1>1, <1>2, <1>3, PTL DEF Spec

----------------------------------------------------------------------------
(* What an import installs: ImportInstallsPayload.                          *)

\* What an import remembers that it verified is the bundle's database until it reads it,
\* and its payload from then on.
SeenInv(i) ==
  /\ importer[i].pc = "verified" /\ importer[i].seen # None => bundle.db = importer[i].seen
  /\ importer[i].pc \in {"write", "writing", "rename"} /\ importer[i].seen # None =>
       importer[i].payload = importer[i].seen

LEMMA SeenCarried ==
  ASSUME NEW i \in Importers, SeenInv(i), bundle' = bundle,
         \/ importer'[i] = importer[i]
         \/ importer'[i].pc = "idle"
         \/ /\ importer[i].pc \in {"write", "writing", "rename"}
            /\ importer'[i].pc # "verified"
            /\ importer'[i].payload = importer[i].payload
            /\ importer'[i].seen = importer[i].seen
  PROVE  SeenInv(i)'
BY DEF SeenInv

\* An import's step: it reads what it verified, or another bundle that has forgotten it.
LEMMA ImporterStepSees ==
  ASSUME StoreInv, \A j \in Importers : SeenInv(j), NEW i \in Importers, ImporterStep(i)
  PROVE  \A j \in Importers : SeenInv(j)'
<1>1. bundle' = bundle
  BY ImporterKeeps
<1>2. /\ DOMAIN importer = Importers
      /\ \A j \in Importers : importer[j].pc \in {"write", "writing", "rename"} =>
                               DOMAIN importer[j] = ImportFields
  BY DEF StoreInv, IsFunction, ImporterInv, PayloadInv
<1>3. Resting.pc = "idle"
  BY DEF Resting
<1>4. ASSUME NEW n, importer' = [importer EXCEPT ![i] = n],
             importer'[i] = n => SeenInv(i)'
      PROVE  \A j \in Importers : SeenInv(j)'
  <2>1. importer'[i] = n /\ \A j \in Importers \ {i} : importer'[j] = importer[j]
    BY <1>2, <1>4
  <2> QED BY <1>1, <1>4, <2>1, SeenCarried
<1>5. CASE ImportVerify(i)
  <2>1. importer' = [importer EXCEPT ![i] = Verified(bundle.db)]
    BY <1>5 DEF ImportVerify, ImportStep
  <2>2. Verified(bundle.db).pc = "verified" /\ Verified(bundle.db).seen = bundle.db
    BY DEF Verified
  <2>3. importer'[i] = Verified(bundle.db) => SeenInv(i)'
    BY <1>1, <2>2 DEF SeenInv
  <2> QED BY <1>4, <2>1, <2>3
<1>6. CASE ImportRead(i)
  <2>1. importer[i].pc = "verified"
    BY <1>6 DEF ImportRead
  <2>2. CASE ImportStep(i, Resting)
    BY <1>1, <1>3, <1>4, <2>2, SeenCarried DEF ImportStep
  <2>3. CASE ImportStep(i, [pc |-> "write", payload |-> bundle.db, seen |-> importer[i].seen,
                            alone |-> FALSE, into |-> Temporary])
    <3> DEFINE n == [pc |-> "write", payload |-> bundle.db, seen |-> importer[i].seen,
                     alone |-> FALSE, into |-> Temporary]
    <3>1. n.pc = "write" /\ n.payload = bundle.db /\ n.seen = importer[i].seen
      OBVIOUS
    <3>2. importer' = [importer EXCEPT ![i] = n]
      BY <2>3 DEF ImportStep
    <3> HIDE DEF n
    <3>3. importer'[i] = n => SeenInv(i)'
      BY <2>1, <3>1 DEF SeenInv
    <3> QED BY <1>4, <3>2, <3>3
  <2> QED BY <1>6, <2>2, <2>3 DEF ImportRead
<1>7. CASE ImportWriteBegins(i)
  <2>1. \A j \in Importers :
          \/ importer'[j] = importer[j]
          \/ /\ importer[j].pc \in {"write", "writing", "rename"}
             /\ \E a : \/ importer'[j] = [importer[j] EXCEPT !.pc = "writing", !.alone = a]
                      \/ importer'[j] = [importer[j] EXCEPT !.alone = a]
    BY <1>7 DEF ImportWriteBegins, Writers
  <2>2. \A j \in Importers :
          \/ importer'[j] = importer[j]
          \/ /\ importer[j].pc \in {"write", "writing", "rename"}
             /\ importer'[j].pc # "verified"
             /\ importer'[j].payload = importer[j].payload
             /\ importer'[j].seen = importer[j].seen
    <3> TAKE j \in Importers
    <3>1. CASE importer'[j] = importer[j]
      BY <3>1
    <3>2. ASSUME NEW a, importer[j].pc \in {"write", "writing", "rename"},
                 importer'[j] = [importer[j] EXCEPT !.pc = "writing", !.alone = a]
          PROVE  /\ importer'[j].pc # "verified"
                 /\ importer'[j].payload = importer[j].payload
                 /\ importer'[j].seen = importer[j].seen
      BY <1>2, <3>2 DEF ImportFields
    <3>3. ASSUME NEW a, importer[j].pc \in {"write", "writing", "rename"},
                 importer'[j] = [importer[j] EXCEPT !.alone = a]
          PROVE  /\ importer'[j].pc # "verified"
                 /\ importer'[j].payload = importer[j].payload
                 /\ importer'[j].seen = importer[j].seen
      BY <1>2, <3>3 DEF ImportFields
    <3>4. CASE importer'[j] # importer[j]
      <4>1. PICK a : \/ importer'[j] = [importer[j] EXCEPT !.pc = "writing", !.alone = a]
                     \/ importer'[j] = [importer[j] EXCEPT !.alone = a]
        BY <2>1, <3>4, Zenon
      <4>2. importer[j].pc \in {"write", "writing", "rename"}
        BY <2>1, <3>4, Zenon
      <4>3. /\ importer'[j].pc # "verified"
            /\ importer'[j].payload = importer[j].payload
            /\ importer'[j].seen = importer[j].seen
        <5>1. CASE importer'[j] = [importer[j] EXCEPT !.pc = "writing", !.alone = a]
          BY <3>2, <4>2, <5>1
        <5>2. CASE importer'[j] = [importer[j] EXCEPT !.alone = a]
          BY <3>3, <4>2, <5>2
        <5> QED BY <4>1, <5>1, <5>2
      <4> QED BY <4>2, <4>3
    <3> QED BY <3>1, <3>4
  <2> QED BY <1>1, <2>2, SeenCarried
<1>8. CASE ImportWriteEnds(i)
  <2> DEFINE n == [importer[i] EXCEPT !.pc = "rename"]
  <2>1. importer[i].pc = "writing" /\ importer' = [importer EXCEPT ![i] = n]
    BY <1>8 DEF ImportWriteEnds, ImportStep
  <2>2. n.pc = "rename" /\ n.payload = importer[i].payload /\ n.seen = importer[i].seen
    BY <1>2, <2>1 DEF ImportFields
  <2> HIDE DEF n
  <2>3. importer'[i] = n => SeenInv(i)'
    BY <1>1, <2>1, <2>2, SeenCarried
  <2> QED BY <1>4, <2>1, <2>3
<1>9. CASE ImportRename(i) \/ ImportRenameFails(i)
  <2>1. PICK to : TemporaryMoves(i, to)
    BY <1>9 DEF ImportRename, ImportRenameFails
  <2>2. \A j \in Importers :
          \/ importer'[j] = importer[j]
          \/ importer'[j] = Resting
          \/ /\ importer[j].pc = "writing"
             /\ importer'[j] = [importer[j] EXCEPT !.into = to]
    BY <2>1 DEF TemporaryMoves
  <2>3. \A j \in Importers :
          \/ importer'[j] = importer[j]
          \/ importer'[j].pc = "idle"
          \/ /\ importer[j].pc \in {"write", "writing", "rename"}
             /\ importer'[j].pc # "verified"
             /\ importer'[j].payload = importer[j].payload
             /\ importer'[j].seen = importer[j].seen
    <3> TAKE j \in Importers
    <3>1. ASSUME importer[j].pc = "writing", importer'[j] = [importer[j] EXCEPT !.into = to]
          PROVE  /\ importer'[j].pc # "verified"
                 /\ importer'[j].payload = importer[j].payload
                 /\ importer'[j].seen = importer[j].seen
      BY <1>2, <3>1 DEF ImportFields
    <3> QED BY <1>3, <2>2, <3>1
  <2> QED BY <1>1, <2>3, SeenCarried
<1>10. CASE ImporterKilled(i)
  BY <1>1, <1>3, <1>4, <1>10, SeenCarried DEF ImporterKilled, ImportStep
<1> QED BY <1>5, <1>6, <1>7, <1>8, <1>9, <1>10 DEF ImporterStep

LEMMA SeenKeeps ==
  StoreInv /\ (\A i \in Importers : SeenInv(i)) /\ [Next]_vars => \A i \in Importers : SeenInv(i)'
<1> SUFFICES ASSUME StoreInv, \A i \in Importers : SeenInv(i), [Next]_vars
             PROVE  \A i \in Importers : SeenInv(i)'
  OBVIOUS
<1>1. CASE UNCHANGED <<bundle, importer>>
  BY <1>1, SeenCarried
<1>2. CASE BundleReplaced(bundle')
  <2> TAKE i \in Importers
  <2>1. (importer'[i] = importer[i] /\ importer[i].pc # "verified") \/ importer'[i] = Verified(None)
    BY <1>2 DEF BundleReplaced
  <2>2. Verified(None).pc = "verified" /\ Verified(None).seen = None
    BY DEF Verified
  <2> QED BY <2>1, <2>2 DEF SeenInv
<1>3. ASSUME NEW u \in Updaters, UpdaterStep(u) PROVE UNCHANGED <<bundle, importer>>
  BY <1>3, UpdaterStepKeeps
<1>4. ASSUME NEW e \in Exporters, ExporterStep(e)
      PROVE  UNCHANGED <<bundle, importer>> \/ BundleReplaced(bundle')
  BY <1>4, ExporterStepKeeps DEF BundleMove
<1>5. BundleAltered \/ BundleRewritten => BundleReplaced(bundle')
  BY DEF BundleAltered, BundleRewritten, BundleReplaced
<1>6. DBStatus \/ Tick \/ UNCHANGED vars => UNCHANGED <<bundle, importer>>
  BY DEF DBStatus, Tick, vars
<1> QED BY <1>1, <1>2, <1>3, <1>4, <1>5, <1>6, ImporterStepSees DEF Next

\* Only an import makes the databases more.
LEMMA OthersInstallNothing ==
  ASSUME StoreInv, BundleInv, [Next]_vars, \A i \in Importers : ~ImportRename(i)
  PROVE  Len(files') = Len(files)
<1>1. files' = files \/ \E f, d : files' = [files EXCEPT ![f] = d]
  <2>1. ASSUME NEW i \in Importers, ImportWriteEnds(i)
        PROVE  files' = files \/ \E f, d : files' = [files EXCEPT ![f] = d]
    BY <2>1, Zenon DEF ImportWriteEnds
  <2> QED BY <2>1, Zenon DEF Next, vars, UpdaterStep, UpdateDB, UpdateDBAsync, Begin, FetchBulk,
    SyncFails, SaveVulnerabilities, MarkSynced, FinishUpdate, UpdaterKilled, Write, Open,
    ExporterStep, ExportManifest, ExportReadBegins, ExportReadEnds, ExportWriteBegins,
    ExportWriteEnds, ExporterKilled, ImporterStep, ImportVerify, ImportRead, ImportWriteBegins,
    ImportRenameFails, ImporterKilled, DBStatus, BundleAltered, BundleRewritten, Tick
<1>2. files \in Seq(Database) /\ files' \in Seq(Database)
  BY NextIsSound DEF StoreInv, FilesInv
<1>3. DOMAIN files' = DOMAIN files
  BY <1>1
<1>4. /\ DOMAIN files = 1..Len(files) /\ Len(files) \in Nat
      /\ DOMAIN files' = 1..Len(files') /\ Len(files') \in Nat
  BY <1>2, LenProperties
<1> QED BY <1>3, <1>4

\* What replaces the database is put there by an import, and by one that had the temporary
\* file to itself exactly the payload it read, the database that it verified if the bundle
\* stayed what it was, whatever other imports did before and after and wherever they were
\* killed (internal/dbbundle bundle.go Import).
THEOREM ImportInstallsPayloadTheorem == Spec => ImportInstallsPayload
<1> DEFINE Inv == StoreInv /\ BundleInv /\ \A i \in Importers : SeenInv(i)
<1>1. Init => Inv
  BY InitIsSound DEF Init, BundleInv, SeenInv, Resting
<1>2. Inv /\ [Next]_vars => Inv'
  BY NextIsSound, BundleKeeps, SeenKeeps
<1>3. Inv /\ [Next]_vars => [OnlyImportsInstall]_files
  <2> SUFFICES ASSUME Inv, [Next]_vars PROVE OnlyImportsInstall
    OBVIOUS
  <2>1. ASSUME NEW i \in Importers, ImportRename(i) PROVE OnlyImportsInstall
    <3>1. importer[i].pc = "rename" /\ files' = Append(files, Installed(i)) /\ i \in Writers
      BY <2>1 DEF ImportRename, Writers
    <3>2. importer'[i] = Resting
      BY <2>1 DEF ImportRename, TemporaryMoves
    <3>3. importer'[i].pc = "idle"
      BY <3>2 DEF Resting
    <3>4. importer[i].alone => Installed(i) = importer[i].payload
      BY <3>1 DEF StoreInv, AloneInv, Installed
    <3>5. importer[i].seen # None => importer[i].payload = importer[i].seen
      BY <3>1 DEF SeenInv
    <3> QED BY <3>1, <3>3, <3>4, <3>5 DEF OnlyImportsInstall, InstallsPayload
  <2>2. CASE \A i \in Importers : ~ImportRename(i)
    BY <2>2, OthersInstallNothing DEF OnlyImportsInstall
  <2> QED BY <2>1, <2>2
<1> QED BY <1>1, <1>2, <1>3, PTL DEF Spec, ImportInstallsPayload
=============================================================================
