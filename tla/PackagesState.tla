--------------------------- MODULE PackagesState ---------------------------
(***************************************************************************)
(* The acid-state component PackagesState of the core feature: the package *)
(* index (every released package with all its .cabal revisions and         *)
(* tarballs) and the package update log, the ordered list of entries from  *)
(* which 01-index.tar is rendered.                                         *)
(*                                                                         *)
(* Every action is one acid-state transaction: acid-state runs them one at *)
(* a time, durably, so nothing here interleaves.  Handlers that issue      *)
(* several of them in a row are modelled in CoreFeature.                   *)
(***************************************************************************)
EXTENDS Naturals, Sequences, FiniteSets, SequencesExt

CONSTANTS PackageId,    \* package name + version
          CabalFile,    \* texts of .cabal files
          Tarball,      \* contents of package tarballs
          UserId,       \* uploaders
          Time,         \* upload times, ordered by <=
          FilePath,     \* names of the extra index entries (preferred-versions)
          MaxLog,       \* bound: length of the update log
          MaxRevisions, \* bound: .cabal revisions per package
          MaxTarballs   \* bound: tarballs per package

ASSUME PackagesAssumption ==
    /\ Time \subseteq Nat
    /\ MaxLog \in Nat
    /\ MaxRevisions \in Nat
    /\ MaxTarballs \in Nat

VARIABLES packageIndex,      \* PackageIndex PkgInfo: a function on the released ids
          packageUpdateLog,  \* the entries, under either constructor
          migrated,          \* TRUE: Right (the log proper); FALSE: Left (old extras)
          ordered,           \* history: packages whose upload times were never out
                             \* of order when a migration sorted the log by them
          deleted            \* history: packages that were deleted

history == <<ordered, deleted>>
vars    == <<packageIndex, packageUpdateLog, migrated, history>>

-----------------------------------------------------------------------------
(* Data.  Revision numbers count from 0, as in the source.                 *)

UploadInfo == [time : Time, uid : UserId]
Revision == [cabal : CabalFile, info : UploadInfo]
TarballRevision == [tarball : Tarball, info : UploadInfo]
PkgInfo == [cabals : Seq(Revision), tarballs : Seq(TarballRevision)]

CabalFileEntry(p, r, info) ==
    [kind |-> "cabal", pkg |-> p, rev |-> r, time |-> info.time, uid |-> info.uid]
MetadataEntry(p, r, t) ==
    [kind |-> "metadata", pkg |-> p, rev |-> r, time |-> t]
ExtraEntry(f, t) ==
    [kind |-> "extra", path |-> f, time |-> t]

CabalFileEntries == [kind : {"cabal"}, pkg : PackageId, rev : Nat, time : Time, uid : UserId]
MetadataEntries  == [kind : {"metadata"}, pkg : PackageId, rev : Nat, time : Time]
ExtraEntries     == [kind : {"extra"}, path : FilePath, time : Time]
TarIndexEntry    == CabalFileEntries \cup MetadataEntries \cup ExtraEntries

Released(p) == p \in DOMAIN packageIndex
Insert(p, pkginfo) ==
    [q \in DOMAIN packageIndex \cup {p} |-> IF q = p THEN pkginfo ELSE packageIndex[q]]

(* fmap over the Either: a log that is still Left ignores what is added.   *)
Log(entries) ==
    /\ Len(packageUpdateLog) + Len(entries) <= MaxLog
    /\ packageUpdateLog' = IF migrated THEN packageUpdateLog \o entries
                                       ELSE packageUpdateLog

mkPackageInfo(cabal, info, tarballs) ==
    [cabals   |-> <<[cabal |-> cabal, info |-> info]>>,
     tarballs |-> [i \in DOMAIN tarballs |-> [tarball |-> tarballs[i], info |-> info]]]

-----------------------------------------------------------------------------
(* Initial state and transactions.                                         *)

(* A store opened with no checkpoint: an empty log if the database is      *)
(* fresh; else no log yet, or the extra entries carried over from          *)
(* PackagesState_v1 (at most one here).                                    *)
Init ==
    /\ packageIndex = << >>
    /\ migrated \in BOOLEAN
    /\ \/ packageUpdateLog = << >>
       \/ /\ ~ migrated
          /\ \E f \in FilePath, t \in Time : packageUpdateLog = <<ExtraEntry(f, t)>>
    /\ ordered = IF migrated THEN PackageId ELSE {}
    /\ deleted = {}

(* foldr snoc over (pkgentry : entries): the additional entries come first *)
(* and the .cabal entry of revision 0 is the last one added.               *)
AddPackage3(p, pkginfo, info, entries) ==
    /\ ~ Released(p)
    /\ packageIndex' = Insert(p, pkginfo)
    /\ Log(Append(Reverse(entries), CabalFileEntry(p, 0, info)))
    /\ UNCHANGED <<migrated, history>>

(* The superseded transactions, met only when an old journal is replayed.  *)
AddPackage2(p, cabal, info, tarballs) ==
    AddPackage3(p, mkPackageInfo(cabal, info, tarballs), info, << >>)

(* The update log is left as it is: see the TODO in the source.            *)
DeletePackage(p) ==
    /\ Released(p)
    /\ packageIndex' = [q \in DOMAIN packageIndex \ {p} |-> packageIndex[q]]
    /\ deleted' = deleted \cup {p}
    /\ UNCHANGED <<packageUpdateLog, migrated, ordered>>

(* Mutant: off by one.                                                     *)
NewRevision_Previous(p) ==
    IF Released(p) THEN Len(packageIndex[p].cabals) - 1 ELSE 0

NewRevision(p) ==
    IF Released(p) THEN Len(packageIndex[p].cabals) ELSE 0

(* A revision of a package that does not exist creates it, with no tarball.*)
AddPackageRevision2(p, cabal, info) ==
    LET old == IF Released(p) THEN packageIndex[p]
                              ELSE [cabals |-> << >>, tarballs |-> << >>]
    IN  /\ Len(old.cabals) < MaxRevisions
        /\ packageIndex' =
              Insert(p, [cabals   |-> Append(old.cabals, [cabal |-> cabal, info |-> info]),
                         tarballs |-> old.tarballs])
        /\ Log(<<CabalFileEntry(p, NewRevision(p), info)>>)
        /\ UNCHANGED <<migrated, history>>

alterPackage(p, pkginfo) ==
    /\ Released(p)
    /\ packageIndex' = Insert(p, pkginfo)
    /\ UNCHANGED <<packageUpdateLog, migrated, history>>

AddPackageTarball(p, tarball, info) ==
    /\ Released(p)
    /\ Len(packageIndex[p].tarballs) < MaxTarballs
    /\ alterPackage(p, [cabals   |-> packageIndex[p].cabals,
                         tarballs |-> Append(packageIndex[p].tarballs,
                                             [tarball |-> tarball, info |-> info])])

SetLatestInfo(p, info) ==
    /\ Released(p)
    /\ LET cs == packageIndex[p].cabals
       IN  alterPackage(p, [cabals   |-> Append(Front(cs), [cabal |-> Last(cs).cabal, info |-> info]),
                            tarballs |-> packageIndex[p].tarballs])

SetPackageUploader(p, uid) ==
    /\ Released(p)
    /\ SetLatestInfo(p, [time |-> Last(packageIndex[p].cabals).info.time, uid |-> uid])

SetPackageUploadTime(p, time) ==
    /\ Released(p)
    /\ SetLatestInfo(p, [time |-> time, uid |-> Last(packageIndex[p].cabals).info.uid])

AddOtherIndexEntry(e) ==
    /\ Log(<<e>>)
    /\ UNCHANGED <<packageIndex, migrated, history>>

-----------------------------------------------------------------------------
(* The one-off migration run at start-up while the log is still Left.      *)

(* Mutants: the tarballs are left out; revisions are numbered from 1.      *)
entriesForPackage_NoTUF(p) ==
    {CabalFileEntry(p, r - 1, packageIndex[p].cabals[r].info) :
        r \in DOMAIN packageIndex[p].cabals}
entriesForPackage_FromOne(p) ==
    {CabalFileEntry(p, r, packageIndex[p].cabals[r].info) :
        r \in DOMAIN packageIndex[p].cabals}

entriesForPackage(p) ==
    {CabalFileEntry(p, r - 1, packageIndex[p].cabals[r].info) :
        r \in DOMAIN packageIndex[p].cabals}
    \cup {MetadataEntry(p, r - 1, packageIndex[p].tarballs[r].info.time) :
        r \in DOMAIN packageIndex[p].tarballs}

(* The order of entries the migration starts from: the old extra entries,  *)
(* then package by package its cabal revisions followed by its tarballs.   *)
(* The order of the packages is left open.                                 *)
ListedBefore(e1, e2) ==
    \/ e1.kind = "extra" /\ e2.kind # "extra"
    \/ /\ e1.kind # "extra" /\ e2.kind # "extra" /\ e1.pkg = e2.pkg
       /\ \/ e1.kind = "cabal" /\ e2.kind = "metadata"
          \/ e1.kind = e2.kind /\ e1.rev < e2.rev

(* Mutant: a sort that is not stable.                                      *)
IsInitialUpdateLog_Unstable(s) ==
    \A i, j \in DOMAIN s : i < j => s[i].time <= s[j].time

(* s is a result initialUpdateLog can have: all entries once, stably       *)
(* sorted by timestamp.                                                    *)
IsInitialUpdateLog(s) ==
    \A i, j \in DOMAIN s : i < j =>
        /\ s[i].time <= s[j].time
        /\ s[i].time = s[j].time => ~ ListedBefore(s[j], s[i])

TimesInOrder(cs) ==
    \A r, q \in DOMAIN cs : r < q => cs[r].info.time <= cs[q].info.time

MigrateAddUpdateLog ==
    LET entries == Range(packageUpdateLog)
                     \cup UNION {entriesForPackage(p) : p \in DOMAIN packageIndex}
    IN  /\ ~ migrated
        /\ \E n \in 0 .. MaxLog : \E s \in [1 .. n -> entries] :
              /\ IsInjective(s) /\ Range(s) = entries
              /\ IsInitialUpdateLog(s)
              /\ packageUpdateLog' = s
        /\ migrated' = TRUE
        /\ ordered' = {p \in PackageId : Released(p) => TimesInOrder(packageIndex[p].cabals)}
        /\ UNCHANGED <<packageIndex, deleted>>

-----------------------------------------------------------------------------
(* What the security feature's preIndexUpdateHook contributes to an added  *)
(* package: the TUF entry of its latest tarball, if it has one.            *)
indexEntriesFor(p, pkginfo) ==
    IF pkginfo.tarballs = << >>
    THEN << >>
    ELSE <<MetadataEntry(p, Len(pkginfo.tarballs) - 1, Last(pkginfo.tarballs).info.time)>>

OptionalTarball == {<< >>} \cup {<<t>> : t \in Tarball}

Add(p) ==
    \E c \in CabalFile, info \in UploadInfo, ts \in OptionalTarball :
        LET pkginfo == mkPackageInfo(c, info, ts)
        IN  AddPackage3(p, pkginfo, info, indexEntriesFor(p, pkginfo))
AddOld(p) ==
    /\ ~ migrated
    /\ \E c \in CabalFile, info \in UploadInfo, ts \in OptionalTarball :
          AddPackage2(p, c, info, ts)
AddRevision(p) ==
    \E c \in CabalFile, info \in UploadInfo : AddPackageRevision2(p, c, info)
AddTarball(p) ==
    \E t \in Tarball, info \in UploadInfo : AddPackageTarball(p, t, info)
SetUploader(p) ==
    \E u \in UserId : SetPackageUploader(p, u)
SetUploadTime(p) ==
    \E t \in Time : SetPackageUploadTime(p, t)
AddTarballEntry(p) ==
    /\ Released(p)
    /\ \E r \in DOMAIN packageIndex[p].tarballs :
          AddOtherIndexEntry(MetadataEntry(p, r - 1, packageIndex[p].tarballs[r].info.time))
AddExtra ==
    \E f \in FilePath, t \in Time : AddOtherIndexEntry(ExtraEntry(f, t))

Next ==
    \/ \E p \in PackageId :
          \/ Add(p)
          \/ AddOld(p)
          \/ DeletePackage(p)
          \/ AddRevision(p)
          \/ AddTarball(p)
          \/ SetUploader(p)
          \/ SetUploadTime(p)
          \/ AddTarballEntry(p)
    \/ AddExtra
    \/ MigrateAddUpdateLog

Spec == Init /\ [][Next]_vars

-----------------------------------------------------------------------------
(* Rendering the log (Packages/Index.hs).                                  *)

(* The package and revision an entry points to are in the index.           *)
Resolves(e) ==
    \/ e.kind = "extra"
    \/ e.kind = "cabal"    /\ Released(e.pkg) /\ e.rev < Len(packageIndex[e.pkg].cabals)
    \/ e.kind = "metadata" /\ Released(e.pkg) /\ e.rev < Len(packageIndex[e.pkg].tarballs)

Nothing == [content |-> "none"]

(* Mutant: owner and time are taken from the index, not from the log.      *)
mkTarEntry_CurrentOwner(e) ==
    IF e.kind = "cabal" /\ Resolves(e)
    THEN [content |-> packageIndex[e.pkg].cabals[e.rev + 1].cabal,
          entry |-> CabalFileEntry(e.pkg, e.rev, packageIndex[e.pkg].cabals[e.rev + 1].info)]
    ELSE Nothing

(* One tar entry of 01-index.tar: the update log gives name, time and      *)
(* owner, the CURRENT index gives the content.                             *)
mkTarEntry(e) ==
    IF ~ Resolves(e) THEN Nothing
    ELSE CASE e.kind = "cabal" ->
                [content |-> packageIndex[e.pkg].cabals[e.rev + 1].cabal, entry |-> e]
           [] e.kind = "metadata" ->
                [content |-> packageIndex[e.pkg].tarballs[e.rev + 1].tarball, entry |-> e]
           [] OTHER -> [content |-> "extra", entry |-> e]

(* Position by position, before mapMaybe drops the Nothings.               *)
writeIncremental == [i \in DOMAIN packageUpdateLog |-> mkTarEntry(packageUpdateLog[i])]

(* 00-index.tar: the latest .cabal file of each released package.          *)
writeLegacy == [p \in DOMAIN packageIndex |-> Last(packageIndex[p].cabals).cabal]

(* What a client finds for p in 01-index.tar, where a later entry of a tar *)
(* file replaces an earlier one of the same name.                          *)
CabalEntriesOf(p) ==
    {i \in DOMAIN packageUpdateLog : packageUpdateLog[i].kind = "cabal"
                                     /\ packageUpdateLog[i].pkg = p}
ClientCabal(p) ==
    LET shown == {i \in CabalEntriesOf(p) : Resolves(packageUpdateLog[i])}
    IN  IF shown = {} THEN "none" ELSE mkTarEntry(packageUpdateLog[Max(shown)]).content

-----------------------------------------------------------------------------
(* Properties.                                                             *)

(* Types; every released package has at least one .cabal revision.         *)
TypeOK ==
    /\ DOMAIN packageIndex \subseteq PackageId
    /\ packageIndex \in [DOMAIN packageIndex -> PkgInfo]
    /\ \A p \in DOMAIN packageIndex : packageIndex[p].cabals # << >>
    /\ packageUpdateLog \in Seq(TarIndexEntry)
    /\ migrated \in BOOLEAN
    /\ ordered \subseteq PackageId /\ deleted \subseteq PackageId

(* Packages/Index.hs, "This should never return Nothing": each log entry   *)
(* of a package that was never deleted points to a revision or a tarball   *)
(* that is in the index.  For a MetadataEntry of a tarball that is not     *)
(* there computePkgMetadata fails and no index at all can be built.        *)
EntriesResolve ==
    \A i \in DOMAIN packageUpdateLog :
        LET e == packageUpdateLog[i]
        IN  (e.kind # "extra" => e.pkg \notin deleted) => Resolves(e)

(* No revision is lost between index and log: the last entries of a        *)
(* released package in the log are its revisions 0, 1, 2, ... in order,    *)
(* whatever was deleted and released again before, and through a migration *)
(* unless an upload time had been set back before it.                      *)
RevisionsLogged ==
    \A p \in ordered \cap DOMAIN packageIndex :
        LET revs == DOMAIN packageIndex[p].cabals
        IN  \E at \in [revs -> CabalEntriesOf(p)] :
               /\ \A r \in revs : packageUpdateLog[at[r]].rev = r - 1
               /\ \A r, q \in revs : r < q => at[r] < at[q]
               /\ \A i \in CabalEntriesOf(p) : i >= at[1] => \E r \in revs : i = at[r]

(* The two index formats agree: reading 01-index.tar to its end gives the  *)
(* same released packages and the same .cabal texts as 00-index.tar, which *)
(* never looks at the log's cabal entries; a migration that finds upload   *)
(* times that were set back may choose an older text.                      *)
IndexFormatsAgree ==
    /\ \A p \in ordered \cap DOMAIN packageIndex : ClientCabal(p) = writeLegacy[p]
    /\ \A i \in DOMAIN packageUpdateLog :
          writeIncremental[i] # Nothing /\ packageUpdateLog[i].kind = "cabal"
             => packageUpdateLog[i].pkg \in DOMAIN writeLegacy

(* "We made the index append-only": what clients have already fetched of   *)
(* 01-index.tar stays a prefix of what is served, whoever changes          *)
(* uploaders, upload times, tarballs or revisions, until a package is      *)
(* deleted.                                                                *)
IndexAppendOnly ==
    [][migrated /\ deleted' = {} => IsPrefix(writeIncremental, writeIncremental')]_vars

(* A release is never overwritten: while a package stays in the index, its *)
(* .cabal texts and tarballs only get longer.                              *)
ReleasesImmutable ==
    [][\A p \in DOMAIN packageIndex \cap DOMAIN packageIndex' :
          LET texts(info) == [r \in DOMAIN info.cabals |-> info.cabals[r].cabal]
          IN  /\ IsPrefix(texts(packageIndex[p]), texts(packageIndex'[p]))
              /\ IsPrefix(packageIndex[p].tarballs, packageIndex'[p].tarballs)]_vars

(* The migration loses nothing: once the log is Right, each revision and   *)
(* each tarball the old database held has an entry, and so has each extra. *)
MigrationIsComplete ==
    [][~ migrated /\ migrated' =>
         LET logged == Range(packageUpdateLog')
         IN  /\ Range(packageUpdateLog) \subseteq logged
             /\ \A p \in DOMAIN packageIndex :
                   /\ \A r \in DOMAIN packageIndex[p].cabals :
                         \E e \in logged : e.kind = "cabal" /\ e.pkg = p /\ e.rev = r - 1
                   /\ \A r \in DOMAIN packageIndex[p].tarballs :
                         \E e \in logged : e.kind = "metadata" /\ e.pkg = p /\ e.rev = r - 1]_vars
=============================================================================
