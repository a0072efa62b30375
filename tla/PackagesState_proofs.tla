------------------------ MODULE PackagesState_proofs ------------------------
(***************************************************************************)
(* Theorems about the package index and its update log, for any number of  *)
(* packages, revisions, tarballs and log entries.                          *)
(***************************************************************************)
EXTENDS PackagesState, TLAPS

USE DEF Released, history

(* A package database: the first three conjuncts of TypeOK. *)
IndexOK(ix) ==
    /\ DOMAIN ix \subseteq PackageId
    /\ ix \in [DOMAIN ix -> PkgInfo]
    /\ \A p \in DOMAIN ix : ix[p].cabals # << >>

-----------------------------------------------------------------------------
(* Type correctness.                                                       *)

LEMMA InsertOK ==
    ASSUME IndexOK(packageIndex), NEW p \in PackageId,
           NEW pkginfo \in PkgInfo, pkginfo.cabals # << >>
    PROVE  IndexOK(Insert(p, pkginfo))
BY DEF IndexOK, Insert

LEMMA LogOK ==
    ASSUME packageUpdateLog \in Seq(TarIndexEntry), migrated \in BOOLEAN,
           NEW entries \in Seq(TarIndexEntry), Log(entries)
    PROVE  packageUpdateLog' \in Seq(TarIndexEntry)
BY DEF Log

LEMMA EntriesTyped ==
    ASSUME NEW p \in PackageId, NEW r \in Nat, NEW info \in UploadInfo
    PROVE  /\ CabalFileEntry(p, r, info) \in TarIndexEntry
           /\ MetadataEntry(p, r, info.time) \in TarIndexEntry
BY DEF CabalFileEntry, MetadataEntry, TarIndexEntry, CabalFileEntries, MetadataEntries,
       UploadInfo

(* What TypeOK says of one released package.                               *)
LEMMA PackageTyped ==
    ASSUME TypeOK, NEW p \in DOMAIN packageIndex
    PROVE  /\ p \in PackageId
           /\ packageIndex[p] \in PkgInfo
           /\ packageIndex[p].cabals \in Seq(Revision)
           /\ packageIndex[p].cabals # << >>
           /\ packageIndex[p].tarballs \in Seq(TarballRevision)
           /\ \A r \in DOMAIN packageIndex[p].cabals :
                 /\ r - 1 \in Nat
                 /\ packageIndex[p].cabals[r].cabal \in CabalFile
                 /\ packageIndex[p].cabals[r].info \in UploadInfo
           /\ \A r \in DOMAIN packageIndex[p].tarballs :
                 /\ r - 1 \in Nat
                 /\ packageIndex[p].tarballs[r].info \in UploadInfo
           /\ Last(packageIndex[p].cabals) \in Revision
           /\ Front(packageIndex[p].cabals) \in Seq(Revision)
<1> DEFINE cs == packageIndex[p].cabals
           ts == packageIndex[p].tarballs
<1>1. p \in PackageId /\ packageIndex[p] \in PkgInfo /\ cs # << >>
  BY DEF TypeOK
<1>2. cs \in Seq(Revision) /\ ts \in Seq(TarballRevision)
  BY <1>1 DEF PkgInfo
<1>3. \A r \in DOMAIN cs : r - 1 \in Nat /\ cs[r] \in Revision
  BY <1>2
<1>4. \A r \in DOMAIN ts : r - 1 \in Nat /\ ts[r] \in TarballRevision
  BY <1>2
<1>5. Last(cs) \in Revision
  BY <1>1, <1>2 DEF Last
<1>6. Front(cs) \in Seq(Revision)
  BY <1>1, <1>2 DEF Front
<1> QED
  BY <1>1, <1>2, <1>3, <1>4, <1>5, <1>6 DEF Revision, TarballRevision

(* mkPackageInfo builds a package with one revision and at most one        *)
(* tarball; the additional entries are zero or one entry of the log.       *)
LEMMA NewPackageOK ==
    ASSUME NEW p \in PackageId, NEW c \in CabalFile, NEW info \in UploadInfo,
           NEW ts \in OptionalTarball
    PROVE  /\ mkPackageInfo(c, info, ts) \in PkgInfo
           /\ mkPackageInfo(c, info, ts).cabals # << >>
           /\ Len(mkPackageInfo(c, info, ts).cabals) = 1
           /\ indexEntriesFor(p, mkPackageInfo(c, info, ts)) \in Seq(TarIndexEntry)
           /\ ts = << >> => indexEntriesFor(p, mkPackageInfo(c, info, ts)) = << >>
           /\ ts # << >> => /\ Len(mkPackageInfo(c, info, ts).tarballs) = 1
                            /\ indexEntriesFor(p, mkPackageInfo(c, info, ts))
                                  = <<MetadataEntry(p, 0, info.time)>>
<1> DEFINE P == mkPackageInfo(c, info, ts)
<1>1. P.cabals = <<[cabal |-> c, info |-> info]>>
  BY DEF mkPackageInfo
<1>2. P.cabals \in Seq(Revision) /\ P.cabals # << >> /\ Len(P.cabals) = 1
  BY <1>1 DEF Revision
<1>3. CASE ts = << >>
  <2>1. P.tarballs = << >>
    BY <1>3 DEF mkPackageInfo
  <2>2. P \in PkgInfo
    BY <1>2, <2>1 DEF mkPackageInfo, PkgInfo
  <2> QED
    BY <1>2, <1>3, <2>1, <2>2 DEF indexEntriesFor
<1>4. CASE ts # << >>
  <2>1. PICK t \in Tarball : ts = <<t>>
    BY <1>4 DEF OptionalTarball
  <2>2. P.tarballs = <<[tarball |-> t, info |-> info]>>
    BY <2>1 DEF mkPackageInfo
  <2>3. P \in PkgInfo
    BY <1>2, <2>2 DEF mkPackageInfo, PkgInfo, TarballRevision
  <2>4. indexEntriesFor(p, P) = <<MetadataEntry(p, 0, info.time)>>
    BY <2>2 DEF indexEntriesFor, Last
  <2>5. MetadataEntry(p, 0, info.time) \in TarIndexEntry
    BY EntriesTyped
  <2> QED
    BY <1>2, <1>4, <2>2, <2>3, <2>4, <2>5
<1> QED
  BY <1>3, <1>4

LEMMA AddPackage3OK ==
    ASSUME TypeOK, NEW p \in PackageId, NEW pkginfo \in PkgInfo, pkginfo.cabals # << >>,
           NEW info \in UploadInfo, NEW entries \in Seq(TarIndexEntry),
           AddPackage3(p, pkginfo, info, entries)
    PROVE  TypeOK'
<1>1. IndexOK(packageIndex)'
  BY InsertOK DEF AddPackage3, TypeOK, IndexOK
<1>2. Append(Reverse(entries), CabalFileEntry(p, 0, info)) \in Seq(TarIndexEntry)
  <2>1. Reverse(entries) \in Seq(TarIndexEntry)
    BY DEF Reverse
  <2>2. CabalFileEntry(p, 0, info) \in TarIndexEntry
    BY EntriesTyped
  <2>3. \A s \in Seq(TarIndexEntry), e \in TarIndexEntry : Append(s, e) \in Seq(TarIndexEntry)
    OBVIOUS
  <2> QED
    BY <2>1, <2>2, <2>3
<1>3. packageUpdateLog' \in Seq(TarIndexEntry)
  BY <1>2, LogOK DEF AddPackage3, TypeOK
<1> QED
  BY <1>1, <1>3 DEF TypeOK, IndexOK, AddPackage3

LEMMA AddPackageRevision2OK ==
    ASSUME TypeOK, NEW p \in PackageId, NEW c \in CabalFile, NEW info \in UploadInfo,
           AddPackageRevision2(p, c, info)
    PROVE  TypeOK'
<1> DEFINE old == IF Released(p) THEN packageIndex[p]
                                 ELSE [cabals |-> << >>, tarballs |-> << >>]
           new == [cabals   |-> Append(old.cabals, [cabal |-> c, info |-> info]),
                   tarballs |-> old.tarballs]
<1>1. old.cabals \in Seq(Revision) /\ old.tarballs \in Seq(TarballRevision)
  <2>1. CASE Released(p)
    BY <2>1, PackageTyped
  <2>2. CASE ~ Released(p)
    BY <2>2
  <2> QED
    BY <2>1, <2>2
<1>2. new \in PkgInfo /\ new.cabals # << >>
  <2>1. [cabal |-> c, info |-> info] \in Revision
    BY DEF Revision
  <2>2. /\ Append(old.cabals, [cabal |-> c, info |-> info]) \in Seq(Revision)
        /\ Append(old.cabals, [cabal |-> c, info |-> info]) # << >>
    BY <1>1, <2>1
  <2> HIDE DEF old
  <2> QED
    BY <1>1, <2>2 DEF PkgInfo
<1>3. IndexOK(packageIndex)'
  BY <1>2, InsertOK DEF AddPackageRevision2, TypeOK, IndexOK
<1>4. NewRevision(p) \in Nat
  BY PackageTyped DEF NewRevision
<1>5. <<CabalFileEntry(p, NewRevision(p), info)>> \in Seq(TarIndexEntry)
  <2>1. CabalFileEntry(p, NewRevision(p), info) \in TarIndexEntry
    BY <1>4, EntriesTyped
  <2> QED
    BY <2>1
<1>6. packageUpdateLog' \in Seq(TarIndexEntry)
  BY <1>5, LogOK DEF AddPackageRevision2, TypeOK
<1> QED
  BY <1>3, <1>6 DEF TypeOK, IndexOK, AddPackageRevision2

LEMMA alterPackageOK ==
    ASSUME TypeOK, NEW p \in PackageId, NEW pkginfo \in PkgInfo, pkginfo.cabals # << >>,
           alterPackage(p, pkginfo)
    PROVE  TypeOK'
BY InsertOK DEF alterPackage, TypeOK, IndexOK

LEMMA AddPackageTarballOK ==
    ASSUME TypeOK, NEW p \in PackageId, NEW t \in Tarball, NEW info \in UploadInfo,
           AddPackageTarball(p, t, info)
    PROVE  TypeOK'
<1> DEFINE new == [cabals   |-> packageIndex[p].cabals,
                   tarballs |-> Append(packageIndex[p].tarballs, [tarball |-> t, info |-> info])]
<1>1. p \in DOMAIN packageIndex
  BY DEF AddPackageTarball
<1>2. new \in PkgInfo /\ new.cabals # << >>
  <2>1. [tarball |-> t, info |-> info] \in TarballRevision
    BY DEF TarballRevision
  <2>2. new.tarballs \in Seq(TarballRevision)
    BY <1>1, <2>1, PackageTyped
  <2> QED
    BY <1>1, <2>2, PackageTyped DEF PkgInfo
<1> QED
  BY <1>2, alterPackageOK DEF AddPackageTarball

LEMMA SetLatestInfoOK ==
    ASSUME TypeOK, NEW p \in PackageId, NEW info \in UploadInfo, SetLatestInfo(p, info)
    PROVE  TypeOK'
<1> DEFINE cs  == packageIndex[p].cabals
           new == [cabals   |-> Append(Front(cs), [cabal |-> Last(cs).cabal, info |-> info]),
                   tarballs |-> packageIndex[p].tarballs]
<1>1. p \in DOMAIN packageIndex
  BY DEF SetLatestInfo
<1>2. [cabal |-> Last(cs).cabal, info |-> info] \in Revision
  BY <1>1, PackageTyped DEF Revision
<1>3. new \in PkgInfo /\ new.cabals # << >>
  <2>1. new.cabals \in Seq(Revision) /\ new.cabals # << >>
    BY <1>1, <1>2, PackageTyped
  <2> QED
    BY <1>1, <2>1, PackageTyped DEF PkgInfo
<1> QED
  BY <1>3, alterPackageOK DEF SetLatestInfo

LEMMA AddOtherIndexEntryOK ==
    ASSUME TypeOK, NEW e \in TarIndexEntry, AddOtherIndexEntry(e)
    PROVE  TypeOK'
<1>1. <<e>> \in Seq(TarIndexEntry)
  OBVIOUS
<1>2. packageUpdateLog' \in Seq(TarIndexEntry)
  BY <1>1, LogOK DEF AddOtherIndexEntry, TypeOK
<1> QED
  BY <1>2 DEF AddOtherIndexEntry, TypeOK

LEMMA MigrateOK ==
    ASSUME TypeOK, MigrateAddUpdateLog
    PROVE  TypeOK'
<1> DEFINE entries == Range(packageUpdateLog)
                        \cup UNION {entriesForPackage(p) : p \in DOMAIN packageIndex}
<1>1. Range(packageUpdateLog) \subseteq TarIndexEntry
  BY DEF TypeOK, Range
<1>2. ASSUME NEW p \in DOMAIN packageIndex
      PROVE  entriesForPackage(p) \subseteq TarIndexEntry
  <2>2. ASSUME NEW r \in DOMAIN packageIndex[p].cabals
        PROVE  CabalFileEntry(p, r - 1, packageIndex[p].cabals[r].info) \in TarIndexEntry
    BY PackageTyped, EntriesTyped
  <2>3. ASSUME NEW r \in DOMAIN packageIndex[p].tarballs
        PROVE  MetadataEntry(p, r - 1, packageIndex[p].tarballs[r].info.time) \in TarIndexEntry
    BY PackageTyped, EntriesTyped
  <2> QED
    BY <2>2, <2>3 DEF entriesForPackage
<1>3. entries \subseteq TarIndexEntry
  BY <1>1, <1>2
<1>4. packageUpdateLog' \in Seq(TarIndexEntry)
  <2>1. PICK n \in 0 .. MaxLog : \E s \in [1 .. n -> entries] : packageUpdateLog' = s
    BY DEF MigrateAddUpdateLog
  <2>2. n \in Nat
    BY PackagesAssumption
  <2> QED
    BY <1>3, <2>1, <2>2
<1> QED
  BY <1>4 DEF TypeOK, MigrateAddUpdateLog

LEMMA TypeOKInit == Init => TypeOK
<1> SUFFICES ASSUME Init PROVE TypeOK
  OBVIOUS
<1>1. ASSUME NEW f \in FilePath, NEW t \in Time
      PROVE  <<ExtraEntry(f, t)>> \in Seq(TarIndexEntry)
  <2>1. ExtraEntry(f, t) \in TarIndexEntry
    BY DEF ExtraEntry, TarIndexEntry, ExtraEntries
  <2> QED
    BY <2>1
<1>2. packageUpdateLog \in Seq(TarIndexEntry)
  <2>1. CASE packageUpdateLog = << >>
    BY <2>1
  <2>2. CASE packageUpdateLog # << >>
    <3>1. PICK f \in FilePath, t \in Time : packageUpdateLog = <<ExtraEntry(f, t)>>
      BY <2>2 DEF Init
    <3> QED
      BY <1>1, <3>1
  <2> QED
    BY <2>1, <2>2
<1>3. packageIndex = << >> /\ DOMAIN packageIndex = {}
  BY DEF Init
<1> QED
  BY <1>2, <1>3, PackagesAssumption DEF Init, TypeOK

LEMMA TypeOKNext ==
    ASSUME TypeOK, [Next]_vars
    PROVE  TypeOK'
<1>1. ASSUME NEW p \in PackageId, Add(p)
      PROVE  TypeOK'
  BY <1>1, AddPackage3OK, NewPackageOK DEF Add
<1>2. ASSUME NEW p \in PackageId, AddOld(p)
      PROVE  TypeOK'
  <2>1. << >> \in Seq(TarIndexEntry)
    OBVIOUS
  <2> QED
    BY <1>2, <2>1, AddPackage3OK, NewPackageOK DEF AddOld, AddPackage2
<1>3. ASSUME NEW p \in PackageId, DeletePackage(p)
      PROVE  TypeOK'
  BY <1>3 DEF DeletePackage, TypeOK
<1>4. ASSUME NEW p \in PackageId, AddRevision(p)
      PROVE  TypeOK'
  BY <1>4, AddPackageRevision2OK DEF AddRevision
<1>5. ASSUME NEW p \in PackageId, AddTarball(p)
      PROVE  TypeOK'
  BY <1>5, AddPackageTarballOK DEF AddTarball
<1>6. ASSUME NEW p \in PackageId, SetUploader(p)
      PROVE  TypeOK'
  BY <1>6, SetLatestInfoOK, PackageTyped
  DEF SetUploader, SetPackageUploader, UploadInfo, Revision
<1>7. ASSUME NEW p \in PackageId, SetUploadTime(p)
      PROVE  TypeOK'
  BY <1>7, SetLatestInfoOK, PackageTyped
  DEF SetUploadTime, SetPackageUploadTime, UploadInfo, Revision
<1>8. ASSUME NEW p \in PackageId, AddTarballEntry(p)
      PROVE  TypeOK'
  <2>1. PICK r \in DOMAIN packageIndex[p].tarballs :
           AddOtherIndexEntry(MetadataEntry(p, r - 1, packageIndex[p].tarballs[r].info.time))
    BY <1>8 DEF AddTarballEntry
  <2>2. MetadataEntry(p, r - 1, packageIndex[p].tarballs[r].info.time) \in TarIndexEntry
    BY <1>8, PackageTyped, EntriesTyped DEF AddTarballEntry
  <2> QED
    BY <2>1, <2>2, AddOtherIndexEntryOK
<1>9. CASE AddExtra
  <2>1. PICK f \in FilePath, t \in Time : AddOtherIndexEntry(ExtraEntry(f, t))
    BY <1>9 DEF AddExtra
  <2>2. ExtraEntry(f, t) \in TarIndexEntry
    BY DEF ExtraEntry, TarIndexEntry, ExtraEntries
  <2> QED
    BY <2>1, <2>2, AddOtherIndexEntryOK
<1>10. CASE UNCHANGED vars
  BY <1>10 DEF vars, TypeOK
<1> QED
  BY <1>1, <1>2, <1>3, <1>4, <1>5, <1>6, <1>7, <1>8, <1>9, <1>10, MigrateOK DEF Next

(* The database and the log stay well formed, and no released package is   *)
(* ever left without a .cabal revision.                                    *)
THEOREM TypeCorrect == Spec => []TypeOK
BY TypeOKInit, TypeOKNext, PTL DEF Spec

-----------------------------------------------------------------------------
(* The log entries of packages never deleted resolve.  The invariant       *)
(* needs no strengthening beyond types: what makes it inductive is that a  *)
(* transaction never shortens the revisions or tarballs of a package.      *)

Grows ==
    \A p \in DOMAIN packageIndex :
        /\ p \in DOMAIN packageIndex'
        /\ Len(packageIndex[p].cabals) <= Len(packageIndex'[p].cabals)
        /\ \A r \in DOMAIN packageIndex[p].cabals :
              packageIndex'[p].cabals[r].cabal = packageIndex[p].cabals[r].cabal
        /\ Len(packageIndex[p].tarballs) <= Len(packageIndex'[p].tarballs)
        /\ \A r \in DOMAIN packageIndex[p].tarballs :
              packageIndex'[p].tarballs[r] = packageIndex[p].tarballs[r]

(* The entries of the next log that are not in this one.                   *)
NewEntriesResolve ==
    \A i \in DOMAIN packageUpdateLog' :
        \/ packageUpdateLog'[i] \in Range(packageUpdateLog)
        \/ Resolves(packageUpdateLog[i])'

LEMMA CabalResolves ==
    ASSUME NEW CONSTANT p, NEW CONSTANT r, NEW CONSTANT info,
           p \in DOMAIN packageIndex', r < Len(packageIndex'[p].cabals)
    PROVE  Resolves(CabalFileEntry(p, r, info))'
<1>1. /\ CabalFileEntry(p, r, info).kind = "cabal"
      /\ CabalFileEntry(p, r, info).pkg = p
      /\ CabalFileEntry(p, r, info).rev = r
  BY DEF CabalFileEntry
<1> QED
  BY <1>1 DEF Resolves, CabalFileEntry

LEMMA MetadataResolves ==
    ASSUME NEW CONSTANT p, NEW CONSTANT r, NEW CONSTANT t,
           p \in DOMAIN packageIndex', r < Len(packageIndex'[p].tarballs)
    PROVE  Resolves(MetadataEntry(p, r, t))'
<1>1. /\ MetadataEntry(p, r, t).kind = "metadata"
      /\ MetadataEntry(p, r, t).pkg = p
      /\ MetadataEntry(p, r, t).rev = r
  BY DEF MetadataEntry
<1> QED
  BY <1>1 DEF Resolves, MetadataEntry

LEMMA ResolvesKept ==
    ASSUME TypeOK, TypeOK', Grows, NEW e \in TarIndexEntry, Resolves(e)
    PROVE  Resolves(e)'
<1>1. CASE e.kind = "extra"
  BY <1>1 DEF Resolves
<1>2. CASE e.kind = "cabal"
  <2>1. e.pkg \in DOMAIN packageIndex /\ e.rev < Len(packageIndex[e.pkg].cabals)
    BY <1>2 DEF Resolves
  <2>2. e.rev \in Nat
    BY <1>2 DEF TarIndexEntry, CabalFileEntries, MetadataEntries, ExtraEntries
  <2>3. Len(packageIndex[e.pkg].cabals) \in Nat /\ Len(packageIndex'[e.pkg].cabals) \in Nat
    BY <2>1, PackageTyped DEF Grows, TypeOK, PkgInfo
  <2> QED
    BY <1>2, <2>1, <2>2, <2>3 DEF Resolves, Grows
<1>3. CASE e.kind = "metadata"
  <2>1. e.pkg \in DOMAIN packageIndex /\ e.rev < Len(packageIndex[e.pkg].tarballs)
    BY <1>3 DEF Resolves
  <2>2. e.rev \in Nat
    BY <1>3 DEF TarIndexEntry, CabalFileEntries, MetadataEntries, ExtraEntries
  <2>3. Len(packageIndex[e.pkg].tarballs) \in Nat /\ Len(packageIndex'[e.pkg].tarballs) \in Nat
    BY <2>1, PackageTyped DEF Grows, TypeOK, PkgInfo
  <2> QED
    BY <1>3, <2>1, <2>2, <2>3 DEF Resolves, Grows
<1> QED
  BY <1>1, <1>2, <1>3 DEF TarIndexEntry, CabalFileEntries, MetadataEntries, ExtraEntries

LEMMA EntriesResolveStep ==
    ASSUME TypeOK, TypeOK', EntriesResolve, Grows, NewEntriesResolve, deleted' = deleted
    PROVE  EntriesResolve'
<1> SUFFICES ASSUME NEW i \in DOMAIN packageUpdateLog',
                    packageUpdateLog'[i].kind # "extra" => packageUpdateLog'[i].pkg \notin deleted
             PROVE  Resolves(packageUpdateLog[i])'
  BY DEF EntriesResolve
<1>1. CASE packageUpdateLog'[i] \in Range(packageUpdateLog)
  <2>1. PICK j \in DOMAIN packageUpdateLog : packageUpdateLog'[i] = packageUpdateLog[j]
    BY <1>1 DEF Range
  <2>2. packageUpdateLog[j] \in TarIndexEntry /\ Resolves(packageUpdateLog[j])
    BY <2>1 DEF TypeOK, EntriesResolve
  <2> QED
    BY <2>1, <2>2, ResolvesKept
<1> QED
  BY <1>1 DEF NewEntriesResolve

(* What was logged is kept, in place.                                      *)
LogKept ==
    migrated => /\ Len(packageUpdateLog) <= Len(packageUpdateLog')
                /\ \A i \in DOMAIN packageUpdateLog :
                      packageUpdateLog'[i] = packageUpdateLog[i]

LEMMA LogExtends ==
    ASSUME packageUpdateLog \in Seq(TarIndexEntry), NEW entries \in Seq(TarIndexEntry),
           Log(entries)
    PROVE  /\ LogKept
           /\ \A i \in DOMAIN packageUpdateLog' :
                 \/ packageUpdateLog'[i] \in Range(packageUpdateLog)
                 \/ \E k \in DOMAIN entries : packageUpdateLog'[i] = entries[k]
<1>1. CASE packageUpdateLog' = packageUpdateLog
  BY <1>1 DEF LogKept, Range
<1>2. CASE packageUpdateLog' = packageUpdateLog \o entries
  <2>1. ASSUME NEW i \in DOMAIN packageUpdateLog', i > Len(packageUpdateLog)
        PROVE  /\ i - Len(packageUpdateLog) \in DOMAIN entries
               /\ packageUpdateLog'[i] = entries[i - Len(packageUpdateLog)]
    BY <1>2, <2>1
  <2>2. ASSUME NEW i \in DOMAIN packageUpdateLog', i <= Len(packageUpdateLog)
        PROVE  i \in DOMAIN packageUpdateLog /\ packageUpdateLog'[i] = packageUpdateLog[i]
    BY <1>2, <2>2
  <2>3. LogKept
    BY <1>2 DEF LogKept
  <2>4. \A i \in DOMAIN packageUpdateLog' : i > Len(packageUpdateLog) \/ i <= Len(packageUpdateLog)
    BY <1>2
  <2> QED
    BY <2>1, <2>2, <2>3, <2>4 DEF Range
<1> QED
  BY <1>1, <1>2 DEF Log

(* Inserting a package that is new, or that has at least what it had.      *)
LEMMA InsertGrows ==
    ASSUME TypeOK, NEW p, NEW pkginfo, packageIndex' = Insert(p, pkginfo),
           Released(p) =>
              LET old == packageIndex[p]
              IN  /\ Len(old.cabals) <= Len(pkginfo.cabals)
                  /\ \A r \in DOMAIN old.cabals : pkginfo.cabals[r].cabal = old.cabals[r].cabal
                  /\ Len(old.tarballs) <= Len(pkginfo.tarballs)
                  /\ \A r \in DOMAIN old.tarballs : pkginfo.tarballs[r] = old.tarballs[r]
    PROVE  Grows
<1> SUFFICES ASSUME NEW q \in DOMAIN packageIndex
             PROVE  /\ q \in DOMAIN packageIndex'
                    /\ Len(packageIndex[q].cabals) <= Len(packageIndex'[q].cabals)
                    /\ \A r \in DOMAIN packageIndex[q].cabals :
                          packageIndex'[q].cabals[r].cabal = packageIndex[q].cabals[r].cabal
                    /\ Len(packageIndex[q].tarballs) <= Len(packageIndex'[q].tarballs)
                    /\ \A r \in DOMAIN packageIndex[q].tarballs :
                          packageIndex'[q].tarballs[r] = packageIndex[q].tarballs[r]
  BY DEF Grows
<1>1. q \in DOMAIN packageIndex'
  BY DEF Insert
<1>2. CASE q = p
  BY <1>1, <1>2 DEF Insert
<1>3. CASE q # p
  <2>1. packageIndex'[q] = packageIndex[q]
    BY <1>1, <1>3 DEF Insert
  <2>2. Len(packageIndex[q].cabals) \in Nat /\ Len(packageIndex[q].tarballs) \in Nat
    BY PackageTyped
  <2> QED
    BY <1>1, <2>1, <2>2
<1> QED
  BY <1>2, <1>3

(* The step invariant of a transaction.                                    *)
Preserves == Grows /\ LogKept /\ NewEntriesResolve

LEMMA AddPackage3Preserves ==
    ASSUME TypeOK, NEW p \in PackageId, NEW c \in CabalFile, NEW info \in UploadInfo,
           NEW ts \in OptionalTarball, NEW entries,
           entries = << >> \/ entries = indexEntriesFor(p, mkPackageInfo(c, info, ts)),
           AddPackage3(p, mkPackageInfo(c, info, ts), info, entries)
    PROVE  Preserves
<1> DEFINE P == mkPackageInfo(c, info, ts)
           logged == Append(Reverse(entries), CabalFileEntry(p, 0, info))
<1> HIDE DEF P
<1>1. Grows
  BY InsertGrows DEF AddPackage3, P
<1>2. packageIndex'[p] = P /\ p \in DOMAIN packageIndex'
  BY DEF AddPackage3, Insert, P
<1>3. CabalFileEntry(p, 0, info) \in TarIndexEntry /\ Resolves(CabalFileEntry(p, 0, info))'
  <2>1. Len(P.cabals) = 1
    BY NewPackageOK DEF P
  <2>2. p \in DOMAIN packageIndex' /\ 0 < Len(packageIndex'[p].cabals)
    BY <1>2, <2>1
  <2>3. Resolves(CabalFileEntry(p, 0, info))'
    BY <2>2, CabalResolves
  <2> QED
    BY <2>3, EntriesTyped
<1>4. CASE entries = << >>
  <2>1. logged = <<CabalFileEntry(p, 0, info)>> /\ logged \in Seq(TarIndexEntry)
    BY <1>3, <1>4 DEF Reverse
  <2>2. Log(logged)
    BY DEF AddPackage3
  <2>3. /\ LogKept
        /\ \A i \in DOMAIN packageUpdateLog' :
                 \/ packageUpdateLog'[i] \in Range(packageUpdateLog)
                 \/ \E k \in DOMAIN logged : packageUpdateLog'[i] = logged[k]
    BY <2>1, <2>2, LogExtends DEF TypeOK
  <2>4. \A i \in DOMAIN packageUpdateLog' :
                 \/ packageUpdateLog'[i] \in Range(packageUpdateLog)
                 \/ packageUpdateLog'[i] = CabalFileEntry(p, 0, info)
    BY <2>1, <2>3
  <2> QED
    BY <1>1, <1>3, <2>3, <2>4 DEF Preserves, NewEntriesResolve, Resolves
<1>5. CASE entries # << >>
  <2>1. ts # << >> /\ Len(P.tarballs) = 1 /\ entries = <<MetadataEntry(p, 0, info.time)>>
    BY <1>5, NewPackageOK DEF P
  <2>2. MetadataEntry(p, 0, info.time) \in TarIndexEntry
           /\ Resolves(MetadataEntry(p, 0, info.time))'
    <3>1. p \in DOMAIN packageIndex' /\ 0 < Len(packageIndex'[p].tarballs)
      BY <1>2, <2>1
    <3>2. Resolves(MetadataEntry(p, 0, info.time))'
      BY <3>1, MetadataResolves
    <3> QED
      BY <3>2, EntriesTyped
  <2>3. Reverse(entries) = <<MetadataEntry(p, 0, info.time)>>
    BY <2>1 DEF Reverse
  <2>4. /\ logged \in Seq(TarIndexEntry)
        /\ \A k \in DOMAIN logged : \/ logged[k] = MetadataEntry(p, 0, info.time)
                                    \/ logged[k] = CabalFileEntry(p, 0, info)
    <3>1. ASSUME NEW a \in TarIndexEntry, NEW b \in TarIndexEntry
          PROVE  /\ Append(<<a>>, b) \in Seq(TarIndexEntry)
                 /\ \A k \in DOMAIN Append(<<a>>, b) :
                       Append(<<a>>, b)[k] = a \/ Append(<<a>>, b)[k] = b
      OBVIOUS
    <3> QED
      BY <1>3, <2>2, <2>3, <3>1
  <2>5. Log(logged)
    BY DEF AddPackage3
  <2>6. /\ LogKept
        /\ \A i \in DOMAIN packageUpdateLog' :
                 \/ packageUpdateLog'[i] \in Range(packageUpdateLog)
                 \/ \E k \in DOMAIN logged : packageUpdateLog'[i] = logged[k]
    BY <2>4, <2>5, LogExtends DEF TypeOK
  <2>7. \A i \in DOMAIN packageUpdateLog' :
                 \/ packageUpdateLog'[i] \in Range(packageUpdateLog)
                 \/ packageUpdateLog'[i] = MetadataEntry(p, 0, info.time)
                 \/ packageUpdateLog'[i] = CabalFileEntry(p, 0, info)
    BY <2>4, <2>6
  <2> QED
    BY <1>1, <1>3, <2>2, <2>6, <2>7 DEF Preserves, NewEntriesResolve, Resolves
<1> QED
  BY <1>4, <1>5

(* One entry is logged, and it resolves.                                   *)
LEMMA LogOne ==
    ASSUME TypeOK, Grows, NEW e \in TarIndexEntry, Log(<<e>>), Resolves(e)'
    PROVE  Preserves
<1>1. <<e>> \in Seq(TarIndexEntry) /\ \A k \in DOMAIN <<e>> : <<e>>[k] = e
  OBVIOUS
<1>2. LogKept
  BY <1>1, LogExtends DEF TypeOK
<1>3. \A i \in DOMAIN packageUpdateLog' :
         packageUpdateLog'[i] \in Range(packageUpdateLog) \/ packageUpdateLog'[i] = e
  BY <1>1, LogExtends DEF TypeOK
<1>4. NewEntriesResolve
  BY <1>3 DEF NewEntriesResolve, Resolves
<1> QED
  BY <1>2, <1>4 DEF Preserves

LEMMA AddPackageRevision2Preserves ==
    ASSUME TypeOK, NEW p \in PackageId, NEW c \in CabalFile, NEW info \in UploadInfo,
           AddPackageRevision2(p, c, info)
    PROVE  Preserves
<1> DEFINE old == IF Released(p) THEN packageIndex[p]
                                 ELSE [cabals |-> << >>, tarballs |-> << >>]
           cs  == Append(old.cabals, [cabal |-> c, info |-> info])
           new == [cabals |-> cs, tarballs |-> old.tarballs]
<1>1. /\ old.cabals \in Seq(Revision) /\ old.tarballs \in Seq(TarballRevision)
      /\ Len(old.cabals) = NewRevision(p)
      /\ Released(p) => old = packageIndex[p]
  <2>1. CASE Released(p)
    BY <2>1, PackageTyped DEF NewRevision
  <2>2. CASE ~ Released(p)
    BY <2>2 DEF NewRevision
  <2> QED
    BY <2>1, <2>2
<1>2. packageIndex' = Insert(p, new) /\ Log(<<CabalFileEntry(p, NewRevision(p), info)>>)
  BY DEF AddPackageRevision2
<1> HIDE DEF old
<1>3. [cabal |-> c, info |-> info] \in Revision
  BY DEF Revision
<1>4. /\ Len(cs) = Len(old.cabals) + 1 /\ Len(old.cabals) \in Nat /\ Len(old.tarballs) \in Nat
      /\ \A r \in DOMAIN old.cabals : cs[r] = old.cabals[r]
  BY <1>1, <1>3
<1> HIDE DEF cs
<1>5. Grows
  <2>1. new.cabals = cs /\ new.tarballs = old.tarballs
    OBVIOUS
  <2> HIDE DEF new
  <2>2. CASE Released(p)
    <3>1. /\ Len(packageIndex[p].cabals) <= Len(new.cabals)
          /\ \A r \in DOMAIN packageIndex[p].cabals :
                new.cabals[r].cabal = packageIndex[p].cabals[r].cabal
          /\ Len(packageIndex[p].tarballs) <= Len(new.tarballs)
          /\ \A r \in DOMAIN packageIndex[p].tarballs :
                new.tarballs[r] = packageIndex[p].tarballs[r]
      BY <1>1, <1>4, <2>1, <2>2
    <3> QED
      BY <1>2, <3>1, InsertGrows
  <2>3. CASE ~ Released(p)
    BY <1>2, <2>3, InsertGrows
  <2> QED
    BY <2>2, <2>3
<1>6. PICK n \in Nat : n = NewRevision(p)
  BY <1>1, <1>4
<1>7. p \in DOMAIN packageIndex' /\ Len(packageIndex'[p].cabals) = n + 1
  BY <1>1, <1>2, <1>4, <1>6 DEF Insert
<1>8. Resolves(CabalFileEntry(p, n, info))'
  <2>1. n < Len(packageIndex'[p].cabals)
    BY <1>7
  <2> QED
    BY <1>7, <2>1, CabalResolves
<1>9. CabalFileEntry(p, n, info) \in TarIndexEntry
  BY EntriesTyped
<1> QED
  BY <1>2, <1>5, <1>6, <1>8, <1>9, LogOne

LEMMA alterPackagePreserves ==
    ASSUME TypeOK, NEW p, NEW cs \in Seq(Revision), NEW ts \in Seq(TarballRevision),
           alterPackage(p, [cabals |-> cs, tarballs |-> ts]),
           LET old == packageIndex[p]
           IN  /\ Len(old.cabals) <= Len(cs)
               /\ \A r \in DOMAIN old.cabals : cs[r].cabal = old.cabals[r].cabal
               /\ Len(old.tarballs) <= Len(ts)
               /\ \A r \in DOMAIN old.tarballs : ts[r] = old.tarballs[r]
    PROVE  Preserves
<1>1. Grows
  BY InsertGrows DEF alterPackage
<1>2. packageUpdateLog' = packageUpdateLog /\ Len(packageUpdateLog) \in Nat
  BY DEF alterPackage, TypeOK
<1> QED
  BY <1>1, <1>2 DEF Preserves, LogKept, NewEntriesResolve, Range

LEMMA AddPackageTarballPreserves ==
    ASSUME TypeOK, NEW p \in PackageId, NEW t \in Tarball, NEW info \in UploadInfo,
           AddPackageTarball(p, t, info)
    PROVE  Preserves
<1> DEFINE old == packageIndex[p]
           ts  == Append(old.tarballs, [tarball |-> t, info |-> info])
<1>1. p \in DOMAIN packageIndex
  BY DEF AddPackageTarball
<1>2. [tarball |-> t, info |-> info] \in TarballRevision
  BY DEF TarballRevision
<1>3. old.cabals \in Seq(Revision) /\ old.tarballs \in Seq(TarballRevision)
  BY <1>1, PackageTyped
<1>4. /\ ts \in Seq(TarballRevision) /\ Len(old.tarballs) <= Len(ts)
      /\ \A r \in DOMAIN old.tarballs : ts[r] = old.tarballs[r]
      /\ Len(old.cabals) <= Len(old.cabals)
  BY <1>2, <1>3
<1>5. alterPackage(p, [cabals |-> old.cabals, tarballs |-> ts])
  BY DEF AddPackageTarball
<1> HIDE DEF ts
<1> QED
  BY <1>3, <1>4, <1>5, alterPackagePreserves

LEMMA SetLatestInfoPreserves ==
    ASSUME TypeOK, NEW p \in PackageId, NEW info \in UploadInfo, SetLatestInfo(p, info)
    PROVE  Preserves
<1> DEFINE old == packageIndex[p]
           cs  == Append(Front(old.cabals), [cabal |-> Last(old.cabals).cabal, info |-> info])
<1>1. p \in DOMAIN packageIndex
  BY DEF SetLatestInfo
<1>2. /\ old.cabals \in Seq(Revision) /\ old.cabals # << >>
      /\ old.tarballs \in Seq(TarballRevision)
  BY <1>1, PackageTyped
<1>3. [cabal |-> Last(old.cabals).cabal, info |-> info] \in Revision
  BY <1>1, PackageTyped DEF Revision
<1>4. /\ Front(old.cabals) \in Seq(Revision) /\ Len(Front(old.cabals)) = Len(old.cabals) - 1
      /\ \A r \in 1 .. Len(old.cabals) - 1 : Front(old.cabals)[r] = old.cabals[r]
  BY <1>2 DEF Front
<1>5. /\ cs \in Seq(Revision) /\ Len(cs) = Len(old.cabals)
      /\ \A r \in 1 .. Len(old.cabals) - 1 : cs[r] = old.cabals[r]
      /\ cs[Len(old.cabals)] = [cabal |-> Last(old.cabals).cabal, info |-> info]
  BY <1>2, <1>3, <1>4
<1>6. \A r \in DOMAIN old.cabals : cs[r].cabal = old.cabals[r].cabal
  <2>1. \A r \in DOMAIN old.cabals : r \in 1 .. Len(old.cabals) - 1 \/ r = Len(old.cabals)
    BY <1>2
  <2>2. cs[Len(old.cabals)].cabal = old.cabals[Len(old.cabals)].cabal
    BY <1>5 DEF Last
  <2> QED
    BY <1>5, <2>1, <2>2
<1>7. alterPackage(p, [cabals |-> cs, tarballs |-> old.tarballs])
  BY DEF SetLatestInfo
<1>8. Len(old.cabals) <= Len(cs) /\ Len(old.tarballs) <= Len(old.tarballs)
  BY <1>2, <1>5
<1> HIDE DEF cs
<1> QED
  BY <1>2, <1>5, <1>6, <1>7, <1>8, alterPackagePreserves

LEMMA AddTarballEntryPreserves ==
    ASSUME TypeOK, NEW p \in PackageId, AddTarballEntry(p)
    PROVE  Preserves
<1>1. p \in DOMAIN packageIndex
  BY DEF AddTarballEntry
<1>2. PICK r \in DOMAIN packageIndex[p].tarballs :
         AddOtherIndexEntry(MetadataEntry(p, r - 1, packageIndex[p].tarballs[r].info.time))
  BY DEF AddTarballEntry
<1>3. PICK info \in UploadInfo : info = packageIndex[p].tarballs[r].info
  BY <1>1, PackageTyped
<1>4. /\ r - 1 \in Nat /\ packageIndex[p].tarballs \in Seq(TarballRevision)
      /\ r - 1 < Len(packageIndex[p].tarballs)
  BY <1>1, PackageTyped
<1>5. packageIndex' = packageIndex /\ Log(<<MetadataEntry(p, r - 1, info.time)>>)
  BY <1>2, <1>3 DEF AddOtherIndexEntry
<1>6. Grows
  <2>1. \A q \in DOMAIN packageIndex :
           Len(packageIndex[q].cabals) \in Nat /\ Len(packageIndex[q].tarballs) \in Nat
    BY PackageTyped
  <2> QED
    BY <1>5, <2>1 DEF Grows
<1>7. MetadataEntry(p, r - 1, info.time) \in TarIndexEntry
  BY <1>4, EntriesTyped
<1>8. Resolves(MetadataEntry(p, r - 1, info.time))'
  BY <1>1, <1>4, <1>5, MetadataResolves
<1> QED
  BY <1>5, <1>6, <1>7, <1>8, LogOne

LEMMA AddExtraPreserves ==
    ASSUME TypeOK, AddExtra
    PROVE  Preserves
<1>1. PICK f \in FilePath, t \in Time : AddOtherIndexEntry(ExtraEntry(f, t))
  BY DEF AddExtra
<1>2. packageIndex' = packageIndex /\ Log(<<ExtraEntry(f, t)>>)
  BY <1>1 DEF AddOtherIndexEntry
<1>3. Grows
  <2>1. \A q \in DOMAIN packageIndex :
           Len(packageIndex[q].cabals) \in Nat /\ Len(packageIndex[q].tarballs) \in Nat
    BY PackageTyped
  <2> QED
    BY <1>2, <2>1 DEF Grows
<1>4. ExtraEntry(f, t) \in TarIndexEntry /\ Resolves(ExtraEntry(f, t))'
  BY DEF ExtraEntry, TarIndexEntry, ExtraEntries, Resolves
<1> QED
  BY <1>2, <1>3, <1>4, LogOne

LEMMA MigratePreserves ==
    ASSUME TypeOK, MigrateAddUpdateLog
    PROVE  Preserves
<1>1. packageIndex' = packageIndex /\ ~ migrated
  BY DEF MigrateAddUpdateLog
<1>2. Grows
  <2>1. \A q \in DOMAIN packageIndex :
           Len(packageIndex[q].cabals) \in Nat /\ Len(packageIndex[q].tarballs) \in Nat
    BY PackageTyped
  <2> QED
    BY <1>1, <2>1 DEF Grows
<1>3. ASSUME NEW i \in DOMAIN packageUpdateLog'
      PROVE  \/ packageUpdateLog'[i] \in Range(packageUpdateLog)
             \/ \E p \in DOMAIN packageIndex : packageUpdateLog'[i] \in entriesForPackage(p)
  BY DEF MigrateAddUpdateLog
<1>4. ASSUME NEW p \in DOMAIN packageIndex, NEW e \in entriesForPackage(p)
      PROVE  Resolves(e)
  <2>1. CASE \E r \in DOMAIN packageIndex[p].cabals :
                e = CabalFileEntry(p, r - 1, packageIndex[p].cabals[r].info)
    <3>1. PICK r \in DOMAIN packageIndex[p].cabals :
                e = CabalFileEntry(p, r - 1, packageIndex[p].cabals[r].info)
      BY <2>1
    <3>2. r - 1 < Len(packageIndex[p].cabals)
      BY PackageTyped
    <3> QED
      BY <3>1, <3>2 DEF Resolves, CabalFileEntry
  <2>2. CASE \E r \in DOMAIN packageIndex[p].tarballs :
                e = MetadataEntry(p, r - 1, packageIndex[p].tarballs[r].info.time)
    <3>1. PICK r \in DOMAIN packageIndex[p].tarballs :
                e = MetadataEntry(p, r - 1, packageIndex[p].tarballs[r].info.time)
      BY <2>2
    <3>2. r - 1 < Len(packageIndex[p].tarballs)
      BY PackageTyped
    <3> QED
      BY <3>1, <3>2 DEF Resolves, MetadataEntry
  <2> QED
    BY <2>1, <2>2 DEF entriesForPackage
<1>5. NewEntriesResolve
  <2> SUFFICES ASSUME NEW i \in DOMAIN packageUpdateLog',
                      packageUpdateLog'[i] \notin Range(packageUpdateLog)
               PROVE  Resolves(packageUpdateLog[i])'
    BY DEF NewEntriesResolve
  <2>1. PICK e : e = packageUpdateLog'[i]
    OBVIOUS
  <2>2. Resolves(e)
    BY <1>3, <1>4, <2>1
  <2> QED
    BY <1>1, <2>1, <2>2 DEF Resolves
<1> QED
  BY <1>1, <1>2, <1>5 DEF Preserves, LogKept

(* Every step but a deletion. *)
LEMMA NextPreserves ==
    ASSUME TypeOK, [Next]_vars, \A p \in PackageId : ~ DeletePackage(p)
    PROVE  Preserves
<1>1. ASSUME NEW p \in PackageId, Add(p)
      PROVE  Preserves
  BY <1>1, AddPackage3Preserves DEF Add
<1>2. ASSUME NEW p \in PackageId, AddOld(p)
      PROVE  Preserves
  BY <1>2, AddPackage3Preserves DEF AddOld, AddPackage2
<1>4. ASSUME NEW p \in PackageId, AddRevision(p)
      PROVE  Preserves
  BY <1>4, AddPackageRevision2Preserves DEF AddRevision
<1>5. ASSUME NEW p \in PackageId, AddTarball(p)
      PROVE  Preserves
  BY <1>5, AddPackageTarballPreserves DEF AddTarball
<1>6. ASSUME NEW p \in PackageId, SetUploader(p)
      PROVE  Preserves
  BY <1>6, SetLatestInfoPreserves, PackageTyped
  DEF SetUploader, SetPackageUploader, UploadInfo, Revision
<1>7. ASSUME NEW p \in PackageId, SetUploadTime(p)
      PROVE  Preserves
  BY <1>7, SetLatestInfoPreserves, PackageTyped
  DEF SetUploadTime, SetPackageUploadTime, UploadInfo, Revision
<1>8. CASE UNCHANGED vars
  <2>1. Len(packageUpdateLog) \in Nat
    BY DEF TypeOK
  <2>2. \A q \in DOMAIN packageIndex :
           Len(packageIndex[q].cabals) \in Nat /\ Len(packageIndex[q].tarballs) \in Nat
    BY PackageTyped
  <2> QED
    BY <1>8, <2>1, <2>2 DEF vars, Preserves, Grows, LogKept, NewEntriesResolve, Range
<1> QED
  BY <1>1, <1>2, <1>4, <1>5, <1>6, <1>7, <1>8, AddTarballEntryPreserves, AddExtraPreserves,
     MigratePreserves
  DEF Next

(* A deletion takes nothing from the other packages.                       *)
LEMMA EntriesResolveDelete ==
    ASSUME TypeOK, EntriesResolve, NEW p \in PackageId, DeletePackage(p)
    PROVE  EntriesResolve'
<1> SUFFICES ASSUME NEW i \in DOMAIN packageUpdateLog,
                    packageUpdateLog[i].kind # "extra" => packageUpdateLog[i].pkg \notin deleted'
             PROVE  Resolves(packageUpdateLog[i])'
  BY DEF EntriesResolve, DeletePackage
<1>1. Resolves(packageUpdateLog[i])
  BY DEF EntriesResolve, DeletePackage
<1>2. packageUpdateLog[i].kind # "extra" => packageUpdateLog[i].pkg # p
  BY DEF DeletePackage
<1> QED
  BY <1>1, <1>2 DEF Resolves, DeletePackage

(* No other step touches what the history knows of deletions.              *)
LEMMA DeletedOnlyByDelete ==
    ASSUME [Next]_vars, \A p \in PackageId : ~ DeletePackage(p)
    PROVE  deleted' = deleted
BY DEF Next, Add, AddOld, AddPackage2, AddPackage3, AddRevision, AddPackageRevision2,
       AddTarball, AddPackageTarball, SetUploader, SetPackageUploader, SetUploadTime,
       SetPackageUploadTime, SetLatestInfo, alterPackage, AddTarballEntry, AddExtra,
       AddOtherIndexEntry, MigrateAddUpdateLog, vars

(* "This should never return Nothing" is true of every package that is     *)
(* never deleted: each of its entries in the log has its revision or       *)
(* tarball, so on a server that deletes nothing both index files can       *)
(* always be built.                                                        *)
THEOREM EntriesAlwaysResolve == Spec => []EntriesResolve
<1>1. Init => EntriesResolve
  BY DEF Init, EntriesResolve, Resolves, ExtraEntry
<1>2. TypeOK /\ TypeOK' /\ EntriesResolve /\ [Next]_vars => EntriesResolve'
  BY NextPreserves, DeletedOnlyByDelete, EntriesResolveStep, EntriesResolveDelete DEF Preserves
<1> QED
  BY <1>1, <1>2, TypeCorrect, PTL DEF Spec

-----------------------------------------------------------------------------
(* The index is append-only and releases are immutable.                    *)

LEMMA PrefixIntro ==
    ASSUME NEW S, NEW s \in Seq(S), NEW t \in Seq(S), Len(s) <= Len(t),
           \A i \in 1 .. Len(s) : s[i] = t[i]
    PROVE  IsPrefix(s, t)
BY DEF IsPrefix

LEMMA FunctionIsSeq ==
    ASSUME NEW n \in Nat, NEW s, s = [i \in 1 .. n |-> s[i]]
    PROVE  s \in Seq(Range(s)) /\ Len(s) = n /\ DOMAIN s = 1 .. n
<1>1. DOMAIN s = 1 .. n
  OBVIOUS
<1>2. s \in [1 .. n -> Range(s)]
  BY <1>1 DEF Range
<1> QED
  BY <1>1, <1>2

(* An entry that resolves is rendered the same after the step.             *)
LEMMA EntryKept ==
    ASSUME TypeOK, TypeOK', Grows, NEW e \in TarIndexEntry, Resolves(e)
    PROVE  mkTarEntry(e)' = mkTarEntry(e)
<1>1. Resolves(e)'
  BY ResolvesKept
<1>2. CASE e.kind = "extra"
  BY <1>1, <1>2 DEF mkTarEntry
<1>3. CASE e.kind = "cabal"
  <2>1. /\ e.pkg \in DOMAIN packageIndex /\ e.rev \in Nat
        /\ e.rev < Len(packageIndex[e.pkg].cabals)
    BY <1>3 DEF Resolves, TarIndexEntry, CabalFileEntries, MetadataEntries, ExtraEntries
  <2>2. e.rev + 1 \in DOMAIN packageIndex[e.pkg].cabals
    BY <2>1, PackageTyped
  <2>3. packageIndex'[e.pkg].cabals[e.rev + 1].cabal = packageIndex[e.pkg].cabals[e.rev + 1].cabal
    BY <2>1, <2>2 DEF Grows
  <2> QED
    BY <1>1, <1>3, <2>3 DEF mkTarEntry
<1>4. CASE e.kind = "metadata"
  <2>1. /\ e.pkg \in DOMAIN packageIndex /\ e.rev \in Nat
        /\ e.rev < Len(packageIndex[e.pkg].tarballs)
    BY <1>4 DEF Resolves, TarIndexEntry, CabalFileEntries, MetadataEntries, ExtraEntries
  <2>2. e.rev + 1 \in DOMAIN packageIndex[e.pkg].tarballs
    BY <2>1, PackageTyped
  <2>3. packageIndex'[e.pkg].tarballs[e.rev + 1] = packageIndex[e.pkg].tarballs[e.rev + 1]
    BY <2>1, <2>2 DEF Grows
  <2> QED
    BY <1>1, <1>4, <2>3 DEF mkTarEntry
<1> QED
  BY <1>2, <1>3, <1>4 DEF TarIndexEntry, CabalFileEntries, MetadataEntries, ExtraEntries

LEMMA PrefixStep ==
    ASSUME TypeOK, TypeOK', EntriesResolve, Preserves, migrated, deleted = {}
    PROVE  IsPrefix(writeIncremental, writeIncremental')
<1> DEFINE s == writeIncremental
           t == writeIncremental'
           S == Range(s) \cup Range(t)
<1>1. /\ s \in Seq(Range(s)) /\ Len(s) = Len(packageUpdateLog)
      /\ DOMAIN s = 1 .. Len(packageUpdateLog)
  <2>1. Len(packageUpdateLog) \in Nat /\ DOMAIN packageUpdateLog = 1 .. Len(packageUpdateLog)
    BY DEF TypeOK
  <2>2. s = [i \in 1 .. Len(packageUpdateLog) |-> s[i]]
    BY <2>1 DEF writeIncremental
  <2> HIDE DEF s
  <2> QED
    BY <2>1, <2>2, FunctionIsSeq
<1>2. /\ t \in Seq(Range(t)) /\ Len(t) = Len(packageUpdateLog')
      /\ DOMAIN t = 1 .. Len(packageUpdateLog')
  <2>1. Len(packageUpdateLog') \in Nat /\ DOMAIN packageUpdateLog' = 1 .. Len(packageUpdateLog')
    BY DEF TypeOK
  <2>2. t = [i \in 1 .. Len(packageUpdateLog') |-> t[i]]
    BY <2>1 DEF writeIncremental
  <2> HIDE DEF t
  <2> QED
    BY <2>1, <2>2, FunctionIsSeq
<1>3. Len(s) <= Len(t)
  BY <1>1, <1>2 DEF Preserves, LogKept
<1>4. ASSUME NEW i \in 1 .. Len(s)
      PROVE  s[i] = t[i]
  <2>1. i \in DOMAIN packageUpdateLog /\ i \in DOMAIN packageUpdateLog'
    BY <1>1, <1>2, <1>3 DEF TypeOK
  <2>2. PICK e \in TarIndexEntry : e = packageUpdateLog[i]
    BY <2>1 DEF TypeOK
  <2>3. packageUpdateLog'[i] = e /\ Resolves(e)
    BY <2>1, <2>2 DEF Preserves, LogKept, EntriesResolve
  <2>4. mkTarEntry(e)' = mkTarEntry(e)
    BY <2>3, EntryKept DEF Preserves
  <2>5. s[i] = mkTarEntry(e)
    BY <2>1, <2>2 DEF writeIncremental
  <2>6. t[i] = mkTarEntry(packageUpdateLog[i])'
    BY <2>1 DEF writeIncremental
  <2>7. mkTarEntry(packageUpdateLog[i])' = mkTarEntry(e)'
    BY <2>3 DEF mkTarEntry, Resolves, Nothing
  <2> QED
    BY <2>4, <2>5, <2>6, <2>7
<1>5. s \in Seq(S) /\ t \in Seq(S)
  <2>1. ASSUME NEW A, NEW B, NEW u \in Seq(A)
        PROVE  u \in Seq(A \cup B) /\ u \in Seq(B \cup A)
    OBVIOUS
  <2> HIDE DEF s, t
  <2> QED
    BY <1>1, <1>2, <2>1
<1> HIDE DEF s, t, S
<1>6. IsPrefix(s, t)
  BY <1>3, <1>4, <1>5, PrefixIntro
<1> QED
  BY <1>6 DEF s, t

(* "We made the index append-only": 01-index.tar only ever grows at its    *)
(* end, so a client may fetch just the tail of it, as long as nothing is   *)
(* deleted.                                                                *)
THEOREM IndexIsAppendOnly == Spec => IndexAppendOnly
<1>1. TypeOK /\ TypeOK' /\ EntriesResolve /\ [Next]_vars
         => [migrated /\ deleted' = {} => IsPrefix(writeIncremental, writeIncremental')]_vars
  <2> SUFFICES ASSUME TypeOK, TypeOK', EntriesResolve, [Next]_vars, migrated, deleted' = {}
               PROVE  IsPrefix(writeIncremental, writeIncremental')
    OBVIOUS
  <2>1. \A p \in PackageId : ~ DeletePackage(p)
    BY DEF DeletePackage
  <2> QED
    BY <2>1, NextPreserves, DeletedOnlyByDelete, PrefixStep
<1> QED
  BY <1>1, TypeCorrect, EntriesAlwaysResolve, PTL DEF Spec, IndexAppendOnly

LEMMA ImmutableStep ==
    ASSUME TypeOK, TypeOK', [Next]_vars,
           NEW p \in DOMAIN packageIndex \cap DOMAIN packageIndex'
    PROVE  LET texts(info) == [r \in DOMAIN info.cabals |-> info.cabals[r].cabal]
           IN  /\ IsPrefix(texts(packageIndex[p]), texts(packageIndex'[p]))
               /\ IsPrefix(packageIndex[p].tarballs, packageIndex'[p].tarballs)
<1> DEFINE texts(info) == [r \in DOMAIN info.cabals |-> info.cabals[r].cabal]
           old == packageIndex[p]
           new == packageIndex'[p]
<1>1. /\ old.cabals \in Seq(Revision) /\ old.tarballs \in Seq(TarballRevision)
      /\ \A r \in DOMAIN old.cabals : old.cabals[r].cabal \in CabalFile
  BY PackageTyped
<1>2. new \in PkgInfo
  BY DEF TypeOK
<1>3. /\ new.cabals \in Seq(Revision) /\ new.tarballs \in Seq(TarballRevision)
  BY <1>2 DEF PkgInfo
<1>4. \A r \in DOMAIN new.cabals : new.cabals[r].cabal \in CabalFile
  <2>1. \A r \in DOMAIN new.cabals : new.cabals[r] \in Revision
    BY <1>3
  <2> QED
    BY <2>1 DEF Revision
<1>5. /\ Len(old.cabals) <= Len(new.cabals) /\ Len(old.tarballs) <= Len(new.tarballs)
      /\ \A r \in DOMAIN old.cabals : new.cabals[r].cabal = old.cabals[r].cabal
      /\ \A r \in DOMAIN old.tarballs : new.tarballs[r] = old.tarballs[r]
  <2>1. CASE \E q \in PackageId : DeletePackage(q)
    <3>1. new = old
      BY <2>1 DEF DeletePackage
    <3> QED
      BY <1>1, <3>1
  <2>2. CASE \A q \in PackageId : ~ DeletePackage(q)
    BY <2>2, NextPreserves DEF Preserves, Grows
  <2> QED
    BY <2>1, <2>2
<1>6. /\ texts(old) \in Seq(CabalFile) /\ Len(texts(old)) = Len(old.cabals)
      /\ texts(new) \in Seq(CabalFile) /\ Len(texts(new)) = Len(new.cabals)
  <2>1. ASSUME NEW cs \in Seq(Revision), \A r \in DOMAIN cs : cs[r].cabal \in CabalFile
        PROVE  /\ [r \in DOMAIN cs |-> cs[r].cabal] \in Seq(CabalFile)
               /\ Len([r \in DOMAIN cs |-> cs[r].cabal]) = Len(cs)
    <3>1. DOMAIN cs = 1 .. Len(cs) /\ Len(cs) \in Nat
      OBVIOUS
    <3> QED
      BY <2>1, <3>1
  <2> QED
    BY <1>1, <1>3, <1>4, <2>1
<1>7. \A i \in 1 .. Len(texts(old)) : texts(old)[i] = texts(new)[i]
  BY <1>1, <1>3, <1>5, <1>6
<1>8. IsPrefix(texts(old), texts(new))
  <2> HIDE DEF texts, old, new
  <2> QED
    BY <1>5, <1>6, <1>7, PrefixIntro
<1>9. IsPrefix(old.tarballs, new.tarballs)
  BY <1>1, <1>3, <1>5, PrefixIntro
<1> QED
  BY <1>8, <1>9

(* A released package is never overwritten, deletions or not: uploading,   *)
(* revising, mirroring and the edits of uploader and time only extend its  *)
(* revisions and tarballs.                                                 *)
THEOREM ReleasesAreImmutable == Spec => ReleasesImmutable
<1> DEFINE texts(info) == [r \in DOMAIN info.cabals |-> info.cabals[r].cabal]
           Kept(p) == /\ IsPrefix(texts(packageIndex[p]), texts(packageIndex'[p]))
                      /\ IsPrefix(packageIndex[p].tarballs, packageIndex'[p].tarballs)
<1>1. TypeOK /\ TypeOK' /\ [Next]_vars
         => [\A p \in DOMAIN packageIndex \cap DOMAIN packageIndex' : Kept(p)]_vars
  BY ImmutableStep
<1> QED
  BY <1>1, TypeCorrect, PTL DEF Spec, ReleasesImmutable
-----------------------------------------------------------------------------
(* No revision is lost between index and log.                              *)

CabalsAt(log, p) == {i \in DOMAIN log : log[i].kind = "cabal" /\ log[i].pkg = p}

(* The last .cabal entries of p in the log are its n revisions, in order,  *)
(* at the positions at[1], ..., at[n].                                     *)
LoggedAt(at, log, p, n) ==
    /\ at \in [1 .. n -> CabalsAt(log, p)]
    /\ \A r \in 1 .. n : log[at[r]].rev = r - 1
    /\ \A r, q \in 1 .. n : r < q => at[r] < at[q]
    /\ \A i \in CabalsAt(log, p) : i >= at[1] => \E r \in 1 .. n : i = at[r]

Logged(log, p, n) == \E at : LoggedAt(at, log, p, n)

(* new is old with more entries at its end.                                *)
Extends(new, old) ==
    /\ Len(old) <= Len(new)
    /\ \A i \in 1 .. Len(old) : new[i] = old[i]
Added(new, old) == (Len(old) + 1) .. Len(new)

RevisionsLoggedByLength ==
    \A p \in ordered \cap DOMAIN packageIndex :
       Logged(packageUpdateLog, p, Len(packageIndex[p].cabals))

LEMMA LoggedMeaning == TypeOK => (RevisionsLogged <=> RevisionsLoggedByLength)
<1> SUFFICES ASSUME TypeOK
             PROVE  RevisionsLogged <=> RevisionsLoggedByLength
  OBVIOUS
<1>1. ASSUME NEW p \in DOMAIN packageIndex
      PROVE  DOMAIN packageIndex[p].cabals = 1 .. Len(packageIndex[p].cabals)
  BY PackageTyped
<1>2. \A p : CabalEntriesOf(p) = CabalsAt(packageUpdateLog, p)
  BY DEF CabalEntriesOf, CabalsAt
<1> DEFINE Kept(p, revs) ==
              \E at \in [revs -> CabalEntriesOf(p)] :
                 /\ \A r \in revs : packageUpdateLog[at[r]].rev = r - 1
                 /\ \A r, q \in revs : r < q => at[r] < at[q]
                 /\ \A i \in CabalEntriesOf(p) : i >= at[1] => \E r \in revs : i = at[r]
<1>3. RevisionsLogged <=>
         \A p \in ordered \cap DOMAIN packageIndex : Kept(p, DOMAIN packageIndex[p].cabals)
  BY Zenon DEF RevisionsLogged
<1>4. ASSUME NEW p, NEW n PROVE Kept(p, 1 .. n) <=> Logged(packageUpdateLog, p, n)
  BY <1>2, Zenon DEF Logged, LoggedAt
<1> HIDE DEF Kept
<1> QED
  BY <1>1, <1>3, <1>4 DEF RevisionsLoggedByLength

LEMMA LoggedMeaningNext == TypeOK' => (RevisionsLogged' <=> RevisionsLoggedByLength')
BY LoggedMeaning, PTL

(* Entries of other packages, and entries of p that are not .cabal files,  *)
(* change nothing.                                                         *)
LEMMA LoggedElsewhere ==
    ASSUME NEW S, NEW old \in Seq(S), NEW new \in Seq(S), Extends(new, old),
           NEW p, NEW n \in Nat \ {0}, Logged(old, p, n),
           \A i \in Added(new, old) : i \notin CabalsAt(new, p)
    PROVE  Logged(new, p, n)
<1>1. PICK at : LoggedAt(at, old, p, n)
  BY DEF Logged
<1>2. CabalsAt(new, p) = CabalsAt(old, p)
  <2>1. /\ DOMAIN new = 1 .. Len(new) /\ Len(new) \in Nat
        /\ DOMAIN old = 1 .. Len(old) /\ Len(old) \in Nat
    OBVIOUS
  <2>2. \A i \in DOMAIN new : i \in DOMAIN old \/ i \in Added(new, old)
    BY <2>1 DEF Added
  <2>3. \A i \in DOMAIN old : i \in DOMAIN new /\ new[i] = old[i]
    BY <2>1 DEF Extends
  <2> QED
    BY <2>2, <2>3 DEF CabalsAt
<1>3. \A r \in 1 .. n : at[r] \in 1 .. Len(old) /\ new[at[r]] = old[at[r]]
  BY <1>1 DEF LoggedAt, CabalsAt, Extends
<1>4. LoggedAt(at, new, p, n)
  <2>1. \A r \in 1 .. n : new[at[r]].rev = r - 1
    BY <1>1, <1>3 DEF LoggedAt
  <2> QED
    BY <1>1, <1>2, <2>1, Zenon DEF LoggedAt
<1> QED
  BY <1>4 DEF Logged

(* The next revision of a package is logged behind its earlier ones.       *)
LEMMA LoggedNext ==
    ASSUME NEW S, NEW old \in Seq(S), NEW new \in Seq(S), Extends(new, old),
           Len(new) = Len(old) + 1,
           NEW p, NEW n \in Nat \ {0}, Logged(old, p, n),
           Len(new) \in CabalsAt(new, p), new[Len(new)].rev = n
    PROVE  Logged(new, p, n + 1)
<1>1. PICK at : LoggedAt(at, old, p, n)
  BY DEF Logged
<1> DEFINE more == [r \in 1 .. n + 1 |-> IF r = n + 1 THEN Len(new) ELSE at[r]]
<1>2. CabalsAt(new, p) = CabalsAt(old, p) \cup {Len(new)}
  <2>1. /\ DOMAIN new = 1 .. Len(new) /\ Len(new) \in Nat
        /\ DOMAIN old = 1 .. Len(old) /\ Len(old) \in Nat
    OBVIOUS
  <2>2. \A i \in DOMAIN new : i \in DOMAIN old \/ i = Len(new)
    BY <2>1
  <2>3. \A i \in DOMAIN old : i \in DOMAIN new /\ new[i] = old[i]
    BY <2>1 DEF Extends
  <2> QED
    BY <2>2, <2>3 DEF CabalsAt
<1>3. \A r \in 1 .. n : at[r] \in 1 .. Len(old) /\ new[at[r]] = old[at[r]]
  <2>1. \A r \in 1 .. n : at[r] \in CabalsAt(old, p)
    BY <1>1 DEF LoggedAt
  <2>2. \A i \in CabalsAt(old, p) : i \in 1 .. Len(old)
    BY DEF CabalsAt
  <2> QED
    BY <2>1, <2>2 DEF Extends
<1>4. \A r \in 1 .. n : more[r] = at[r] /\ r \in 1 .. n + 1
  OBVIOUS
<1>5. more[n + 1] = Len(new) /\ n + 1 \in 1 .. n + 1 /\ 1 \in 1 .. n
  OBVIOUS
<1>6. \A r \in 1 .. n + 1 : r \in 1 .. n \/ r = n + 1
  OBVIOUS
<1>7. more \in [1 .. n + 1 -> CabalsAt(new, p)]
  <2>1. \A r \in 1 .. n : at[r] \in CabalsAt(old, p)
    BY <1>1 DEF LoggedAt
  <2>2. \A r \in 1 .. n + 1 : (IF r = n + 1 THEN Len(new) ELSE at[r]) \in CabalsAt(new, p)
    BY <1>2, <1>6, <2>1
  <2> QED
    BY <2>2
<1> HIDE DEF more
<1>8. \A r \in 1 .. n + 1 : new[more[r]].rev = r - 1
  <2>1. \A r \in 1 .. n : new[more[r]].rev = r - 1
    BY <1>1, <1>3, <1>4 DEF LoggedAt
  <2>2. new[more[n + 1]].rev = (n + 1) - 1
    BY <1>5
  <2> QED
    BY <1>6, <2>1, <2>2
<1>9. \A r, q \in 1 .. n + 1 : r < q => more[r] < more[q]
  <2> SUFFICES ASSUME NEW r \in 1 .. n + 1, NEW q \in 1 .. n + 1, r < q
               PROVE  more[r] < more[q]
    OBVIOUS
  <2>1. r \in 1 .. n
    OBVIOUS
  <2>2. CASE q = n + 1
    BY <1>3, <1>4, <1>5, <2>1, <2>2
  <2>3. CASE q \in 1 .. n
    BY <1>1, <1>4, <2>1, <2>3 DEF LoggedAt
  <2> QED
    BY <1>6, <2>2, <2>3
<1>10. \A i \in CabalsAt(new, p) : i >= more[1] => \E r \in 1 .. n + 1 : i = more[r]
  <2> SUFFICES ASSUME NEW i \in CabalsAt(new, p), i >= more[1]
               PROVE  \E r \in 1 .. n + 1 : i = more[r]
    OBVIOUS
  <2>1. CASE i = Len(new)
    BY <1>5, <2>1
  <2>2. CASE i \in CabalsAt(old, p)
    <3>1. PICK r \in 1 .. n : i = at[r]
      BY <1>1, <1>4, <1>5, <2>2 DEF LoggedAt
    <3> QED
      BY <1>4, <3>1
  <2> QED
    BY <1>2, <2>1, <2>2
<1>11. LoggedAt(more, new, p, n + 1)
  BY <1>7, <1>8, <1>9, <1>10 DEF LoggedAt
<1> QED
  BY <1>11 DEF Logged

(* The first revision of a package is the last entry of the log.           *)
LEMMA LoggedFirst ==
    ASSUME NEW S, NEW log \in Seq(S), NEW p,
           Len(log) \in CabalsAt(log, p), log[Len(log)].rev = 0
    PROVE  Logged(log, p, 1)
<1> DEFINE at == [r \in 1 .. 1 |-> Len(log)]
<1>1. \A r \in 1 .. 1 : r = 1 /\ at[r] = Len(log)
  OBVIOUS
<1>2. at \in [1 .. 1 -> CabalsAt(log, p)] /\ at[1] = Len(log) /\ 1 \in 1 .. 1
  OBVIOUS
<1>3. \A i \in CabalsAt(log, p) : i \in 1 .. Len(log)
  BY DEF CabalsAt
<1> HIDE DEF at
<1>4. \A i \in CabalsAt(log, p) : i >= at[1] => \E r \in 1 .. 1 : i = at[r]
  BY <1>2, <1>3
<1>5. LoggedAt(at, log, p, 1)
  <2>1. \A r \in 1 .. 1 : log[at[r]].rev = r - 1
    BY <1>1
  <2>2. \A r, q \in 1 .. 1 : r < q => at[r] < at[q]
    BY <1>1
  <2> QED
    BY <1>2, <1>4, <2>1, <2>2 DEF LoggedAt
<1> QED
  BY <1>5 DEF Logged

(* The migration: the sort is stable and by time, so revisions whose times *)
(* are in order come out in order.                                         *)
LEMMA LoggedByMigration ==
    ASSUME TypeOK, MigrateAddUpdateLog,
           \A i \in DOMAIN packageUpdateLog : packageUpdateLog[i].kind = "extra",
           NEW p \in DOMAIN packageIndex, TimesInOrder(packageIndex[p].cabals)
    PROVE  Logged(packageUpdateLog', p, Len(packageIndex[p].cabals))
<1> DEFINE entries == Range(packageUpdateLog)
                        \cup UNION {entriesForPackage(q) : q \in DOMAIN packageIndex}
           E(r) == CabalFileEntry(p, r - 1, packageIndex[p].cabals[r].info)
<1>1. PICK m \in 0 .. MaxLog : \E s \in [1 .. m -> entries] :
              /\ IsInjective(s) /\ Range(s) = entries
              /\ IsInitialUpdateLog(s)
              /\ packageUpdateLog' = s
  BY DEF MigrateAddUpdateLog
<1>2. PICK s \in [1 .. m -> entries] :
              /\ IsInjective(s) /\ Range(s) = entries
              /\ IsInitialUpdateLog(s)
              /\ packageUpdateLog' = s
  BY <1>1
<1>3. PICK n \in Nat : n = Len(packageIndex[p].cabals)
                       /\ DOMAIN packageIndex[p].cabals = 1 .. n
  BY PackageTyped
<1>4. \A r \in 1 .. n : E(r).kind = "cabal" /\ E(r).pkg = p /\ E(r).rev = r - 1
                        /\ E(r).time = packageIndex[p].cabals[r].info.time
  BY DEF CabalFileEntry
<1>5. \A r \in 1 .. n : E(r) \in entries
  BY <1>3 DEF entriesForPackage
<1>6. \A i \in CabalsAt(s, p) : \E r \in 1 .. n : s[i] = E(r)
  <2> SUFFICES ASSUME NEW i \in CabalsAt(s, p)
               PROVE  \E r \in 1 .. n : s[i] = E(r)
    OBVIOUS
  <2>1. s[i] \in entries /\ s[i].kind = "cabal" /\ s[i].pkg = p
    BY DEF CabalsAt
  <2>2. s[i] \notin Range(packageUpdateLog)
    BY <2>1 DEF Range
  <2>3. PICK q \in DOMAIN packageIndex : s[i] \in entriesForPackage(q)
    BY <2>1, <2>2
  <2>4. \A r, t : MetadataEntry(q, r, t).kind # "cabal"
    BY DEF MetadataEntry
  <2>5. PICK r \in DOMAIN packageIndex[q].cabals :
           s[i] = CabalFileEntry(q, r - 1, packageIndex[q].cabals[r].info)
    BY <2>1, <2>3, <2>4 DEF entriesForPackage
  <2>6. q = p
    BY <2>1, <2>5 DEF CabalFileEntry
  <2> QED
    BY <1>3, <2>5, <2>6
<1> DEFINE at == [r \in 1 .. n |-> CHOOSE i \in 1 .. m : s[i] = E(r)]
<1>7. \A r \in 1 .. n : at[r] \in 1 .. m /\ s[at[r]] = E(r)
  <2> SUFFICES ASSUME NEW r \in 1 .. n
               PROVE  at[r] \in 1 .. m /\ s[at[r]] = E(r)
    OBVIOUS
  <2>1. \E i \in 1 .. m : s[i] = E(r)
    BY <1>2, <1>5 DEF Range
  <2> QED
    BY <2>1
<1>8. DOMAIN at = 1 .. n /\ at = [r \in 1 .. n |-> at[r]]
  OBVIOUS
<1> HIDE DEF at
<1>9. at \in [1 .. n -> CabalsAt(s, p)]
  <2>1. \A r \in 1 .. n : at[r] \in CabalsAt(s, p)
    BY <1>4, <1>7 DEF CabalsAt
  <2> QED
    BY <1>8, <2>1
<1>10. \A r, q \in 1 .. n : r < q => at[r] < at[q]
  <2> SUFFICES ASSUME NEW r \in 1 .. n, NEW q \in 1 .. n, r < q, ~ (at[r] < at[q])
               PROVE  FALSE
    OBVIOUS
  <2>1. m \in Nat /\ at[r] \in 1 .. m /\ at[q] \in 1 .. m
    BY <1>7, PackagesAssumption
  <2>2. at[r] # at[q]
    BY <1>4, <1>7
  <2>3. at[q] < at[r]
    BY <2>1, <2>2
  <2>4. s[at[q]].time <= s[at[r]].time
        /\ (s[at[q]].time = s[at[r]].time => ~ ListedBefore(s[at[r]], s[at[q]]))
    BY <1>2, <2>1, <2>3 DEF IsInitialUpdateLog
  <2>5. E(r).time <= E(q).time
    BY <1>3, <1>4 DEF TimesInOrder
  <2>6. E(r).time \in Nat /\ E(q).time \in Nat
    BY <1>3, <1>4, PackageTyped, PackagesAssumption DEF UploadInfo
  <2>7. s[at[q]].time = s[at[r]].time
    <3> HIDE DEF E
    <3> QED
      BY <1>7, <2>4, <2>5, <2>6
  <2>8. ListedBefore(E(r), E(q))
    BY <1>4 DEF ListedBefore
  <2> QED
    BY <1>7, <2>4, <2>7, <2>8
<1>11. \A i \in CabalsAt(s, p) : \E r \in 1 .. n : i = at[r]
  <2> SUFFICES ASSUME NEW i \in CabalsAt(s, p)
               PROVE  \E r \in 1 .. n : i = at[r]
    OBVIOUS
  <2>1. PICK r \in 1 .. n : s[i] = E(r)
    BY <1>6
  <2>2. i \in DOMAIN s /\ at[r] \in DOMAIN s /\ s[i] = s[at[r]]
    BY <1>7, <2>1 DEF CabalsAt
  <2> QED
    BY <1>2, <2>2 DEF IsInjective
<1>12. \A r \in 1 .. n : s[at[r]].rev = r - 1
  BY <1>4, <1>7
<1>13. LoggedAt(at, s, p, n)
  BY <1>9, <1>10, <1>11, <1>12 DEF LoggedAt
<1> QED
  BY <1>2, <1>3, <1>13 DEF Logged
(* What a transaction on a migrated store does to the revisions of p:      *)
(* nothing, one revision more, or a first revision.                        *)
RevisionsStep(p) ==
    LET n   == Len(packageIndex[p].cabals)
        new == packageUpdateLog'
    IN  \/ /\ p \in DOMAIN packageIndex
           /\ Len(packageIndex'[p].cabals) = n
           /\ Extends(new, packageUpdateLog)
           /\ \A i \in Added(new, packageUpdateLog) : i \notin CabalsAt(new, p)
        \/ /\ p \in DOMAIN packageIndex
           /\ Len(packageIndex'[p].cabals) = n + 1
           /\ Extends(new, packageUpdateLog)
           /\ Len(new) = Len(packageUpdateLog) + 1
           /\ Len(new) \in CabalsAt(new, p) /\ new[Len(new)].rev = n
        \/ /\ Len(packageIndex'[p].cabals) = 1
           /\ Len(new) \in CabalsAt(new, p) /\ new[Len(new)].rev = 0

LEMMA LogAppends ==
    ASSUME packageUpdateLog \in Seq(TarIndexEntry), migrated,
           NEW entries \in Seq(TarIndexEntry), Log(entries)
    PROVE  /\ Extends(packageUpdateLog', packageUpdateLog)
           /\ Len(packageUpdateLog') = Len(packageUpdateLog) + Len(entries)
           /\ \A i \in Added(packageUpdateLog', packageUpdateLog) :
                 /\ i - Len(packageUpdateLog) \in 1 .. Len(entries)
                 /\ packageUpdateLog'[i] = entries[i - Len(packageUpdateLog)]
           /\ DOMAIN packageUpdateLog' = 1 .. Len(packageUpdateLog')
<1>1. packageUpdateLog' = packageUpdateLog \o entries
  BY DEF Log
<1> QED
  BY <1>1 DEF Extends, Added

LEMMA InsertElsewhere ==
    ASSUME NEW p, NEW q, p # q, NEW pkginfo, packageIndex' = Insert(q, pkginfo),
           p \in DOMAIN packageIndex'
    PROVE  p \in DOMAIN packageIndex /\ packageIndex'[p] = packageIndex[p]
BY DEF Insert

LEMMA EntriesTell ==
    ASSUME NEW p, NEW r, NEW info, NEW t, NEW f
    PROVE  /\ CabalFileEntry(p, r, info).kind = "cabal"
           /\ CabalFileEntry(p, r, info).pkg = p
           /\ CabalFileEntry(p, r, info).rev = r
           /\ MetadataEntry(p, r, t).kind = "metadata"
           /\ ExtraEntry(f, t).kind = "extra"
BY DEF CabalFileEntry, MetadataEntry, ExtraEntry

(* A transaction that logs no .cabal file and no revision.                 *)
LEMMA OtherRevisionsStep ==
    ASSUME TypeOK, migrated, NEW entries \in Seq(TarIndexEntry), Log(entries),
           NEW p \in DOMAIN packageIndex,
           Len(packageIndex'[p].cabals) = Len(packageIndex[p].cabals),
           \A k \in 1 .. Len(entries) : ~ (entries[k].kind = "cabal" /\ entries[k].pkg = p)
    PROVE  RevisionsStep(p)
<1>1. /\ Extends(packageUpdateLog', packageUpdateLog)
      /\ \A i \in Added(packageUpdateLog', packageUpdateLog) :
             /\ i - Len(packageUpdateLog) \in 1 .. Len(entries)
             /\ packageUpdateLog'[i] = entries[i - Len(packageUpdateLog)]
  BY LogAppends DEF TypeOK
<1>2. \A i \in Added(packageUpdateLog', packageUpdateLog) : i \notin CabalsAt(packageUpdateLog', p)
  BY <1>1 DEF CabalsAt
<1> QED
  BY <1>1, <1>2 DEF RevisionsStep

LEMMA AddPackage3Revisions ==
    ASSUME TypeOK, migrated, NEW q \in PackageId, NEW c \in CabalFile, NEW info \in UploadInfo,
           NEW ts \in OptionalTarball, NEW entries,
           entries = << >> \/ entries = indexEntriesFor(q, mkPackageInfo(c, info, ts)),
           AddPackage3(q, mkPackageInfo(c, info, ts), info, entries),
           NEW p \in DOMAIN packageIndex'
    PROVE  RevisionsStep(p)
<1> DEFINE P == mkPackageInfo(c, info, ts)
           C == CabalFileEntry(q, 0, info)
           M == MetadataEntry(q, 0, info.time)
           logged == Append(Reverse(entries), C)
<1>1. Len(P.cabals) = 1 /\ (entries = << >> \/ entries = <<M>>)
  BY NewPackageOK
<1>2. C \in TarIndexEntry /\ M \in TarIndexEntry
  BY EntriesTyped
<1>3. \/ logged = <<C>>
      \/ \E u \in Seq(TarIndexEntry) : Len(u) = 1 /\ u[1] = M /\ logged = Append(u, C)
  <2>1. CASE entries = << >>
    BY <1>2, <2>1 DEF Reverse
  <2>2. CASE entries = <<M>>
    <3>1. Reverse(entries) = <<M>>
      BY <2>2 DEF Reverse
    <3>2. \A e \in TarIndexEntry : <<e>> \in Seq(TarIndexEntry) /\ Len(<<e>>) = 1 /\ <<e>>[1] = e
      OBVIOUS
    <3>3. PICK u \in Seq(TarIndexEntry) : u = Reverse(entries) /\ Len(u) = 1 /\ u[1] = M
      BY <1>2, <3>1, <3>2
    <3>4. logged = Append(u, C)
      BY <3>3
    <3> QED
      BY <3>3, <3>4
  <2> QED
    BY <1>1, <2>1, <2>2
<1>4. packageIndex' = Insert(q, P) /\ Log(logged) /\ q \notin DOMAIN packageIndex
  BY DEF AddPackage3
<1>5. /\ logged \in Seq(TarIndexEntry) /\ logged[Len(logged)] = C
      /\ Len(logged) \in 1 .. Len(logged)
      /\ \A k \in 1 .. Len(logged) : logged[k] = C \/ logged[k] = M
  <2> HIDE DEF logged, C, M
  <2>1. CASE logged = <<C>>
    BY <1>2, <2>1
  <2>2. ASSUME NEW u \in Seq(TarIndexEntry), Len(u) = 1, u[1] = M, logged = Append(u, C)
        PROVE  /\ logged \in Seq(TarIndexEntry) /\ Len(logged) = 2
               /\ logged[2] = C /\ logged[1] = M
    <3>1. \A s \in Seq(TarIndexEntry), a \in TarIndexEntry :
             /\ Append(s, a) \in Seq(TarIndexEntry) /\ Len(Append(s, a)) = Len(s) + 1
             /\ Append(s, a)[Len(s) + 1] = a
             /\ \A k \in 1 .. Len(s) : Append(s, a)[k] = s[k]
      OBVIOUS
    <3>2. /\ Append(u, C) \in Seq(TarIndexEntry) /\ Len(Append(u, C)) = Len(u) + 1
          /\ Append(u, C)[Len(u) + 1] = C
          /\ \A k \in 1 .. Len(u) : Append(u, C)[k] = u[k]
      BY <1>2, <3>1, Zenon
    <3>3. Len(u) + 1 = 2 /\ 1 \in 1 .. Len(u)
      BY <2>2
    <3> QED
      BY <2>2, <3>2, <3>3, Zenon
  <2>3. CASE logged \in Seq(TarIndexEntry) /\ Len(logged) = 2 /\ logged[2] = C /\ logged[1] = M
    BY <2>3
  <2> QED
    BY <1>3, <2>1, <2>2, <2>3, Zenon
<1> HIDE DEF logged, P
<1>6. CASE p # q
  <2>1. p \in DOMAIN packageIndex /\ packageIndex'[p] = packageIndex[p]
    BY <1>4, <1>6, InsertElsewhere
  <2>2. C.pkg = q /\ M.kind = "metadata"
    BY EntriesTell
  <2>3. \A k \in 1 .. Len(logged) : ~ (logged[k].kind = "cabal" /\ logged[k].pkg = p)
    BY <1>5, <1>6, <2>2
  <2> QED
    BY <1>4, <1>5, <2>1, <2>3, OtherRevisionsStep
<1>7. CASE p = q
  <2>1. packageIndex'[p] = P
    BY <1>4, <1>7 DEF Insert
  <2>2. /\ Len(packageUpdateLog') = Len(packageUpdateLog) + Len(logged)
        /\ \A i \in Added(packageUpdateLog', packageUpdateLog) :
                 /\ i - Len(packageUpdateLog) \in 1 .. Len(logged)
                 /\ packageUpdateLog'[i] = logged[i - Len(packageUpdateLog)]
        /\ DOMAIN packageUpdateLog' = 1 .. Len(packageUpdateLog')
    BY <1>4, <1>5, LogAppends DEF TypeOK
  <2>3. Len(packageUpdateLog) \in Nat /\ Len(logged) \in Nat
    BY <1>5 DEF TypeOK
  <2>4. /\ Len(packageUpdateLog') \in Added(packageUpdateLog', packageUpdateLog)
        /\ Len(packageUpdateLog') \in DOMAIN packageUpdateLog'
        /\ Len(packageUpdateLog') - Len(packageUpdateLog) = Len(logged)
    BY <1>5, <2>2, <2>3 DEF Added
  <2>5. packageUpdateLog'[Len(packageUpdateLog')] = C
    BY <1>5, <2>2, <2>4
  <2>6. C.kind = "cabal" /\ C.pkg = p /\ C.rev = 0
    BY <1>7, EntriesTell
  <2>7. Len(packageUpdateLog') \in CabalsAt(packageUpdateLog', p)
    BY <2>4, <2>5, <2>6 DEF CabalsAt
  <2> QED
    BY <1>1, <2>1, <2>5, <2>6, <2>7 DEF RevisionsStep, P
<1> QED
  BY <1>6, <1>7

LEMMA AddPackageRevision2Revisions ==
    ASSUME TypeOK, migrated, NEW q \in PackageId, NEW c \in CabalFile, NEW info \in UploadInfo,
           AddPackageRevision2(q, c, info), NEW p \in DOMAIN packageIndex'
    PROVE  RevisionsStep(p)
<1> DEFINE C == CabalFileEntry(q, NewRevision(q), info)
           old == IF Released(q) THEN packageIndex[q]
                                 ELSE [cabals |-> << >>, tarballs |-> << >>]
           new == [cabals   |-> Append(old.cabals, [cabal |-> c, info |-> info]),
                   tarballs |-> old.tarballs]
<1>1. packageIndex' = Insert(q, new) /\ Log(<<C>>)
  BY DEF AddPackageRevision2
<1>2. NewRevision(q) \in Nat
  BY PackageTyped DEF NewRevision
<1>3. C \in TarIndexEntry /\ C.kind = "cabal" /\ C.pkg = q /\ C.rev = NewRevision(q)
  BY <1>2, EntriesTyped, EntriesTell
<1> HIDE DEF C
<1>4. /\ <<C>> \in Seq(TarIndexEntry) /\ Len(<<C>>) = 1 /\ <<C>>[1] = C
      /\ \A k \in 1 .. Len(<<C>>) : <<C>>[k] = C
  BY <1>3
<1>5. old.cabals \in Seq(Revision) /\ Len(old.cabals) = NewRevision(q)
  <2>1. CASE Released(q)
    BY <2>1, PackageTyped DEF NewRevision
  <2>2. CASE ~ Released(q)
    BY <2>2 DEF NewRevision
  <2> QED
    BY <2>1, <2>2
<1> HIDE DEF old
<1>6. Len(new.cabals) = NewRevision(q) + 1
  <2>1. [cabal |-> c, info |-> info] \in Revision
    BY DEF Revision
  <2>2. \A s \in Seq(Revision), r \in Revision : Len(Append(s, r)) = Len(s) + 1
    OBVIOUS
  <2> QED
    BY <1>5, <2>1, <2>2
<1> HIDE DEF new
<1>7. CASE p # q
  <2>1. p \in DOMAIN packageIndex /\ packageIndex'[p] = packageIndex[p]
    BY <1>1, <1>7, InsertElsewhere
  <2>2. \A k \in 1 .. Len(<<C>>) : ~ (<<C>>[k].kind = "cabal" /\ <<C>>[k].pkg = p)
    BY <1>3, <1>4, <1>7
  <2> QED
    BY <1>1, <1>4, <2>1, <2>2, OtherRevisionsStep
<1>8. CASE p = q
  <2>1. Len(packageIndex'[p].cabals) = NewRevision(q) + 1
    BY <1>1, <1>6, <1>8 DEF Insert
  <2>2. /\ Extends(packageUpdateLog', packageUpdateLog)
        /\ Len(packageUpdateLog') = Len(packageUpdateLog) + 1
        /\ \A i \in Added(packageUpdateLog', packageUpdateLog) :
                 /\ i - Len(packageUpdateLog) \in 1 .. 1
                 /\ packageUpdateLog'[i] = <<C>>[i - Len(packageUpdateLog)]
        /\ DOMAIN packageUpdateLog' = 1 .. Len(packageUpdateLog')
    <3> HIDE DEF Extends, Added
    <3> QED
      BY <1>1, <1>4, LogAppends DEF TypeOK
  <2>3. Len(packageUpdateLog) \in Nat
    BY DEF TypeOK
  <2>4. /\ Len(packageUpdateLog') \in Added(packageUpdateLog', packageUpdateLog)
        /\ Len(packageUpdateLog') \in DOMAIN packageUpdateLog'
        /\ Len(packageUpdateLog') - Len(packageUpdateLog) = 1
    BY <2>2, <2>3 DEF Added
  <2>5. packageUpdateLog'[Len(packageUpdateLog')] = C
    BY <1>4, <2>2, <2>4
  <2>6. /\ Len(packageUpdateLog') \in CabalsAt(packageUpdateLog', p)
        /\ packageUpdateLog'[Len(packageUpdateLog')].rev = NewRevision(q)
    BY <1>3, <1>8, <2>4, <2>5 DEF CabalsAt
  <2>7. CASE p \in DOMAIN packageIndex
    <3>1. NewRevision(q) = Len(packageIndex[p].cabals)
      BY <1>8, <2>7 DEF NewRevision
    <3> QED
      BY <2>1, <2>2, <2>6, <2>7, <3>1 DEF RevisionsStep
  <2>8. CASE p \notin DOMAIN packageIndex
    <3>1. NewRevision(q) = 0
      BY <1>8, <2>8 DEF NewRevision
    <3> QED
      BY <2>1, <2>6, <3>1 DEF RevisionsStep
  <2> QED
    BY <2>7, <2>8
<1> QED
  BY <1>7, <1>8
(* Edits that leave the log alone and keep the number of revisions.        *)
LEMMA alterPackageRevisions ==
    ASSUME TypeOK, NEW q \in PackageId, NEW pkginfo, alterPackage(q, pkginfo),
           Len(pkginfo.cabals) = Len(packageIndex[q].cabals),
           NEW p \in DOMAIN packageIndex'
    PROVE  RevisionsStep(p)
<1>1. packageIndex' = Insert(q, pkginfo) /\ packageUpdateLog' = packageUpdateLog
      /\ q \in DOMAIN packageIndex
  BY DEF alterPackage
<1>2. p \in DOMAIN packageIndex /\ Len(packageIndex'[p].cabals) = Len(packageIndex[p].cabals)
  BY <1>1 DEF Insert
<1>3. Extends(packageUpdateLog', packageUpdateLog) /\ Added(packageUpdateLog', packageUpdateLog) = {}
  BY <1>1 DEF Extends, Added, TypeOK
<1> QED
  BY <1>2, <1>3 DEF RevisionsStep

LEMMA SetLatestInfoRevisions ==
    ASSUME TypeOK, NEW q \in PackageId, NEW info \in UploadInfo, SetLatestInfo(q, info),
           NEW p \in DOMAIN packageIndex'
    PROVE  RevisionsStep(p)
<1> DEFINE cs  == packageIndex[q].cabals
           r   == [cabal |-> Last(cs).cabal, info |-> info]
           new == [cabals |-> Append(Front(cs), r), tarballs |-> packageIndex[q].tarballs]
<1>1. q \in DOMAIN packageIndex
  BY DEF SetLatestInfo
<1>2. cs \in Seq(Revision) /\ cs # << >> /\ r \in Revision
  BY <1>1, PackageTyped DEF Revision
<1>3. Front(cs) \in Seq(Revision) /\ Len(Front(cs)) = Len(cs) - 1
  BY <1>2 DEF Front
<1>4. Len(new.cabals) = Len(cs)
  BY <1>2, <1>3
<1>5. alterPackage(q, new)
  BY DEF SetLatestInfo
<1> HIDE DEF new
<1> QED
  BY <1>4, <1>5, alterPackageRevisions

LEMMA AddTarballRevisions ==
    ASSUME TypeOK, NEW q \in PackageId, AddTarball(q), NEW p \in DOMAIN packageIndex'
    PROVE  RevisionsStep(p)
<1>1. PICK t \in Tarball, info \in UploadInfo : AddPackageTarball(q, t, info)
  BY DEF AddTarball
<1> DEFINE new == [cabals   |-> packageIndex[q].cabals,
                   tarballs |-> Append(packageIndex[q].tarballs,
                                       [tarball |-> t, info |-> info])]
<1>2. alterPackage(q, new) /\ new.cabals = packageIndex[q].cabals
  BY <1>1 DEF AddPackageTarball
<1> HIDE DEF new
<1> QED
  BY <1>2, alterPackageRevisions

(* An entry that is not a .cabal file.                                     *)
LEMMA AddOtherRevisions ==
    ASSUME TypeOK, migrated, NEW e \in TarIndexEntry, AddOtherIndexEntry(e),
           e.kind # "cabal", NEW p \in DOMAIN packageIndex'
    PROVE  RevisionsStep(p)
<1>1. packageIndex' = packageIndex /\ Log(<<e>>)
  BY DEF AddOtherIndexEntry
<1>2. <<e>> \in Seq(TarIndexEntry) /\ \A k \in 1 .. Len(<<e>>) : <<e>>[k] = e
  OBVIOUS
<1> QED
  BY <1>1, <1>2, OtherRevisionsStep

LEMMA DeletePackageRevisions ==
    ASSUME TypeOK, NEW q \in PackageId, DeletePackage(q), NEW p \in DOMAIN packageIndex'
    PROVE  RevisionsStep(p)
<1>1. p \in DOMAIN packageIndex /\ packageIndex'[p] = packageIndex[p]
      /\ packageUpdateLog' = packageUpdateLog
  BY DEF DeletePackage
<1>3. Extends(packageUpdateLog', packageUpdateLog) /\ Added(packageUpdateLog', packageUpdateLog) = {}
  BY <1>1 DEF Extends, Added, TypeOK
<1> QED
  BY <1>1, <1>3 DEF RevisionsStep

LEMMA NextRevisions ==
    ASSUME TypeOK, migrated, [Next]_vars, NEW p \in DOMAIN packageIndex'
    PROVE  RevisionsStep(p)
<1>1. ASSUME NEW q \in PackageId, Add(q)
      PROVE  RevisionsStep(p)
  BY <1>1, AddPackage3Revisions DEF Add
<1>2. ASSUME NEW q \in PackageId, AddRevision(q)
      PROVE  RevisionsStep(p)
  BY <1>2, AddPackageRevision2Revisions DEF AddRevision
<1>3. ASSUME NEW q \in PackageId, SetUploader(q)
      PROVE  RevisionsStep(p)
  BY <1>3, SetLatestInfoRevisions, PackageTyped
  DEF SetUploader, SetPackageUploader, UploadInfo, Revision
<1>4. ASSUME NEW q \in PackageId, SetUploadTime(q)
      PROVE  RevisionsStep(p)
  BY <1>4, SetLatestInfoRevisions, PackageTyped
  DEF SetUploadTime, SetPackageUploadTime, UploadInfo, Revision
<1>5. ASSUME NEW q \in PackageId, AddTarballEntry(q)
      PROVE  RevisionsStep(p)
  <2>1. PICK r \in DOMAIN packageIndex[q].tarballs :
           AddOtherIndexEntry(MetadataEntry(q, r - 1, packageIndex[q].tarballs[r].info.time))
    BY <1>5 DEF AddTarballEntry
  <2>2. PICK e : e = MetadataEntry(q, r - 1, packageIndex[q].tarballs[r].info.time)
    OBVIOUS
  <2>3. e \in TarIndexEntry /\ e.kind # "cabal"
    BY <1>5, <2>2, PackageTyped, EntriesTyped, EntriesTell DEF AddTarballEntry
  <2> QED
    BY <2>1, <2>2, <2>3, AddOtherRevisions
<1>6. CASE AddExtra
  <2>1. PICK f \in FilePath, t \in Time : AddOtherIndexEntry(ExtraEntry(f, t))
    BY <1>6 DEF AddExtra
  <2>2. ExtraEntry(f, t) \in TarIndexEntry /\ ExtraEntry(f, t).kind # "cabal"
    BY DEF ExtraEntry, TarIndexEntry, ExtraEntries
  <2> QED
    BY <2>1, <2>2, AddOtherRevisions
<1>7. CASE UNCHANGED vars
  <2>1. Extends(packageUpdateLog', packageUpdateLog)
        /\ Added(packageUpdateLog', packageUpdateLog) = {}
    BY <1>7 DEF vars, Extends, Added, TypeOK
  <2> QED
    BY <1>7, <2>1 DEF vars, RevisionsStep
<1> QED
  BY <1>1, <1>2, <1>3, <1>4, <1>5, <1>6, <1>7, AddTarballRevisions, DeletePackageRevisions
  DEF Next, AddOld, MigrateAddUpdateLog

(* RevisionsLogged is made inductive by what the log is before the         *)
(* migration: extra entries only, and no package is known to be in order.  *)
RevisionsInvariant ==
    /\ RevisionsLogged
    /\ ~ migrated => /\ ordered = {}
                     /\ \A i \in DOMAIN packageUpdateLog : packageUpdateLog[i].kind = "extra"

LEMMA BeforeMigration ==
    ASSUME [Next]_vars, ~ MigrateAddUpdateLog
    PROVE  /\ ordered' = ordered /\ migrated' = migrated
           /\ ~ migrated => packageUpdateLog' = packageUpdateLog
BY DEF Next, Add, AddOld, AddPackage2, AddPackage3, AddRevision, AddPackageRevision2,
       AddTarball, AddPackageTarball, SetUploader, SetPackageUploader, SetUploadTime,
       SetPackageUploadTime, SetLatestInfo, alterPackage, AddTarballEntry, AddExtra,
       AddOtherIndexEntry, DeletePackage, Log, vars

LEMMA RevisionsInit == Init => RevisionsInvariant
<1> SUFFICES ASSUME Init PROVE RevisionsInvariant
  OBVIOUS
<1>1. DOMAIN packageIndex = {} /\ (~ migrated => ordered = {})
  BY DEF Init
<1>2. ASSUME NEW i \in DOMAIN packageUpdateLog PROVE packageUpdateLog[i].kind = "extra"
  <2>1. packageUpdateLog # << >>
    OBVIOUS
  <2>2. PICK f \in FilePath, t \in Time : packageUpdateLog = <<ExtraEntry(f, t)>>
    BY <2>1 DEF Init
  <2> QED
    BY <2>2, EntriesTell
<1> QED
  BY <1>1, <1>2 DEF RevisionsInvariant, RevisionsLogged

LEMMA RevisionsLoggedStep ==
    ASSUME TypeOK, TypeOK', RevisionsLogged, migrated, [Next]_vars, ~ MigrateAddUpdateLog
    PROVE  RevisionsLogged'
<1> SUFFICES ASSUME NEW p \in ordered' \cap DOMAIN packageIndex'
             PROVE  Logged(packageUpdateLog', p, Len(packageIndex'[p].cabals))
  BY LoggedMeaningNext DEF RevisionsLoggedByLength
<1> DEFINE n == Len(packageIndex[p].cabals)
<1>1. packageUpdateLog \in Seq(TarIndexEntry) /\ packageUpdateLog' \in Seq(TarIndexEntry)
  BY DEF TypeOK
<1>2. ASSUME p \in DOMAIN packageIndex
      PROVE  n \in Nat \ {0} /\ Logged(packageUpdateLog, p, n)
  <2>1. n \in Nat \ {0}
    BY <1>2, PackageTyped
  <2>2. p \in ordered
    BY BeforeMigration
  <2> QED
    BY <1>2, <2>1, <2>2, LoggedMeaning DEF RevisionsLoggedByLength
<1>3. RevisionsStep(p)
  BY NextRevisions
<1> QED
  BY <1>1, <1>2, <1>3, LoggedElsewhere, LoggedNext, LoggedFirst DEF RevisionsStep

LEMMA RevisionsInvariantStep ==
    ASSUME TypeOK, TypeOK', RevisionsInvariant, [Next]_vars
    PROVE  RevisionsInvariant'
<1>1. CASE MigrateAddUpdateLog
  <2>1. migrated' /\ packageIndex' = packageIndex
        /\ \A p \in ordered' : p \in DOMAIN packageIndex => TimesInOrder(packageIndex[p].cabals)
    BY <1>1 DEF MigrateAddUpdateLog
  <2>2. ~ migrated
    BY <1>1 DEF MigrateAddUpdateLog
  <2>3. ASSUME NEW p \in ordered' \cap DOMAIN packageIndex'
        PROVE  Logged(packageUpdateLog', p, Len(packageIndex'[p].cabals))
    BY <1>1, <2>1, <2>2, LoggedByMigration DEF RevisionsInvariant
  <2>4. RevisionsLogged'
    BY <2>3, LoggedMeaningNext DEF RevisionsLoggedByLength
  <2> QED
    BY <2>1, <2>4 DEF RevisionsInvariant
<1>2. CASE ~ MigrateAddUpdateLog /\ ~ migrated
  <2>1. ordered' = {} /\ migrated' = migrated /\ packageUpdateLog' = packageUpdateLog
    BY <1>2, BeforeMigration DEF RevisionsInvariant
  <2>2. RevisionsLogged'
    BY <2>1 DEF RevisionsLogged
  <2> QED
    BY <1>2, <2>1, <2>2 DEF RevisionsInvariant
<1>3. CASE ~ MigrateAddUpdateLog /\ migrated
  BY <1>3, RevisionsLoggedStep, BeforeMigration DEF RevisionsInvariant
<1> QED
  BY <1>1, <1>2, <1>3

(* Every revision the index holds has its entry in the update log, and the *)
(* last entries of a package are its revisions in order, whatever was      *)
(* deleted and released again: 01-index.tar misses no revision.            *)
THEOREM RevisionsAreLogged == Spec => []RevisionsLogged
<1>1. RevisionsInvariant => RevisionsLogged
  BY DEF RevisionsInvariant
<1> QED
  BY <1>1, RevisionsInit, RevisionsInvariantStep, TypeCorrect, PTL DEF Spec
-----------------------------------------------------------------------------
(* The two formats of the index agree.                                     *)

LEMMA MaxIs ==
    ASSUME NEW S \in SUBSET Nat, NEW m \in S, \A i \in S : i <= m
    PROVE  Max(S) = m
<1>1. \A y \in S : m >= y
  OBVIOUS
<1>2. PICK x : x = Max(S)
  OBVIOUS
<1>3. x \in S /\ \A y \in S : x >= y
  BY <1>1, <1>2 DEF Max
<1>4. x \in Nat /\ m \in Nat /\ x >= m /\ m >= x
  BY <1>1, <1>3
<1>5. x = m
  BY <1>4
<1> QED
  BY <1>2, <1>5

(* The last .cabal entry of p that resolves is the one of its last         *)
(* revision.                                                               *)
LEMMA LastShown ==
    ASSUME TypeOK, RevisionsLogged, NEW p \in ordered \cap DOMAIN packageIndex
    PROVE  ClientCabal(p) = writeLegacy[p]
<1> DEFINE cs    == packageIndex[p].cabals
           shown == {i \in CabalEntriesOf(p) : Resolves(packageUpdateLog[i])}
<1>1. PICK n \in Nat \ {0} : n = Len(cs) /\ DOMAIN cs = 1 .. n
  BY PackageTyped
<1>2. PICK at : LoggedAt(at, packageUpdateLog, p, n)
  BY <1>1, LoggedMeaning DEF RevisionsLoggedByLength, Logged
<1>3. CabalEntriesOf(p) = CabalsAt(packageUpdateLog, p)
      /\ CabalsAt(packageUpdateLog, p) \subseteq Nat
  BY DEF CabalEntriesOf, CabalsAt, TypeOK
<1>4. PICK e \in TarIndexEntry : e = packageUpdateLog[at[n]]
  <2>1. at[n] \in CabalsAt(packageUpdateLog, p)
    BY <1>1, <1>2 DEF LoggedAt
  <2> QED
    BY <2>1 DEF CabalsAt, TypeOK
<1>5. e.kind = "cabal" /\ e.pkg = p /\ e.rev = n - 1
  BY <1>2, <1>4 DEF LoggedAt, CabalsAt
<1>6. Resolves(e)
  BY <1>1, <1>5 DEF Resolves
<1>7. at[n] \in shown
  BY <1>2, <1>3, <1>4, <1>6 DEF LoggedAt
<1>8. ASSUME NEW i \in shown
      PROVE  i <= at[n]
  <2>1. /\ \A r \in 1 .. n : at[r] \in Nat
        /\ i \in Nat /\ 1 \in 1 .. n /\ n \in 1 .. n
    BY <1>2, <1>3 DEF LoggedAt
  <2>2. \A r \in 1 .. n : at[r] <= at[n]
    <3> SUFFICES ASSUME NEW r \in 1 .. n PROVE at[r] <= at[n]
      OBVIOUS
    <3>1. CASE r = n
      BY <2>1, <3>1
    <3>2. CASE r < n
      BY <1>2, <2>1, <3>2 DEF LoggedAt
    <3> QED
      BY <3>1, <3>2
  <2>3. CASE i < at[1]
    BY <2>1, <2>2, <2>3
  <2>4. CASE i >= at[1]
    <3>1. PICK r \in 1 .. n : i = at[r]
      BY <1>2, <1>3, <2>4 DEF LoggedAt
    <3> QED
      BY <2>2, <3>1
  <2> QED
    BY <2>1, <2>3, <2>4
<1>9. Max(shown) = at[n]
  <2>1. shown \in SUBSET Nat
    BY <1>3
  <2> HIDE DEF shown
  <2> QED
    BY <1>7, <1>8, <2>1, MaxIs
<1>10. ClientCabal(p) = mkTarEntry(e).content
  BY <1>4, <1>7, <1>9 DEF ClientCabal
<1>11. mkTarEntry(e).content = cs[n].cabal
  BY <1>5, <1>6 DEF mkTarEntry
<1>12. writeLegacy[p] = cs[n].cabal
  BY <1>1 DEF writeLegacy, Last
<1> QED
  BY <1>10, <1>11, <1>12

(* Whichever format a client reads, it finds the same packages and the     *)
(* same current .cabal texts: 01-index.tar read to its end is 00-index.tar,*)
(* although the one is rendered from the log and the other never looks at  *)
(* it.                                                                     *)
THEOREM FormatsAgree == Spec => []IndexFormatsAgree
<1>1. TypeOK /\ RevisionsLogged => IndexFormatsAgree
  <2> SUFFICES ASSUME TypeOK, RevisionsLogged PROVE IndexFormatsAgree
    OBVIOUS
  <2>1. ASSUME NEW i \in DOMAIN packageUpdateLog,
               writeIncremental[i] # Nothing, packageUpdateLog[i].kind = "cabal"
        PROVE  packageUpdateLog[i].pkg \in DOMAIN writeLegacy
    <3>1. writeIncremental[i] = mkTarEntry(packageUpdateLog[i])
      BY DEF writeIncremental
    <3>2. Resolves(packageUpdateLog[i])
      BY <2>1, <3>1 DEF mkTarEntry
    <3>3. packageUpdateLog[i].pkg \in DOMAIN packageIndex
      BY <2>1, <3>2 DEF Resolves
    <3> QED
      BY <3>3 DEF writeLegacy
  <2> QED
    BY <2>1, LastShown DEF IndexFormatsAgree
<1> QED
  BY <1>1, TypeCorrect, RevisionsAreLogged, PTL
-----------------------------------------------------------------------------
(* The migration.                                                          *)

LEMMA OnlyMigrationMigrates ==
    ASSUME [Next]_vars, ~ migrated, migrated'
    PROVE  MigrateAddUpdateLog
<1>1. CASE migrated' = migrated
  BY <1>1
<1>2. ASSUME NEW p \in PackageId,
             \/ Add(p) \/ AddOld(p) \/ DeletePackage(p) \/ AddRevision(p) \/ AddTarball(p)
             \/ SetUploader(p) \/ SetUploadTime(p) \/ AddTarballEntry(p)
      PROVE  migrated' = migrated
  BY <1>2 DEF Add, AddOld, AddPackage2, AddPackage3, DeletePackage, AddRevision,
       AddPackageRevision2, AddTarball, AddPackageTarball, SetUploader, SetPackageUploader,
       SetUploadTime, SetPackageUploadTime, SetLatestInfo, alterPackage, AddTarballEntry,
       AddOtherIndexEntry
<1>3. CASE AddExtra \/ UNCHANGED vars
  BY <1>1, <1>3 DEF AddExtra, AddOtherIndexEntry, vars
<1> QED
  BY <1>1, <1>2, <1>3 DEF Next

(* Once the log is migrated every extra entry of the old log, every        *)
(* revision and every tarball has its entry, however many there are and    *)
(* in whatever order the sort puts those of equal time.                    *)
THEOREM MigrationLosesNothing == Spec => MigrationIsComplete
<1>1. ASSUME [Next]_vars, ~ migrated, migrated'
      PROVE  /\ Range(packageUpdateLog) \subseteq Range(packageUpdateLog')
             /\ \A p \in DOMAIN packageIndex :
                   /\ \A r \in DOMAIN packageIndex[p].cabals :
                         \E e \in Range(packageUpdateLog') :
                            e.kind = "cabal" /\ e.pkg = p /\ e.rev = r - 1
                   /\ \A r \in DOMAIN packageIndex[p].tarballs :
                         \E e \in Range(packageUpdateLog') :
                            e.kind = "metadata" /\ e.pkg = p /\ e.rev = r - 1
  <2>1. PICK logged :
          /\ logged = Range(packageUpdateLog')
          /\ logged = Range(packageUpdateLog)
                         \cup UNION {entriesForPackage(p) : p \in DOMAIN packageIndex}
    BY <1>1, OnlyMigrationMigrates DEF MigrateAddUpdateLog
  <2>2. ASSUME NEW p \in DOMAIN packageIndex, NEW r \in DOMAIN packageIndex[p].cabals
        PROVE  \E e \in logged : e.kind = "cabal" /\ e.pkg = p /\ e.rev = r - 1
    <3>1. PICK e : e = CabalFileEntry(p, r - 1, packageIndex[p].cabals[r].info)
      OBVIOUS
    <3>2. e \in entriesForPackage(p)
      BY <3>1 DEF entriesForPackage
    <3>3. e.kind = "cabal" /\ e.pkg = p /\ e.rev = r - 1
      BY <3>1 DEF CabalFileEntry
    <3> QED
      BY <2>1, <3>2, <3>3
  <2>3. ASSUME NEW p \in DOMAIN packageIndex, NEW r \in DOMAIN packageIndex[p].tarballs
        PROVE  \E e \in logged : e.kind = "metadata" /\ e.pkg = p /\ e.rev = r - 1
    <3>1. PICK e : e = MetadataEntry(p, r - 1, packageIndex[p].tarballs[r].info.time)
      OBVIOUS
    <3>2. e \in entriesForPackage(p)
      BY <3>1 DEF entriesForPackage
    <3>3. e.kind = "metadata" /\ e.pkg = p /\ e.rev = r - 1
      BY <3>1 DEF MetadataEntry
    <3> QED
      BY <2>1, <3>2, <3>3
  <2> QED
    BY <2>1, <2>2, <2>3
<1> QED
  BY <1>1, PTL DEF Spec, MigrationIsComplete
=============================================================================
