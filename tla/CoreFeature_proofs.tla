------------------------- MODULE CoreFeature_proofs -------------------------
(***************************************************************************)
(* Theorems about the index pipeline, for any number of packages, request  *)
(* threads, crashes and reloads.                                           *)
(***************************************************************************)
EXTENDS CoreFeature, SequenceTheorems, TLAPS

-----------------------------------------------------------------------------
(* Helpers on the log.                                                     *)

LEMMA EntriesAreEntries ==
    /\ \A p \in Package : CabalFileEntry(p) \in TarIndexEntry
    /\ \A p \in Package, r \in Nat : MetadataEntry(p, r) \in TarIndexEntry
    /\ ExtraEntry \in TarIndexEntry
BY DEF CabalFileEntry, MetadataEntry, ExtraEntry, TarIndexEntry

LEMMA ChangesAreEntries ==
    ASSUME NEW c \in PackageChange
    PROVE  c \in Seq(TarIndexEntry)
<1>1. CASE c = << >>
    BY <1>1
<1>2. CASE c \in [1 .. 1 -> [kind : {"metadata"}, pkg : Package, rev : Nat]]
  <2>1. c[1] \in TarIndexEntry
      BY <1>2 DEF TarIndexEntry
  <2>2. DOMAIN c = 1 .. 1 /\ c = [i \in 1 .. 1 |-> c[i]]
      BY <1>2
  <2>3. \A i \in 1 .. 1 : c[i] \in TarIndexEntry
      BY <2>1
  <2>4. c \in [1 .. 1 -> TarIndexEntry]
      BY <2>2, <2>3
  <2>5. c \in UNION {[1 .. n -> TarIndexEntry] : n \in Nat}
      BY <2>4
  <2> QED
      BY <2>5, SeqDef, Zenon
<1> QED
    BY <1>1, <1>2 DEF PackageChange

LEMMA ChangeOfTarball ==
    ASSUME NEW p \in Package, NEW n \in Nat
    PROVE  indexEntriesFor(p, n) \in PackageChange
<1>1. CASE n = 0
    BY <1>1 DEF indexEntriesFor, PackageChange
<1>2. CASE n # 0
  <2>1. MetadataEntry(p, n - 1) \in [kind : {"metadata"}, pkg : Package, rev : Nat]
      BY <1>2 DEF MetadataEntry
  <2>2. <<MetadataEntry(p, n - 1)>> \in [1 .. 1 -> [kind : {"metadata"}, pkg : Package, rev : Nat]]
      BY <2>1
  <2> QED
      BY <1>2, <2>2 DEF indexEntriesFor, PackageChange
<1> QED
    BY <1>1, <1>2

(* An append keeps what is logged and logs what is appended.               *)
LEMMA AppendKeeps ==
    ASSUME NEW es \in Seq(TarIndexEntry), log \in Seq(TarIndexEntry), AppendLog(es)
    PROVE  /\ log' \in Seq(TarIndexEntry) /\ Len(log') <= MaxLog
           /\ \A i \in DOMAIN log : i \in DOMAIN log' /\ log'[i] = log[i]
           /\ \A i \in DOMAIN es : Len(log) + i \in DOMAIN log' /\ log'[Len(log) + i] = es[i]
<1>1. log' = log \o es /\ Len(log) + Len(es) <= MaxLog
    BY DEF AppendLog
<1>2. Len(log') = Len(log) + Len(es) /\ log' \in Seq(TarIndexEntry)
    BY <1>1
<1> QED
    BY <1>1, <1>2

LEMMA AddedEntries ==
    ASSUME NEW p \in Package
    PROVE  /\ Append(indexEntriesFor(p, 1), CabalFileEntry(p)) \in Seq(TarIndexEntry)
           /\ 1 \in DOMAIN Append(indexEntriesFor(p, 1), CabalFileEntry(p))
           /\ Append(indexEntriesFor(p, 1), CabalFileEntry(p))[1] = MetadataEntry(p, 0)
<1> DEFINE m == MetadataEntry(p, 0)
           c == CabalFileEntry(p)
<1>1. indexEntriesFor(p, 1) = <<m>>
    BY DEF indexEntriesFor
<1>2. m \in TarIndexEntry /\ c \in TarIndexEntry
    BY EntriesAreEntries
<1> HIDE DEF m, c
<1>3. Append(<<m>>, c) \in Seq(TarIndexEntry) /\ 1 \in DOMAIN Append(<<m>>, c)
      /\ Append(<<m>>, c)[1] = m
    BY <1>2
<1> QED
    BY <1>1, <1>3 DEF m, c

LEMMA OneEntry ==
    ASSUME NEW e \in TarIndexEntry
    PROVE  <<e>> \in Seq(TarIndexEntry)
OBVIOUS

LEMMA SetTarballsType ==
    ASSUME Released \subseteq Package, tarballs \in [Released -> Nat],
           NEW p \in Package, NEW n \in Nat
    PROVE  /\ DOMAIN SetTarballs(p, n) = Released \cup {p}
           /\ SetTarballs(p, n) \in [Released \cup {p} -> Nat]
           /\ SetTarballs(p, n)[p] = n
           /\ \A q \in Released \ {p} : SetTarballs(p, n)[q] = tarballs[q]
BY DEF SetTarballs

-----------------------------------------------------------------------------
(* The security state.                                                     *)

SecurityType(s) ==
    s \in [files : Nat, tar : Value, version : Nat,
           signed : [files : Nat, tar : Value, version : Nat]]

(* What is signed is the state, or older than the state.                   *)
SecurityOK(s) ==
    /\ SecurityType(s)
    /\ s.files # 0 => s.signed = [files |-> s.files, tar |-> s.tar, version |-> s.version]
    /\ s.signed.version <= s.version

(* The second state is the first or has a newer snapshot.                  *)
Newer(s, t) == t.signed # s.signed => t.signed.version > s.signed.version

LEMMA UpdateOK ==
    ASSUME NEW s, SecurityType(s), s.signed.version <= s.version
    PROVE  /\ SecurityOK(updateSnapshotAndTimestamp(s))
           /\ Newer(s, updateSnapshotAndTimestamp(s))
<1> DEFINE t == updateSnapshotAndTimestamp(s)
<1>0. s.files \in Nat /\ s.tar \in Value /\ s.version \in Nat /\ s.signed.version \in Nat
    BY DEF SecurityType
<1>1. CASE s.files = 0
    BY <1>1 DEF updateSnapshotAndTimestamp, SecurityOK, Newer
<1>2. CASE s.files # 0
  <2> DEFINE sn == [files |-> s.files, tar |-> s.tar, version |-> s.version + 1]
  <2>1. t = [files |-> s.files, tar |-> s.tar, version |-> s.version + 1, signed |-> sn]
      BY <1>2 DEF updateSnapshotAndTimestamp
  <2>2. sn \in [files : Nat, tar : Value, version : Nat]
      BY <1>0
  <2>3. SecurityType(t)
      BY <2>1, <2>2, <1>0 DEF SecurityType
  <2>4. t.signed = sn /\ t.files = s.files /\ t.tar = s.tar /\ t.version = s.version + 1
      BY <2>1
  <2> HIDE DEF t
  <2>5. t.signed.version = s.version + 1
      BY <2>4
  <2>6. SecurityOK(t)
      BY <2>3, <2>4, <2>5, <1>0 DEF SecurityOK
  <2>7. Newer(s, t)
      BY <2>5, <1>0 DEF Newer
  <2> QED
      BY <2>6, <2>7 DEF t
<1> QED
    BY <1>1, <1>2

LEMMA SetFilesOK ==
    ASSUME NEW s, SecurityOK(s), NEW f \in Nat
    PROVE  /\ SecurityOK(setRootMirrorsAndKeys(s, f))
           /\ Newer(s, setRootMirrorsAndKeys(s, f))
<1> DEFINE u == [files |-> f, tar |-> s.tar, version |-> s.version, signed |-> s.signed]
<1>1. SecurityType(u) /\ u.signed = s.signed /\ u.version = s.version
    BY DEF SecurityOK, SecurityType
<1>2. u.signed.version <= u.version
    BY <1>1 DEF SecurityOK
<1>3. setRootMirrorsAndKeys(s, f) = updateSnapshotAndTimestamp(u)
    BY DEF setRootMirrorsAndKeys
<1>4. SecurityOK(updateSnapshotAndTimestamp(u)) /\ Newer(u, updateSnapshotAndTimestamp(u))
    BY <1>1, <1>2, UpdateOK
<1> QED
    BY <1>1, <1>3, <1>4 DEF Newer

LEMMA SetTarOK ==
    ASSUME NEW s, SecurityOK(s), NEW tar \in Value
    PROVE  /\ SecurityOK(setTarGzFileInfo(s, tar))
           /\ Newer(s, setTarGzFileInfo(s, tar))
<1> DEFINE u == [files |-> s.files, tar |-> tar, version |-> s.version, signed |-> s.signed]
<1>1. SecurityType(u) /\ u.signed = s.signed /\ u.version = s.version
    BY DEF SecurityOK, SecurityType
<1>2. u.signed.version <= u.version
    BY <1>1 DEF SecurityOK
<1>3. SecurityOK(updateSnapshotAndTimestamp(u)) /\ Newer(u, updateSnapshotAndTimestamp(u))
    BY <1>1, <1>2, UpdateOK
<1>4. CASE s.tar = tar
    BY <1>4 DEF setTarGzFileInfo, Newer
<1>5. CASE s.tar # tar
  <2>1. setTarGzFileInfo(s, tar) = updateSnapshotAndTimestamp(u)
      BY <1>5 DEF setTarGzFileInfo
  <2> QED
      BY <2>1, <1>1, <1>3 DEF Newer
<1> QED
    BY <1>4, <1>5

-----------------------------------------------------------------------------
(* Types.                                                                  *)

(* The variable with asynchronous updates keeps its type in every step     *)
(* that uses it by its operators.                                          *)
AvarStep ==
    \/ UNCHANGED avar
    \/ readAllAvailable \/ publish \/ hookDone
    \/ \E v \in Value : writeAsyncVar(v) \/ RenewAsyncVar(v)

LEMMA AvarType == AsyncVarTypeOK /\ AvarStep => AsyncVarTypeOK'
<1> SUFFICES ASSUME AsyncVarTypeOK, AvarStep PROVE AsyncVarTypeOK'
    OBVIOUS
<1>1. CASE UNCHANGED avar
    BY <1>1 DEF AsyncVarTypeOK, avar
<1>2. CASE readAllAvailable
    BY <1>2 DEF AsyncVarTypeOK, readAllAvailable, Last
<1>3. CASE publish
    BY <1>3 DEF AsyncVarTypeOK, publish, Evaluate, Right, Left
<1>4. CASE hookDone
    BY <1>4 DEF AsyncVarTypeOK, hookDone
<1>5. ASSUME NEW v \in Value, writeAsyncVar(v) PROVE AsyncVarTypeOK'
    BY <1>5 DEF AsyncVarTypeOK, writeAsyncVar
<1>6. ASSUME NEW v \in Value, RenewAsyncVar(v) PROVE AsyncVarTypeOK'
    BY <1>6 DEF AsyncVarTypeOK, RenewAsyncVar, Right
<1> QED
    BY <1>1, <1>2, <1>3, <1>4, <1>5, <1>6 DEF AvarStep

(* The rest of the types, by the part of the state they speak of.          *)
IndexType ==
    /\ Released \subseteq Package /\ tarballs \in [Released -> Nat]
    /\ log \in Seq(TarIndexEntry) /\ Len(log) <= MaxLog
RequestsType ==
    /\ pc \in [Request -> {"idle", "hooks", "prod", "enqueue"}]
    /\ change \in [Request -> PackageChange]
    /\ got \in [Request -> Value]
ServerType ==
    /\ phase \in {"starting", "postInit", "serving"}
    /\ disk \in Nat /\ reload \in Nat
    /\ uploaded \subseteq Package
    /\ unprodded \in BOOLEAN
    /\ missed \in BOOLEAN
    /\ crashes \in Nat

Inv ==
    /\ AsyncVarTypeOK /\ IndexType /\ RequestsType /\ ServerType
    /\ SecurityOK(security)

LEMMA InvGivesTypes == Inv => TypeOK
BY DEF Inv, SecurityOK, TypeOK, IndexType, RequestsType, ServerType, SecurityType

LEMMA LogLength == IndexType => Len(log) \in Value
BY CoreAssumption DEF IndexType

LEMMA IndexStep ==
    ASSUME IndexType, NEW p \in Package, NEW n \in Nat, tarballs' = SetTarballs(p, n),
           log' \in Seq(TarIndexEntry), Len(log') <= MaxLog
    PROVE  IndexType'
<1>1. DOMAIN tarballs' = Released \cup {p} /\ tarballs' \in [Released \cup {p} -> Nat]
    BY SetTarballsType DEF IndexType
<1>2. Released' = Released \cup {p}
    BY <1>1 DEF Released
<1> QED
    BY <1>1, <1>2 DEF IndexType

LEMMA ReportType ==
    ASSUME RequestsType, NEW w \in Request, NEW c \in PackageChange, Report(w, c)
    PROVE  RequestsType'
BY DEF RequestsType, Report

LEMMA NoChange == << >> \in PackageChange
BY DEF PackageChange

(* What a request's transaction does to the types.                         *)
LEMMA HandleType ==
    ASSUME Inv, NEW w \in Request, Handle(w)
    PROVE  Inv'
<1>0. IndexType /\ RequestsType /\ ServerType
    BY DEF Inv
<1>1. ASSUME Begin(w), IndexType', RequestsType', uploaded' \subseteq Package, UNCHANGED <<unprodded, missed>>
      PROVE  Inv'
  <2>1. AsyncVarTypeOK'
      BY <1>1, AvarType DEF Begin, AvarStep, Inv
  <2>2. UNCHANGED security /\ ServerType'
      BY <1>1, <1>0 DEF Begin, ServerType
  <2>3. SecurityOK(security)'
      BY <2>2 DEF Inv
  <2> QED
      BY <1>1, <2>1, <2>2, <2>3 DEF Inv
<1>2. ASSUME NEW p \in Package, updateAddPackage(w, p) PROVE Inv'
  <2>1. AppendLog(Append(indexEntriesFor(p, 1), CabalFileEntry(p)))
      BY <1>2 DEF updateAddPackage
  <2>2. log' \in Seq(TarIndexEntry) /\ Len(log') <= MaxLog
      BY <2>1, <1>0, AddedEntries, AppendKeeps DEF IndexType
  <2>3. IndexType'
      BY <1>2, <1>0, <2>2, IndexStep DEF updateAddPackage
  <2>4. RequestsType'
      BY <1>2, <1>0, NoChange, ReportType DEF updateAddPackage
  <2>5. uploaded' \subseteq Package
      BY <1>2, <1>0 DEF updateAddPackage, ServerType
  <2> QED
      BY <1>1, <1>2, <2>3, <2>4, <2>5 DEF updateAddPackage
<1>3. ASSUME NEW p \in Package, updateAddPackageRevision(w, p) PROVE Inv'
  <2>1. AppendLog(<<CabalFileEntry(p)>>)
      BY <1>3 DEF updateAddPackageRevision
  <2>2. log' \in Seq(TarIndexEntry) /\ Len(log') <= MaxLog
      BY <2>1, <1>0, EntriesAreEntries, OneEntry, AppendKeeps DEF IndexType
  <2>3. IndexType'
    <3>1. CASE p \in Released
        BY <1>3, <1>0, <2>2, <3>1 DEF updateAddPackageRevision, IndexType, Released
    <3>2. CASE p \notin Released
        BY <1>3, <1>0, <2>2, <3>2, IndexStep DEF updateAddPackageRevision
    <3> QED
        BY <3>1, <3>2
  <2>4. RequestsType'
      BY <1>3, <1>0, NoChange, ReportType DEF updateAddPackageRevision
  <2>5. uploaded' \subseteq Package /\ UNCHANGED <<unprodded, missed>>
      BY <1>3, <1>0 DEF updateAddPackageRevision, ServerType, history
  <2> QED
      BY <1>1, <1>3, <2>3, <2>4, <2>5 DEF updateAddPackageRevision
<1>4. ASSUME NEW p \in Package, updateAddPackageTarball(w, p) PROVE Inv'
  <2>1. p \in Released /\ tarballs[p] + 1 \in Nat
      BY <1>4, <1>0 DEF updateAddPackageTarball, IndexType
  <2>2. IndexType'
    <3>1. tarballs' = SetTarballs(p, tarballs[p] + 1) /\ log' = log
        BY <1>4 DEF updateAddPackageTarball
    <3> QED
        BY <3>1, <1>0, <2>1, IndexStep DEF IndexType
  <2>3. RequestsType'
      BY <1>4, <1>0, <2>1, ChangeOfTarball, ReportType DEF updateAddPackageTarball
  <2>4. uploaded' \subseteq Package /\ UNCHANGED <<unprodded, missed>>
      BY <1>4, <1>0 DEF updateAddPackageTarball, ServerType, history
  <2> QED
      BY <1>1, <1>4, <2>2, <2>3, <2>4 DEF updateAddPackageTarball
<1>5. ASSUME NEW p \in Package, updateSetPackage(w, p) PROVE Inv'
  <2>1. IndexType'
      BY <1>5, <1>0 DEF updateSetPackage, index, IndexType, Released
  <2>2. RequestsType'
      BY <1>5, <1>0, NoChange, ReportType DEF updateSetPackage
  <2>3. uploaded' \subseteq Package /\ UNCHANGED <<unprodded, missed>>
      BY <1>5, <1>0 DEF updateSetPackage, ServerType, history
  <2> QED
      BY <1>1, <1>5, <2>1, <2>2, <2>3 DEF updateSetPackage
<1>6. ASSUME updateArchiveIndexEntry(w) PROVE Inv'
  <2>1. AppendLog(<<ExtraEntry>>)
      BY <1>6 DEF updateArchiveIndexEntry
  <2>2. log' \in Seq(TarIndexEntry) /\ Len(log') <= MaxLog
      BY <2>1, <1>0, EntriesAreEntries, OneEntry, AppendKeeps DEF IndexType
  <2>3. IndexType'
      BY <1>6, <1>0, <2>2 DEF updateArchiveIndexEntry, IndexType, Released
  <2>4. RequestsType'
      BY <1>6, <1>0, NoChange, ReportType DEF updateArchiveIndexEntry
  <2>5. uploaded' \subseteq Package /\ UNCHANGED <<unprodded, missed>>
      BY <1>6, <1>0 DEF updateArchiveIndexEntry, ServerType, history
  <2> QED
      BY <1>1, <1>6, <2>3, <2>4, <2>5 DEF updateArchiveIndexEntry
<1> QED
    BY <1>2, <1>3, <1>4, <1>5, <1>6 DEF Handle

(* Requests, after the transaction.                                        *)
LEMMA HookType ==
    ASSUME Inv, NEW w \in Request,
           Abort(w) \/ addOtherIndexEntries(w) \/ getIndexTarball(w) \/ prodIndexTar(w)
    PROVE  Inv'
<1>0. AsyncVarTypeOK /\ IndexType /\ RequestsType /\ ServerType /\ SecurityOK(security)
    BY DEF Inv
<1>1. 0 \in Value /\ Len(log) \in Value
    BY CoreAssumption, LogLength, <1>0
<1>2. CASE Abort(w)
  <2>1. AsyncVarTypeOK'
      BY <1>2, <1>0, AvarType DEF Abort, AvarStep
  <2>2. IndexType' /\ SecurityOK(security)'
      BY <1>2, <1>0 DEF Abort, index, IndexType, Released
  <2>3. RequestsType'
      BY <1>2, <1>0, <1>1, NoChange DEF Abort, RequestsType
  <2>4. ServerType'
      BY <1>2, <1>0 DEF Abort, ServerType
  <2> QED
      BY <2>1, <2>2, <2>3, <2>4 DEF Inv
<1>3. CASE addOtherIndexEntries(w)
  <2>1. AsyncVarTypeOK'
      BY <1>3, <1>0, AvarType DEF addOtherIndexEntries, AvarStep
  <2>2. change[w] \in Seq(TarIndexEntry) /\ AppendLog(change[w])
      BY <1>3, <1>0, ChangesAreEntries DEF addOtherIndexEntries, RequestsType
  <2>3. log' \in Seq(TarIndexEntry) /\ Len(log') <= MaxLog
      BY <2>2, <1>0, AppendKeeps DEF IndexType
  <2>4. IndexType' /\ SecurityOK(security)'
      BY <1>3, <1>0, <2>3 DEF addOtherIndexEntries, IndexType, Released
  <2>5. RequestsType'
      BY <1>3, <1>0, NoChange DEF addOtherIndexEntries, RequestsType
  <2>6. ServerType'
      BY <1>3, <1>0 DEF addOtherIndexEntries, ServerType, history
  <2> QED
      BY <2>1, <2>4, <2>5, <2>6 DEF Inv
<1>4. CASE getIndexTarball(w)
  <2>1. AsyncVarTypeOK'
      BY <1>4, <1>0, AvarType DEF getIndexTarball, AvarStep
  <2>2. IndexType' /\ SecurityOK(security)'
      BY <1>4, <1>0 DEF getIndexTarball, index, IndexType, Released
  <2>3. RequestsType'
      BY <1>4, <1>0, <1>1 DEF getIndexTarball, RequestsType
  <2>4. ServerType'
      BY <1>4, <1>0 DEF getIndexTarball, ServerType, history
  <2> QED
      BY <2>1, <2>2, <2>3, <2>4 DEF Inv
<1>5. CASE prodIndexTar(w)
  <2>1. AsyncVarTypeOK'
      BY <1>5, <1>0, AvarType DEF prodIndexTar, AvarStep, RequestsType
  <2>2. IndexType' /\ SecurityOK(security)'
      BY <1>5, <1>0 DEF prodIndexTar, index, IndexType, Released
  <2>3. RequestsType'
      BY <1>5, <1>0, <1>1 DEF prodIndexTar, RequestsType
  <2>4. ServerType'
      BY <1>5, <1>0 DEF prodIndexTar, ServerType
  <2> QED
      BY <2>1, <2>2, <2>3, <2>4 DEF Inv
<1> QED
    BY <1>2, <1>3, <1>4, <1>5

(* Every other step, with what it does to the signed content.              *)
ServerStep ==
    \/ Take \/ Publish \/ RunHook
    \/ resignSnapshotAndTimestamp \/ ReplaceFiles
    \/ loadRootMirrorsAndKeys \/ storeRootMirrorsAndKeys
    \/ RegisterHook \/ Serve \/ Crash

LEMMA SignStep ==
    ASSUME Inv, ServerStep
    PROVE  SecurityOK(security') /\ Newer(security, security')
<1>0. /\ SecurityOK(security) /\ outVar.value \in Value /\ reload \in Nat
    BY DEF Inv, AsyncVarTypeOK, ServerType
<1>1. CASE UNCHANGED security
    BY <1>0, <1>1 DEF Newer
<1>2. CASE RunHook
    BY <1>0, <1>1, <1>2, SetTarOK DEF RunHook
<1>3. CASE resignSnapshotAndTimestamp
  <2>1. security' = updateSnapshotAndTimestamp(security)
      BY <1>3 DEF resignSnapshotAndTimestamp
  <2>2. SecurityType(security) /\ security.signed.version <= security.version
      BY <1>0 DEF SecurityOK
  <2> QED
      BY <2>1, <2>2, UpdateOK
<1>4. CASE storeRootMirrorsAndKeys
    BY <1>0, <1>1, <1>4, SetFilesOK DEF storeRootMirrorsAndKeys
<1> QED
    BY <1>1, <1>2, <1>3, <1>4
    DEF ServerStep, Take, Publish, ReplaceFiles, loadRootMirrorsAndKeys,
        RegisterHook, Serve, Crash

LEMMA ServerTypes ==
    ASSUME Inv, ServerStep
    PROVE  Inv'
<1>0. AsyncVarTypeOK /\ IndexType /\ RequestsType /\ ServerType
    BY DEF Inv
<1>1. SecurityOK(security)'
    BY SignStep
<1>2. AsyncVarTypeOK'
  <2>1. Len(log) \in Value
      BY <1>0, LogLength
  <2>2. AvarStep
      BY <2>1 DEF ServerStep, AvarStep, Take, Publish, RunHook, resignSnapshotAndTimestamp,
                  ReplaceFiles, loadRootMirrorsAndKeys, storeRootMirrorsAndKeys,
                  RegisterHook, Serve, Crash
  <2> QED
      BY <2>2, <1>0, AvarType
<1>3. IndexType'
  <2>1. UNCHANGED index
      BY DEF ServerStep, Take, Publish, RunHook, resignSnapshotAndTimestamp,
             ReplaceFiles, loadRootMirrorsAndKeys, storeRootMirrorsAndKeys,
             RegisterHook, Serve, Crash
  <2> QED
      BY <2>1, <1>0 DEF index, IndexType, Released
<1>4. RequestsType'
  <2>1. CASE UNCHANGED requests
      BY <2>1, <1>0 DEF requests, RequestsType
  <2>2. CASE Crash
      BY <2>2, NoChange, CoreAssumption DEF Crash, RequestsType
  <2> QED
      BY <2>1, <2>2
      DEF ServerStep, Take, Publish, RunHook, resignSnapshotAndTimestamp,
          ReplaceFiles, loadRootMirrorsAndKeys, storeRootMirrorsAndKeys, RegisterHook, Serve
<1>5. ServerType'
  <2>1. CASE UNCHANGED <<phase, disk, reload, history, crashes>>
      BY <2>1, <1>0 DEF ServerType, history
  <2>2. CASE Crash
    <3>1. /\ phase' = "starting" /\ disk' = disk /\ reload' = 0 /\ uploaded' = uploaded
          /\ unprodded' = FALSE /\ missed' = FALSE /\ crashes' = crashes + 1
        BY <2>2, Zenon DEF Crash
    <3>2. disk' \in Nat /\ reload' \in Nat /\ crashes' \in Nat /\ uploaded' \subseteq Package
        BY <3>1, <1>0 DEF ServerType
    <3> QED
        BY <3>1, <3>2, Zenon DEF ServerType
  <2>3. CASE ReplaceFiles
      BY <2>3, <1>0 DEF ReplaceFiles, ServerType, history
  <2>4. CASE loadRootMirrorsAndKeys
      BY <2>4, <1>0 DEF loadRootMirrorsAndKeys, ServerType, history
  <2>5. CASE storeRootMirrorsAndKeys
      BY <2>5, <1>0 DEF storeRootMirrorsAndKeys, ServerType, history
  <2>6. CASE RegisterHook \/ Serve
      BY <2>6, <1>0 DEF RegisterHook, Serve, ServerType, history
  <2>7. CASE Take \/ Publish \/ resignSnapshotAndTimestamp
      BY <2>1, <2>7 DEF Take, Publish, resignSnapshotAndTimestamp
  <2>8. CASE RunHook
      BY <2>8, <1>0 DEF RunHook, ServerType
  <2> QED
      BY <2>2, <2>3, <2>4, <2>5, <2>6, <2>7, <2>8 DEF ServerStep
<1> QED
    BY <1>1, <1>2, <1>3, <1>4, <1>5 DEF Inv

LEMMA StepParts ==
    [Next]_vars <=> \/ \E w \in Request :
                          \/ Handle(w)
                          \/ Abort(w) \/ addOtherIndexEntries(w)
                          \/ getIndexTarball(w) \/ prodIndexTar(w)
                    \/ ServerStep
                    \/ UNCHANGED vars
BY DEF Next, ServerStep

LEMMA InvStep == Inv /\ [Next]_vars => Inv'
<1>1. ASSUME Inv, UNCHANGED vars PROVE Inv'
  <2> USE <1>1 DEF vars
  <2>1. AsyncVarTypeOK'
      BY AvarType DEF AvarStep, Inv
  <2>2. IndexType' /\ RequestsType'
      BY DEF Inv, IndexType, RequestsType, index, requests, Released
  <2>3. ServerType' /\ SecurityOK(security)'
      BY DEF Inv, ServerType, history
  <2> QED
      BY <2>1, <2>2, <2>3 DEF Inv
<1> QED
    BY <1>1, HandleType, HookType, ServerTypes, StepParts

LEMMA InvInit == Init => Inv
<1> SUFFICES ASSUME Init PROVE Inv
    OBVIOUS
<1>1. 0 \in Value /\ << >> \in Seq(TarIndexEntry) /\ <<0>> \in Seq(Value)
    BY CoreAssumption
<1>2. AsyncVarTypeOK
    BY <1>1 DEF Init, NewAsyncVar, AsyncVarTypeOK, Right
<1>3. IndexType
    BY <1>1, CoreAssumption DEF Init, IndexType, Released
<1>4. RequestsType
    BY <1>1, NoChange DEF Init, RequestsType
<1>5. ServerType
    BY DEF Init, ServerType
<1>6. SecurityOK(security)
    BY <1>1 DEF Init, Nothing, SecurityOK, SecurityType
<1> QED
    BY <1>2, <1>3, <1>4, <1>5, <1>6 DEF Inv

-----------------------------------------------------------------------------
(* The variables of the index pipeline keep their types.                   *)
THEOREM TypeCorrect == Spec => []TypeOK
BY InvInit, InvStep, InvGivesTypes, PTL DEF Spec

(* The signed snapshot is always that of the current security state, in    *)
(* whatever order hooks, cron job and reloads change it.                   *)
THEOREM SignedContentIsCurrent == Spec => []SignedMatchesState
<1>1. Inv => SignedMatchesState
    BY DEF Inv, SecurityOK, SignedMatchesState
<1> QED
    BY <1>1, InvInit, InvStep, PTL DEF Spec

(* No two contents are signed under one version, and no older version is   *)
(* signed later.                                                           *)
THEOREM SnapshotVersionsIncrease == Spec => VersionsIncrease
<1>1. ASSUME Inv, [Next]_vars PROVE Newer(security, security')
  <2>1. CASE ServerStep
      BY <2>1, <1>1, SignStep
  <2>2. CASE UNCHANGED security
      BY <2>2 DEF Newer
  <2> QED
      BY <2>1, <2>2, <1>1, StepParts
      DEF Handle, updateAddPackage, updateAddPackageRevision, updateAddPackageTarball,
          updateSetPackage, updateArchiveIndexEntry, Begin, Abort, addOtherIndexEntries,
          getIndexTarball, prodIndexTar, vars
<1>2. Inv /\ [Next]_vars
        => [security'.signed # security.signed
              => security'.signed.version > security.signed.version]_vars
    BY <1>1 DEF Newer
<1> QED
    BY <1>2, InvInit, InvStep, PTL DEF Spec, VersionsIncrease

-----------------------------------------------------------------------------
(* Entries in the log.                                                     *)

LEMMA LogKept ==
    ASSUME Inv, [Next]_vars
    PROVE  \A i \in DOMAIN log : i \in DOMAIN log' /\ log'[i] = log[i]
<1>0. IndexType /\ RequestsType
    BY DEF Inv
<1>1. CASE log' = log
    BY <1>1
<1>2. ASSUME NEW es \in Seq(TarIndexEntry), AppendLog(es)
      PROVE  \A i \in DOMAIN log : i \in DOMAIN log' /\ log'[i] = log[i]
    BY <1>0, <1>2, AppendKeeps DEF IndexType
<1>3. CASE ServerStep \/ UNCHANGED vars
    BY <1>1, <1>3
    DEF ServerStep, Take, Publish, RunHook, resignSnapshotAndTimestamp, ReplaceFiles,
        loadRootMirrorsAndKeys, storeRootMirrorsAndKeys, RegisterHook, Serve, Crash, index, vars
<1>4. ASSUME NEW w \in Request, addOtherIndexEntries(w)
      PROVE  \A i \in DOMAIN log : i \in DOMAIN log' /\ log'[i] = log[i]
    BY <1>0, <1>2, <1>4, ChangesAreEntries DEF addOtherIndexEntries, RequestsType
<1>5. ASSUME NEW w \in Request, Abort(w) \/ getIndexTarball(w) \/ prodIndexTar(w)
      PROVE  log' = log
    BY <1>5 DEF Abort, getIndexTarball, prodIndexTar, index
<1>6. ASSUME NEW w \in Request, Handle(w)
      PROVE  \A i \in DOMAIN log : i \in DOMAIN log' /\ log'[i] = log[i]
  <2>1. ASSUME NEW p \in Package, updateAddPackage(w, p)
        PROVE  \E es \in Seq(TarIndexEntry) : AppendLog(es)
      BY <2>1, AddedEntries DEF updateAddPackage
  <2>2. ASSUME NEW p \in Package, updateAddPackageRevision(w, p)
        PROVE  \E es \in Seq(TarIndexEntry) : AppendLog(es)
      BY <2>2, EntriesAreEntries, OneEntry DEF updateAddPackageRevision
  <2>3. ASSUME updateArchiveIndexEntry(w)
        PROVE  \E es \in Seq(TarIndexEntry) : AppendLog(es)
      BY <2>3, EntriesAreEntries, OneEntry DEF updateArchiveIndexEntry
  <2>4. ASSUME NEW p \in Package, updateAddPackageTarball(w, p) \/ updateSetPackage(w, p)
        PROVE  log' = log
      BY <2>4 DEF updateAddPackageTarball, updateSetPackage, index
  <2> QED
      BY <1>1, <1>2, <1>6, <2>1, <2>2, <2>3, <2>4 DEF Handle
<1> QED
    BY <1>1, <1>3, <1>4, <1>5, <1>6, StepParts

LEMMA LoggedStays ==
    ASSUME Inv, [Next]_vars, NEW CONSTANT e, Logged(e)
    PROVE  Logged(e)'
<1>1. PICK i \in DOMAIN log : log[i] = e
    BY DEF Logged
<1>2. i \in DOMAIN log' /\ log'[i] = e
    BY <1>1, LogKept
<1> QED
    BY <1>2 DEF Logged

LEMMA MetadataIsRigid ==
    ASSUME NEW CONSTANT p, NEW CONSTANT r
    PROVE  Logged(MetadataEntry(p, r))' <=> \E i \in DOMAIN log' : log'[i] = MetadataEntry(p, r)
BY DEF Logged, MetadataEntry

(* An uploaded package has its entry at once.                              *)
LEMMA AddLogs ==
    ASSUME Inv, NEW CONSTANT w \in Request, NEW CONSTANT p \in Package, updateAddPackage(w, p)
    PROVE  Logged(MetadataEntry(p, 0))'
<1> DEFINE es == Append(indexEntriesFor(p, 1), CabalFileEntry(p))
<1>1. es \in Seq(TarIndexEntry) /\ 1 \in DOMAIN es /\ es[1] = MetadataEntry(p, 0)
    BY AddedEntries
<1>2. AppendLog(es) /\ log \in Seq(TarIndexEntry)
    BY DEF updateAddPackage, Inv, IndexType
<1>3. Len(log) + 1 \in DOMAIN log' /\ log'[Len(log) + 1] = MetadataEntry(p, 0)
    BY <1>1, <1>2, AppendKeeps
<1> QED
    BY <1>3, MetadataIsRigid

LEMMA UploadsStep ==
    ASSUME Inv, UploadsHavePackageJson, [Next]_vars
    PROVE  UploadsHavePackageJson'
<1>0. uploaded \subseteq Package
    BY DEF Inv, ServerType
<1> SUFFICES ASSUME NEW CONSTANT p, p \in uploaded'
             PROVE  Logged(MetadataEntry(p, 0))'
    BY DEF UploadsHavePackageJson
<1>1. CASE p \in uploaded
  <2>1. Logged(MetadataEntry(p, 0))
      BY <1>1 DEF UploadsHavePackageJson
  <2> QED
      BY <2>1, LoggedStays
<1>2. CASE p \notin uploaded
  <2>1. CASE \E w \in Request, q \in Package : updateAddPackage(w, q)
    <3>1. PICK w \in Request, q \in Package : updateAddPackage(w, q)
        BY <2>1
    <3>2. q = p
        BY <1>2, <3>1 DEF updateAddPackage
    <3> QED
        BY <3>1, <3>2, AddLogs
  <2>2. CASE uploaded' = uploaded
      BY <1>2, <2>2
  <2> QED
      BY <2>1, <2>2, StepParts
      DEF ServerStep, Take, Publish, RunHook, resignSnapshotAndTimestamp, ReplaceFiles,
          loadRootMirrorsAndKeys, storeRootMirrorsAndKeys, RegisterHook, Serve, Crash, vars,
          history, Abort, addOtherIndexEntries, getIndexTarball, prodIndexTar, Handle,
          updateAddPackageRevision, updateAddPackageTarball, updateSetPackage,
          updateArchiveIndexEntry
<1> QED
    BY <1>1, <1>2

(* "We never get a successful upload with no attendant package.json file", *)
(* whoever is killed and whenever the server crashes.                      *)
THEOREM NoUploadWithoutPackageJson == Spec => []UploadsHavePackageJson
<1>1. Init => UploadsHavePackageJson
    BY DEF Init, UploadsHavePackageJson
<1>2. Inv /\ UploadsHavePackageJson /\ [Next]_vars => UploadsHavePackageJson'
    BY UploadsStep
<1> QED
    BY <1>1, <1>2, InvInit, InvStep, PTL DEF Spec

-----------------------------------------------------------------------------
(* The entry of a tarball is in the log, or on its way, or lost with its   *)
(* request; and so it stays.                                               *)
Accounted(p, r) ==
    \/ Logged(MetadataEntry(p, r))
    \/ <<p, r>> \in orphaned
    \/ \E w \in Request : <<p, r>> \in Pending(w)

LEMMA PendingIsChange ==
    ASSUME Inv, NEW w \in Request, NEW p, NEW r, <<p, r>> \in Pending(w)
    PROVE  /\ pc[w] = "hooks"
           /\ 1 \in DOMAIN change[w] /\ change[w][1] = MetadataEntry(p, r)
<1>1. pc[w] = "hooks" /\ <<p, r>> \in TarballOf(change[w])
    BY DEF Pending
<1>2. change[w] \in PackageChange
    BY DEF Inv, RequestsType
<1>3. PICK i \in DOMAIN change[w] : <<p, r>> = <<change[w][i].pkg, change[w][i].rev>>
    BY <1>1 DEF TarballOf
<1>4. change[w] \in [1 .. 1 -> [kind : {"metadata"}, pkg : Package, rev : Nat]]
    BY <1>2, <1>3 DEF PackageChange
<1>5. i = 1 /\ 1 \in DOMAIN change[w]
    BY <1>3, <1>4
<1>6. change[w][1] \in [kind : {"metadata"}, pkg : Package, rev : Nat]
    BY <1>4
<1>7. change[w][1] = [kind |-> "metadata", pkg |-> change[w][1].pkg, rev |-> change[w][1].rev]
    BY <1>6
<1>8. change[w][1].pkg = p /\ change[w][1].rev = r
    BY <1>3, <1>5
<1> QED
    BY <1>1, <1>5, <1>7, <1>8 DEF MetadataEntry

LEMMA PendingKept ==
    ASSUME NEW v \in Request, pc'[v] = pc[v], change'[v] = change[v]
    PROVE  Pending(v)' = Pending(v)
BY DEF Pending, TarballOf

LEMMA AccountedStays ==
    ASSUME Inv, [Next]_vars, NEW CONSTANT p, NEW CONSTANT r, Accounted(p, r)
    PROVE  Accounted(p, r)'
<1>0. RequestsType /\ IndexType
    BY DEF Inv
<1>1. CASE Logged(MetadataEntry(p, r))
    BY <1>1, LoggedStays, MetadataIsRigid DEF Accounted, MetadataEntry
<1>2. CASE <<p, r>> \in orphaned
  <2>1. orphaned \subseteq orphaned'
      BY StepParts
      DEF ServerStep, Take, Publish, RunHook, resignSnapshotAndTimestamp, ReplaceFiles,
          loadRootMirrorsAndKeys, storeRootMirrorsAndKeys, RegisterHook, Serve, Crash, vars,
          history, Abort, addOtherIndexEntries, getIndexTarball, prodIndexTar, Handle,
          updateAddPackage, updateAddPackageRevision, updateAddPackageTarball,
          updateSetPackage, updateArchiveIndexEntry
  <2> QED
      BY <1>2, <2>1 DEF Accounted
<1>3. CASE \E w \in Request : <<p, r>> \in Pending(w)
  <2>1. PICK v \in Request : <<p, r>> \in Pending(v)
      BY <1>3
  <2>2. pc[v] = "hooks" /\ 1 \in DOMAIN change[v] /\ change[v][1] = MetadataEntry(p, r)
      BY <2>1, PendingIsChange
  <2>3. CASE pc'[v] = pc[v] /\ change'[v] = change[v]
      BY <2>1, <2>3, PendingKept DEF Accounted
  <2>4. CASE Crash
    <3>1. orphaned' = orphaned \cup UNION {Pending(w) : w \in Request}
        BY <2>4 DEF Crash
    <3> QED
        BY <3>1, <2>1 DEF Accounted
  <2>5. CASE Abort(v)
      BY <2>1, <2>5 DEF Abort, Accounted
  <2>6. CASE addOtherIndexEntries(v)
    <3>1. change[v] \in Seq(TarIndexEntry) /\ AppendLog(change[v]) /\ log \in Seq(TarIndexEntry)
        BY <1>0, <2>6, ChangesAreEntries DEF addOtherIndexEntries, RequestsType, IndexType
    <3>2. Len(log) + 1 \in DOMAIN log' /\ log'[Len(log) + 1] = MetadataEntry(p, r)
        BY <2>2, <3>1, AppendKeeps
    <3> QED
        BY <3>2, MetadataIsRigid DEF Accounted
  <2>7. CASE UNCHANGED requests
      BY <2>3, <2>7 DEF requests
  <2>8. ASSUME NEW w \in Request,
               Abort(w) \/ addOtherIndexEntries(w) \/ getIndexTarball(w) \/ prodIndexTar(w)
        PROVE  Accounted(p, r)'
    <3>1. CASE w = v
        BY <2>2, <2>5, <2>6, <2>8, <3>1 DEF getIndexTarball, prodIndexTar
    <3>2. CASE w # v
        BY <1>0, <2>3, <2>8, <3>2
        DEF RequestsType, Abort, addOtherIndexEntries, getIndexTarball, prodIndexTar
    <3> QED
        BY <3>1, <3>2
  <2>9. ASSUME NEW w \in Request, Handle(w) PROVE Accounted(p, r)'
    <3>1. pc[w] = "idle"
        BY <2>9 DEF Handle, updateAddPackage, updateAddPackageRevision, updateAddPackageTarball,
                    updateSetPackage, updateArchiveIndexEntry, Begin
    <3>2. w # v
        BY <2>2, <3>1
    <3>3. \E c : Report(w, c)
        BY <2>9 DEF Handle, updateAddPackage, updateAddPackageRevision, updateAddPackageTarball,
                    updateSetPackage, updateArchiveIndexEntry
    <3> QED
        BY <1>0, <2>3, <3>2, <3>3 DEF Report, RequestsType
  <2> QED
      BY <2>4, <2>7, <2>8, <2>9, StepParts
      DEF ServerStep, Take, Publish, RunHook, resignSnapshotAndTimestamp, ReplaceFiles,
          loadRootMirrorsAndKeys, storeRootMirrorsAndKeys, RegisterHook, Serve, vars
<1> QED
    BY <1>1, <1>2, <1>3 DEF Accounted

(* A new tarball is accounted for by the step that adds it.                *)
LEMMA NewTarball ==
    ASSUME Inv, [Next]_vars, NEW CONSTANT p \in Package, p \in Released',
           NEW CONSTANT r \in 0 .. tarballs'[p] - 1,
           ~ (p \in Released /\ r \in 0 .. tarballs[p] - 1)
    PROVE  Accounted(p, r)'
<1>0. RequestsType /\ IndexType
    BY DEF Inv
<1>1. tarballs' # tarballs
    BY DEF Released
<1>2. PICK w \in Request : Handle(w)
    BY <1>1, StepParts
    DEF ServerStep, Take, Publish, RunHook, resignSnapshotAndTimestamp, ReplaceFiles,
        loadRootMirrorsAndKeys, storeRootMirrorsAndKeys, RegisterHook, Serve, Crash, vars,
        index, Abort, addOtherIndexEntries, getIndexTarball, prodIndexTar
<1>3. ASSUME NEW q \in Package, NEW n \in Nat, tarballs' = SetTarballs(q, n)
      PROVE  q = p /\ r \in 0 .. n - 1
  <2>1. DOMAIN tarballs' = Released \cup {q} /\ tarballs'[q] = n
      BY <1>3 DEF SetTarballs
  <2>2. ASSUME q # p
        PROVE  p \in Released /\ tarballs'[p] = tarballs[p]
    <3>1. p \in Released
        BY <2>1, <2>2 DEF Released
    <3> QED
        BY <1>3, <2>2, <3>1 DEF SetTarballs
  <2>3. q = p
    <3>1. SUFFICES ASSUME q # p PROVE FALSE
        OBVIOUS
    <3>2. p \in Released /\ tarballs'[p] = tarballs[p]
        BY <2>2, <3>1
    <3> QED
        BY <3>2
  <2> QED
      BY <2>1, <2>3
<1>4. CASE \E q \in Package : updateAddPackage(w, q)
  <2>1. PICK q \in Package : updateAddPackage(w, q)
      BY <1>4
  <2>2. q = p /\ r \in 0 .. 1 - 1
      BY <2>1, <1>3 DEF updateAddPackage
  <2>3. r = 0
      BY <2>2
  <2> QED
      BY <2>1, <2>2, <2>3, AddLogs DEF Accounted
<1>5. CASE \E q \in Package : updateAddPackageTarball(w, q)
  <2>1. PICK q \in Package : updateAddPackageTarball(w, q)
      BY <1>5
  <2>2. q \in Released /\ tarballs[q] \in Nat /\ tarballs' = SetTarballs(q, tarballs[q] + 1)
      BY <2>1, <1>0 DEF updateAddPackageTarball, IndexType
  <2>3. q = p /\ r \in 0 .. tarballs[q] + 1 - 1
      BY <2>2, <1>3
  <2>4. r = tarballs[p] /\ p \in Released /\ tarballs[p] + 1 # 0 /\ tarballs[p] + 1 - 1 = r
      BY <2>2, <2>3
  <2>5. indexEntriesFor(p, tarballs[p] + 1) = <<MetadataEntry(p, r)>>
      BY <2>4 DEF indexEntriesFor
  <2>6. pc'[w] = "hooks" /\ change'[w] = <<MetadataEntry(p, r)>>
      BY <1>0, <2>1, <2>3, <2>5 DEF updateAddPackageTarball, Report, RequestsType
  <2>7. 1 \in DOMAIN change'[w] /\ change'[w][1].pkg = p /\ change'[w][1].rev = r
      BY <2>6 DEF MetadataEntry
  <2>8. <<p, r>> \in Pending(w)'
      BY <2>6, <2>7 DEF Pending, TarballOf
  <2> QED
      BY <2>8 DEF Accounted
<1>6. CASE \E q \in Package : updateAddPackageRevision(w, q)
  <2>1. PICK q \in Package : updateAddPackageRevision(w, q)
      BY <1>6
  <2>2. tarballs' = SetTarballs(q, 0)
      BY <2>1, <1>1 DEF updateAddPackageRevision
  <2>3. r \in 0 .. 0 - 1
      BY <2>2, <1>3
  <2> QED
      BY <2>3
<1>7. CASE (\E q \in Package : updateSetPackage(w, q)) \/ updateArchiveIndexEntry(w)
    BY <1>1, <1>7 DEF updateSetPackage, updateArchiveIndexEntry, index
<1> QED
    BY <1>2, <1>4, <1>5, <1>6, <1>7 DEF Handle

(* No entry of a tarball is lost to another request: it is missing only if *)
(* the request that added the tarball died.                                *)
THEOREM TarballEntriesAreNotLost == Spec => []TarballsGetEntries
<1>1. Init => TarballsGetEntries
    BY DEF Init, TarballsGetEntries, Released
<1>2. ASSUME Inv, TarballsGetEntries, [Next]_vars PROVE TarballsGetEntries'
  <2> SUFFICES ASSUME NEW CONSTANT p, p \in Released', NEW CONSTANT r, r \in 0 .. tarballs'[p] - 1
               PROVE  Accounted(p, r)'
      BY DEF TarballsGetEntries, Accounted
  <2>1. CASE p \in Released /\ r \in 0 .. tarballs[p] - 1
    <3>1. Accounted(p, r)
        BY <1>2, <2>1 DEF TarballsGetEntries, Accounted
    <3> QED
        BY <1>2, <3>1, AccountedStays
  <2>2. CASE ~ (p \in Released /\ r \in 0 .. tarballs[p] - 1)
    <3>1. p \in Package
        BY <1>2, InvStep DEF Inv, IndexType
    <3> QED
        BY <1>2, <2>2, <3>1, NewTarball
  <2> QED
      BY <2>1, <2>2
<1> QED
    BY <1>1, <1>2, InvInit, InvStep, PTL DEF Spec
-----------------------------------------------------------------------------
(* What is signed is what is served.  While the server starts, a loop      *)
(* thread at rest has yet to take the first index, could not evaluate it,  *)
(* or has published it with nobody listening.                              *)

Served ==
    loop = "waiting" /\ inChan = << >> /\ outVar.ok
        => missed \/ (phase # "starting" /\ security.tar = outVar.value)

LEMMA SigningKeepsTar ==
    ASSUME NEW s, NEW f
    PROVE  /\ updateSnapshotAndTimestamp(s).tar = s.tar
           /\ setRootMirrorsAndKeys(s, f).tar = s.tar
BY DEF updateSnapshotAndTimestamp, setRootMirrorsAndKeys

LEMMA SetTarSets ==
    ASSUME NEW s, NEW tar
    PROVE  setTarGzFileInfo(s, tar).tar = tar
BY DEF setTarGzFileInfo, updateSnapshotAndTimestamp

LEMMA ServedStep ==
    ASSUME Inv, Served, [Next]_vars
    PROVE  Served'
<1>0. inChan \in Seq(Value)
    BY DEF Inv, AsyncVarTypeOK
<1>1. CASE UNCHANGED <<avar, phase, missed>> /\ security'.tar = security.tar
    BY <1>1 DEF Served, avar
<1>2. ASSUME NEW w \in Request,
             Handle(w) \/ Abort(w) \/ addOtherIndexEntries(w) \/ getIndexTarball(w)
      PROVE  Served'
    BY <1>1, <1>2 DEF Handle, updateAddPackage, updateAddPackageRevision,
           updateAddPackageTarball, updateSetPackage, updateArchiveIndexEntry, Begin, Abort,
           addOtherIndexEntries, getIndexTarball, history
<1>3. ASSUME NEW w \in Request, prodIndexTar(w) PROVE Served'
  <2>1. PICK v \in Value : inChan' = Append(inChan, v)
      BY <1>3 DEF prodIndexTar, writeAsyncVar, Inv, RequestsType
  <2>2. inChan' # << >>
      BY <1>0, <2>1
  <2> QED
      BY <1>3, <2>2 DEF prodIndexTar, writeAsyncVar, Served, history
<1>4. CASE Take
    BY <1>4 DEF Take, readAllAvailable, Served, history
<1>5. CASE Publish
    BY <1>5 DEF Publish, publish, Evaluate, Left, Right, Served, history
<1>6. CASE RunHook
    BY <1>6, SetTarSets DEF RunHook, hookDone, Served
<1>7. CASE resignSnapshotAndTimestamp \/ ReplaceFiles \/ loadRootMirrorsAndKeys
    BY <1>1, <1>7, SigningKeepsTar
    DEF resignSnapshotAndTimestamp, ReplaceFiles, loadRootMirrorsAndKeys, history
<1>8. CASE storeRootMirrorsAndKeys
  <2>1. security'.tar = security.tar /\ UNCHANGED <<avar, missed>> /\ phase' = "serving"
      BY <1>8, SigningKeepsTar DEF storeRootMirrorsAndKeys, history
  <2> QED
      BY <2>1 DEF Served, avar
<1>9. CASE RegisterHook \/ Serve
    BY <1>9 DEF RegisterHook, Serve, Served, avar, history
<1>10. CASE Crash
    BY <1>10 DEF Crash, RenewAsyncVar, Served
<1>11. CASE UNCHANGED vars
    BY <1>1, <1>11 DEF vars, history
<1> QED
    BY <1>2, <1>3, <1>4, <1>5, <1>6, <1>7, <1>8, <1>9, <1>10, <1>11 DEF Next

(* Whatever is uploaded, reloaded, resigned or cut off by a crash, and     *)
(* however fast the index is evaluated: while the loop thread rests, the   *)
(* index that is served has the hash that is signed, unless it was         *)
(* published before updateIndexFileInfo was registered and not since.      *)
THEOREM ServedIndexIsSigned == Spec => []SignedIsServed
<1>1. Init => Served
    BY DEF Init, NewAsyncVar, Served
<1>2. Inv /\ Served /\ [Next]_vars => Served'
    BY ServedStep
<1>3. Served => SignedIsServed
    BY DEF Served, SignedIsServed
<1> QED
    BY <1>1, <1>2, <1>3, InvInit, InvStep, PTL DEF Spec
-----------------------------------------------------------------------------
(* The asynchronous cache by itself (AsyncCache): any threads that change  *)
(* a source and prod, in place of the requests above.  Its values are      *)
(* numbers like those of the index; its threads have variables of their    *)
(* own.                                                                    *)

CONSTANTS Handler, Cron, Silent, SyncInit
VARIABLES source, cachePc, cacheGot, written, raced, silent

Cache == INSTANCE AsyncCache WITH MaxChanges <- MaxLog, pc <- cachePc, got <- cacheGot

(* What remains of a sequence of numbers: its last element.                *)
LEMMA AppendLast ==
    ASSUME NEW S, NEW s \in Seq(S), NEW x \in S
    PROVE  /\ Append(s, x) \in Seq(S)
           /\ Append(s, x) # << >>
           /\ Cache!Last(Append(s, x)) = x
BY DEF Cache!Last

LEMMA LastInSet ==
    ASSUME NEW S, NEW s \in Seq(S), s # << >>
    PROVE  Cache!Last(s) \in S
BY DEF Cache!Last

-----------------------------------------------------------------------------
(* Every step keeps the types.                                             *)
LEMMA CacheTypeStep == Cache!TypeOK /\ [Cache!Next]_Cache!vars => Cache!TypeOK'
<1> SUFFICES ASSUME Cache!TypeOK, [Cache!Next]_Cache!vars PROVE Cache!TypeOK'
    OBVIOUS
<1>1. ASSUME NEW t \in Handler, Cache!Change(t) PROVE Cache!TypeOK'
    BY <1>1, CoreAssumption DEF Cache!TypeOK, Cache!AsyncVarTypeOK, Cache!Change, Cache!avar, Cache!Thread
<1>2. ASSUME NEW t \in Silent, Cache!ChangeSilently(t) PROVE Cache!TypeOK'
    BY <1>2, CoreAssumption DEF Cache!TypeOK, Cache!AsyncVarTypeOK, Cache!ChangeSilently, Cache!avar
<1>3. ASSUME NEW t \in Cron, Cache!Tick(t) PROVE Cache!TypeOK'
    BY <1>3 DEF Cache!TypeOK, Cache!AsyncVarTypeOK, Cache!Tick, Cache!avar, Cache!Thread
<1>4. ASSUME NEW t \in Cache!Thread, Cache!Update(t) PROVE Cache!TypeOK'
    BY <1>4 DEF Cache!TypeOK, Cache!AsyncVarTypeOK, Cache!Update, Cache!avar
<1>5. ASSUME NEW t \in Cache!Thread, Cache!Enqueue(t) PROVE Cache!TypeOK'
    BY <1>5 DEF Cache!TypeOK, Cache!AsyncVarTypeOK, Cache!Enqueue, Cache!writeAsyncVar
<1>6. ASSUME Cache!readAllAvailable, raced' \in BOOLEAN, UNCHANGED <<source, cachePc, cacheGot, written, silent>> PROVE Cache!TypeOK'
    BY <1>6, LastInSet DEF Cache!TypeOK, Cache!AsyncVarTypeOK, Cache!readAllAvailable
<1>7. ASSUME Cache!publish, raced' \in BOOLEAN, UNCHANGED <<source, cachePc, cacheGot, written, silent>> PROVE Cache!TypeOK'
    BY <1>7 DEF Cache!TypeOK, Cache!AsyncVarTypeOK, Cache!publish, Cache!Evaluate, Cache!Right, Cache!Left
<1>8. ASSUME Cache!hookDone, raced' \in BOOLEAN, UNCHANGED <<source, cachePc, cacheGot, written, silent>> PROVE Cache!TypeOK'
    BY <1>8 DEF Cache!TypeOK, Cache!AsyncVarTypeOK, Cache!hookDone
<1>9. CASE UNCHANGED Cache!vars
    BY <1>9 DEF Cache!TypeOK, Cache!AsyncVarTypeOK, Cache!vars, Cache!avar
<1>10. CASE Cache!Loop
    BY <1>6, <1>7, <1>8, <1>10 DEF Cache!Loop, Cache!TypeOK
<1> QED
    BY <1>1, <1>2, <1>3, <1>4, <1>5, <1>9, <1>10 DEF Cache!Next, Cache!Thread

LEMMA CacheTypeInit == Cache!Init => Cache!TypeOK
<1> SUFFICES ASSUME Cache!Init PROVE Cache!TypeOK
    OBVIOUS
<1>1. 0 \in Value
    BY CoreAssumption
<1>2. << >> \in Seq(Value) /\ <<0>> \in Seq(Value)
    BY <1>1
<1>3. inChan \in Seq(Value)
    BY <1>2 DEF Cache!Init, Cache!NewAsyncVar
<1> QED
    BY <1>1, <1>3 DEF Cache!Init, Cache!NewAsyncVar, Cache!TypeOK, Cache!AsyncVarTypeOK, Cache!Right

(* The variables keep their types (AsyncVar, newAsyncCache).               *)
THEOREM CacheTypeCorrect == Cache!Spec => []Cache!TypeOK
BY CacheTypeInit, CacheTypeStep, PTL DEF Cache!Spec

-----------------------------------------------------------------------------
(* The value queued last is at the end of the channel, or was taken, or is *)
(* published: it is never overtaken by an earlier one.                     *)
CachePending ==
    /\ inChan # << >> => Cache!Last(inChan) = written
    /\ inChan = << >> /\ loop = "forcing" => taken = written
    /\ Cache!LastWriteWins

LEMMA CachePendingStep == Cache!TypeOK /\ CachePending /\ [Cache!Next]_Cache!vars => CachePending'
<1> SUFFICES ASSUME Cache!TypeOK, CachePending, [Cache!Next]_Cache!vars PROVE CachePending'
    OBVIOUS
<1>1. CASE UNCHANGED <<Cache!avar, written>>
    BY <1>1 DEF CachePending, Cache!LastWriteWins, Cache!avar, Cache!Evaluate, Cache!Right, Cache!Left
<1>2. ASSUME NEW t \in Cache!Thread, Cache!Enqueue(t) PROVE CachePending'
    BY <1>2, AppendLast DEF CachePending, Cache!LastWriteWins, Cache!TypeOK, Cache!AsyncVarTypeOK,
           Cache!Enqueue, Cache!writeAsyncVar
<1>3. ASSUME Cache!readAllAvailable, UNCHANGED <<source, cachePc, cacheGot, written>> PROVE CachePending'
    BY <1>3 DEF CachePending, Cache!LastWriteWins, Cache!readAllAvailable
<1>4. ASSUME Cache!publish, UNCHANGED <<source, cachePc, cacheGot, written>> PROVE CachePending'
    BY <1>4 DEF CachePending, Cache!LastWriteWins, Cache!publish, Cache!Evaluate, Cache!Right, Cache!Left
<1>5. ASSUME Cache!hookDone, UNCHANGED <<source, cachePc, cacheGot, written>> PROVE CachePending'
    BY <1>5 DEF CachePending, Cache!LastWriteWins, Cache!hookDone, Cache!Evaluate, Cache!Right, Cache!Left
<1>6. CASE Cache!Loop
    BY <1>3, <1>4, <1>5, <1>6 DEF Cache!Loop
<1> QED
    BY <1>1, <1>2, <1>6
    DEF Cache!Next, Cache!vars, Cache!Change, Cache!ChangeSilently, Cache!Tick, Cache!Update

LEMMA CachePendingInit == Cache!Init => CachePending
BY DEF Cache!Init, Cache!NewAsyncVar, CachePending, Cache!LastWriteWins,
       Cache!Evaluate, Cache!Right, Cache!Last

(* Whatever the threads and whatever fails to evaluate: when the loop      *)
(* thread has caught up, readers get the outcome of the last prod.         *)
THEOREM LastWriteIsPublished == Cache!Spec => []Cache!LastWriteWins
<1>1. Cache!Init => Cache!TypeOK /\ CachePending
    BY CacheTypeInit, CachePendingInit
<1>2. Cache!TypeOK /\ CachePending /\ [Cache!Next]_Cache!vars => (Cache!TypeOK /\ CachePending)'
    BY CacheTypeStep, CachePendingStep
<1>3. Cache!TypeOK /\ CachePending => Cache!LastWriteWins
    BY DEF CachePending
<1> QED
    BY <1>1, <1>2, <1>3, PTL DEF Cache!Spec

-----------------------------------------------------------------------------
(* What is queued was read from the source.  As long as no older value was *)
(* queued after a newer one, what is published, taken and queued is in the *)
(* order of the source, up to the value queued last.                       *)
CacheRead ==
    /\ outVar.value <= source /\ taken <= source /\ written <= source
    /\ \A i \in DOMAIN inChan : inChan[i] <= source
    /\ \A t \in Cache!Thread : cacheGot[t] <= source

CacheOrdered ==
    ~raced =>
      /\ outVar.value <= taken
      /\ taken <= written
      /\ \A i \in DOMAIN inChan : taken <= inChan[i] /\ inChan[i] <= written
      /\ \A i, j \in DOMAIN inChan : i <= j => inChan[i] <= inChan[j]

CacheCopy == INSTANCE TrailingCopy WITH copy <- outVar.value

LEMMA CacheOrderedInit == Cache!Init => CacheRead /\ CacheOrdered
<1> SUFFICES ASSUME Cache!Init PROVE CacheRead /\ CacheOrdered
    OBVIOUS
<1>1. outVar.value = 0 /\ taken = 0 /\ source = 0 /\ written = 0
    BY DEF Cache!Init, Cache!NewAsyncVar, Cache!Right
<1>2. inChan = << >> \/ inChan = <<0>>
    BY DEF Cache!Init, Cache!NewAsyncVar
<1>3. \A i \in DOMAIN inChan : inChan[i] = 0
    BY <1>2
<1>4. \A t \in Cache!Thread : cacheGot[t] = 0
    BY DEF Cache!Init
<1> QED
    BY <1>1, <1>3, <1>4 DEF CacheRead, CacheOrdered

LEMMA CacheReadStep ==
    ASSUME Cache!TypeOK, CacheRead, [Cache!Next]_Cache!vars
    PROVE  CacheRead'
<1> USE CoreAssumption
<1>0. /\ inChan \in Seq(Nat) /\ source \in Nat /\ taken \in Nat /\ outVar.value \in Nat
      /\ written \in Nat /\ \A t \in Cache!Thread : cacheGot[t] \in Nat
    BY DEF Cache!TypeOK, Cache!AsyncVarTypeOK
<1>1. CASE source' = source + 1 /\ UNCHANGED <<inChan, outVar, taken, cacheGot, written>>
    BY <1>0, <1>1 DEF CacheRead
<1>2. CASE UNCHANGED <<source, inChan, outVar, taken, cacheGot, written>>
    BY <1>0, <1>2 DEF CacheRead
<1>3. ASSUME NEW t \in Cache!Thread, Cache!Update(t) PROVE CacheRead'
  <2>1. /\ \A u \in Cache!Thread : cacheGot'[u] = IF u = t THEN source ELSE cacheGot[u]
        /\ UNCHANGED <<source, inChan, outVar, taken, written>>
      BY <1>3 DEF Cache!Update, Cache!avar, Cache!TypeOK
  <2> QED
      BY <1>0, <2>1 DEF CacheRead
<1>4. ASSUME NEW t \in Cache!Thread, Cache!Enqueue(t) PROVE CacheRead'
  <2>1. /\ inChan' = Append(inChan, cacheGot[t]) /\ written' = cacheGot[t]
        /\ UNCHANGED <<outVar, taken, source, cacheGot>>
      BY <1>4 DEF Cache!Enqueue, Cache!writeAsyncVar
  <2>2. \A i \in DOMAIN inChan' : (i \in DOMAIN inChan /\ inChan'[i] = inChan[i]) \/ inChan'[i] = cacheGot[t]
      BY <1>0, <2>1
  <2> QED
      BY <2>1, <2>2 DEF CacheRead
<1>5. CASE Cache!Loop
  <2>1. UNCHANGED <<source, cacheGot, written>>
      BY <1>5 DEF Cache!Loop
  <2>2. CASE Cache!readAllAvailable
    <3>1. /\ inChan # << >> /\ inChan' = << >> /\ outVar' = outVar
          /\ taken' = inChan[Len(inChan)] /\ Len(inChan) \in DOMAIN inChan
        BY <2>2, <1>0 DEF Cache!readAllAvailable, Cache!Last
    <3> QED
        BY <2>1, <3>1 DEF CacheRead
  <2>3. CASE Cache!publish
    <3>1. outVar'.value = taken /\ UNCHANGED <<inChan, taken>>
        BY <2>3 DEF Cache!publish, Cache!Evaluate, Cache!Left, Cache!Right
    <3> QED
        BY <2>1, <3>1 DEF CacheRead
  <2>4. CASE Cache!hookDone
      BY <2>1, <2>4 DEF CacheRead, Cache!hookDone
  <2> QED
      BY <1>5, <2>2, <2>3, <2>4 DEF Cache!Loop
<1> QED
    BY <1>1, <1>2, <1>3, <1>4, <1>5
    DEF Cache!Next, Cache!vars, Cache!avar, Cache!Change, Cache!ChangeSilently, Cache!Tick

LEMMA CacheOrderedStep ==
    ASSUME Cache!TypeOK, CachePending, CacheOrdered, [Cache!Next]_Cache!vars
    PROVE  CacheOrdered'
<1> USE CoreAssumption
<1>0. /\ inChan \in Seq(Nat) /\ source \in Nat /\ taken \in Nat /\ outVar.value \in Nat
      /\ written \in Nat /\ raced \in BOOLEAN /\ \A t \in Cache!Thread : cacheGot[t] \in Nat
    BY DEF Cache!TypeOK, Cache!AsyncVarTypeOK
<1>1. CASE UNCHANGED <<inChan, outVar, taken, written, raced>>
    BY <1>1 DEF CacheOrdered
<1>2. ASSUME NEW t \in Cache!Thread, Cache!Enqueue(t), ~raced' PROVE CacheOrdered'
  <2>1. /\ inChan' = Append(inChan, cacheGot[t]) /\ written' = cacheGot[t]
        /\ UNCHANGED <<outVar, taken>>
      BY <1>2 DEF Cache!Enqueue, Cache!writeAsyncVar
  <2>2. ~raced /\ written <= cacheGot[t]
    <3>1. ~raced /\ ~(cacheGot[t] < written)
        BY <1>2, Zenon DEF Cache!Enqueue
    <3> QED
        BY <3>1, <1>0
  <2>3. /\ outVar.value <= taken /\ taken <= written
        /\ \A i \in DOMAIN inChan : taken <= inChan[i] /\ inChan[i] <= written
        /\ \A i, j \in DOMAIN inChan : i <= j => inChan[i] <= inChan[j]
      BY <2>2 DEF CacheOrdered
  <2>4. DOMAIN inChan' = 1 .. Len(inChan) + 1 /\ DOMAIN inChan = 1 .. Len(inChan)
      BY <2>1, <1>0
  <2>5. Len(inChan) \in Nat /\ \A i \in DOMAIN inChan : inChan[i] \in Nat
      BY <1>0
  <2>6. \A i \in DOMAIN inChan' :
          \/ i \in DOMAIN inChan /\ inChan'[i] = inChan[i]
          \/ i = Len(inChan) + 1 /\ inChan'[i] = cacheGot[t]
      BY <2>1, <2>4, <2>5, <1>0
  <2>7. \A i \in DOMAIN inChan' : taken <= inChan'[i] /\ inChan'[i] <= cacheGot[t]
      BY <2>2, <2>3, <2>5, <2>6, <1>0
  <2>8. \A i, j \in DOMAIN inChan' : i <= j => inChan'[i] <= inChan'[j]
    <3> SUFFICES ASSUME NEW i \in DOMAIN inChan', NEW j \in DOMAIN inChan', i <= j
                 PROVE  inChan'[i] <= inChan'[j]
        OBVIOUS
    <3>1. CASE j \in DOMAIN inChan
        BY <3>1, <2>3, <2>4, <2>5, <2>6
    <3>2. CASE j = Len(inChan) + 1
        BY <3>2, <2>4, <2>5, <2>6, <2>7
    <3> QED
        BY <3>1, <3>2, <2>6
  <2>9. outVar'.value <= taken' /\ taken' <= written'
      BY <2>1, <2>2, <2>3, <1>0
  <2> QED
      BY <2>1, <2>7, <2>8, <2>9 DEF CacheOrdered
<1>3. ASSUME NEW t \in Cache!Thread, Cache!Enqueue(t), raced' PROVE CacheOrdered'
    BY <1>3 DEF CacheOrdered
<1>4. CASE Cache!Loop
  <2>1. UNCHANGED written
      BY <1>4 DEF Cache!Loop
  <2>2. CASE Cache!readAllAvailable /\ UNCHANGED raced
    <3>1. /\ inChan # << >> /\ inChan' = << >> /\ outVar' = outVar
          /\ taken' = inChan[Len(inChan)] /\ Len(inChan) \in DOMAIN inChan
        BY <2>2, <1>0 DEF Cache!readAllAvailable, Cache!Last
    <3>2. ~raced => outVar.value <= taken' /\ taken' <= written
        BY <3>1, <1>0 DEF CacheOrdered
    <3>3. \A i \in DOMAIN inChan' : FALSE
        BY <3>1
    <3> QED
        BY <2>1, <2>2, <3>1, <3>2, <3>3 DEF CacheOrdered
  <2>3. CASE Cache!publish /\ raced' = (raced /\ ~(inChan = << >> /\ taken = source))
    <3>1. outVar'.value = taken /\ UNCHANGED <<inChan, taken>> /\ loop = "forcing"
        BY <2>3 DEF Cache!publish, Cache!Evaluate, Cache!Left, Cache!Right
    <3>2. CASE raced' = raced
        BY <2>1, <3>1, <3>2, <1>0 DEF CacheOrdered
    <3>3. CASE inChan = << >>
      <4>1. taken = written
          BY <3>1, <3>3 DEF CachePending
      <4>2. \A i \in DOMAIN inChan' : FALSE
          BY <3>1, <3>3
      <4> QED
          BY <2>1, <3>1, <4>1, <4>2, <1>0 DEF CacheOrdered
    <3> QED
        BY <2>3, <3>2, <3>3, <1>0
  <2>4. CASE Cache!hookDone /\ UNCHANGED raced
      BY <1>1, <2>1, <2>4 DEF Cache!hookDone
  <2> QED
      BY <1>4, <2>2, <2>3, <2>4 DEF Cache!Loop
<1> QED
    BY <1>1, <1>2, <1>3, <1>4
    DEF Cache!Next, Cache!vars, Cache!avar, Cache!Change, Cache!ChangeSilently, Cache!Tick, Cache!Update

(* The published value never goes past the source, and back only in a race.*)
LEMMA CopyStep ==
    ASSUME Cache!TypeOK, CacheRead, CacheOrdered, [Cache!Next]_Cache!vars
    PROVE  [CacheCopy!Next]_CacheCopy!vars
<1> USE CoreAssumption
<1>0. source \in Nat /\ taken \in Nat /\ outVar.value \in Nat /\ raced \in BOOLEAN
    BY DEF Cache!TypeOK, Cache!AsyncVarTypeOK
<1>1. CASE source' = source + 1 /\ UNCHANGED <<outVar, raced>>
    BY <1>1 DEF CacheCopy!Next, CacheCopy!Change
<1>2. CASE UNCHANGED <<source, outVar, raced>>
    BY <1>2 DEF CacheCopy!vars
<1>3. ASSUME NEW t \in Cache!Thread, Cache!Enqueue(t) PROVE [CacheCopy!Next]_CacheCopy!vars
  <2>1. UNCHANGED <<source, outVar>> /\ (raced' = raced \/ raced' = TRUE)
      BY <1>0, <1>3 DEF Cache!Enqueue, Cache!writeAsyncVar
  <2> QED
      BY <2>1 DEF CacheCopy!Next, CacheCopy!Race, CacheCopy!vars
<1>4. CASE Cache!publish /\ source' = source /\ raced' = (raced /\ ~(inChan = << >> /\ taken = source))
  <2>1. outVar'.value = taken
      BY <1>4 DEF Cache!publish, Cache!Evaluate, Cache!Left, Cache!Right
  <2>2. taken <= source /\ (~raced => outVar.value <= taken)
      BY DEF CacheRead, CacheOrdered
  <2>3. raced' = raced \/ (raced' = FALSE /\ outVar'.value = source)
      BY <1>4, <1>0, <2>1
  <2>4. CASE outVar.value = taken
      BY <2>1, <2>3, <2>4, <1>4 DEF CacheCopy!Next, CacheCopy!Confirm, CacheCopy!Recover
  <2>5. CASE outVar.value < taken
    <3>1. outVar'.value \in outVar.value + 1 .. source
        BY <2>1, <2>2, <2>5, <1>0
    <3> QED
        BY <3>1, <2>3, <1>4 DEF CacheCopy!Next, CacheCopy!Refresh, CacheCopy!Recover
  <2>6. CASE taken < outVar.value
    <3>1. raced /\ outVar'.value \in 0 .. outVar.value - 1
        BY <2>1, <2>2, <2>6, <1>0
    <3> QED
        BY <3>1, <2>3, <1>4 DEF CacheCopy!Next, CacheCopy!FallBack, CacheCopy!Recover
  <2> QED
      BY <2>4, <2>5, <2>6, <1>0
<1> QED
    BY <1>1, <1>2, <1>3, <1>4
    DEF Cache!Next, Cache!vars, Cache!avar, Cache!Change, Cache!ChangeSilently, Cache!Tick,
        Cache!Update, Cache!Loop, Cache!readAllAvailable, Cache!hookDone

(* With any threads that prod at once, and whatever fails to evaluate, the *)
(* cache implements a copy that trails its source and goes back only when  *)
(* one thread has queued what it read after another had queued a newer     *)
(* value (prodAsyncCache), but for liveness.                               *)
THEOREM CacheIsTrailingCopy == Cache!Spec => CacheCopy!Spec
<1> DEFINE CacheInv == Cache!TypeOK /\ CachePending /\ CacheRead /\ CacheOrdered
<1>1. Cache!Init => CacheInv /\ CacheCopy!Init
    BY CacheTypeInit, CachePendingInit, CacheOrderedInit
    DEF Cache!Init, CacheCopy!Init, Cache!NewAsyncVar, Cache!Right
<1>2. CacheInv /\ [Cache!Next]_Cache!vars => CacheInv'
    BY CacheTypeStep, CachePendingStep, CacheReadStep, CacheOrderedStep
<1>3. CacheInv /\ [Cache!Next]_Cache!vars => [CacheCopy!Next]_CacheCopy!vars
    BY CopyStep
<1> QED
    BY <1>1, <1>2, <1>3, PTL DEF Cache!Spec, CacheCopy!Spec

-----------------------------------------------------------------------------
(* A single thread cannot race: what it queues it has read after all it    *)
(* queued before.                                                          *)
OneThread == \A t, u \in Cache!Thread : t = u

CacheInTurn ==
    /\ ~raced /\ written <= source
    /\ \A t \in Cache!Thread : cachePc[t] = "enqueue" => written <= cacheGot[t]

LEMMA OneThreadNeverRaces == ASSUME OneThread PROVE Cache!Spec => []~raced
<1> USE CoreAssumption
<1>1. Cache!Init => CacheInTurn
    BY DEF Cache!Init, CacheInTurn
<1>2. Cache!TypeOK /\ CacheRead /\ CacheInTurn /\ [Cache!Next]_Cache!vars => CacheInTurn'
  <2> SUFFICES ASSUME Cache!TypeOK, CacheRead, CacheInTurn, [Cache!Next]_Cache!vars PROVE CacheInTurn'
      OBVIOUS
  <2>0. source \in Nat /\ written \in Nat /\ \A t \in Cache!Thread : cacheGot[t] \in Nat
      BY DEF Cache!TypeOK
  <2>1. CASE UNCHANGED <<cachePc, cacheGot, written, raced>> /\ source' \in {source, source + 1}
      BY <2>0, <2>1 DEF CacheInTurn
  <2>2. ASSUME NEW t \in Cache!Thread,
               cachePc' = [cachePc EXCEPT ![t] = "prod"], source' \in {source, source + 1},
               UNCHANGED <<cacheGot, written, raced>>
        PROVE  CacheInTurn'
      BY <2>0, <2>2 DEF CacheInTurn, Cache!TypeOK
  <2>3. ASSUME NEW t \in Cache!Thread, Cache!Update(t) PROVE CacheInTurn'
    <3>1. cacheGot'[t] = source /\ \A u \in Cache!Thread : u = t
        BY <2>3 DEF OneThread, Cache!Update, Cache!TypeOK
    <3> QED
        BY <2>0, <2>3, <3>1 DEF CacheInTurn, Cache!Update
  <2>4. ASSUME NEW t \in Cache!Thread, Cache!Enqueue(t) PROVE CacheInTurn'
    <3>1. cachePc'[t] = "idle" /\ \A u \in Cache!Thread : u = t
        BY <2>4 DEF OneThread, Cache!Enqueue, Cache!TypeOK
    <3>2. written <= cacheGot[t] /\ cacheGot[t] <= source
        BY <2>4 DEF CacheInTurn, CacheRead, Cache!Enqueue
    <3>3. ~(cacheGot[t] < written) /\ ~raced
        BY <2>0, <3>2 DEF CacheInTurn
    <3>4. ~raced'
        BY <2>4, <3>3, Zenon DEF Cache!Enqueue
    <3>5. written' = cacheGot[t] /\ UNCHANGED <<source, cacheGot>>
        BY <2>4 DEF Cache!Enqueue
    <3> QED
        BY <3>1, <3>2, <3>4, <3>5 DEF CacheInTurn
  <2>5. CASE Cache!Loop
    <3>1. ~raced'
        BY <2>5, Zenon DEF CacheInTurn, Cache!Loop
    <3>2. UNCHANGED <<source, cachePc, cacheGot, written>>
        BY <2>5 DEF Cache!Loop
    <3> QED
        BY <3>1, <3>2 DEF CacheInTurn
  <2> QED
      BY <2>1, <2>2, <2>3, <2>4, <2>5
      DEF Cache!Next, Cache!vars, Cache!Change, Cache!ChangeSilently, Cache!Tick, Cache!Thread
<1>3. Cache!Init => Cache!TypeOK /\ CacheRead
    BY CacheTypeInit, CacheOrderedInit
<1>4. Cache!TypeOK /\ CacheRead /\ [Cache!Next]_Cache!vars => (Cache!TypeOK /\ CacheRead)'
    BY CacheTypeStep, CacheReadStep
<1>5. CacheInTurn => ~raced
    BY DEF CacheInTurn
<1> QED
    BY <1>1, <1>2, <1>3, <1>4, <1>5, PTL DEF Cache!Spec
=============================================================================
