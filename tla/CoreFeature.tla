---------------------------- MODULE CoreFeature ----------------------------
(***************************************************************************)
(* The index pipeline: the request threads that change the package index   *)
(* (Core.hs, called from the upload and mirror features), the cache of the *)
(* index tarballs, the hook by which the security feature signs what the   *)
(* cache holds, the cron job and the reload that sign again, crashes and   *)
(* restarts.  Each acid-state transaction is atomic and durable; a request *)
(* is a sequence of them, and a thread may be killed between any two.      *)
(*                                                                         *)
(* PackagesState models the transactions in full.  Here the package index  *)
(* is reduced to the number of tarballs of each package and to the log.    *)
(* Without deletions, which no route offers, 01-index.tar is determined by *)
(* the length of the log (PackagesState, IndexAppendOnly), so that length  *)
(* stands for the tarball and for its hash.                                *)
(***************************************************************************)
EXTENDS AsyncVar

CONSTANTS Package,     \* package ids
          Request,     \* request threads
          MaxLog,      \* bound: entries of the update log
          MaxTarballs, \* bound: tarballs per package
          MaxVersion,  \* bound: versions up to which the cron job signs again
          MaxCrashes,  \* bound: crashes
          MaxFiles     \* bound: versions of root, mirrors and keys on disk

ASSUME CoreAssumption ==
    /\ MaxLog \in Nat /\ MaxTarballs \in Nat /\ MaxVersion \in Nat /\ MaxFiles \in Nat /\ MaxCrashes \in Nat
    /\ Value = 0 .. MaxLog

VARIABLES tarballs,   \* durable: per released package, its number of tarballs
          log,        \* durable: the package update log
          pc,         \* per request thread: what it does next
          change,     \* per request thread: the PackageChange it reports
          got,        \* per request thread: the index it read for the cache
          phase,      \* of the server: starting, postInit or serving
          security,   \* durable: SecurityState
          disk,       \* version of the root, mirrors and key files; 0: none
          reload,     \* what updateRootMirrorsAndKeys has loaded
          uploaded,   \* history: packages released with a tarball
          orphaned,   \* history: tarballs whose request died before their entry
          unprodded,  \* history: a request died after the last prod
          missed,     \* history: the cache's hook last ran before it was registered
          crashes     \* counts the crashes

index == <<tarballs, log>>
requests == <<pc, change, got>>
history == <<uploaded, orphaned, unprodded, missed>>
vars == <<avar, index, requests, phase, security, disk, reload, history, crashes>>

Released == DOMAIN tarballs
SetTarballs(p, n) ==
    [q \in Released \cup {p} |-> IF q = p THEN n ELSE tarballs[q]]

-----------------------------------------------------------------------------
(* Log entries and changes.                                                *)

CabalFileEntry(p)   == [kind |-> "cabal", pkg |-> p, rev |-> 0]
MetadataEntry(p, r) == [kind |-> "metadata", pkg |-> p, rev |-> r]
ExtraEntry          == [kind |-> "extra"]

TarIndexEntry ==
    [kind : {"cabal", "metadata"}, pkg : Package, rev : Nat] \cup {ExtraEntry}

PackageChange == {<< >>} \cup [1 .. 1 -> [kind : {"metadata"}, pkg : Package, rev : Nat]]

AppendLog(entries) ==
    /\ Len(log) + Len(entries) <= MaxLog
    /\ log' = log \o entries

(* Mutant: the revision is the number of the next tarball.                 *)
indexEntriesFor_Next(p, n) == IF n = 0 THEN << >> ELSE <<MetadataEntry(p, n)>>

(* The entries that preIndexUpdateHook adds, which only the security       *)
(* feature listens to: the TUF metadata of the latest tarball.             *)
indexEntriesFor(p, n) == IF n = 0 THEN << >> ELSE <<MetadataEntry(p, n - 1)>>

-----------------------------------------------------------------------------
(* Requests, first part: the transaction.  What follows is the hook.       *)

Report(w, entries) ==
    /\ pc' = [pc EXCEPT ![w] = "hooks"]
    /\ change' = [change EXCEPT ![w] = entries]
    /\ UNCHANGED got

Begin(w) ==
    /\ phase = "serving"
    /\ pc[w] = "idle"
    /\ UNCHANGED <<avar, phase, security, disk, reload, crashes>>

(* Mutant: the entries are added by the hook, as for every other change.   *)
updateAddPackage_NotAtomic(w, p) ==
    /\ Begin(w)
    /\ p \notin Released
    /\ tarballs' = SetTarballs(p, 1)
    /\ AppendLog(<<CabalFileEntry(p)>>)
    /\ Report(w, indexEntriesFor(p, 1))
    /\ uploaded' = uploaded \cup {p}
    /\ UNCHANGED <<orphaned, unprodded, missed>>

(* AddPackage3 adds the package, its entries and its .cabal entry in one   *)
(* transaction; if the package exists it changes nothing.                  *)
updateAddPackage(w, p) ==
    /\ Begin(w)
    /\ p \notin Released
    /\ tarballs' = SetTarballs(p, 1)
    /\ AppendLog(Append(indexEntriesFor(p, 1), CabalFileEntry(p)))
    /\ Report(w, << >>)
    /\ uploaded' = uploaded \cup {p}
    /\ UNCHANGED <<orphaned, unprodded, missed>>

(* A .cabal revision; of a package that does not exist, its first one.     *)
updateAddPackageRevision(w, p) ==
    /\ Begin(w)
    /\ tarballs' = IF p \in Released THEN tarballs ELSE SetTarballs(p, 0)
    /\ AppendLog(<<CabalFileEntry(p)>>)
    /\ Report(w, << >>)
    /\ UNCHANGED history

(* A mirror client uploads or replaces a tarball: no entry yet.            *)
updateAddPackageTarball(w, p) ==
    /\ Begin(w)
    /\ p \in Released
    /\ tarballs[p] < MaxTarballs
    /\ tarballs' = SetTarballs(p, tarballs[p] + 1)
    /\ UNCHANGED log
    /\ Report(w, indexEntriesFor(p, tarballs[p] + 1))
    /\ UNCHANGED history

(* Uploader and upload time do not show in 01-index.tar.                   *)
updateSetPackage(w, p) ==
    /\ Begin(w)
    /\ p \in Released
    /\ UNCHANGED index
    /\ Report(w, << >>)
    /\ UNCHANGED history

updateArchiveIndexEntry(w) ==
    /\ Begin(w)
    /\ UNCHANGED tarballs
    /\ AppendLog(<<ExtraEntry>>)
    /\ Report(w, << >>)
    /\ UNCHANGED history

-----------------------------------------------------------------------------
(* Requests, second part: packageChangeHook.  Core registered its handler  *)
(* first, so it runs last.                                                 *)

TarballOf(c) == {<<c[i].pkg, c[i].rev>> : i \in DOMAIN c}
Pending(w) == IF pc[w] = "hooks" THEN TarballOf(change[w]) ELSE {}

(* A handler of another feature throws, or the server kills the thread.    *)
Abort(w) ==
    /\ pc[w] # "idle"
    /\ pc' = [pc EXCEPT ![w] = "idle"]
    /\ orphaned' = orphaned \cup Pending(w)
    /\ unprodded' = TRUE
    /\ change' = [change EXCEPT ![w] = << >>]
    /\ got' = [got EXCEPT ![w] = 0]
    /\ UNCHANGED <<avar, index, phase, security, disk, reload, uploaded, missed, crashes>>

(* Mutant: the handler returns early when there is no entry to add.        *)
addOtherIndexEntries_NoProd(w) ==
    /\ pc[w] = "hooks"
    /\ AppendLog(change[w])
    /\ change' = [change EXCEPT ![w] = << >>]
    /\ pc' = [pc EXCEPT ![w] = IF change[w] = << >> THEN "idle" ELSE "prod"]
    /\ UNCHANGED <<avar, tarballs, got, phase, security, disk, reload, history, crashes>>

(* The additional entries, which are none after PackageChangeAdd.          *)
addOtherIndexEntries(w) ==
    /\ pc[w] = "hooks"
    /\ AppendLog(change[w])
    /\ change' = [change EXCEPT ![w] = << >>]
    /\ pc' = [pc EXCEPT ![w] = "prod"]
    /\ UNCHANGED <<avar, tarballs, got, phase, security, disk, reload, history, crashes>>

(* prodAsyncCache: getIndexTarball reads the state ...                     *)
getIndexTarball(w) ==
    /\ pc[w] = "prod"
    /\ got' = [got EXCEPT ![w] = Len(log)]
    /\ pc' = [pc EXCEPT ![w] = "enqueue"]
    /\ UNCHANGED <<avar, index, change, phase, security, disk, reload, history, crashes>>

(* ... and the unevaluated tarball is queued.                              *)
prodIndexTar(w) ==
    /\ pc[w] = "enqueue"
    /\ writeAsyncVar(got[w])
    /\ got' = [got EXCEPT ![w] = 0]
    /\ pc' = [pc EXCEPT ![w] = "idle"]
    /\ unprodded' = FALSE
    /\ UNCHANGED <<index, change, phase, security, disk, reload, uploaded, orphaned, missed, crashes>>

-----------------------------------------------------------------------------
(* The security state.  snapshot.json and timestamp.json are always signed *)
(* together, so one version and one content stand for both.                *)

Nothing == [files |-> 0, tar |-> 0, version |-> 0]

(* Increment the versions and sign; nothing while security is not in use.  *)
updateSnapshotAndTimestamp(s) ==
    IF s.files = 0 THEN s
    ELSE [files |-> s.files, tar |-> s.tar, version |-> s.version + 1,
          signed |-> [files |-> s.files, tar |-> s.tar, version |-> s.version + 1]]

setRootMirrorsAndKeys(s, files) ==
    updateSnapshotAndTimestamp(
        [files |-> files, tar |-> s.tar, version |-> s.version, signed |-> s.signed])

(* Mutant: the new hash is stored but not signed.                          *)
setTarGzFileInfo_NotSigned(s, tar) ==
    [files |-> s.files, tar |-> tar, version |-> s.version, signed |-> s.signed]

(* Mutant: the hash is not stored while security is not in use.            *)
setTarGzFileInfo_OnlyInUse(s, tar) ==
    IF s.tar = tar \/ s.files = 0 THEN s
    ELSE updateSnapshotAndTimestamp(
             [files |-> s.files, tar |-> tar, version |-> s.version, signed |-> s.signed])

setTarGzFileInfo(s, tar) ==
    IF s.tar = tar THEN s
    ELSE updateSnapshotAndTimestamp(
             [files |-> s.files, tar |-> tar, version |-> s.version, signed |-> s.signed])

(* The cron job; age is left out, so it may resign at any time.            *)
resignSnapshotAndTimestamp ==
    /\ phase = "serving"
    /\ security.version < MaxVersion
    /\ security' = updateSnapshotAndTimestamp(security)
    /\ UNCHANGED <<avar, index, requests, phase, disk, reload, history, crashes>>

(* An operator replaces the files on disk.                                 *)
ReplaceFiles ==
    /\ disk < MaxFiles
    /\ disk' = disk + 1
    /\ UNCHANGED <<avar, index, requests, phase, security, reload, history, crashes>>

(* updateRootMirrorsAndKeys, after initialisation and on SIGHUP: the files *)
(* are loaded, ...                                                         *)
loadRootMirrorsAndKeys ==
    /\ phase # "starting"
    /\ reload = 0
    /\ disk # 0
    /\ reload' = disk
    /\ UNCHANGED <<avar, index, requests, phase, security, disk, history, crashes>>

(* ... compared with the state, and stored if they differ.  At start-up    *)
(* the server then begins to accept connections.                           *)
storeRootMirrorsAndKeys ==
    /\ reload # 0
    /\ security' = IF security.files = reload THEN security
                   ELSE setRootMirrorsAndKeys(security, reload)
    /\ reload' = 0
    /\ phase' = "serving"
    /\ UNCHANGED <<avar, index, requests, disk, history, crashes>>

-----------------------------------------------------------------------------
(* The loop thread of the index cache.                                     *)

Take ==
    /\ readAllAvailable
    /\ UNCHANGED <<index, requests, phase, security, disk, reload, history, crashes>>

Publish ==
    /\ publish
    /\ UNCHANGED <<index, requests, phase, security, disk, reload, history, crashes>>

(* updateIndexFileInfo, if it is registered by now, reads the cache again  *)
(* and stores the hash of what it finds.  An index that is evaluated while *)
(* the features still start is published with nobody listening.            *)
RunHook ==
    /\ hookDone
    /\ missed' = (phase = "starting")
    /\ security' = IF phase = "starting" THEN security
                   ELSE setTarGzFileInfo(security, outVar.value)
    /\ UNCHANGED <<index, requests, phase, disk, reload, uploaded, orphaned, unprodded, crashes>>

-----------------------------------------------------------------------------
(* Start-up and crash.                                                     *)

Init ==
    /\ tarballs = << >>
    /\ log = << >>
    /\ NewAsyncVar(0, FALSE)
    /\ pc = [w \in Request |-> "idle"]
    /\ change = [w \in Request |-> << >>]
    /\ got = [w \in Request |-> 0]
    /\ phase = "starting"
    /\ security = [files |-> 0, tar |-> 0, version |-> 1, signed |-> Nothing]
    /\ disk = 0
    /\ reload = 0
    /\ uploaded = {} /\ orphaned = {} /\ unprodded = FALSE /\ missed = FALSE
    /\ crashes = 0

(* initSecurityFeature registers its hook on the running cache.            *)
RegisterHook ==
    /\ phase = "starting"
    /\ phase' = "postInit"
    /\ UNCHANGED <<avar, index, requests, security, disk, reload, history, crashes>>

(* Start-up without files on disk: security stays as it is.                *)
Serve ==
    /\ phase = "postInit"
    /\ reload = 0
    /\ disk = 0
    /\ phase' = "serving"
    /\ UNCHANGED <<avar, index, requests, security, disk, reload, history, crashes>>

(* Threads and caches are gone; the acid-state components and the files    *)
(* remain.  The cache is created again from the index found there.         *)
Crash ==
    /\ crashes < MaxCrashes
    /\ crashes' = crashes + 1
    /\ RenewAsyncVar(Len(log))
    /\ pc' = [w \in Request |-> "idle"]
    /\ change' = [w \in Request |-> << >>]
    /\ got' = [w \in Request |-> 0]
    /\ phase' = "starting"
    /\ reload' = 0
    /\ orphaned' = orphaned \cup UNION {Pending(w) : w \in Request}
    /\ unprodded' = FALSE
    /\ missed' = FALSE
    /\ UNCHANGED <<index, security, disk, uploaded>>

-----------------------------------------------------------------------------
Handle(w) ==
    \/ \E p \in Package :
          \/ updateAddPackage(w, p)
          \/ updateAddPackageRevision(w, p)
          \/ updateAddPackageTarball(w, p)
          \/ updateSetPackage(w, p)
    \/ updateArchiveIndexEntry(w)

Next ==
    \/ \E w \in Request :
          Handle(w) \/ Abort(w) \/ addOtherIndexEntries(w) \/ getIndexTarball(w) \/ prodIndexTar(w)
    \/ Take \/ Publish \/ RunHook
    \/ resignSnapshotAndTimestamp \/ ReplaceFiles
    \/ loadRootMirrorsAndKeys \/ storeRootMirrorsAndKeys
    \/ RegisterHook \/ Serve \/ Crash

Spec == Init /\ [][Next]_vars

(* Threads that have begun something go on with it, the server starts up.  *)
(* Nobody need send a request, and nothing need crash.                     *)
Fairness ==
    /\ \A w \in Request : WF_vars(addOtherIndexEntries(w))
                          /\ WF_vars(getIndexTarball(w)) /\ WF_vars(prodIndexTar(w))
    /\ WF_vars(Take) /\ WF_vars(Publish) /\ WF_vars(RunHook)
    /\ WF_vars(RegisterHook) /\ WF_vars(Serve)
    /\ WF_vars(phase = "postInit" /\ loadRootMirrorsAndKeys)
    /\ WF_vars(storeRootMirrorsAndKeys)

FairSpec == Spec /\ Fairness

-----------------------------------------------------------------------------
(* Properties.                                                             *)

(* Types of the variables.                                                 *)
TypeOK ==
    /\ AsyncVarTypeOK
    /\ Released \subseteq Package /\ tarballs \in [Released -> Nat]
    /\ log \in Seq(TarIndexEntry) /\ Len(log) <= MaxLog
    /\ pc \in [Request -> {"idle", "hooks", "prod", "enqueue"}]
    /\ change \in [Request -> PackageChange]
    /\ got \in [Request -> Value]
    /\ phase \in {"starting", "postInit", "serving"}
    /\ security \in [files : Nat, tar : Value, version : Nat,
                     signed : [files : Nat, tar : Value, version : Nat]]
    /\ disk \in Nat /\ reload \in Nat
    /\ uploaded \subseteq Package
    /\ unprodded \in BOOLEAN
    /\ missed \in BOOLEAN
    /\ crashes \in Nat

Logged(e) == \E i \in DOMAIN log : log[i] = e

(* "This makes sure we never get a successful upload with no attendant     *)
(* package.json file" (Core.hs): the entry of an uploaded tarball is in    *)
(* the log whenever the package is in the index, across crashes.           *)
UploadsHavePackageJson ==
    \A p \in uploaded : Logged(MetadataEntry(p, 0))

(* Every other tarball gets its entry, too, unless the request that added  *)
(* it was killed or crashed: no entry is lost to another request.          *)
TarballsGetEntries ==
    \A p \in Released : \A r \in 0 .. tarballs[p] - 1 :
        \/ Logged(MetadataEntry(p, r))
        \/ <<p, r>> \in orphaned
        \/ \E w \in Request : <<p, r>> \in Pending(w)

(* "The security state as a whole uniquely determines the TUF timestamp    *)
(* and snapshot files" (Security/State.hs): the signed content is never    *)
(* behind the rest of the state.                                           *)
SignedMatchesState ==
    security.files # 0 =>
        security.signed = [files |-> security.files, tar |-> security.tar,
                           version |-> security.version]

(* Clients refuse a snapshot whose version is not newer: no two contents   *)
(* are ever signed under one version, nor an older version later.          *)
VersionsIncrease ==
    [][security'.signed # security.signed =>
          security'.signed.version > security.signed.version]_vars

(* "Update the security state whenever the main package index changes"     *)
(* (Security.hs): when the loop thread of the cache is at rest, clients    *)
(* that check the index they are served against the signed hash accept it, *)
(* unless the index was published before the security feature listened and *)
(* has not been published since.                                           *)
SignedIsServed ==
    loop = "waiting" /\ inChan = << >> /\ phase # "starting" /\ outVar.ok
        => security.tar = outVar.value \/ missed

(* What was added is eventually served and signed, across crashes, unless  *)
(* its request was killed before it could prod, or the hook of the first   *)
(* evaluation after the start was missed; the next prod makes up for both. *)
EventuallyServed ==
    <>[](\/ unprodded
         \/ outVar = Right(Len(log)) /\ (security.tar = Len(log) \/ missed))
=============================================================================
