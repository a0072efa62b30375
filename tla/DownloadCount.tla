--------------------------- MODULE DownloadCount ---------------------------
(***************************************************************************)
(* The download counts (DownloadCount.hs).  Requests that serve a tarball  *)
(* put its package on a channel; one thread takes them off and counts      *)
(* today's in an acid-state component.  The first download of another day  *)
(* makes the thread reset that component and move yesterday's counts to a  *)
(* log and to one file per package, from which the totals are computed     *)
(* anew.  Admins may import counts, which replaces files, totals and log,   *)
(* while the thread is at work, and while other imports are: nothing is    *)
(* locked.  The process may crash at any point, and an error of the file   *)
(* system ends the thread for good, or the import that meets it.           *)
(*                                                                         *)
(* The files are read lazily: the directory is listed first and each file  *)
(* only read when its new contents are about to be written.                *)
(*                                                                         *)
(* The log is reduced to the sum of its entries per package: those that    *)
(* the thread appends have no day, those of an import do, and nothing      *)
(* reads them.  The runtime lets one handle at a time write a file, and    *)
(* opening it a second time is an error.  The recent downloads, computed   *)
(* like the totals over thirty days, are left out.                         *)
(***************************************************************************)
EXTENDS Integers, Sequences, FiniteSets, FiniteSetsExt

CONSTANTS PackageName,
          ImportRequest, \* requests of admins that import counts
          MaxDay,        \* bound: days after the first
          MaxDownloads,  \* bound: downloads
          MaxImports,    \* bound: imports
          MaxCrashes,    \* bound: crashes
          MaxErrors      \* bound: errors of the file system

ASSUME CountAssumption ==
    /\ IsFiniteSet(PackageName)
    /\ {MaxDay, MaxDownloads, MaxImports, MaxCrashes, MaxErrors} \subseteq Nat

VARIABLES today,       \* the calendar
          inMem,       \* durable: InMemStats, a day and its counts
          disk,        \* durable: per package with a file, its counts per day
          log,         \* durable: per package, the sum of its log entries
          chan,        \* downloadStream
          totals,      \* totalDownloadsCache
          counter,     \* registerDownloads: what the thread does next
          importer,    \* putDownloadCounts: what each request does next
          downloads,   \* history: per package, how often it was downloaded
          imported,    \* history: per package, what imports have added
          lost,        \* history: per package, what was lost with memory
          crossed,     \* history: packages whose file an import wrote when the
                       \* thread had read it or taken it for missing
          mixed,       \* history: an import has met a change of day or
                       \* another import
          unlogged,    \* history: packages that an import left out, or that one
                       \* cut short may have left in files, totals or log only
          faults       \* counts imports, crashes and errors

Day == 0 .. MaxDay
None == [p \in PackageName |-> 0]

files   == <<disk, log>>
history == <<downloads, imported, lost, crossed, mixed, unlogged>>
countVars    == <<today, inMem, files, chan, totals, counter, importer, history, faults>>

Idle == [at |-> "idle"]
Dead == [at |-> "dead"]
Rollover == {"append", "list", "read", "write", "recompute"}

-----------------------------------------------------------------------------
(* Counting maps.                                                          *)

cmEmpty == [d \in Day |-> 0]
cmTotal(perDay) ==
    LET upTo[d \in Day] == IF d = 0 THEN perDay[0] ELSE upTo[d - 1] + perDay[d]
    IN  upTo[MaxDay]
cmInsert(d, n, perDay) == [perDay EXCEPT ![d] = @ + n]
Plus(f, g) == [p \in PackageName |-> f[p] + g[p]]

FileTotal(p) == IF p \in DOMAIN disk THEN cmTotal(disk[p]) ELSE 0
computeTotalDownloads == [p \in PackageName |-> FileTotal(p)]

(* What the thread holds in its hands: the download it is about to count,  *)
(* and of yesterday's counts those not in the files yet.                   *)
InHand(p)    == IF counter.at \notin {"idle", "dead"} /\ counter.pkg = p THEN 1 ELSE 0
Unwritten(p) ==
    CASE counter.at \in {"append", "list"} -> counter.stats.counts[p]
      [] counter.at = "read"  -> IF p \in counter.left THEN counter.stats.counts[p] ELSE 0
      [] counter.at = "write" -> IF p \in counter.left \cup {counter.file}
                                 THEN counter.stats.counts[p] ELSE 0
      [] OTHER -> 0
Queued(p) == Cardinality({i \in DOMAIN chan : chan[i] = p})

Importing == {r \in ImportRequest : importer[r] # Idle}
LogOpen   == \E r \in ImportRequest : importer[r].at = "write"

-----------------------------------------------------------------------------
(* Requests and the calendar.                                              *)

(* packageDownloadHook; the sum of the history bounds the downloads.       *)
download(p) ==
    /\ MapThenSumSet(LAMBDA q : downloads[q], PackageName) < MaxDownloads
    /\ chan' = Append(chan, p)
    /\ downloads' = [downloads EXCEPT ![p] = @ + 1]
    /\ UNCHANGED <<today, inMem, files, totals, counter, importer,
                   imported, lost, crossed, mixed, unlogged, faults>>

Midnight ==
    /\ today < MaxDay /\ today' = today + 1
    /\ UNCHANGED <<inMem, files, chan, totals, counter, importer, history, faults>>

-----------------------------------------------------------------------------
(* registerDownloads, one step for each thing it reads or writes.          *)

Goto(next) ==
    /\ counter' = next
    /\ mixed' = (mixed \/ (next.at \in Rollover /\ Importing # {}))

(* A download is taken off and the day compared with the recorded one.     *)
readChan ==
    /\ counter = Idle
    /\ chan # << >> /\ chan' = Tail(chan)
    /\ Goto([at |-> IF today = inMem.day THEN "register" ELSE "reset",
             pkg |-> Head(chan), day |-> today])
    /\ UNCHANGED <<today, inMem, files, totals, importer,
                   downloads, imported, lost, crossed, unlogged, faults>>

(* Yesterday's counts are in the hands of the thread from here on.         *)
resetInMem ==
    /\ counter.at = "reset"
    /\ inMem' = [day |-> counter.day, counts |-> None]
    /\ Goto([at |-> "append", pkg |-> counter.pkg, day |-> counter.day, stats |-> inMem])
    /\ UNCHANGED <<today, files, chan, totals, importer,
                   downloads, imported, lost, crossed, unlogged, faults>>

(* Mutant: the log is not written at the change of day.                    *)
appendToLog_Not ==
    /\ counter.at = "append" /\ ~ LogOpen
    /\ UNCHANGED log
    /\ Goto([counter EXCEPT !.at = "list"])
    /\ UNCHANGED <<today, inMem, disk, chan, totals, importer,
                   downloads, imported, lost, crossed, unlogged, faults>>

(* One step: cut short it leaves some of the counts in the log, and none   *)
(* of them is in the files yet.                                            *)
appendToLog ==
    /\ counter.at = "append" /\ ~ LogOpen
    /\ log' = Plus(log, counter.stats.counts)
    /\ Goto([counter EXCEPT !.at = "list"])
    /\ UNCHANGED <<today, inMem, disk, chan, totals, importer,
                   downloads, imported, lost, crossed, unlogged, faults>>

(* readOnDiskStats, as far as it is not lazy: the files there are.         *)
listFiles ==
    /\ counter.at = "list"
    /\ LET stats == counter.stats
           left == DOMAIN disk \cup {p \in PackageName : stats.counts[p] > 0}
       IN  Goto([at |-> IF left = {} THEN "recompute" ELSE "read",
                 pkg |-> counter.pkg, day |-> counter.day, stats |-> stats,
                 listed |-> DOMAIN disk, left |-> left])
    /\ UNCHANGED <<today, inMem, files, chan, totals, importer,
                   downloads, imported, lost, crossed, unlogged, faults>>

(* Mutant: yesterday's counts replace those in the file.                   *)
updateHistory_Replaces(stats, p, old) == cmInsert(stats.day, stats.counts[p], cmEmpty)

updateHistory(stats, p, old) == cmInsert(stats.day, stats.counts[p], old)

(* The contents of the next file, from its old contents if it was listed.  *)
readFile ==
    /\ counter.at = "read"
    /\ \E p \in counter.left :
           LET old == IF p \in counter.listed THEN disk[p] ELSE cmEmpty
           IN  Goto([at |-> "write", pkg |-> counter.pkg, day |-> counter.day,
                     stats |-> counter.stats, listed |-> counter.listed,
                     left |-> counter.left \ {p}, file |-> p,
                     perPkg |-> updateHistory(counter.stats, p, old)])
    /\ UNCHANGED <<today, inMem, files, chan, totals, importer,
                   downloads, imported, lost, crossed, unlogged, faults>>

WithFile(p, perPkg) ==
    [q \in DOMAIN disk \cup {p} |-> IF q = p THEN perPkg ELSE disk[q]]

(* writeFileAtomic.                                                        *)
writeFile ==
    /\ counter.at = "write"
    /\ disk' = WithFile(counter.file, counter.perPkg)
    /\ Goto([at |-> IF counter.left = {} THEN "recompute" ELSE "read",
             pkg |-> counter.pkg, day |-> counter.day, stats |-> counter.stats,
             listed |-> counter.listed, left |-> counter.left])
    /\ UNCHANGED <<today, inMem, log, chan, totals, importer,
                   downloads, imported, lost, crossed, unlogged, faults>>

(* Mutant: the download that made the day change is forgotten.             *)
recompute_Ends ==
    /\ counter.at = "recompute"
    /\ totals' = computeTotalDownloads
    /\ Goto(Idle)
    /\ UNCHANGED <<today, inMem, files, chan, importer,
                   downloads, imported, lost, crossed, unlogged, faults>>

recompute ==
    /\ counter.at = "recompute"
    /\ totals' = computeTotalDownloads
    /\ Goto([at |-> "register", pkg |-> counter.pkg, day |-> counter.day])
    /\ UNCHANGED <<today, inMem, files, chan, importer,
                   downloads, imported, lost, crossed, unlogged, faults>>

registerDownload ==
    /\ counter.at = "register"
    /\ inMem' = [inMem EXCEPT !.counts[counter.pkg] = @ + 1]
    /\ Goto(Idle)
    /\ UNCHANGED <<today, files, chan, totals, importer,
                   downloads, imported, lost, crossed, unlogged, faults>>

registerDownloads ==
    \/ readChan \/ resetInMem \/ appendToLog \/ listFiles \/ readFile
    \/ writeFile \/ recompute \/ registerDownload

-----------------------------------------------------------------------------
(* putDownloadCounts of an admin, with some count for some packages.       *)

putDownloadCounts(r) ==
    /\ importer[r] = Idle
    /\ faults.imports < MaxImports
    /\ faults' = [faults EXCEPT !.imports = @ + 1]
    /\ \E pkgs \in SUBSET PackageName :
           importer' = [importer EXCEPT ![r] =
                          [at |-> "files", left |-> pkgs,
                           csv |-> [p \in pkgs |-> cmInsert(0, 1, cmEmpty)]]]
    /\ mixed' = (mixed \/ counter.at \in Rollover \/ Importing # {})
    /\ UNCHANGED <<today, inMem, files, chan, totals, counter,
                   downloads, imported, lost, crossed, unlogged>>

(* The thread will write the file from contents that lack the import.      *)
Crosses(p) ==
    \/ counter.at = "write" /\ counter.file = p
    \/ counter.at \in {"read", "write"} /\ p \in counter.left \ counter.listed

importFile(r) ==
    /\ importer[r].at = "files"
    /\ \E p \in importer[r].left :
           LET perPkg == importer[r].csv[p]
           IN  /\ disk' = WithFile(p, perPkg)
               /\ importer' = [importer EXCEPT ![r].left = @ \ {p}]
               /\ imported' = [imported EXCEPT ![p] = @ + cmTotal(perPkg) - FileTotal(p)]
               /\ crossed' = IF Crosses(p) THEN crossed \cup {p} ELSE crossed
    /\ UNCHANGED <<today, inMem, log, chan, totals, counter,
                   downloads, lost, mixed, unlogged, faults>>

CsvTotals(csv) == [p \in PackageName |-> IF p \in DOMAIN csv THEN cmTotal(csv[p]) ELSE 0]

(* The totals are those imported, whatever other files there are, ...      *)
importTotals(r) ==
    /\ importer[r].at = "files" /\ importer[r].left = {}
    /\ totals' = CsvTotals(importer[r].csv)
    /\ importer' = [importer EXCEPT ![r].at = "log"]
    /\ UNCHANGED <<today, inMem, files, chan, counter, history, faults>>

(* ... and so is the log, in two steps: writeFile empties it ...           *)
openLog(r) ==
    /\ importer[r].at = "log" /\ ~ LogOpen
    /\ log' = None
    /\ importer' = [importer EXCEPT ![r].at = "write"]
    /\ UNCHANGED <<today, inMem, disk, chan, totals, counter, history, faults>>

(* ... and then writes it.                                                 *)
reconstructLog(r) ==
    /\ importer[r].at = "write"
    /\ log' = CsvTotals(importer[r].csv)
    /\ unlogged' = (unlogged \cup DOMAIN disk) \ DOMAIN importer[r].csv
    /\ importer' = [importer EXCEPT ![r] = Idle]
    /\ UNCHANGED <<today, inMem, disk, chan, totals, counter,
                   downloads, imported, lost, crossed, mixed, faults>>

-----------------------------------------------------------------------------
(* Crashes and errors.                                                     *)

(* The packages of which files and log may disagree while the import is at *)
(* work: those it writes, and all that have a file while the log is empty. *)
(* (Cut short there, the log may also hold some packages of the import.)   *)
Rewrites(r) ==
    IF importer[r].at = "write" THEN DOMAIN importer[r].csv \cup DOMAIN disk
                                ELSE DOMAIN importer[r].csv

(* The process is gone with everything it had not stored.                  *)
Crash ==
    /\ faults.crashes < MaxCrashes
    /\ faults' = [faults EXCEPT !.crashes = @ + 1]
    /\ chan' = << >>
    /\ counter' = Idle /\ importer' = [r \in ImportRequest |-> Idle]
    /\ totals' = computeTotalDownloads
    /\ lost' = [p \in PackageName |-> lost[p] + Queued(p) + InHand(p) + Unwritten(p)]
    /\ unlogged' = unlogged \cup UNION {Rewrites(r) : r \in Importing}
    /\ UNCHANGED <<today, inMem, files, downloads, imported, crossed, mixed>>

FileError ==
    /\ faults.errors < MaxErrors
    /\ faults' = [faults EXCEPT !.errors = @ + 1]

(* An exception ends the counting thread; nobody notices.                  *)
Death ==
    /\ counter' = Dead
    /\ lost' = [p \in PackageName |-> lost[p] + InHand(p) + Unwritten(p)]
    /\ UNCHANGED <<today, inMem, files, chan, totals, importer,
                   downloads, imported, crossed, mixed, unlogged>>

(* It comes from the file system, at any of the thread's work on files, or *)
(* from the log, which an import has open.                                 *)
Die == counter.at \in Rollover /\ FileError /\ Death
logIsLocked == counter.at = "append" /\ LogOpen /\ Death /\ UNCHANGED faults

(* An exception ends an import; what it has done stays.  The totals are    *)
(* replaced for packages it leaves out, too, before it writes the log.     *)
importError(r) ==
    /\ importer[r] # Idle
    /\ FileError \/ (importer[r].at = "log" /\ LogOpen /\ UNCHANGED faults)
    /\ importer' = [importer EXCEPT ![r] = Idle]
    /\ unlogged' = unlogged \cup DOMAIN importer[r].csv
                       \cup (IF importer[r].at = "files" THEN {} ELSE DOMAIN disk)
    /\ UNCHANGED <<today, inMem, files, chan, totals, counter,
                   downloads, imported, lost, crossed, mixed>>

CountInit ==
    /\ today = 0
    /\ inMem = [day |-> 0, counts |-> None]
    /\ disk = << >> /\ log = None
    /\ chan = << >>
    /\ totals = None
    /\ counter = Idle /\ importer = [r \in ImportRequest |-> Idle]
    /\ downloads = None /\ imported = None /\ lost = None
    /\ crossed = {} /\ mixed = FALSE /\ unlogged = {}
    /\ faults = [imports |-> 0, crashes |-> 0, errors |-> 0]

CountNext ==
    \/ \E p \in PackageName : download(p)
    \/ Midnight
    \/ registerDownloads
    \/ \E r \in ImportRequest :
          \/ putDownloadCounts(r) \/ importFile(r) \/ importTotals(r)
          \/ openLog(r) \/ reconstructLog(r) \/ importError(r)
    \/ Crash \/ Die \/ logIsLocked

CountSpec == CountInit /\ [][CountNext]_countVars

(* The thread goes on while it lives.  Nothing else need happen.           *)
CountFairSpec == CountSpec /\ WF_countVars(registerDownloads \/ logIsLocked)

-----------------------------------------------------------------------------
(* Properties.                                                             *)

Counts == [PackageName -> Nat]
Stats  == [day : Day, counts : Counts]
PerDay == [Day -> Nat]

(* What the counting thread holds at each of its places, and an import.    *)
Counter ==
    {Idle, Dead}
    \cup [at : {"register", "reset"}, pkg : PackageName, day : Day]
    \cup [at : {"append", "list"}, pkg : PackageName, day : Day, stats : Stats]
    \cup [at : {"read", "recompute"}, pkg : PackageName, day : Day, stats : Stats,
          listed : SUBSET PackageName, left : SUBSET PackageName]
    \cup [at : {"write"}, pkg : PackageName, day : Day, stats : Stats,
          listed : SUBSET PackageName, left : SUBSET PackageName,
          file : PackageName, perPkg : PerDay]

ImportOK(import) ==
    \/ import = Idle
    \/ /\ import.at \in {"files", "log", "write"}
       /\ DOMAIN import.csv \subseteq PackageName
       /\ import.left \subseteq DOMAIN import.csv
       /\ \A p \in DOMAIN import.csv : import.csv[p] \in PerDay

ImportsOK ==
    /\ DOMAIN importer = ImportRequest
    /\ \A r \in ImportRequest : ImportOK(importer[r])

(* Types of the variables.                                                 *)
CountTypeOK ==
    /\ today \in Day
    /\ inMem \in Stats
    /\ DOMAIN disk \subseteq PackageName /\ \A p \in DOMAIN disk : disk[p] \in PerDay
    /\ log \in Counts
    /\ chan \in Seq(PackageName)
    /\ totals \in Counts
    /\ counter \in Counter
    /\ ImportsOK
    /\ downloads \in Counts /\ lost \in Counts
    /\ imported \in [PackageName -> Int]
    /\ crossed \subseteq PackageName /\ mixed \in BOOLEAN
    /\ unlogged \subseteq PackageName

(* Every download is somewhere, and in one place: on the channel, in the   *)
(* hands of the thread, among today's counts or in the files, or it was    *)
(* lost with what the process held in memory.  So nothing is ever counted  *)
(* twice, in whatever order day, crashes and imports come, and imports set *)
(* a file to what they say unless the thread had read it before.           *)
CountsConserved ==
    \A p \in PackageName \ crossed :
        inMem.counts[p] + FileTotal(p) + Queued(p) + InHand(p) + Unwritten(p) + lost[p]
            = downloads[p] + imported[p]

(* "The append-only all-time log" (DownloadCount/State.hs): what is in a   *)
(* file is in the log, whenever the process stops or the thread dies; and  *)
(* outside the change of day the totals shown are those of the files.      *)
(* Four things the code does break this.  Nothing keeps an import and a    *)
(* change of day, or two imports, from meeting (mixed).  An import leaves  *)
(* the files of packages it does not name, but not their totals and log    *)
(* entries; cut short, it leaves some of files, totals and log as they     *)
(* were (unlogged).  And it empties the log before it writes it: a stop in *)
(* between loses the entries of every package (Rewrites, unlogged).        *)
LogAndTotalsCover ==
    \A p \in PackageName :
        \/ mixed \/ p \in unlogged
        \/ \E r \in Importing : p \in Rewrites(r)
        \/ /\ FileTotal(p) <= log[p]
           /\ \/ counter.at \in Rollover \cup {"dead"}
              \/ \E r \in Importing : importer[r].at \in {"log", "write"}
              \/ totals[p] = FileTotal(p)

(* While the thread lives, what was downloaded is in the end counted, or   *)
(* lost by a crash.                                                        *)
EventuallyCounted ==
    <>[](\/ counter = Dead
         \/ \A p \in PackageName : p \in crossed \/
               inMem.counts[p] + FileTotal(p) + lost[p] = downloads[p] + imported[p])
=============================================================================
