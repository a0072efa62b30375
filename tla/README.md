# A TLA+ model of hackage-server

hackage-server is the program behind the Haskell package repository: one
process, written in Haskell, that keeps all its durable state in acid-state
components and in a content-addressed store of files, serves it over HTTP, and
derives indexes, caches and signed metadata from it. This directory holds a
model of the parts of it whose correctness depends on what happens *between*
the steps of a request: TLA+ modules, TLC configurations, and theorems that
TLAPS checks.

1. [The system](#1-the-system): components, state, interactions, what is hard
2. [The modules](#2-the-modules): what models what
3. [The runs](#3-the-runs): what TLC checks, bounds, fairness
4. [The theorems](#4-the-theorems): what is proved, from what, along which argument
5. [Findings and observations](#5-findings-and-observations)
6. [What is not modelled](#6-what-is-not-modelled)
7. [Plan](#7-plan)
8. [Using the project](#8-using-the-project)

Paths are relative to `src/src/Distribution/Server/` unless they begin with
`src/`.

## 1. The system

### How it runs

- Every feature (`Features/*.hs`) owns some **acid-state components**. An update
  is a transaction: transactions of one component are totally ordered, atomic
  and durable. There is no transaction over two components, and a handler that
  needs a query and an update, or two updates, runs two transactions.
- Every HTTP request has a **thread** of its own. It may be killed (a timeout, a
  client that goes away, an exception in a hook) between any two steps.
- **Hooks** (`Framework/Hook.hs`) are lists of callbacks that the thread that
  fires them runs one after the other; nothing catches their exceptions.
- **Asynchronous caches** (`Framework/Cache.hs`) have one loop thread each; a
  thread that changes the source *prods* the cache: it reads the source and puts
  the result on a channel.
- **Cron** (`Framework/Cron.hs`) runs the jobs of all features in one thread.
- A **crash** loses threads, caches, group indexes and hooks; acid-state and
  files remain.

So the model of a handler is a sequence of actions, one per transaction, query
or channel operation, with other threads in between, and death anywhere.

### Components

| Component | State | Operations | Interacts with | What is hard | What makes it correct |
|---|---|---|---|---|---|
| Core/State (`Features/Core/State.hs`, `Packages/Index.hs`) | package index: per id its `.cabal` revisions and tarballs; the update log; whether the log was migrated | add, delete, revise, add tarball, set uploader or time, add an entry, migrate | every feature that reads packages | the log copies owner and time but not contents, and is rendered from the *current* index; old journals replayed | the log has every revision in order; served text never changes; both index formats agree |
| Core feature (`Features/Core.hs`) | the cache of the index tarballs | the `update…` functions: transaction, hook, prod | hooks to ten features; cache; Security | transaction, hook and prod are separate; hook handlers throw | no entry is lost; what was added is served in the end |
| Security (`Features/Security.hs`, `Security/State.hs`) | root, mirrors and key files, hash of the index, versions, signed snapshot and timestamp | set files, set hash, resign | hook on the index cache; cron; SIGHUP | registered after the cache starts; three writers | signed = served; versions only grow |
| Cache (`Framework/Cache.hs`) | channel, published value, loop thread | prod, read | all derived data | read-then-queue; failing evaluation | trails the source, goes back only after a race, catches up |
| Users (`Users/Users.hs`) | accounts by id, names, tokens, next id | add, delete, enable, set password, add and revoke tokens | everything that stores a user id | names are recycled, ids are not; several redundant maps | the invariant the file spells out; ids are never inherited |
| Users feature, UserDetails, UserSignup | details, sign-up and reset links, groups, group index | account routes, registration, reset, group edits | Users; mail | look up by name, act by id; several transactions per registration | disabled and deleted stay so; one account per link; index agrees with group |
| Upload (`Features/Upload.hs`) | maintainer groups | upload | Core, Users | checks a snapshot of the index, then acts | only the entitled release; reports true; every package has an owner |
| PackageCandidates | candidate index | upload, publish, delete | Core, Upload's groups | as Upload, over two components | candidates not lost; same rules as uploads |
| Vouch (`Features/Vouch.hs`) | endorsements, users to be told | endorse, drain | uploaders group; UserNotify's job | judges what it read; replaces everything from a stale read | several users' word; true mails; enough endorsements suffice |
| EditCabalFiles | none | revise by form | Core | checks against the revision it read | no revision undone unseen |
| PreferredVersions, Tags, PackageList, Votes | ranges, deprecations; tags both ways; list items in memory | put, deprecate, tag, merge, rebuild an item | one another by hooks; Core's hooks and index | read-modify-write over transactions; an item is read again, taken from the hook's argument or computed from both; rebuilt from many reads | derived data agree with what they derive from, once nobody is busy with the package |
| DownloadCount | counts of today, log, a file per package, totals | count, change of day, import | Core's download hook | three stores changed one after the other, with lazily read files and a log that is emptied before it is written, under imports that may overlap, a crash, or an error that ends the only thread | nothing counted twice, nothing lost but what was in memory; log and totals cover the files; all is counted in the end |
| Browse (`src/datafiles/static/browse.js`, `Features/Browse*`) | in the tab: query, sort order, page, number of results, headers, rows, history; on the server none | search, sort, turn pages, build a query by form, go back and forward, load again; parse, filter, sort, slice | the list of packages | replies in any order or never; state, headers, address and history change at different times; script and server compute pages each by themselves | the rows shown answer the last request; pages, arrows, address and filters tell the truth |
| UserNotify | preferences, time of last run; in memory what tags were proposed since | set preferences, collect, mail | nearly all features; cron | requests read the clock before they store; sources are read one after the other; mails go out before the time is stored; proposals are read, then emptied | every event is told, and not again after a run that told it has finished; proposals reach who decides on them; failures only delay |
| Documentation, TarIndexCache, BuildReports, HoogleData | blobs by package, tar indices, reports and fail counts, bundle | upload, delete, rebuild | BlobStorage, build client | numbers reused after restart; read-then-clear | numbers unique; bundle complete |
| ReverseDependencies, Search, Distro | derived indexes | update, rebuild | Core's hook | incremental against rebuilt | equal to one built from nothing |
| BlobStorage, Cron, Hook, Auth | files; jobs; callbacks; none | add, move; timer | all | crashes between write, sync and rename; timer signals | a stored id has its contents; no job is forgotten |
| Presentation, derived lists, logs, clients | none, or one collection each | render | — | little | — |

`PROJECT.json` lists every component with its sources, what is modelled of it
and, if nothing is, why; and every hazard with its line and the properties that
guard against it.

### What is hard to test here

- **Read, then act.** Upload, publish, vouch, edit, tag and delete decide from
  a query and act in a later transaction. Tests run one request at a time.
- **Redundant state.** Log and index; names, ids and tokens; group and group
  index; cache, hash and signature.
- **Death between transactions**, in particular inside hooks.
- **Order**: entries appended by different threads, values queued by different
  threads, hooks registered after the cache was started.
- **Restarts and old journals**: what is only in memory, and the migration of a
  log that old transactions did not keep.

## 2. The modules

```
PackagesState      AsyncVar <---- AsyncCache  ==refines==>  TrailingCopy
      :               ^
  (log length)        |
      :.........> CoreFeature          Users <---- UserFeature

PackageTags <---- PackageList          SearchBackend <---- Browse

Uploads            Vouch               DownloadCount               UserNotify
```
`<----` is EXTENDS, `==refines==>` a refinement that is checked and proved, and
the dotted line is an abstraction that `PackagesState` justifies.
`MC…` modules hold TLC's constants and symmetry, `…_proofs` the theorems
(those about AsyncCache are in `CoreFeature_proofs`, those about DownloadCount in `Browse_proofs`).
Operators whose names end in `_Something` under a comment "Mutant" are
wrong variants of the definition after them: no specification uses them. They
record which mistakes the properties are known to detect (`PROJECT.json`,
"mutants").

### PackagesState

One action per acid-state transaction of `Features/Core/State.hs`, the
superseded ones included (an old journal is replayed with them), and the two
renderings of `Packages/Index.hs` as operators: `writeIncremental` (01-index.tar,
from the log and the current index) and `writeLegacy` (00-index.tar).
Packages, texts, tarballs and users are model values, a time is a number.
A database is fresh (`initialPackagesState True`) or not; one that is not
starts with the log under `Left`, where `fmap` ignores what is added, until
`migrateAddUpdateLog` rebuilds it. The sort of the migration is by time and
stable; entries of equal time keep their order per package. Two history variables say
what the properties except: `ordered` has the packages whose upload times no migration
found out of order (an admin can change them), `deleted` the packages that were deleted
at some time (no route calls `updateDeletePackage`, though the transaction exists).

### AsyncVar, AsyncCache, TrailingCopy

`AsyncVar` has the channel, the published `Either`, and the loop thread in its
steps: take all that is queued, force the last, publish a value or an
exception, run the hook. It has no `Next` of its own. `AsyncCache` puts it among
threads that change the source and prod (hook handlers), only prod (cron), or
only change (the index contains user names, whose changes prod nothing).
`prodAsyncCache` is two actions, `Update` (read) and `Enqueue`.
Any number of threads may be in the middle of a prod, so they may queue what they read
in another order than they read it. Two history variables: `raced` says that an older value
has been queued after a newer one and the cache has not caught up with the source since;
`silent`, that the source has changed with no prod to follow and nobody has read it since.
`TrailingCopy` is what a reader is promised, with no channel or thread: a copy
that may skip changes, is never ahead of the source, goes back only while `raced`, and
catches up. In the code some caches are prodded by hooks and some by a cron job; the module has
both at once, and its liveness says which part hooks alone see to and which takes
the cron job (`CronRuns`).

### CoreFeature

The pipeline from a request to a signed index. A request thread performs a
transaction (`updateAddPackage`, …), then runs `packageChangeHook`
(`addOtherIndexEntries`, Core's handler, which runs last because it registered
first; `Abort` is another handler that throws), then prods the index cache
(`getIndexTarball`, `prodIndexTar`). The loop thread's update hook stores the hash
of the index in the security state, which signs. Beside it: the cron job that
resigns, the operator who replaces the files, the reload in its two steps, the
start-up phases (the hook is registered after the cache started, so that the first
evaluation may be published with nobody listening: the history variable `missed`) and a crash.
The package index is reduced to the number of tarballs per package and to the
log, and a rendered index to the length of the log. `PackagesState` proves
(`IndexIsAppendOnly`) that without deletions the tarball is determined by a prefix
of the log, so equal lengths mean equal hashes.

### Users, UserFeature

`Users` has one operator per transaction of the user database that a route
calls, with the records of `userIdMap` kept field by field. `UserFeature` has the
routes: `lookupUserName` finds an id, an errand is done by id in a later
transaction; registration and reset are four or five steps each; group updates are
two (index, then group). `Abort` is a thread that dies, `Crash` loses threads and
rebuilds the group index from the membership. Abstractions: of a password only
whether there is one; of the details only who is a `RealUser`; of the groups only
uploaders, since the others run the same code; authorisation has passed; the two
reads that confirm a reset are one. Not modelled: `insertUserAccount` and
`replaceUserDb` (restore), `setUserName` (no caller).

### Uploads

The upload, candidate and publish routes. A request remembers the package index
as it was when it started (`seen`), then checks the groups, and then runs its
transactions. `processUpload`, `processCandidate` and `checkCandidate` carry all rules:
existing version, version modulo trailing zeros, maintainership, names that
differ only in case. The history variable `during` records what was true at some
moment of a request, which is what "entitled" can mean when rules are checked
against a snapshot. Abstractions: the group reads of one check are one step; the
uploaders group is a constant (as a group it is in `UserFeature`); unpacking,
blobs and mirror clients are left out; packages are never deleted.

### Vouch

`handlePostVouch` in its seven steps, judged rule by rule where each read happens
(a request that breaks a rule changes nothing, so the order of the answers does not
matter), `replaceVouchesData` that stores what was read one step earlier, the
notification job with its own read and replace, admins who edit the group, time,
and threads that die. The read of the group and of the clock are one step.

### PackageTags, PackageList

`PackageTags` has the two maps of tags and the proposals of `Tags/State.hs`, with one
operator per transaction; like the code it changes the second map by the difference to
what the first held. `PackageList` puts three features together: versions
(`PreferredVersions.hs`), tags (`Tags.hs`) and the list (`PackageList.hs`). A hook
runs its listeners in the thread of the request, and these read, store and run hooks
again; so what a thread has yet to do is a *sequence of steps* (`todo`), each one
query, transaction or change of the list, and a listener puts its steps in front of
the rest. `Main` is the thread that starts the server: after a crash it sets the
calculated tags and builds the list before requests are served.

An item of the list has three fields, for the three ways in which the code keeps one:
`tags` is read again after the hook, `deprecated` is taken from the hook's argument,
`reference` is computed from the argument and the index. The history variable
`overlapped` has the packages two requests were busy with at once. Abstractions: `hasItem` and
the reads of `constructItem` are one step, and the insertion another; a preferred-versions
entry is the versions it excludes; a description is the set of tags it implies; hand edits do not
touch the tag `deprecated` (the route would allow it). Left out: aliases and merging
of tags, ranges, the log of proposals, the other fields of items.

### SearchBackend, Browse

`Browse` is the script `browse.js` in one tab: the state record of the script, the headers
of the table, the listing, the requests under way (`get`, `settle`, `reject`, `lose`), the history of
the tab with its saved states, and one action per thing the visitor can do. Every action is
the whole event handler up to the request it sends; the continuation after `await` is the
action that settles the request. `SearchBackend` is the server's side as operators: the
parser of the query (`Parsers.hs`) over symbols instead of characters, the filters and
sorting (`ApplyFilter.hs`; `sortBy` is modelled by the place a row gets, the number of rows
that precede it) and the slice (`Browse.hs`). The packages come by name, or with search terms as the
search engine ranks them, and so they stay in the default order and where the sort key is
equal. Packages, their sort keys, what a word finds and the rankings are constants; ages are compared
in thousandths of a day, for months and years are averages; `Volatile` packages may be missing from a reply, as the list changes
while a visitor looks at it. The page without script is left out.

### DownloadCount

The counting thread (`registerDownloads`) with one action for each thing it reads or writes at the change
of day: reset memory, append to the log, list the files, read and
write one after the other (they are read lazily, each just before it is written),
compute the totals. Beside it: downloads that go on a channel, midnight, and any number of imports by
admins. `putDownloadCounts` takes no lock, so imports overlap with the thread and with one
another; each has its steps: the files one by one (`importFile`), the totals
(`importTotals`), and the log, which `writeFile` empties (`openLog`) before it writes it
(`reconstructLog`). The one exclusion there is comes from the runtime: a file open for writing
cannot be opened again, so an append or a second import that finds the log open fails
(`logIsLocked`, `importError`). Any of the thread's work on files and any step of an import may
fail otherwise, too (`FileError`), which ends the thread for good (`Die`) or the import (`importError`);
and the process may crash at any point. The history variables say what the properties except: `crossed`
the packages whose file an import wrote when the thread had read it, `mixed` that
imports met one another or a change of day, `unlogged` the packages that an import left out, or
one cut short may have left in the files, the totals or the log only.

The log is its sum per package. Lines that the thread appends have no day
(`DownloadCount/State.hs:233`), those of an import do, and no code reads the log, so the sum is all that
one can hold against the files. Versions of a package and the recent downloads are left out.
The specification is `CountSpec` (`CountFairSpec` with fairness of the thread), so that a module
of theorems may extend this one beside another.

### UserNotify

`notifyCronAction` in its steps: read preferences and clock, collect releases, look
each package up again for its mail, collect changes of the group, read the log of proposed
tags and empty it, mail user by user, store the time. Beside it the requests: a release
(the clock is read before the transaction), a change of the group (changed, then timed by the hook,
then logged), tags proposed (stored, then remembered for the job), and decided on (read, stored,
remembered); users who change their preferences; a mail that fails, which ends the run; a
restart. The history variables: `told` has who was told what by runs that finished (what a failed run has mailed is mailed again by the next); `excused` what
no run need tell whom, decided by the run that covers an event's time or when the event
comes too late for it; `dealt` the proposals that were mailed; `lost` those that one of the
known races lost. There is one package, all users have account details (those without are skipped), mirror uploads with old times and the sources that have
no part in this (documentation, dependencies, endorsements) are left out, and a mail is whom
it goes to and what it is about.

## 3. The runs

| Run | Question | Properties | Instance | States |
|---|---|---|---|---|
| `Packages` | Do log, index and both tar formats stay in agreement, in a fresh database and through the migration of a log that was not kept? | `RevisionsLogged`, `IndexFormatsAgree`, `EntriesResolve`, `MigrationIsComplete`, `IndexAppendOnly` | 2 packages, 2 texts, 2 times, 1 tarball, 1 user, one extra entry, log ≤ 4, ≤ 2 revisions | 1 000 000 |
| `Cache` | Is the cache a copy that trails its source, through racing prods and failing evaluations? | `EventuallyFresh`, `TrailsSource` | 2 handlers and the cron job prod in any overlap, a thread changes the source silently, 4 changes, two values do not evaluate, queue ≤ 3 | 1 190 000 |
| `IndexSecurity` | Is every entry kept, is what is served what is signed, through reloads, resigning, kills and crashes, and is it reached? | `UploadsHavePackageJson`, `TarballsGetEntries`, `SignedMatchesState`, `SignedIsServed`, `EventuallyServed` | 1 request at a time, log ≤ 3, 1 crash, 1 file version, resigning up to version 3 | 1 780 000 |
| `Accounts` | Do accounts, ids, tokens, links and groups stay in agreement through stale ids, deaths and crashes? | `UsersInvariant`, `OneAccountPerLink`, `GroupIndexAgrees`, `DeletedForGood` | 1 name, 2 accounts, 2 requests of which one deletes, 1 token, 1 link | 3 040 000 |
| `AccountsRecycled` | ... and if two requests may delete? Violated. | `UsersInvariant` | both delete | |
| `Uploads` | Do the rules on who may release what survive interleaving? | `ReportsAreTrue`, `TrailingZerosExplained`, `PackagesAreOwned`, `EntitledReleases`, `NoTakeover` | 2 names that clash, 4 ids (1, 1.0 and 2 of one name), 2 users, 2 requests | 1 220 000 |
| `UploadTrailingZeros` | Is the rule on trailing zeros kept? Violated. | `NoTrailingZeros` | 1 request | |
| `Vouch` | Do endorsements make uploaders when and only when they should? | `SeveralVouchers`, `NewUploadersWait`, `NotificationsAreTrue`, `EnoughUnlessOverlapped` | 2 uploaders, 2 newcomers, 2 requests at a time, 3 endorsements, the job, admins | 1 320 000 |
| `Lists` | Do list, tags, deprecation and index agree once no request is busy with a package, and again after a restart? | `ListAgrees`, `TagsAgree`, `IndexPreferencesAgree` | 2 packages of 2 versions, one with a tag by its description, 2 requests at a time, 4 in all, 1 crash | 1 220 000 |
| `Downloads` | Is any download counted twice or lost, do log and totals cover the files, does counting go on? | `CountsConserved`, `LogAndTotalsCover`, `EventuallyCounted` | 2 packages, 2 downloads, 3 days, 2 imports that may overlap, a crash, an error of the file system | 3 510 000 |
| `Browse` | Does the page tell the truth, whatever order replies come in? | `ListingIsCurrent`, `PagesAgree`, `ArrowsAgree`, `AddressMatchesQuery`, `FiltersHold`, `AnsweredOrWarned` | 17 packages on 9 pages, 2 columns, a word, a stray parenthesis, ages that are 0, malformed and fractional, 3 requests, a visit that begins with a history | 658 000 |
| `Notify` | Is every event told to everybody who wants to know, and not again once a run that told it has finished, do proposals reach who decides, do failures only delay? | `ToldAndNotRepeated`, `ProposalsReach`, `CatchesUp` | 2 users, 2 versions, 2 tags, 2 requests, 2 times, 1 failure | 1 320 000 |

All but the two marked as violated pass; those two are the findings of
section 5. `TypeOK` of the modules with theorems is proved instead of checked,
and so are `ReleasesImmutable`, `LastWriteWins`, `VersionsIncrease`, `NoInheritance`,
`OnlyEnablingEnables` and `CandidatesKept`.

What each property says stands before it in the module.

### Bounds, and why they are enough

Every bound is a constant named in the module that declares it. They are chosen
so that what the properties speak of happens, and no smaller:

- `MaxLog`, `MaxRevisions`, `MaxTarballs`: revisions and tarballs of two
  packages interleaved, before and after the migration, and a deleted id released again
  and revised. One user: what tells two apart is only the record that a change of time
  rewrites too, and the theorems have no bound on either.
- `MaxQueue` is 2 or 3: the loop takes everything and keeps the last, so a queue
  of two shows a value being skipped; one longer shows nothing new.
- Two requests: every property here relates a request to *one* other thread.
  Where a third matters (a name registered between two deletions), one of the two
  threads is free again for it. `CoreFeature` gives the threads any order, with as many
  requests one after the other as the log has room for.
- `MaxUsers` 2: the second account recycles the name of the first.
- `MaxReleases` 2 with two requests gives up to three releases, hence two that
  differ in zeros and one that clashes in case.
- `Month` 0 with `MaxTime` 1: a tick is longer than the month of the rule, so an
  endorsement is recent before it and old after it. `MaxPosts` 3 is one more than is
  required.
- `MaxCrashes` 1: a restart is a fresh start with the durable state; the theorems
  have no such bound.
- `IndexSecurity` runs one request at a time, since two with all of the signing are
  beyond TLC; the theorems about `UploadsHavePackageJson`, `TarballsGetEntries`,
  `SignedMatchesState` and `VersionsIncrease` are for any number of them.
- `Lists`: `MaxRequests` 4 lets two requests overlap on a package and two
  later ones come when it is settled; two versions give a highest one that is
  deprecated. The exceptions for overlapping requests are necessary: without any one of
  them TLC finds a violation.
- `Downloads`: two changes of day and two downloads give a file that already has
  contents, and so does an import; two imports may overlap, or one follow another that was cut
  short. Again no exception in the properties can be dropped.
- `Browse`: nine pages give the paginator its four shapes and both ellipses; three
  requests let an old reply overtake a newer one with the history in between.
- `Notify`: two times and a cap of 1 give an event before, inside and after the window of a run, and one
  the cap cuts off; two requests store in the opposite order of their times. Again no
  exception can be dropped.

The theorems below hold for every value of the constants, the bounds among
them, so for the properties that are proved the size of the instance does not
matter.

### Fairness

Only the four runs that check liveness state any.

- `Cache`: a prod that was begun is finished and the loop thread runs. These are
  ordinary Haskell threads that wait for nothing but the
  channel, and the run-time system schedules every runnable thread. Nothing
  forces a change. That the cron job comes round again (`CronRuns`) is no part of the
  specification: it is the hypothesis of one half of each property, since some caches have no cron job.
- `IndexSecurity`: the same for request threads that are in the pipeline and the
  loop; and the server starts up. No fairness on requests, on the cron job that
  resigns, on the operator, on crashes; threads may die at any time
  (`EventuallyServed` excepts a change whose thread died before it could prod, until
  the next prod makes up for it).
- `Downloads`: the counting thread runs while it lives, or dies of a locked log; it waits for nothing but
  its channel and the disk. Nothing else is fair: no import need end, no day need pass.
- `Notify`: the thread of the cron jobs runs. An exception does not end it: `runSingleJob`
  (`Framework/Cron.hs:110`) catches it and queues the job again. Requests need not
  go on, and mails and restarts fail only so many times as `MaxFailures` says.

### Assumptions about scheduling

- One reload at a time; SIGHUP is an operator's act.
- An error of the file system ends the counting thread or an import (`MaxErrors` bounds how many):
  nothing catches it.

### Deadlock

It is checked in the passing runs `Cache`, `Uploads`, `Vouch`, `Browse` and `Notify`. The configurations
of `PackagesState`, `CoreFeature`, `UserFeature`, `PackageList` and `DownloadCount` turn it off: there the bounds
stop every handler once the log is full and the server has crashed, the names and
links are used up, or the requests and days are over, which is the bound's doing and not the program's.

## 4. The theorems

Every theorem is listed in `PROJECT.json` with the property it establishes; the
arguments in short:

**PackagesState** (`PackagesState_proofs`). `TypeCorrect`. `EntriesAlwaysResolve`, for
packages never deleted, and `IndexIsAppendOnly`, until something is deleted: every other
transaction *grows* the index (revisions and tarballs are only appended, texts
kept), *keeps* the log as a prefix and adds only entries that resolve in the new
index (`Preserves`, one lemma per transaction). `ReleasesAreImmutable` needs no
assumption: deletions may drop a package, but nothing changes one that stays.
`RevisionsInvariant` is `RevisionsLogged` with what the log is before the migration (extra
entries only), and gives `RevisionsAreLogged`: a transaction either keeps the entries of a
package with its revisions, or appends one of each (`Logged` states this of a log and a
number of revisions), and the migration sorts entries that were made in order. `LastShown`
and `MaxIs` read from it that the last entry a client sees is the last revision, hence
`FormatsAgree`. `MigrationLosesNothing`: no step but the migration makes the log `Right`, and what it
sorts are all the entries; that the entries of a package come out in the order of its revisions is part of
`RevisionsAreLogged` (`LoggedByMigration`).

**AsyncCache** (in `CoreFeature_proofs`, by `Cache == INSTANCE AsyncCache`, since both are about the
same cache; with threads and a source of its own). `CacheTypeCorrect`. `LastWriteIsPublished` for any threads, with
the invariant `CachePending`: the value written last is the last on the channel, or is
being forced, or is published. `CacheRead`: all values are at most the source's. `CacheOrdered`:
unless `raced`, published ≤ taken ≤ queued in order ≤ written last. They give
`CacheIsTrailingCopy`, the safety part of the refinement, for any threads that prod in any overlap:
each step maps to a `Refresh`, a `Confirm`, a `Change`, a `Race`, a `FallBack` or a stutter, so readers go
back only after a race. With at most one thread that prods nothing ever races (`OneThreadNeverRaces`).

**CoreFeature** (`CoreFeature_proofs`). `Inv` is the types with the agreement of
signed and current content; it gives `SignedContentIsCurrent` and
`SnapshotVersionsIncrease`, whatever order the three writers come in.
`NoUploadWithoutPackageJson` uses that the log only grows and that the entry is
added by the transaction that adds the package. `TarballEntriesAreNotLost`
accounts for each tarball: logged, pending in a thread, or orphaned by one that died.
`ServedIndexIsSigned` needs no assumption: its invariant `Served` says that a loop thread at rest
has published what was signed and the hook is registered, or nothing has been published since it
was missed (`missed`).

**UserFeature** (`UserFeature_proofs`). `Made` (every id held anywhere is below
`nextId`) gives `IdsAreNotInherited`, and with it `DeletionIsFinal`.
`UsersInvariantHolds` assumes that one request deletes at a time
(`Admin` a singleton) and needs two invariants beside `Made`: `Agreement`, a form of
the database's invariant that each transaction preserves by itself, and
`DeletingActive`: the account the deleting request holds is still active. Without
the second, `deleteUser` on a deleted account breaks the first, which is the finding
`AccountsRecycled`. `EnabledByEnabling`: by any step of any route, crashes included, a status
becomes enabled only through the transaction that enables.
`OneAccountPerLinkHolds` assumes one deleting request too. Its invariant `LinksNamed` says that
the open link, the requests that follow it and the accounts it made all have one name, so
two accounts of one link would be two active accounts of one name, which
`UsersInvariantHolds` excludes. `GroupIndexHolds` needs no assumption: unless updates of a user
met or died, at most one is under way, and the index already says what it will do to
the group (`GroupUpdates`).

**Uploads** (`Uploads_proofs`). `ReleasesHold` (a request past its transaction finds
there what it put there) gives `ReportsHold`. `Entitled` ties what a request may
still do to what was true during it (`during` only grows) and gives
`ReleasesAreEntitled` and `NoTakeoverHolds`. `Owned` follows a new name to its first
maintainer and gives `OwnersHold`; `Zeros` gives `ZerosExplained`; `CandidatesAreKept`
is an action property over the transactions.

**Vouch** (`Vouch_proofs`). All of `Inv` is stated of the stored vouches *and of every
copy a thread holds*, since a thread stores its copy back: each vouch was given
(`Witnessed`), a user with enough is *closed* (uploader, about to be, edited or
overlapped), a queued user is *settled*. The sets `given`, `Closed` and `Settled`
only grow (`StepGrows`), so a stale copy that satisfied the invariant when it was
read still does when it is stored (`Monotone`). This gives `SeveralVouchersHold`,
`NotificationsHold` and `EnoughHolds`. `UploadersWait` has an invariant of its own, `Waiting`: of a
user whom nothing excuses every vouch given is still stored, an uploader has either as many as
are required, so that no request stores another, or is a founder for whom nobody can vouch,
and therefore what a request of his read of his vouches is what they are when it stores.

**PackageList** (`PackageList_proofs`). `TagsFollow` and `ListFollows` are about a package nobody is busy
with; in between, next to nothing holds of its item, since any of the steps may be outstanding. The
invariant `ListInv` therefore speaks of the steps still to come: for every package on which no
requests overlapped, and for the steps of whatever thread is busy with it, `Waiting` says that it
is `Well` *given these steps*: each field of the item is right, or a step to come will renew it
(`Shows…` or `Renews…`), the item exists or will be built, the tag of deprecation is right or
will be set. Two more parts make this inductive. What a step holds that was read before must
still be so (`Fresh`), and only the next step of a thread may hold such a thing (`Orderly`, which also
says that the list is built last, and that whoever sets tags has the items renewed later). `Apart`
says that two threads are never busy with one package that is not in `overlapped`, so the
other threads' steps do not undo what is `Well` (`WellSame`). A package no thread is busy with has no
steps to come, and `Well({}, p)` is what the properties say (`SettledWell`). There is one lemma per
step of a thread (`…Keeps`), one per request that begins, and one for the crash, after
which the steps of `Main` alone make everything well. `IndexFollows` has the invariant
`EntriesFollow`, on the entries threads have yet to add.

**UserNotify** (`UserNotify_proofs`). `TypeCorrect`. `ProposalsAlwaysReach`: `TagsInvariant`
follows a proposed tag from store to memory to the job's copy to its mails, and says of
requests that decide on one that they know it was there. `EventsAreTold` rests on
`MailsInvariant`: the run's window stays the one it began with (`RunWindow`), what it collected
is in the window (`MailsRecent`, hence nobody is mailed again what a run that finished has told him: that is
at or before the stored time; mails of a run that failed are not in `told` and are repeated), and every event that was there when the run passed it is excused,
mailed, or still to come (`DueMailed`), so that a run that finishes leaves nothing
before the time it stores (`NothingMissed`). The step that makes this inductive is that an excuse
is for good: `NeedNotTell` is never withdrawn by any step (`NeedNotTellKept`).

**Browse** (`Browse_proofs`). `Current`, the invariant behind `ShownIsCurrent`, says of the reply to the
last request what is shown of it and of that request that it is the one the state makes; it holds
because no step changes page, order or query without another request. The rest of
`ListingHolds`, `PagesHold` and `FiltersAreApplied` is about the operators: dividing for the
last page agrees with multiplying for each (`PagesOf`); the four shapes of the paginator
(`LinksHold`); the places rows get when sorted are 0, 1, ... without a gap
(`PlacesAreTaken`, by counting the rows before each); and the parser. That it is
well defined (`ParserExists`) and finds every filter (`FiltersAreFound`) is shown from the end of the
text backwards (`Backwards`, which uses that numbers are well founded): what it
makes of a place depends on later places only, and at a place outside all parentheses
(`Outside`) it gets to the next such place without passing over a filter. `AddressHolds` needs
the agreement for every entry of the history, `AnswerIsAwaited` follows the last
request (`Awaited`). `ArrowsAgree` is inductive with the types.

**DownloadCount** (second half of `Browse_proofs`). `DownloadsAreConserved` weighs, for each package no
import crossed, what is where: today's counts, its file, the channel, the download in hand and
yesterday's counts not yet written (`Conserved`). That a written file gets what the thread has
given up needs two facts of earlier steps: what was listed is still there and the file
about to be written is off those left (`FilesListed`), and what the thread read is what
the file still holds, or the file it takes for missing is missing (`ReadTrue`). What crosses
(`Crosses`) is exactly what an import may do to break the second. `LogAndTotalsAreCovered` needs more than it
says: the file *and what is on its way to it* (`OnTheWay`) are at most the log, so the append before
the writes is what keeps it (`Covered`); an import's files hold what it says until it
has replaced totals and log too (`ImportDone`); and both hold only while no import has met a change of
day or another import (`Met`, `Single`; `mixed` records it for good). What is excepted is named: a package
that an import is at work on or has left behind (`Excused`, which for an import that has the log open
is every package with a file), and totals that an import has replaced while it is at the log (`Replaced`). The invariants are `CountsInv` and `CoverInv`, one
lemma per actor. A file's total is a recursive function over its days, and what an insertion adds
to it (`TotalInsert`) is shown by going up the days (`Upwards`, from numbers being well
founded); what is on the channel is counted by positions (`PlacesTail`, `PlacesAppend`).

### Only model-checked

- Liveness (`EventuallyFresh`, `EventuallyServed`, `EventuallyCounted`, `CatchesUp`, the fairness half of
  `TrailsSource`): beyond the prover's reach, as is anything with ENABLED.

Every other property of a passing run is a theorem.

No module that is proved about declares a RECURSIVE operator. The normal form of
versions is written with a set of positions instead, sums over days
as a recursive function.

## 5. Findings and observations

Two statements of the repository do not hold of the code; a run shows each
(`PROJECT.json`, "findings", quotes them):

1. `AccountsRecycled`: deleting an account twice is not idempotent if its name was
   registered again in between (`Users/Users.hs:243`).
2. `UploadTrailingZeros`: publishing a candidate does not apply the rule on
   trailing zeros (`Features/Upload.hs:382`).

Seen while modelling, without a run of their own:

- Deleting a package leaves log entries that no longer resolve, though
  `Packages/Index.hs` says that would be an internal error. No route deletes.
- Two threads that prod one cache may queue what they read in the wrong order; readers
  are then given an older value again (`Framework/Cache.hs:80`). The cron job of a cache that has one puts
  it right; a cache without, such as that of the index, stays behind until the next
  change. `TrailingCopy` allows going back in this case only.
- If the index is evaluated before Security registers its hook, the hash of that
  index is not signed until the cache is prodded again (`Features/Security.hs:43`). `SignedIsServed`
  and `EventuallyServed` except exactly this.
- An evaluation that throws replaces the good cached value, though
  `Framework/Cache.hs:85` says that a value is always available.
- The group index is written before the group; a thread that dies in between leaves it
  wrong until the next update of that user, or a restart.
- Publishing a candidate does not require membership in uploaders, and deletes whatever
  candidate has the id by then.
- Storing all of `VouchData` from an earlier read loses endorsements and queued
  notifications; the page says that endorsing cannot be undone.
- `checkinvariant` of the user database is an assertion that optimised builds drop.
- The comment on the sign-up route that a taken name should be answered early
  (`Features/UserSignup.hs`, near line 70) is not implemented; registration itself refuses it.
- `deleteUser` "forgets any authentication credentials", but the tokens of the account
  stay in `authTokenMap`; it is the status that keeps them from authenticating
  (`Framework/Auth.hs:277`).
- Two mirror clients that replace the tarball of one package may append the metadata in the
  opposite order, and the older package.json overrides the newer
  (`Features/Security.hs:47` says that the new one overrides).
- Two endorsements at the same time leave a user with enough of them who is not an
  uploader, and to whom no further one can be given; the page
  (`src/datafiles/templates/Html/vouch.html.st:20`) promises that he will be added.
  `EnoughUnlessOverlapped` excepts exactly this case.
- A package that is no longer deprecated keeps the tag `deprecated` in the list until something else
  renews its item: the hook of `setCalculatedTag` (`Features/Tags.hs:225`) names only the
  packages that have the tag now, though it should get all names that were modified
  (`Features/Tags.hs:56`). `ListAgrees` excepts exactly this.
- After a restart the list has no reference version for a package whose highest version is deprecated:
  `constructItem` is given that version only (`Features/PackageList.hs:296`), the listeners all
  of them, and the field is to be the highest that is not deprecated (`Features/PackageList.hs:91`).
- Of two requests that deprecate packages at once, the one that writes the tag
  later may undo the other's; the next start repairs it. Two edits of one package's tags may lose one.
- Two requests that set preferred versions at once may leave the index with the versions
  the state forgot; a crash after the transaction leaves it without the entry for good.
- A restart sets the tags that descriptions imply anew, for all packages: what
  was added to or removed from them by hand is gone (`Features/Tags.hs:202`).
- A crash, or the death of the counting thread, while the day changes loses those of
  yesterday's downloads that are not in the files yet; they are in the log if it came that far,
  but with other columns than `reconstructLog` writes.
- After an import of download counts the files of packages it does not name stay, but totals
  and log lack them; an import during the change of day can be overwritten
  by the counting thread, or logged twice or not at all.
- Two imports at once may leave files, totals and log of different imports
  (`Features/DownloadCount.hs:235`), or one of them fails half-way because the other has the log open.
- An import empties the log before it writes it (`DownloadCount/State.hs:239`): a stop in between
  loses the entries of all packages, those it does not name included. The files are written
  atomically, the log is not.
- The lines that the counting thread appends to the log have no day and other columns than
  those of an import (`DownloadCount/State.hs:235`), so the files cannot be made from it.
- The counting thread has no handler: an exception ends it, and downloads pile up on its channel
  until the restart (`Features/DownloadCount.hs:167`).
- browse.js: after Back or Forward a header can keep its arrow although the rows are in default
  order (`src/datafiles/static/browse.js:143` says that there is nothing to do then); a reply that
  comes late overwrites the rows of a newer request; when the connection fails nothing is
  said, and an error that was shown stays; the entry the page was loaded with is ignored
  by Back, and pages turned there are saved under its address. The form takes an age of 0,
  though its message wants a positive one, and the server then searches for it as a word;
  a parenthesis that does not fit makes the server drop the rest of the query.
- Notifications (`Features/UserNotify.hs`): a mail that cannot be sent ends the run before it stores
  the time (line 527), so the next run mails again to all who were mailed already. Nothing reads the preference on changes of the maintainers
  group (line 593), though the form offers it. An upload that is revised before the next run
  is told only to those who want revisions, and the latest actor is not told of others' revisions
  in that time. A revision timed after the run's `now`, or stored out of order, hides its version's
  earlier events. What is stored after the run has read it, with an earlier time, or lies
  back more than six hours, is told to nobody. Proposals that come
  between reading and emptying their log (line 557), or whose mail fails, await review
  unannounced; one request's decision, from what it read, brings back a tag another has
  decided on; an entry that became empty still makes a mail.

## 6. What is not modelled

`PROJECT.json` has every component with its reason. In short: rendering, templates
and HTTP routing (no state); authentication (decided per request from the user
database; the models start after it); backup and restore (run alone); floating-point
ranking in Search; vendored code; blob contents and tarball unpacking (pure checks).
Of modelled components: restore transactions, functions without a caller, and the
one-off migrations of tarball representation.

## 7. Plan

Done, in this order: PackagesState; AsyncVar, AsyncCache and TrailingCopy;
CoreFeature; Users and UserFeature; Uploads; Vouch; SearchBackend and Browse; PackageTags and
PackageList; DownloadCount; UserNotify.

Next:

| Module | Models | Properties |
|---|---|---|
| `EditCabalFiles` over `PackagesState` | check against the revision read, then store | a revision is never based on one it did not see |
| `BlobStorage` | write, sync, rename with crashes | a stored id always has its contents |
| `BuildReports`, `Documentation`, `TarIndexCache`, `HoogleData` | numbering over restarts, blobs behind documentation, AsyncUpdate | numbers unique; bundle in the end complete |
| `ReverseDependencies`, `Distro`, containers (`PackageIndex`, `IntTrie`, `StringTable`) | as operators | incremental equals built from nothing; lookups agree with a function |
| `MirrorClient` | iterations, what is remembered | everything missing is fetched in the end |

Abstract specifications worth stating: a linearizable set of releases that `Uploads`
implements up to what its snapshot saw; an exact counter that `DownloadCount`
implements without crashes; a list computed from nothing that `PackageList` implements for one
request at a time; a file store with atomic puts for `BlobStorage`.

## 8. Using the project

Run in this directory:

    tlc -workers 2 -config Packages.cfg MCPackagesState     # a run
    tlapm PackagesState_proofs.tla                          # its proofs

`PROJECT.json` says which module each configuration belongs to, which properties it
checks, whether it is expected to pass, and which lines of the source every
definition models.
