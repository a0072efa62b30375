----------------------------- MODULE UserNotify -----------------------------
(***************************************************************************)
(* Notification mails (Features/UserNotify.hs).  A cron job tells the      *)
(* maintainers of a package what happened to it between the time of the    *)
(* last run and now: releases and revisions, changes of the maintainers    *)
(* group, and tags that were proposed.  It collects them one source after  *)
(* the other while requests go on, sends the mails, and last stores up to  *)
(* when it has told; an exception or a restart before that has it tell all *)
(* again.  Requests read the clock before they store what they did, and    *)
(* proposed tags are kept in memory for the job besides the store.         *)
(*                                                                         *)
(* There is one package here, and all users have account details (those    *)
(* without are skipped).  Left out are the other sources (reports on       *)
(* documentation, updates of dependencies, endorsements: see Vouch).       *)
(***************************************************************************)
EXTENDS Naturals, Sequences, FiniteSetsExt

CONSTANTS UserId,       \* numbers: mails go out in the order of ids
          Version,      \* numbers: the greatest one released is the newest
          Tag,
          FirstPrefs,   \* bound: what users had chosen before
          Prefs,        \* bound: what they choose later
          Edited,       \* bound: who is put into the group or removed
          Request,      \* request threads
          Cap,          \* a run looks back no further than so long (6 hours)
          MaxTime,      \* bound: the time stops here
          MaxRequests,  \* bound: so many requests
          MaxFailures   \* bound: so many exceptions and restarts

NotifyPref == [optOut : BOOLEAN, range : {"all", "newest", "no"},
               upload : BOOLEAN, pendingTags : BOOLEAN]

ASSUME NotifyAssumption ==
    /\ UserId \subseteq Nat /\ UserId # {} /\ Version \subseteq Nat \ {0}
    /\ FirstPrefs \subseteq [UserId -> NotifyPref] /\ Prefs \subseteq NotifyPref
    /\ Edited \subseteq UserId
    /\ {Cap, MaxTime, MaxRequests, MaxFailures} \subseteq Nat /\ MaxTime # 0

VARIABLES clock,
          index,          \* per version its upload and revisions; <<>>: none
          maintainers,
          adminLog,       \* changes of the maintainers group
          reviewTags,     \* tags proposed and not decided on, in the store
          tagProposalLog, \* those proposed since the last run, in memory
          notifyPrefs,
          notifyTime,     \* the store knows: told up to here
          request,        \* per request: what it does next, what it holds
          job,            \* the cron job, likewise
          begun, failures,
          told,           \* history: by runs that finished, who was told what
          excused,        \* history: of whom no run need tell which event
          dealt,          \* history: proposed tags that runs have told
          lost            \* history: those that one of the known races lost

events  == <<index, adminLog, maintainers>>
tags    == <<reviewTags, tagProposalLog>>
history == <<told, excused, dealt, lost>>
server  == <<clock, events, tags, notifyPrefs, notifyTime, request, begun, failures,
             history>>
vars    == <<server, job>>

Idle    == [at |-> "idle"]
NoLog   == [listed |-> FALSE, tags |-> {}]
ReleaseOf(v, n) == [kind |-> "release", of |-> v, nr |-> n]
GroupAction(n)  == [kind |-> "group", of |-> 0, nr |-> n]
TagUpdate       == [kind |-> "tags", of |-> 0, nr |-> 0]
Events ==
    (UNION {{ReleaseOf(v, n) : n \in DOMAIN index[v]} : v \in Version})
    \cup {GroupAction(n) : n \in DOMAIN adminLog}
UploadInfo(e) == IF e.kind = "release" THEN index[e.of][e.nr] ELSE adminLog[e.nr]
Time(e)  == UploadInfo(e).time
Actor(e) == UploadInfo(e).by

Latest(v)  == index[v][Len(index[v])]
Released   == {v \in Version : index[v] # <<>>}
Running    == job.at # "idle"
Became(r, new) == request' = [request EXCEPT ![r] = new]
Goto(at)   == job' = [job EXCEPT !.at = at]

(* The least version is there from the start, and was told; tags may have  *)
(* been proposed since.                                                    *)
Init ==
    /\ clock = 1 /\ notifyTime = 0
    /\ index = [v \in Version |->
                  IF v = Min(Version) THEN <<[time |-> 0, by |-> Min(UserId)]>> ELSE <<>>]
    /\ maintainers = UserId /\ adminLog = <<>>
    /\ \/ reviewTags = {} /\ tagProposalLog = NoLog
       \/ reviewTags = Tag /\ tagProposalLog = [listed |-> TRUE, tags |-> Tag]
    /\ notifyPrefs \in FirstPrefs
    /\ request = [r \in Request |-> Idle] /\ job = Idle
    /\ begun = 0 /\ failures = 0
    /\ told = {} /\ excused = {} /\ dealt = {} /\ lost = {}

-----------------------------------------------------------------------------
(* Requests: uploads and revisions.  What is stored after a run that told  *)
(* up to its time will not be told.                                        *)

TooLate(info, e) == [to : IF info.time <= notifyTime THEN UserId ELSE {}, about : {e}]

Begin(r) == request[r] = Idle /\ begun < MaxRequests /\ begun' = begun + 1

(* A handler passes its checks and reads the time.                         *)
uploadPackage(r) ==
    /\ Begin(r)
    /\ \E v \in Version, u \in UserId :
           Became(r, [at |-> "release", of |-> v, new |-> index[v] = <<>>,
                      info |-> [time |-> clock, by |-> u]])
    /\ UNCHANGED <<clock, events, tags, notifyPrefs, notifyTime, job, failures, history>>

(* The transaction: a version that was released meanwhile is not added.    *)
updateAddPackage(r) ==
    /\ request[r].at = "release"
    /\ LET v == request[r].of
           e == ReleaseOf(v, Len(index[v]) + 1)
       IN  IF request[r].new /\ v \in Released
           THEN UNCHANGED <<index, excused>>
           ELSE /\ index' = [index EXCEPT ![v] = Append(@, request[r].info)]
                /\ excused' = excused \cup TooLate(request[r].info, e)
    /\ Became(r, Idle)
    /\ UNCHANGED <<clock, adminLog, maintainers, tags, notifyPrefs, notifyTime, job,
                   begun, failures, told, dealt, lost>>

-----------------------------------------------------------------------------
(* Requests: the group is changed, then the hook reads the time, then the  *)
(* change is logged.                                                       *)

updateUserGroup(r) ==
    /\ Begin(r)
    /\ \E u \in UserId, subject \in Edited :
           /\ maintainers' \in {maintainers \cup {subject}, maintainers \ {subject}}
           /\ Became(r, [at |-> "changed", by |-> u])
           /\ job' = IF Running THEN [job EXCEPT !.edited = @ \cup {subject}] ELSE job
    /\ UNCHANGED <<clock, index, adminLog, tags, notifyPrefs, notifyTime, failures, history>>

groupChangedHook(r) ==
    /\ request[r].at = "changed"
    /\ Became(r, [at |-> "log", info |-> [time |-> clock, by |-> request[r].by]])
    /\ UNCHANGED <<clock, events, tags, notifyPrefs, notifyTime, job, begun, failures, history>>

AddAdminLog(r) ==
    /\ request[r].at = "log"
    /\ adminLog' = Append(adminLog, request[r].info)
    /\ excused' = excused \cup TooLate(request[r].info, GroupAction(Len(adminLog) + 1))
    /\ Became(r, Idle)
    /\ UNCHANGED <<clock, index, maintainers, tags, notifyPrefs, notifyTime, job,
                   begun, failures, told, dealt, lost>>

-----------------------------------------------------------------------------
(* Requests: tags.  A user's proposal is stored, then remembered for the   *)
(* job.  A maintainer or trustee edits the tags, accepts or declines some  *)
(* of the proposals that he read, and stores the others.                   *)

InsertReviewTags(r) ==
    /\ Begin(r)
    /\ \E t \in Tag :
           /\ reviewTags' = reviewTags \cup {t}
           /\ request' = [q \in Request |->
                  IF q = r THEN [at |-> "proposed", tag |-> t]
                  ELSE IF request[q].at \in {"decide", "decided"}
                       THEN [request[q] EXCEPT !.since = @ \cup {t}]
                       ELSE request[q]]
           /\ dealt' = dealt \ {t} /\ lost' = lost \ {t}
    /\ UNCHANGED <<clock, events, tagProposalLog, notifyPrefs, notifyTime, job, failures,
                   told, excused>>

insertProposal_Replaces(t) == tagProposalLog' = [listed |-> TRUE, tags |-> {t}]  \* Mutant
insertProposal(t) ==
    tagProposalLog' = [listed |-> TRUE, tags |-> tagProposalLog.tags \cup {t}]

rememberProposal(r) ==
    /\ request[r].at = "proposed"
    /\ insertProposal(request[r].tag)
    /\ Became(r, Idle)
    /\ UNCHANGED <<clock, events, reviewTags, notifyPrefs, notifyTime, job, begun,
                   failures, history>>

LookupReviewTags(r) ==
    /\ Begin(r)
    /\ \E decided \in SUBSET reviewTags :
           Became(r, [at |-> "decide", addRev |-> reviewTags \ decided, since |-> {}])
    /\ UNCHANGED <<clock, events, tags, notifyPrefs, notifyTime, job, failures, history>>

(* A tag that another request had removed meanwhile awaits review again.   *)
InsertReviewTagsAgain(r) ==
    /\ request[r].at = "decide"
    /\ reviewTags' = request[r].addRev
    /\ lost' = lost \cup (request[r].addRev \ reviewTags)
    /\ Became(r, [request[r] EXCEPT !.at = "decided"])
    /\ UNCHANGED <<clock, events, tagProposalLog, notifyPrefs, notifyTime, job, begun,
                   failures, told, excused, dealt>>

(* modifyTags, if there is an entry; one that becomes empty stays listed.  *)
(* What was proposed since the request read goes with it.                  *)
modifyTags(r) ==
    /\ request[r].at = "decided"
    /\ tagProposalLog' = [tagProposalLog EXCEPT !.tags = @ \cap request[r].addRev]
    /\ lost' = lost \cup (request[r].since \ request[r].addRev)
    /\ Became(r, Idle)
    /\ UNCHANGED <<clock, events, reviewTags, notifyPrefs, notifyTime, job, begun,
                   failures, told, excused, dealt>>

AddNotifyPref ==
    /\ begun < MaxRequests /\ begun' = begun + 1
    /\ \E u \in UserId, p \in Prefs : notifyPrefs' = [notifyPrefs EXCEPT ![u] = p]
    /\ UNCHANGED <<clock, events, tags, notifyTime, request, job, failures, history>>

-----------------------------------------------------------------------------
(* The cron job.                                                           *)

(* GetNotifyData, the time, and how far to look back.                      *)
trimLastTime == IF clock > notifyTime + Cap THEN clock - Cap ELSE notifyTime

startJob ==
    /\ ~Running
    /\ job' = [at |-> "collect", prefs |-> notifyPrefs,
               earlier |-> trimLastTime, until |-> clock,
               pkgs |-> {}, actions |-> {}, logs |-> NoLog,
               mails |-> {}, sent |-> {},
               edited |-> {}, seen |-> {}]
    /\ UNCHANGED server

IsRecent(t) == t > job.earlier /\ t <= job.until

collectRevisionsAndUploads ==
    /\ job.at = "collect"
    /\ job' = [job EXCEPT !.at = "revisions",
                   !.pkgs = {v \in Released : IsRecent(Latest(v).time)},
                   !.seen = {e \in Events : e.kind = "release"}]
    /\ UNCHANGED server

(* The maintainers at this moment, except one.                             *)
Mails(to, actor, about) ==
    [to : {u \in to \ {actor} : ~job.prefs[u].optOut}, about : about]

WantsRevisions(u, v) ==
    \/ job.prefs[u].range = "all"
    \/ job.prefs[u].range = "newest" /\ v = Max(Released)

(* One package, as it was collected, but as new as it is now.              *)
genRevUploadList ==
    /\ job.at = "revisions" /\ job.pkgs # {}
    /\ LET v == Min(job.pkgs)
           revisions == {e \in job.seen : e.of = v}
           latest == index[v][Cardinality(revisions)]
           mails ==
               IF Cardinality(revisions) > 1
               THEN Mails({u \in maintainers : WantsRevisions(u, v)}, latest.by,
                          {e \in revisions : IsRecent(Time(e))})
               ELSE Mails({u \in maintainers : job.prefs[u].upload}, latest.by, revisions)
       IN  job' = [job EXCEPT !.pkgs = @ \ {v}, !.mails = @ \cup mails]
    /\ UNCHANGED server

collectAdminActions ==
    /\ job.at = "revisions" /\ job.pkgs = {}
    /\ job' = [job EXCEPT !.at = "actions",
                   !.actions = {n \in DOMAIN adminLog : IsRecent(adminLog[n].time)},
                   !.seen = @ \cup {e \in Events : e.kind = "group"}]
    /\ UNCHANGED server

genGroupUploadList ==
    /\ job.at = "actions" /\ job.actions # {}
    /\ LET n == Max(job.actions)
       IN  job' = [job EXCEPT !.actions = @ \ {n},
                       !.mails = @ \cup Mails(maintainers, adminLog[n].by, {GroupAction(n)})]
    /\ UNCHANGED server

(* collectTagProposals: read, then empty.                                  *)
readMemState ==
    /\ job.at = "actions" /\ job.actions = {}
    /\ job' = [job EXCEPT !.at = "empty", !.logs = tagProposalLog]
    /\ UNCHANGED server

writeMemState ==
    /\ job.at = "empty"
    /\ tagProposalLog' = NoLog
    /\ lost' = lost \cup (tagProposalLog.tags \ job.logs.tags)
    /\ Goto("proposals")
    /\ UNCHANGED <<clock, events, reviewTags, notifyPrefs, notifyTime, request, begun,
                   failures, told, excused, dealt>>

WantsTags(u) == ~job.prefs[u].optOut /\ job.prefs[u].pendingTags

genTagProposalList ==
    /\ job.at = "proposals"
    /\ LET to == {u \in maintainers : job.logs.listed /\ WantsTags(u)}
       IN  job' = [job EXCEPT !.at = "send", !.mails = @ \cup [to : to, about : {TagUpdate}]]
    /\ UNCHANGED server

(* One mail for a user with all that he is to be told: only updates of     *)
(* dependencies, which are left out here, go into mails of their own.      *)
sendNotifyEmail ==
    /\ job.at = "send" /\ job.mails # {}
    /\ LET mail == {m \in job.mails : m.to = Min({n.to : n \in job.mails})}
       IN  job' = [job EXCEPT !.mails = @ \ mail, !.sent = @ \cup mail]
    /\ UNCHANGED server

(* What a user need not be told by a run that finishes.                    *)
WantsToKnow(u, e) ==
    /\ ~job.prefs[u].optOut
    /\ e.kind = "release" =>
           IF e.nr = 1 THEN job.prefs[u].upload ELSE WantsRevisions(u, e.of)

InWindow(t) == t > notifyTime /\ t + Cap > job.until /\ t <= job.until

(* A release of which the run saw a later revision is told with it: not to *)
(* the user who made that, not if that was timed before or after the       *)
(* window, and an upload only to those who want revisions.                 *)
Overtaken(u, e) ==
    LET last == Max({d.nr : d \in {d \in job.seen : d.of = e.of}})
    IN  /\ last > e.nr
        /\ \/ index[e.of][last].by = u
           \/ ~InWindow(index[e.of][last].time)
           \/ ~WantsRevisions(u, e.of)

NeedNotTell(u, e) ==
    \/ u \notin maintainers \/ u \in job.edited
    \/ u = Actor(e) \/ ~WantsToKnow(u, e)
    \/ ~InWindow(Time(e))
    \/ e \notin job.seen
    \/ e.kind = "release" /\ Overtaken(u, e)

SetNotifyTime_Now == notifyTime' = clock   \* Mutant
SetNotifyTime_Earlier == notifyTime' = job.earlier   \* Mutant
SetNotifyTime == notifyTime' = job.until

finishJob ==
    /\ job.at = "send" /\ job.mails = {}
    /\ SetNotifyTime
    /\ job' = Idle
    /\ told' = told \cup {m \in job.sent : m.about # TagUpdate}
    /\ excused' = excused \cup
           {m \in [to : UserId, about : {e \in Events : Time(e) \in notifyTime + 1 .. job.until}] :
                NeedNotTell(m.to, m.about)}
    /\ dealt' = dealt \cup
           {t \in job.logs.tags : \A u \in maintainers \ job.edited :
                WantsTags(u) => [to |-> u, about |-> TagUpdate] \in job.sent}
    /\ UNCHANGED <<clock, events, tags, notifyPrefs, request, begun, failures, lost>>

(* A mail cannot be sent: the exception ends the run, and runSingleJob     *)
(* catches it and queues the job again.                                    *)
sendMailFails ==
    /\ failures < MaxFailures /\ failures' = failures + 1
    /\ job.at = "send" /\ job.mails # {}
    /\ job' = Idle
    /\ lost' = lost \cup job.logs.tags
    /\ UNCHANGED <<clock, events, tags, notifyPrefs, notifyTime, request, begun, told,
                   excused, dealt>>

-----------------------------------------------------------------------------
(* A restart ends the job and the requests and empties the memory.         *)

Remembered ==
    tagProposalLog.tags \cup (IF Running THEN job.logs.tags ELSE {})
    \cup {request[r].tag : r \in {q \in Request : request[q].at = "proposed"}}

Restart ==
    /\ failures < MaxFailures /\ failures' = failures + 1
    /\ request' = [r \in Request |-> Idle] /\ job' = Idle
    /\ tagProposalLog' = NoLog
    /\ lost' = lost \cup Remembered
    /\ UNCHANGED <<clock, events, reviewTags, notifyPrefs, notifyTime, begun, told,
                   excused, dealt>>

Tick ==
    /\ clock < MaxTime /\ clock' = clock + 1
    /\ UNCHANGED <<events, tags, notifyPrefs, notifyTime, request, job, begun, failures,
                   history>>

notifyCronAction ==
    \/ startJob
    \/ collectRevisionsAndUploads \/ genRevUploadList
    \/ collectAdminActions \/ genGroupUploadList
    \/ readMemState \/ writeMemState \/ genTagProposalList
    \/ sendNotifyEmail \/ finishJob

Next ==
    \/ \E r \in Request :
           \/ uploadPackage(r) \/ updateAddPackage(r)
           \/ updateUserGroup(r) \/ groupChangedHook(r) \/ AddAdminLog(r)
           \/ InsertReviewTags(r) \/ rememberProposal(r)
           \/ LookupReviewTags(r) \/ InsertReviewTagsAgain(r) \/ modifyTags(r)
    \/ AddNotifyPref
    \/ notifyCronAction
    \/ sendMailFails \/ Restart \/ Tick

(* The thread of the cron jobs runs.                                       *)
Spec == Init /\ [][Next]_vars /\ WF_vars(notifyCronAction)

-----------------------------------------------------------------------------
(* Properties.                                                             *)

TypeOK ==
    /\ clock \in 1..MaxTime /\ notifyTime \in 0..clock
    /\ index \in [Version -> Seq([time : Nat, by : UserId])]
    /\ adminLog \in Seq([time : Nat, by : UserId])
    /\ maintainers \subseteq UserId
    /\ reviewTags \subseteq Tag
    /\ tagProposalLog \in [listed : BOOLEAN, tags : SUBSET Tag]
    /\ notifyPrefs \in [UserId -> NotifyPref]
    /\ \A m \in told \cup excused : m.to \in UserId /\ m.about \in Events
    /\ dealt \cup lost \subseteq Tag

(* What runs have covered the time of was told by one that finished.       *)
NothingMissed ==
    \A e \in Events, u \in UserId :
        Time(e) \in 1..notifyTime => [to |-> u, about |-> e] \in told \cup excused

(* Nobody is mailed again what a run that finished has told him.           *)
NothingRepeated == Running => job.sent \cap told = {}

(* Every release, revision and change of the group is told at least once   *)
(* to every maintainer who wants to know, whatever time it carries and     *)
(* whenever it is stored; except of what came into the store too late, was *)
(* overtaken by a revision, or lies further back than the cap of the run   *)
(* that covered it.  Once a run that mailed it has finished, he is never   *)
(* mailed it again.  Before that he may be, any number of times: a run     *)
(* that fails after some of its mails is repeated with all of them.        *)
ToldAndNotRepeated == NothingMissed /\ NothingRepeated

(* A tag that awaits a maintainer's review is mailed to him: it is in      *)
(* memory or on its way there, or with the job, or was mailed by a run     *)
(* that finished; unless a restart or a mail that failed lost it, it came  *)
(* between reading and emptying the log, or two requests overlapped.       *)
ProposalsReach == reviewTags \subseteq Remembered \cup dealt \cup lost

(* Mails that cannot be sent and restarts only delay the job: in the end   *)
(* every time is covered.                                                  *)
CatchesUp == \A t \in 1..MaxTime : clock >= t ~> notifyTime >= t
=============================================================================
