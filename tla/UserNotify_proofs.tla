------------------------- MODULE UserNotify_proofs -------------------------
(***************************************************************************)
(* Theorems about the notification mails, for any number of users,         *)
(* versions, tags and requests, and whatever fails.                        *)
(***************************************************************************)
EXTENDS UserNotify, FiniteSetTheorems, WellFoundedInduction, TLAPS

-----------------------------------------------------------------------------
(* Least and greatest numbers.                                             *)

LEMMA MinIn ==
    ASSUME NEW S \in SUBSET Nat, S # {}
    PROVE  Min(S) \in S /\ \A x \in S : Min(S) <= x
<1> DEFINE Less == {p \in Nat \X Nat : p[1] < p[2]}
<1>1. IsWellFoundedOn(Less, Nat)
  BY NatLessThanWellFounded DEF OpToRel
<1>2. PICK m \in S : \A x \in S : ~ (<<x, m>> \in Less)
  BY <1>1, WFMin
<1>3. \A x \in S : m <= x
  <2> SUFFICES ASSUME NEW x \in S PROVE m <= x
    OBVIOUS
  <2>1. x \in Nat /\ m \in Nat
    OBVIOUS
  <2>2. ~ (x < m)
    BY <1>2, <2>1
  <2> QED
    BY <2>1, <2>2
<1>4. PICK y : y = Min(S)
  OBVIOUS
<1> QED
  BY <1>3, <1>4 DEF Min

LEMMA MaxIn ==
    ASSUME NEW S \in SUBSET Nat, S # {}, NEW b \in Nat, \A x \in S : x <= b
    PROVE  Max(S) \in S /\ \A x \in S : x <= Max(S)
<1> DEFINE D == {b - x : x \in S}
<1>1. D \in SUBSET Nat /\ D # {}
  <2>1. \A x \in S : b - x \in Nat
    OBVIOUS
  <2>2. \E x \in S : b - x \in D
    OBVIOUS
  <2> QED
    BY <2>1, <2>2
<1>2. Min(D) \in D /\ \A d \in D : Min(D) <= d
  BY <1>1, MinIn
<1>3. PICK m \in S : Min(D) = b - m
  BY <1>2
<1>4. \A x \in S : x <= m
  <2> SUFFICES ASSUME NEW x \in S PROVE x <= m
    OBVIOUS
  <2>1. b - m <= b - x
    BY <1>2, <1>3
  <2> QED
    BY <2>1
<1>5. \E y \in S : \A x \in S : y >= x
  BY <1>4
<1>6. PICK y : y = Max(S)
  OBVIOUS
<1>7. y \in S /\ \A x \in S : y >= x
  BY <1>5, <1>6 DEF Max
<1>8. \A x \in S : x <= y
  BY <1>7
<1> QED
  BY <1>6, <1>7, <1>8

-----------------------------------------------------------------------------
(* Types.                                                                  *)

Info    == [time : Nat, by : UserId]
EventId == [kind : {"release", "group", "tags"}, of : Nat, nr : Nat]
Mail    == [to : UserId, about : EventId]
Log     == [listed : BOOLEAN, tags : SUBSET Tag]
Jobs ==
    [at : {"collect", "revisions", "actions", "empty", "proposals", "send"},
     prefs : [UserId -> NotifyPref], earlier : Nat, until : Nat,
     pkgs : SUBSET Version, actions : SUBSET Nat, logs : Log,
     mails : SUBSET Mail, sent : SUBSET Mail,
     edited : SUBSET UserId, seen : SUBSET EventId]
Requests ==
    {Idle}
    \cup [at : {"release"}, of : Version, new : BOOLEAN, info : Info]
    \cup [at : {"changed"}, by : UserId]
    \cup [at : {"log"}, info : Info]
    \cup [at : {"proposed"}, tag : Tag]
    \cup [at : {"decide", "decided"}, addRev : SUBSET Tag, since : SUBSET Tag]

(* What a running job holds is about events there are.                     *)
JobTyped ==
    Running =>
        /\ job.until <= clock
        /\ job.actions \subseteq DOMAIN adminLog
        /\ job.pkgs \subseteq Released
        /\ job.seen \subseteq Events
        /\ \A m \in job.mails \cup job.sent : m.about \in Events \cup {TagUpdate}

TypesInvariant ==
    /\ TypeOK
    /\ request \in [Request -> Requests]
    /\ job \in Jobs \cup {Idle}
    /\ JobTyped

LEMMA JobKinds ==
    ASSUME job \in Jobs \cup {Idle}
    PROVE  Running <=> job \in Jobs
BY DEF Jobs, Idle, Running

LEMMA RequestKinds ==
    ASSUME request \in [Request -> Requests], NEW r \in Request
    PROVE  /\ request[r].at = "release" =>
                  request[r].of \in Version /\ request[r].info \in Info
           /\ request[r].at = "changed" => request[r].by \in UserId
           /\ request[r].at = "log" => request[r].info \in Info
           /\ request[r].at = "proposed" => request[r].tag \in Tag
           /\ request[r].at \in {"decide", "decided"} =>
                 request[r] \in [at : {"decide", "decided"}, addRev : SUBSET Tag,
                                 since : SUBSET Tag]
<1>1. request[r] \in Requests
  OBVIOUS
<1> QED
  BY <1>1 DEF Requests, Idle

EventsListed ==
    \A e : e \in Events <=>
              \/ \E v \in Version : \E n \in DOMAIN index[v] : e = ReleaseOf(v, n)
              \/ \E n \in DOMAIN adminLog : e = GroupAction(n)

LEMMA EventsMembers == EventsListed
BY DEF EventsListed, Events

LEMMA EventsMembersNext == EventsListed'
BY EventsMembers, PTL

LEMMA EventsAre ==
    ASSUME TypeOK, NEW e
    PROVE  e \in Events <=>
              \/ \E v \in Version : \E n \in 1 .. Len(index[v]) : e = ReleaseOf(v, n)
              \/ \E n \in 1 .. Len(adminLog) : e = GroupAction(n)
<1>1. \A v \in Version : DOMAIN index[v] = 1 .. Len(index[v])
  BY DEF TypeOK
<1>2. DOMAIN adminLog = 1 .. Len(adminLog)
  BY DEF TypeOK
<1>3. e \in Events <=>
         \/ \E v \in Version : \E n \in DOMAIN index[v] : e = ReleaseOf(v, n)
         \/ \E n \in DOMAIN adminLog : e = GroupAction(n)
  BY EventsMembers DEF EventsListed
<1> QED
  BY <1>1, <1>2, <1>3, Zenon

LEMMA EventTells ==
    ASSUME NEW v, NEW n
    PROVE  /\ ReleaseOf(v, n).kind = "release" /\ ReleaseOf(v, n).of = v
           /\ ReleaseOf(v, n).nr = n
           /\ GroupAction(n).kind = "group" /\ GroupAction(n).of = 0
           /\ GroupAction(n).nr = n
BY DEF ReleaseOf, GroupAction

LEMMA EventTyped ==
    ASSUME TypeOK, NEW e \in Events
    PROVE  /\ e \in EventId /\ e # TagUpdate /\ UploadInfo(e) \in Info
           /\ e.kind = "release" => e.of \in Version /\ e.nr \in 1 .. Len(index[e.of])
                                    /\ e = ReleaseOf(e.of, e.nr)
           /\ e.kind # "release" => e.kind = "group" /\ e.of = 0 /\ e.nr \in 1 .. Len(adminLog)
                                    /\ e = GroupAction(e.nr)
<1>1. CASE \E v \in Version : \E n \in 1 .. Len(index[v]) : e = ReleaseOf(v, n)
  <2>0. PICK v \in Version : \E n \in 1 .. Len(index[v]) : e = ReleaseOf(v, n)
    BY <1>1
  <2>1. PICK n \in 1 .. Len(index[v]) : e = ReleaseOf(v, n)
    BY <2>0
  <2>2. index[v] \in Seq(Info) /\ n \in Nat /\ v \in Nat
    <3>1. index[v] \in Seq(Info)
      BY DEF TypeOK, Info
    <3>2. v \in Nat
      BY NotifyAssumption
    <3> QED
      BY <3>1, <3>2
  <2>3. index[v][n] \in Info /\ n \in DOMAIN index[v]
    BY <2>2
  <2> QED
    BY <2>1, <2>2, <2>3 DEF ReleaseOf, EventId, TagUpdate, UploadInfo
<1>2. CASE \E n \in 1 .. Len(adminLog) : e = GroupAction(n)
  <2>1. PICK n \in 1 .. Len(adminLog) : e = GroupAction(n)
    BY <1>2
  <2>2. adminLog \in Seq(Info) /\ n \in Nat
    BY DEF TypeOK, Info
  <2>3. adminLog[n] \in Info
    BY <2>2
  <2> QED
    BY <2>1, <2>2, <2>3 DEF GroupAction, EventId, TagUpdate, UploadInfo
<1> QED
  BY <1>1, <1>2, EventsAre

LEMMA TagUpdateTyped == TagUpdate \in EventId /\ \A e \in {TagUpdate} : e.kind = "tags"
BY DEF TagUpdate, EventId

(* What is stored stays stored.                                            *)
EventsKept ==
    /\ \A v \in Version :
          /\ Len(index[v]) <= Len(index'[v])
          /\ \A n \in 1 .. Len(index[v]) : index'[v][n] = index[v][n]
    /\ Len(adminLog) <= Len(adminLog')
    /\ \A n \in 1 .. Len(adminLog) : adminLog'[n] = adminLog[n]

LEMMA EventsGrow ==
    ASSUME TypeOK, EventsKept,
           index' \in [Version -> Seq(Info)], adminLog' \in Seq(Info)
    PROVE  /\ Events \subseteq Events'
           /\ Released \subseteq Released' /\ DOMAIN adminLog \subseteq DOMAIN adminLog'
           /\ \A e \in Events : UploadInfo(e)' = UploadInfo(e)
<1>1. \A v \in Version : /\ DOMAIN index[v] = 1 .. Len(index[v]) /\ Len(index[v]) \in Nat
                         /\ DOMAIN index'[v] = 1 .. Len(index'[v]) /\ Len(index'[v]) \in Nat
  BY DEF TypeOK, Info
<1>2. /\ DOMAIN adminLog = 1 .. Len(adminLog) /\ Len(adminLog) \in Nat
      /\ DOMAIN adminLog' = 1 .. Len(adminLog') /\ Len(adminLog') \in Nat
  BY DEF TypeOK, Info
<1>3. \A v \in Version : DOMAIN index[v] \subseteq DOMAIN index'[v]
  BY <1>1 DEF EventsKept
<1>4. DOMAIN adminLog \subseteq DOMAIN adminLog'
  BY <1>2 DEF EventsKept
<1>5. Events \subseteq Events'
  <2> SUFFICES ASSUME NEW e \in Events
               PROVE  e \in Events'
    OBVIOUS
  <2>1. CASE \E v \in Version : \E n \in DOMAIN index[v] : e = ReleaseOf(v, n)
    <3>1. \E v \in Version : \E n \in DOMAIN index'[v] : e = ReleaseOf(v, n)
      BY <1>3, <2>1, Zenon
    <3> QED
      BY <3>1, EventsMembersNext DEF EventsListed
  <2>2. CASE \E n \in DOMAIN adminLog : e = GroupAction(n)
    BY <1>4, <2>2, EventsMembersNext DEF EventsListed
  <2> QED
    BY <2>1, <2>2, EventsMembers DEF EventsListed
<1>6. Released \subseteq Released'
  <2> SUFFICES ASSUME NEW v \in Version, index[v] # <<>>
               PROVE  index'[v] # <<>>
    BY DEF Released
  <2>1. index[v] \in Seq(Info) /\ index'[v] \in Seq(Info)
    BY DEF TypeOK, Info
  <2>2. Len(index[v]) > 0
    BY <2>1
  <2>3. Len(index'[v]) > 0
    BY <2>2, <1>1 DEF EventsKept
  <2> QED
    BY <2>1, <2>3
<1>7. ASSUME NEW e \in Events
      PROVE  UploadInfo(e)' = UploadInfo(e)
  <2>1. CASE e.kind = "release"
    BY <2>1, EventTyped DEF UploadInfo, EventsKept
  <2>2. CASE e.kind # "release"
    BY <2>2, EventTyped DEF UploadInfo, EventsKept
  <2> QED
    BY <2>1, <2>2
<1> QED
  BY <1>4, <1>5, <1>6, <1>7

LEMMA EventsSame ==
    ASSUME index' = index, adminLog' = adminLog
    PROVE  /\ Events' = Events /\ Released' = Released
           /\ \A e : UploadInfo(e)' = UploadInfo(e)
BY DEF Events, Released, UploadInfo

LEMMA KeptWhenSame ==
    ASSUME TypeOK, index' = index, adminLog' = adminLog
    PROVE  EventsKept /\ index' \in [Version -> Seq(Info)] /\ adminLog' \in Seq(Info)
<1>1. index \in [Version -> Seq(Info)] /\ adminLog \in Seq(Info)
  BY DEF TypeOK, Info
<1>2. /\ \A v \in Version : Len(index[v]) \in Nat
      /\ Len(adminLog) \in Nat
  BY <1>1
<1> QED
  BY <1>1, <1>2 DEF EventsKept

LEMMA TypeOKSame ==
    ASSUME TypeOK, UNCHANGED <<clock, events, tags, notifyPrefs, notifyTime, history>>
    PROVE  TypeOK'
<1>1. /\ index' = index /\ adminLog' = adminLog /\ maintainers' = maintainers
      /\ clock' = clock /\ notifyPrefs' = notifyPrefs /\ notifyTime' = notifyTime
      /\ reviewTags' = reviewTags /\ tagProposalLog' = tagProposalLog
      /\ told' = told /\ excused' = excused /\ dealt' = dealt /\ lost' = lost
  BY DEF events, tags, history
<1>2. Events' = Events
  BY <1>1, EventsSame
<1> QED
  BY <1>1, <1>2 DEF TypeOK

(* A request leaves the job alone, or notes in it whom it edited.          *)
JobKept == \/ job' = job
           \/ Running /\ \E s \in UserId : job' = [job EXCEPT !.edited = @ \cup {s}]

LEMMA JobKeptFields ==
    ASSUME job \in Jobs \cup {Idle}, JobKept
    PROVE  /\ job' \in Jobs \cup {Idle} /\ Running' = Running /\ job'.at = job.at
           /\ Running => /\ job'.prefs = job.prefs /\ job'.earlier = job.earlier
                         /\ job'.until = job.until /\ job'.pkgs = job.pkgs
                         /\ job'.actions = job.actions /\ job'.logs = job.logs
                         /\ job'.mails = job.mails /\ job'.sent = job.sent
                         /\ job'.seen = job.seen /\ job.edited \subseteq job'.edited
<1>1. CASE job' = job
  BY <1>1 DEF Running
<1>2. CASE Running /\ \E s \in UserId : job' = [job EXCEPT !.edited = @ \cup {s}]
  <2>1. PICK s \in UserId : job' = [job EXCEPT !.edited = @ \cup {s}]
    BY <1>2
  <2>2. job \in Jobs
    BY <1>2, JobKinds
  <2> QED
    BY <2>1, <2>2 DEF Jobs, Running
<1> QED
  BY <1>1, <1>2 DEF JobKept

LEMMA JobTypedKept ==
    ASSUME TypesInvariant, JobKept, EventsKept,
           index' \in [Version -> Seq(Info)], adminLog' \in Seq(Info), clock' \in clock .. MaxTime
    PROVE  JobTyped' /\ job' \in Jobs \cup {Idle}
<1>1. Events \subseteq Events' /\ Released \subseteq Released'
      /\ DOMAIN adminLog \subseteq DOMAIN adminLog'
  BY EventsGrow DEF TypesInvariant
<1>2. clock <= clock' /\ clock \in Nat /\ clock' \in Nat
  BY NotifyAssumption DEF TypesInvariant, TypeOK
<1> SUFFICES ASSUME Running' PROVE JobTyped'
  BY JobKeptFields DEF TypesInvariant, JobTyped
<1>3. Running /\ job \in Jobs
  BY JobKeptFields, JobKinds DEF TypesInvariant
<1>4. job.until \in Nat
  BY <1>3 DEF Jobs
<1> QED
  BY <1>1, <1>2, <1>3, <1>4, JobKeptFields DEF TypesInvariant, JobTyped

LEMMA JobTypedSame ==
    ASSUME TypesInvariant, JobKept, index' = index, adminLog' = adminLog, clock' = clock
    PROVE  JobTyped' /\ job' \in Jobs \cup {Idle}
<1>1. clock' \in clock .. MaxTime
  BY NotifyAssumption DEF TypesInvariant, TypeOK
<1>2. TypeOK
  BY DEF TypesInvariant
<1> QED
  BY <1>1, <1>2, KeptWhenSame, JobTypedKept

(* What has been told is about events there are, still.                    *)
LEMMA HistoryTypedKept ==
    ASSUME TypeOK, EventsKept, index' \in [Version -> Seq(Info)], adminLog' \in Seq(Info),
           told' = told,
           NEW e \in Events', excused' \subseteq excused \cup [to : UserId, about : {e}]
    PROVE  \A m \in told' \cup excused' : m.to \in UserId /\ m.about \in Events'
<1>1. Events \subseteq Events'
  BY EventsGrow
<1>2. \A m \in [to : UserId, about : {e}] : m.to \in UserId /\ m.about = e
  OBVIOUS
<1> QED
  BY <1>1, <1>2 DEF TypeOK

LEMMA BecameTyped ==
    ASSUME request \in [Request -> Requests], NEW r \in Request, NEW new \in Requests,
           Became(r, new)
    PROVE  request' \in [Request -> Requests]
BY DEF Became

LEMMA IdleIsRequest == Idle \in Requests
BY DEF Requests

LEMMA uploadPackageTyped ==
    ASSUME TypesInvariant, NEW r \in Request, uploadPackage(r)
    PROVE  TypesInvariant'
<1>1. PICK v \in Version, u \in UserId :
         Became(r, [at |-> "release", of |-> v, new |-> index[v] = <<>>,
                    info |-> [time |-> clock, by |-> u]])
  BY DEF uploadPackage
<1>2. clock \in Nat
  BY NotifyAssumption DEF TypesInvariant, TypeOK
<1>3. [at |-> "release", of |-> v, new |-> index[v] = <<>>,
       info |-> [time |-> clock, by |-> u]] \in Requests
  BY <1>2 DEF Requests, Info
<1>4. request' \in [Request -> Requests]
  BY <1>1, <1>3, BecameTyped DEF TypesInvariant
<1>5. index' = index /\ adminLog' = adminLog /\ clock' = clock /\ job' = job
  BY DEF uploadPackage, events
<1>6. JobTyped' /\ job' \in Jobs \cup {Idle}
  BY <1>5, JobTypedSame DEF JobKept
<1>7. UNCHANGED <<clock, events, tags, notifyPrefs, notifyTime, history>>
  BY DEF uploadPackage
<1>8. TypeOK'
  BY <1>7, TypeOKSame DEF TypesInvariant
<1> QED
  BY <1>4, <1>6, <1>8 DEF TypesInvariant

LEMMA AppendKeeps ==
    ASSUME NEW S, NEW s \in Seq(S), NEW x \in S
    PROVE  /\ Append(s, x) \in Seq(S) /\ Len(Append(s, x)) = Len(s) + 1
           /\ Append(s, x)[Len(s) + 1] = x
           /\ \A n \in 1 .. Len(s) : Append(s, x)[n] = s[n]
           /\ Len(s) \in Nat
OBVIOUS

(* The release that a transaction adds.                                    *)
LEMMA ReleaseAdded ==
    ASSUME TypeOK, NEW v \in Version, NEW info \in Info, NEW k, k = Len(index[v]) + 1,
           index' = [index EXCEPT ![v] = Append(@, info)], adminLog' = adminLog
    PROVE  /\ EventsKept
           /\ index' \in [Version -> Seq(Info)] /\ adminLog' \in Seq(Info)
           /\ ReleaseOf(v, k) \in Events'
           /\ UploadInfo(ReleaseOf(v, k))' = info
           /\ \A e \in Events' : e \in Events \/ e = ReleaseOf(v, k)
<1>1. index \in [Version -> Seq(Info)] /\ adminLog \in Seq(Info)
  BY DEF TypeOK, Info
<1>2. /\ Append(index[v], info) \in Seq(Info)
      /\ Len(Append(index[v], info)) = Len(index[v]) + 1
      /\ Append(index[v], info)[Len(index[v]) + 1] = info
      /\ \A n \in 1 .. Len(index[v]) : Append(index[v], info)[n] = index[v][n]
      /\ Len(index[v]) \in Nat
  BY <1>1, AppendKeeps
<1>3. index'[v] = Append(index[v], info) /\ \A w \in Version : w # v => index'[w] = index[w]
  BY <1>1
<1>4. index' \in [Version -> Seq(Info)]
  BY <1>1, <1>2
<1>5. \A w \in Version : Len(index[w]) \in Nat
  BY <1>1
<1>6. EventsKept
  <2>1. ASSUME NEW w \in Version
        PROVE  /\ Len(index[w]) <= Len(index'[w])
               /\ \A n \in 1 .. Len(index[w]) : index'[w][n] = index[w][n]
    BY <1>2, <1>3, <1>5
  <2>2. Len(adminLog) \in Nat
    BY <1>1
  <2> QED
    BY <2>1, <2>2 DEF EventsKept
<1>7. DOMAIN index'[v] = DOMAIN index[v] \cup {k}
  <2>1. DOMAIN index[v] = 1 .. Len(index[v])
    BY <1>1
  <2>2. DOMAIN Append(index[v], info) = 1 .. Len(index[v]) + 1
    BY <1>2
  <2> QED
    BY <1>2, <1>3, <2>1, <2>2
<1>8. ReleaseOf(v, k) \in Events'
  <2>1. \E n \in DOMAIN index'[v] : ReleaseOf(v, k) = ReleaseOf(v, n)
    BY <1>7
  <2>2. \E w \in Version : \E n \in DOMAIN index'[w] : ReleaseOf(v, k) = ReleaseOf(w, n)
    BY <2>1
  <2> QED
    BY <2>2, EventsMembersNext DEF EventsListed
<1>9. UploadInfo(ReleaseOf(v, k))' = info
  <2>1. UploadInfo(ReleaseOf(v, k))' = index'[v][k]
    BY DEF UploadInfo, ReleaseOf
  <2> QED
    BY <1>2, <1>3, <2>1
<1>10. ASSUME NEW e \in Events'
       PROVE  e \in Events \/ e = ReleaseOf(v, k)
  <2>1. CASE \E w \in Version : \E n \in DOMAIN index'[w] : e = ReleaseOf(w, n)
    <3>1. PICK w \in Version : \E n \in DOMAIN index'[w] : e = ReleaseOf(w, n)
      BY <2>1
    <3>2. PICK n \in DOMAIN index'[w] : e = ReleaseOf(w, n)
      BY <3>1
    <3>3. CASE n \in DOMAIN index[w]
      BY <3>2, <3>3, EventsMembers DEF EventsListed
    <3>4. CASE n \notin DOMAIN index[w]
      BY <1>3, <1>7, <3>2, <3>4
    <3> QED
      BY <3>3, <3>4
  <2>2. CASE \E n \in DOMAIN adminLog' : e = GroupAction(n)
    BY <2>2, EventsMembers DEF EventsListed
  <2> QED
    BY <2>1, <2>2, EventsMembersNext DEF EventsListed
<1> QED
  BY <1>1, <1>4, <1>6, <1>8, <1>9, <1>10

LEMMA ActionAdded ==
    ASSUME TypeOK, NEW info \in Info, NEW k, k = Len(adminLog) + 1,
           index' = index, adminLog' = Append(adminLog, info)
    PROVE  /\ EventsKept
           /\ index' \in [Version -> Seq(Info)] /\ adminLog' \in Seq(Info)
           /\ GroupAction(k) \in Events'
           /\ UploadInfo(GroupAction(k))' = info
           /\ \A e \in Events' : e \in Events \/ e = GroupAction(k)
<1>1. index \in [Version -> Seq(Info)] /\ adminLog \in Seq(Info)
  BY DEF TypeOK, Info
<1>2. /\ adminLog' \in Seq(Info) /\ Len(adminLog') = Len(adminLog) + 1
      /\ adminLog'[Len(adminLog) + 1] = info
      /\ \A n \in 1 .. Len(adminLog) : adminLog'[n] = adminLog[n]
      /\ Len(adminLog) \in Nat
  BY <1>1, AppendKeeps
<1>3. \A w \in Version : Len(index[w]) \in Nat
  BY <1>1
<1>4. EventsKept
  BY <1>2, <1>3 DEF EventsKept
<1>5. DOMAIN adminLog' = DOMAIN adminLog \cup {k}
  <2>1. DOMAIN adminLog = 1 .. Len(adminLog)
    BY <1>1
  <2>2. DOMAIN adminLog' = 1 .. Len(adminLog) + 1
    BY <1>2
  <2> QED
    BY <1>2, <2>1, <2>2
<1>6. GroupAction(k) \in Events'
  <2>1. \E n \in DOMAIN adminLog' : GroupAction(k) = GroupAction(n)
    BY <1>5
  <2> QED
    BY <2>1, EventsMembersNext DEF EventsListed
<1>7. UploadInfo(GroupAction(k))' = info
  BY <1>2 DEF UploadInfo, GroupAction
<1>8. ASSUME NEW e \in Events'
      PROVE  e \in Events \/ e = GroupAction(k)
  BY <1>5, EventsMembers, EventsMembersNext DEF EventsListed
<1> QED
  BY <1>1, <1>2, <1>4, <1>6, <1>7, <1>8

(* A transaction that stores an event.                                     *)
StoresEvent(r, e, info) ==
    /\ EventsKept
    /\ index' \in [Version -> Seq(Info)] /\ adminLog' \in Seq(Info)
    /\ e \in Events' /\ UploadInfo(e)' = info
    /\ \A d \in Events' : d \in Events \/ d = e
    /\ excused' = excused \cup TooLate(info, e)
    /\ Became(r, Idle)
    /\ UNCHANGED <<clock, maintainers, tags, notifyPrefs, notifyTime, job, begun, failures,
                   told, dealt, lost>>

LEMMA updateAddPackageStores ==
    ASSUME TypesInvariant, NEW r \in Request, updateAddPackage(r)
    PROVE  \/ Became(r, Idle)
              /\ UNCHANGED <<clock, events, tags, notifyPrefs, notifyTime, job, begun,
                             failures, history>>
           \/ \E e, info : StoresEvent(r, e, info)
<1>1. request[r].of \in Version /\ request[r].info \in Info
  BY RequestKinds DEF updateAddPackage, TypesInvariant
<1>0. PICK v, info, k :
          /\ v \in Version /\ v = request[r].of
          /\ info \in Info /\ info = request[r].info
          /\ k = Len(index[v]) + 1
  BY <1>1
<1> DEFINE e == ReleaseOf(v, k)
<1>2. CASE request[r].new /\ v \in Released
  BY <1>0, <1>2 DEF updateAddPackage, events, tags, history
<1>3. CASE ~ (request[r].new /\ v \in Released)
  <2>1. /\ index' = [index EXCEPT ![v] = Append(@, info)] /\ adminLog' = adminLog
        /\ excused' = excused \cup TooLate(info, e)
    BY <1>0, <1>3 DEF updateAddPackage
  <2>2. /\ EventsKept
        /\ index' \in [Version -> Seq(Info)] /\ adminLog' \in Seq(Info)
        /\ e \in Events' /\ UploadInfo(e)' = info
        /\ \A d \in Events' : d \in Events \/ d = e
    BY <1>0, <2>1, ReleaseAdded DEF TypesInvariant
  <2>3. StoresEvent(r, e, info)
    BY <2>1, <2>2 DEF StoresEvent, updateAddPackage
  <2> QED
    BY <2>3
<1> QED
  BY <1>2, <1>3

LEMMA AddAdminLogStores ==
    ASSUME TypesInvariant, NEW r \in Request, AddAdminLog(r)
    PROVE  \E e, info : StoresEvent(r, e, info)
<1>1. request[r].info \in Info
  BY RequestKinds DEF AddAdminLog, TypesInvariant
<1>0. PICK info, k : info \in Info /\ info = request[r].info /\ k = Len(adminLog) + 1
  BY <1>1
<1> DEFINE e == GroupAction(k)
<1>2. /\ index' = index /\ adminLog' = Append(adminLog, info)
      /\ excused' = excused \cup TooLate(info, e)
  BY <1>0 DEF AddAdminLog
<1>3. /\ EventsKept
      /\ index' \in [Version -> Seq(Info)] /\ adminLog' \in Seq(Info)
      /\ e \in Events' /\ UploadInfo(e)' = info
      /\ \A d \in Events' : d \in Events \/ d = e
  BY <1>0, <1>2, ActionAdded DEF TypesInvariant
<1>4. StoresEvent(r, e, info)
  BY <1>2, <1>3 DEF StoresEvent, AddAdminLog
<1> QED
  BY <1>4

LEMMA StoresEventTyped ==
    ASSUME TypesInvariant, NEW r \in Request, NEW e, NEW info, StoresEvent(r, e, info)
    PROVE  TypesInvariant'
<1>1. request' \in [Request -> Requests]
  BY BecameTyped, IdleIsRequest DEF TypesInvariant, StoresEvent
<1>2. clock' \in clock .. MaxTime
  BY NotifyAssumption DEF TypesInvariant, TypeOK, StoresEvent
<1>3. JobTyped' /\ job' \in Jobs \cup {Idle}
  BY <1>2, JobTypedKept DEF StoresEvent, JobKept
<1>4. excused' \subseteq excused \cup [to : UserId, about : {e}] /\ told' = told /\ e \in Events'
  BY DEF StoresEvent, TooLate
<1>5. \A m \in told' \cup excused' : m.to \in UserId /\ m.about \in Events'
  BY <1>4, HistoryTypedKept DEF StoresEvent, TypesInvariant
<1>6. /\ clock' = clock /\ maintainers' = maintainers /\ notifyPrefs' = notifyPrefs
      /\ notifyTime' = notifyTime /\ dealt' = dealt /\ lost' = lost
      /\ reviewTags' = reviewTags /\ tagProposalLog' = tagProposalLog
      /\ index' \in [Version -> Seq(Info)] /\ adminLog' \in Seq(Info)
  BY DEF StoresEvent, tags
<1>7. TypeOK'
  BY <1>5, <1>6 DEF TypesInvariant, TypeOK, Info
<1> QED
  BY <1>1, <1>3, <1>7 DEF TypesInvariant

LEMMA updateAddPackageTyped ==
    ASSUME TypesInvariant, NEW r \in Request, updateAddPackage(r)
    PROVE  TypesInvariant'
<1>1. CASE Became(r, Idle)
           /\ UNCHANGED <<clock, events, tags, notifyPrefs, notifyTime, job, begun,
                          failures, history>>
  <2>1. request' \in [Request -> Requests]
    BY <1>1, BecameTyped, IdleIsRequest DEF TypesInvariant
  <2>2. TypeOK'
    BY <1>1, TypeOKSame DEF TypesInvariant
  <2>3. JobTyped' /\ job' \in Jobs \cup {Idle}
    BY <1>1, JobTypedSame DEF JobKept, events
  <2> QED
    BY <2>1, <2>2, <2>3 DEF TypesInvariant
<1>2. CASE \E e, info : StoresEvent(r, e, info)
  BY <1>2, StoresEventTyped
<1> QED
  BY <1>1, <1>2, updateAddPackageStores

LEMMA updateUserGroupTyped ==
    ASSUME TypesInvariant, NEW r \in Request, updateUserGroup(r)
    PROVE  TypesInvariant'
<1>1. PICK u \in UserId, s \in Edited :
           /\ maintainers' \in {maintainers \cup {s}, maintainers \ {s}}
           /\ Became(r, [at |-> "changed", by |-> u])
           /\ job' = IF Running THEN [job EXCEPT !.edited = @ \cup {s}] ELSE job
  BY DEF updateUserGroup
<1>2. s \in UserId
  BY NotifyAssumption
<1>3. JobKept
  BY <1>1, <1>2 DEF JobKept
<1>4. request' \in [Request -> Requests]
  <2>1. [at |-> "changed", by |-> u] \in Requests
    BY DEF Requests
  <2> QED
    BY <1>1, <2>1, BecameTyped DEF TypesInvariant
<1>5. /\ index' = index /\ adminLog' = adminLog
      /\ clock' = clock /\ notifyPrefs' = notifyPrefs /\ notifyTime' = notifyTime
      /\ reviewTags' = reviewTags /\ tagProposalLog' = tagProposalLog
      /\ told' = told /\ excused' = excused /\ dealt' = dealt /\ lost' = lost
  BY DEF updateUserGroup, tags, history
<1>6. JobTyped' /\ job' \in Jobs \cup {Idle}
  BY <1>3, <1>5, JobTypedSame
<1>7. Events' = Events /\ maintainers' \subseteq UserId
  BY <1>1, <1>2, <1>5, EventsSame DEF TypesInvariant, TypeOK
<1>8. TypeOK'
  BY <1>5, <1>7 DEF TypesInvariant, TypeOK
<1> QED
  BY <1>4, <1>6, <1>8 DEF TypesInvariant

LEMMA groupChangedHookTyped ==
    ASSUME TypesInvariant, NEW r \in Request, groupChangedHook(r)
    PROVE  TypesInvariant'
<1>1. Became(r, [at |-> "log", info |-> [time |-> clock, by |-> request[r].by]])
  BY DEF groupChangedHook
<1>2. [at |-> "log", info |-> [time |-> clock, by |-> request[r].by]] \in Requests
  <2>1. clock \in Nat /\ request[r].by \in UserId
    BY RequestKinds, NotifyAssumption DEF TypesInvariant, TypeOK, groupChangedHook
  <2> QED
    BY <2>1 DEF Requests, Info
<1>3. request' \in [Request -> Requests]
  BY <1>1, <1>2, BecameTyped DEF TypesInvariant
<1>4. UNCHANGED <<clock, events, tags, notifyPrefs, notifyTime, history>> /\ job' = job
  BY DEF groupChangedHook
<1>5. TypeOK'
  BY <1>4, TypeOKSame DEF TypesInvariant
<1>6. JobTyped' /\ job' \in Jobs \cup {Idle}
  BY <1>4, JobTypedSame DEF JobKept, events
<1> QED
  BY <1>3, <1>5, <1>6 DEF TypesInvariant

(* Steps that change tags or what is known of them, and perhaps the        *)
(* requests.                                                               *)
LEMMA TagStepTyped ==
    ASSUME TypesInvariant, UNCHANGED <<clock, events, notifyPrefs, notifyTime, told, excused>>,
           JobKept, request' \in [Request -> Requests],
           reviewTags' \subseteq Tag, tagProposalLog' \in Log,
           dealt' \cup lost' \subseteq Tag
    PROVE  TypesInvariant'
<1>1. /\ index' = index /\ adminLog' = adminLog /\ maintainers' = maintainers
      /\ clock' = clock /\ notifyPrefs' = notifyPrefs /\ notifyTime' = notifyTime
      /\ told' = told /\ excused' = excused
  BY DEF events
<1>2. Events' = Events
  BY <1>1, EventsSame
<1>3. TypeOK'
  BY <1>1, <1>2 DEF TypesInvariant, TypeOK, Log
<1>4. JobTyped' /\ job' \in Jobs \cup {Idle}
  BY <1>1, JobTypedSame
<1> QED
  BY <1>3, <1>4 DEF TypesInvariant

LEMMA InsertReviewTagsTyped ==
    ASSUME TypesInvariant, NEW r \in Request, InsertReviewTags(r)
    PROVE  TypesInvariant'
<1>1. PICK t \in Tag :
           /\ reviewTags' = reviewTags \cup {t}
           /\ request' = [q \in Request |->
                  IF q = r THEN [at |-> "proposed", tag |-> t]
                  ELSE IF request[q].at \in {"decide", "decided"}
                       THEN [request[q] EXCEPT !.since = @ \cup {t}]
                       ELSE request[q]]
           /\ dealt' = dealt \ {t} /\ lost' = lost \ {t}
  BY DEF InsertReviewTags
<1>2. ASSUME NEW q \in Request
      PROVE  (IF q = r THEN [at |-> "proposed", tag |-> t]
              ELSE IF request[q].at \in {"decide", "decided"}
                   THEN [request[q] EXCEPT !.since = @ \cup {t}]
                   ELSE request[q]) \in Requests
  <2>1. [at |-> "proposed", tag |-> t] \in Requests
    BY DEF Requests
  <2>2. request[q] \in Requests
    BY DEF TypesInvariant
  <2>3. ASSUME request[q].at \in {"decide", "decided"}
        PROVE  [request[q] EXCEPT !.since = @ \cup {t}] \in Requests
    <3>1. request[q] \in [at : {"decide", "decided"}, addRev : SUBSET Tag, since : SUBSET Tag]
      BY <2>3, RequestKinds DEF TypesInvariant
    <3>2. [request[q] EXCEPT !.since = @ \cup {t}]
             \in [at : {"decide", "decided"}, addRev : SUBSET Tag, since : SUBSET Tag]
      BY <3>1
    <3> QED
      BY <3>2 DEF Requests
  <2> QED
    BY <2>1, <2>2, <2>3
<1>3. request' \in [Request -> Requests]
  BY <1>1, <1>2
<1>4. /\ UNCHANGED <<clock, events, notifyPrefs, notifyTime, told, excused>>
      /\ tagProposalLog' = tagProposalLog /\ JobKept
  BY DEF InsertReviewTags, JobKept
<1>5. /\ reviewTags' \subseteq Tag /\ tagProposalLog' \in Log
      /\ dealt' \cup lost' \subseteq Tag
  BY <1>1, <1>4 DEF TypesInvariant, TypeOK, Log
<1> QED
  BY <1>3, <1>4, <1>5, TagStepTyped

LEMMA rememberProposalTyped ==
    ASSUME TypesInvariant, NEW r \in Request, rememberProposal(r)
    PROVE  TypesInvariant'
<1>1. request[r].tag \in Tag
  BY RequestKinds DEF rememberProposal, TypesInvariant
<1>2. tagProposalLog' \in Log
  BY <1>1 DEF rememberProposal, insertProposal, Log, TypesInvariant, TypeOK
<1>3. request' \in [Request -> Requests]
  BY BecameTyped, IdleIsRequest DEF rememberProposal, TypesInvariant
<1>4. /\ UNCHANGED <<clock, events, notifyPrefs, notifyTime, told, excused>> /\ JobKept
      /\ reviewTags' = reviewTags /\ dealt' = dealt /\ lost' = lost
  BY DEF rememberProposal, JobKept, history
<1>5. reviewTags' \subseteq Tag /\ dealt' \cup lost' \subseteq Tag
  BY <1>4 DEF TypesInvariant, TypeOK
<1> QED
  BY <1>2, <1>3, <1>4, <1>5, TagStepTyped

LEMMA LookupReviewTagsTyped ==
    ASSUME TypesInvariant, NEW r \in Request, LookupReviewTags(r)
    PROVE  TypesInvariant'
<1>1. PICK decided \in SUBSET reviewTags :
         Became(r, [at |-> "decide", addRev |-> reviewTags \ decided, since |-> {}])
  BY DEF LookupReviewTags
<1>2. [at |-> "decide", addRev |-> reviewTags \ decided, since |-> {}] \in Requests
  BY DEF Requests, TypesInvariant, TypeOK
<1>3. request' \in [Request -> Requests]
  BY <1>1, <1>2, BecameTyped DEF TypesInvariant
<1>4. /\ UNCHANGED <<clock, events, notifyPrefs, notifyTime, told, excused>> /\ JobKept
      /\ reviewTags' = reviewTags /\ tagProposalLog' = tagProposalLog
      /\ dealt' = dealt /\ lost' = lost
  BY DEF LookupReviewTags, JobKept, history, tags
<1>5. reviewTags' \subseteq Tag /\ tagProposalLog' \in Log /\ dealt' \cup lost' \subseteq Tag
  BY <1>4 DEF TypesInvariant, TypeOK, Log
<1> QED
  BY <1>3, <1>4, <1>5, TagStepTyped

LEMMA InsertReviewTagsAgainTyped ==
    ASSUME TypesInvariant, NEW r \in Request, InsertReviewTagsAgain(r)
    PROVE  TypesInvariant'
<1>1. request[r] \in [at : {"decide", "decided"}, addRev : SUBSET Tag, since : SUBSET Tag]
  BY RequestKinds DEF InsertReviewTagsAgain, TypesInvariant
<1>2. [request[r] EXCEPT !.at = "decided"] \in Requests
  <2>1. [request[r] EXCEPT !.at = "decided"]
           \in [at : {"decide", "decided"}, addRev : SUBSET Tag, since : SUBSET Tag]
    BY <1>1
  <2> QED
    BY <2>1 DEF Requests
<1>3. request' \in [Request -> Requests]
  BY <1>2, BecameTyped DEF TypesInvariant, InsertReviewTagsAgain
<1>4. /\ UNCHANGED <<clock, events, notifyPrefs, notifyTime, told, excused>> /\ JobKept
      /\ tagProposalLog' = tagProposalLog /\ dealt' = dealt
      /\ reviewTags' = request[r].addRev
      /\ lost' = lost \cup (request[r].addRev \ reviewTags)
  BY DEF InsertReviewTagsAgain, JobKept
<1>5. reviewTags' \subseteq Tag /\ tagProposalLog' \in Log /\ dealt' \cup lost' \subseteq Tag
  BY <1>1, <1>4 DEF TypesInvariant, TypeOK, Log
<1> QED
  BY <1>3, <1>4, <1>5, TagStepTyped

LEMMA modifyTagsTyped ==
    ASSUME TypesInvariant, NEW r \in Request, modifyTags(r)
    PROVE  TypesInvariant'
<1>1. request[r] \in [at : {"decide", "decided"}, addRev : SUBSET Tag, since : SUBSET Tag]
  BY RequestKinds DEF modifyTags, TypesInvariant
<1>2. tagProposalLog' \in Log
  BY DEF modifyTags, TypesInvariant, TypeOK, Log
<1>3. request' \in [Request -> Requests]
  BY BecameTyped, IdleIsRequest DEF TypesInvariant, modifyTags
<1>4. /\ UNCHANGED <<clock, events, notifyPrefs, notifyTime, told, excused>> /\ JobKept
      /\ reviewTags' = reviewTags /\ dealt' = dealt
      /\ lost' = lost \cup (request[r].since \ request[r].addRev)
  BY DEF modifyTags, JobKept
<1>5. reviewTags' \subseteq Tag /\ dealt' \cup lost' \subseteq Tag
  BY <1>1, <1>4 DEF TypesInvariant, TypeOK
<1> QED
  BY <1>2, <1>3, <1>4, <1>5, TagStepTyped

LEMMA AddNotifyPrefTyped ==
    ASSUME TypesInvariant, AddNotifyPref
    PROVE  TypesInvariant'
<1>1. PICK u \in UserId, p \in Prefs : notifyPrefs' = [notifyPrefs EXCEPT ![u] = p]
  BY DEF AddNotifyPref
<1>2. notifyPrefs' \in [UserId -> NotifyPref]
  BY <1>1, NotifyAssumption DEF TypesInvariant, TypeOK
<1>3. /\ index' = index /\ adminLog' = adminLog /\ maintainers' = maintainers
      /\ clock' = clock /\ notifyTime' = notifyTime
      /\ reviewTags' = reviewTags /\ tagProposalLog' = tagProposalLog
      /\ told' = told /\ excused' = excused /\ dealt' = dealt /\ lost' = lost
      /\ request' = request /\ job' = job
  BY DEF AddNotifyPref, events, tags, history
<1>4. Events' = Events
  BY <1>3, EventsSame
<1>5. TypeOK'
  BY <1>2, <1>3, <1>4 DEF TypesInvariant, TypeOK
<1>6. JobTyped' /\ job' \in Jobs \cup {Idle}
  BY <1>3, JobTypedSame DEF JobKept
<1> QED
  BY <1>3, <1>5, <1>6 DEF TypesInvariant

LEMMA TickTyped ==
    ASSUME TypesInvariant, Tick
    PROVE  TypesInvariant'
<1>1. clock' \in 1 .. MaxTime /\ clock' \in clock .. MaxTime /\ clock' = clock + 1 /\ clock \in Nat
  BY NotifyAssumption DEF Tick, TypesInvariant, TypeOK
<1>2. /\ index' = index /\ adminLog' = adminLog /\ maintainers' = maintainers
      /\ notifyTime' = notifyTime /\ notifyPrefs' = notifyPrefs
      /\ reviewTags' = reviewTags /\ tagProposalLog' = tagProposalLog
      /\ told' = told /\ excused' = excused /\ dealt' = dealt /\ lost' = lost
      /\ request' = request /\ job' = job
  BY DEF Tick, events, tags, history
<1>3. Events' = Events
  BY <1>2, EventsSame
<1>4. notifyTime' \in 0 .. clock'
  BY <1>1, <1>2 DEF TypesInvariant, TypeOK
<1>5. TypeOK'
  BY <1>1, <1>2, <1>3, <1>4 DEF TypesInvariant, TypeOK
<1>6. TypeOK
  BY DEF TypesInvariant
<1>7. JobTyped' /\ job' \in Jobs \cup {Idle}
  BY <1>1, <1>2, <1>6, KeptWhenSame, JobTypedKept DEF JobKept
<1> QED
  BY <1>2, <1>5, <1>7 DEF TypesInvariant

(* The steps of the job.                                                   *)
LEMMA JobStepTyped ==
    ASSUME TypesInvariant, UNCHANGED server, job' \in Jobs, JobTyped'
    PROVE  TypesInvariant'
<1>1. UNCHANGED <<clock, events, tags, notifyPrefs, notifyTime, history>> /\ request' = request
  BY DEF server
<1>2. TypeOK'
  BY <1>1, TypeOKSame DEF TypesInvariant
<1> QED
  BY <1>1, <1>2 DEF TypesInvariant

LEMMA ServerSame ==
    ASSUME UNCHANGED server
    PROVE  /\ clock' = clock /\ index' = index /\ adminLog' = adminLog
           /\ maintainers' = maintainers /\ reviewTags' = reviewTags
           /\ tagProposalLog' = tagProposalLog /\ notifyPrefs' = notifyPrefs
           /\ notifyTime' = notifyTime /\ request' = request
           /\ told' = told /\ excused' = excused /\ dealt' = dealt /\ lost' = lost
           /\ Events' = Events /\ Released' = Released
           /\ \A e : UploadInfo(e)' = UploadInfo(e)
<1>1. index' = index /\ adminLog' = adminLog
  BY DEF server, events
<1> QED
  BY <1>1, EventsSame DEF server, events, tags, history

LEMMA MailsTyped ==
    ASSUME TypesInvariant, job \in Jobs,
           NEW to, to \subseteq maintainers, NEW actor, NEW about, about \subseteq Events
    PROVE  /\ Mails(to, actor, about) \subseteq Mail
           /\ \A m \in Mails(to, actor, about) : m.about \in Events
<1>1. to \subseteq UserId
  BY DEF TypesInvariant, TypeOK
<1>2. about \subseteq EventId
  BY EventTyped DEF TypesInvariant
<1> QED
  BY <1>1, <1>2 DEF Mails, Mail

LEMMA startJobTyped ==
    ASSUME TypesInvariant, startJob
    PROVE  TypesInvariant'
<1>1. clock \in Nat /\ notifyTime \in Nat /\ notifyPrefs \in [UserId -> NotifyPref]
  BY NotifyAssumption DEF TypesInvariant, TypeOK
<1>2. trimLastTime \in Nat
  BY <1>1, NotifyAssumption DEF trimLastTime
<1>3. job' \in Jobs
  BY <1>1, <1>2 DEF startJob, Jobs, NoLog, Log
<1>4. JobTyped'
  BY <1>1, <1>3, ServerSame DEF startJob, JobTyped
<1> QED
  BY <1>3, <1>4, JobStepTyped DEF startJob

LEMMA collectRevisionsAndUploadsTyped ==
    ASSUME TypesInvariant, collectRevisionsAndUploads
    PROVE  TypesInvariant'
<1>1. Running /\ job \in Jobs
  BY JobKinds DEF collectRevisionsAndUploads, Running, TypesInvariant
<1>2. PICK P \in SUBSET Released : P = {v \in Released : IsRecent(Latest(v).time)}
  OBVIOUS
<1>3. PICK S \in SUBSET Events : S = {e \in Events : e.kind = "release"}
  OBVIOUS
<1>4. job' = [job EXCEPT !.at = "revisions", !.pkgs = P, !.seen = S]
  BY <1>2, <1>3, Zenon DEF collectRevisionsAndUploads
<1>4a. P \subseteq Version /\ S \subseteq EventId
  BY EventTyped DEF TypesInvariant, Released
<1>4b. job' \in Jobs
  BY <1>1, <1>4, <1>4a DEF Jobs
<1>5. /\ job'.until = job.until /\ job'.actions = job.actions
      /\ job'.pkgs \subseteq Released /\ job'.seen \subseteq Events
      /\ job'.mails = job.mails /\ job'.sent = job.sent
  BY <1>1, <1>4 DEF Jobs
<1>6. JobTyped'
  BY <1>1, <1>5, ServerSame DEF collectRevisionsAndUploads, JobTyped, TypesInvariant
<1> QED
  BY <1>4b, <1>6, JobStepTyped DEF collectRevisionsAndUploads

(* A step that only writes mails and ticks off what it wrote them about.   *)
LEMMA WritesMails ==
    ASSUME TypesInvariant, Running, UNCHANGED server,
           job' \in Jobs, job'.until = job.until, job'.actions \subseteq job.actions,
           job'.pkgs \subseteq job.pkgs, job'.seen = job.seen,
           \A m \in job'.mails \cup job'.sent :
               m \in job.mails \cup job.sent \/ m.about \in Events \cup {TagUpdate}
    PROVE  TypesInvariant'
<1>1. JobTyped'
  BY ServerSame DEF JobTyped, TypesInvariant
<1> QED
  BY <1>1, JobStepTyped

LEMMA genRevUploadListTyped ==
    ASSUME TypesInvariant, genRevUploadList
    PROVE  TypesInvariant'
<1>1. Running /\ job \in Jobs /\ UNCHANGED server
  BY JobKinds DEF genRevUploadList, Running, TypesInvariant
<1> DEFINE v == Min(job.pkgs)
           revisions == {e \in job.seen : e.of = v}
           latest == index[v][Cardinality(revisions)]
           mails ==
               IF Cardinality(revisions) > 1
               THEN Mails({u \in maintainers : WantsRevisions(u, v)}, latest.by,
                          {e \in revisions : IsRecent(Time(e))})
               ELSE Mails({u \in maintainers : job.prefs[u].upload}, latest.by, revisions)
<1>2. job' = [job EXCEPT !.pkgs = @ \ {v}, !.mails = @ \cup mails]
  BY DEF genRevUploadList
<1>3. revisions \subseteq Events
  BY <1>1 DEF TypesInvariant, JobTyped
<1>4. mails \subseteq Mail /\ \A m \in mails : m.about \in Events
  <2> HIDE DEF revisions, v, latest
  <2> QED
    BY <1>1, <1>3, MailsTyped
<1> HIDE DEF mails, v
<1>5. /\ job' \in Jobs /\ job'.until = job.until /\ job'.actions = job.actions
      /\ job'.pkgs \subseteq job.pkgs /\ job'.seen = job.seen
      /\ job'.mails = job.mails \cup mails /\ job'.sent = job.sent
  BY <1>1, <1>2, <1>4 DEF Jobs
<1> QED
  BY <1>1, <1>4, <1>5, WritesMails

LEMMA collectAdminActionsTyped ==
    ASSUME TypesInvariant, collectAdminActions
    PROVE  TypesInvariant'
<1>1. Running /\ job \in Jobs
  BY JobKinds DEF collectAdminActions, Running, TypesInvariant
<1>2. PICK A \in SUBSET DOMAIN adminLog :
         A = {n \in DOMAIN adminLog : IsRecent(adminLog[n].time)}
  OBVIOUS
<1>3. PICK S \in SUBSET Events : S = {e \in Events : e.kind = "group"}
  OBVIOUS
<1>3a. job' = [job EXCEPT !.at = "actions", !.actions = A, !.seen = @ \cup S]
  BY <1>2, <1>3, Zenon DEF collectAdminActions
<1>3b. A \subseteq Nat /\ S \subseteq EventId
  <2>1. DOMAIN adminLog \subseteq Nat
    BY DEF TypesInvariant, TypeOK
  <2> QED
    BY <2>1, EventTyped DEF TypesInvariant
<1>4. job' \in Jobs
  BY <1>1, <1>3a, <1>3b DEF Jobs
<1>5. /\ job'.until = job.until /\ job'.actions \subseteq DOMAIN adminLog
      /\ job'.pkgs = job.pkgs /\ job'.seen = job.seen \cup S
      /\ job'.mails = job.mails /\ job'.sent = job.sent
  BY <1>1, <1>3a DEF Jobs
<1>6. JobTyped'
  BY <1>1, <1>5, ServerSame DEF collectAdminActions, JobTyped, TypesInvariant
<1> QED
  BY <1>4, <1>6, JobStepTyped DEF collectAdminActions

(* The greatest of the actions to report is one of them.                   *)
LEMMA NextAction ==
    ASSUME TypesInvariant, Running, job.actions # {}
    PROVE  Max(job.actions) \in job.actions /\ Max(job.actions) \in DOMAIN adminLog
<1>1. job.actions \subseteq 1 .. Len(adminLog) /\ Len(adminLog) \in Nat
  BY DEF TypesInvariant, TypeOK, JobTyped
<1>2. job.actions \in SUBSET Nat /\ \A x \in job.actions : x <= Len(adminLog)
  BY <1>1
<1>3. Max(job.actions) \in job.actions
  BY <1>1, <1>2, MaxIn
<1> QED
  BY <1>3 DEF TypesInvariant, JobTyped

LEMMA genGroupUploadListTyped ==
    ASSUME TypesInvariant, genGroupUploadList
    PROVE  TypesInvariant'
<1>1. Running /\ job \in Jobs /\ UNCHANGED server
  BY JobKinds DEF genGroupUploadList, Running, TypesInvariant
<1>2. PICK n : n = Max(job.actions)
  OBVIOUS
<1> DEFINE mails == Mails(maintainers, adminLog[n].by, {GroupAction(n)})
<1>3. job' = [job EXCEPT !.actions = @ \ {n}, !.mails = @ \cup mails]
  BY <1>2 DEF genGroupUploadList
<1>4. n \in DOMAIN adminLog
  BY <1>1, <1>2, NextAction DEF genGroupUploadList
<1>5. {GroupAction(n)} \subseteq Events
  BY <1>4, EventsMembers DEF EventsListed
<1>6. mails \subseteq Mail /\ \A m \in mails : m.about \in Events
  BY <1>1, <1>5, MailsTyped
<1> HIDE DEF mails
<1>7. /\ job' \in Jobs /\ job'.until = job.until /\ job'.actions \subseteq job.actions
      /\ job'.pkgs = job.pkgs /\ job'.seen = job.seen
      /\ job'.mails = job.mails \cup mails /\ job'.sent = job.sent
  BY <1>1, <1>3, <1>6 DEF Jobs
<1> QED
  BY <1>1, <1>6, <1>7, WritesMails

LEMMA readMemStateTyped ==
    ASSUME TypesInvariant, readMemState
    PROVE  TypesInvariant'
<1>1. Running /\ job \in Jobs /\ UNCHANGED server
  BY JobKinds DEF readMemState, Running, TypesInvariant
<1>2. tagProposalLog \in Log
  BY DEF TypesInvariant, TypeOK, Log
<1>3. /\ job' \in Jobs /\ job'.until = job.until /\ job'.actions = job.actions
      /\ job'.pkgs = job.pkgs /\ job'.seen = job.seen
      /\ job'.mails = job.mails /\ job'.sent = job.sent
  BY <1>1, <1>2 DEF Jobs, readMemState
<1> QED
  BY <1>1, <1>3, WritesMails

LEMMA writeMemStateTyped ==
    ASSUME TypesInvariant, writeMemState
    PROVE  TypesInvariant'
<1>1. Running /\ job \in Jobs
  BY JobKinds DEF writeMemState, Running, TypesInvariant
<1>2. /\ index' = index /\ adminLog' = adminLog /\ maintainers' = maintainers
      /\ clock' = clock /\ notifyPrefs' = notifyPrefs /\ notifyTime' = notifyTime
      /\ reviewTags' = reviewTags /\ tagProposalLog' = NoLog
      /\ told' = told /\ excused' = excused /\ dealt' = dealt
      /\ lost' = lost \cup (tagProposalLog.tags \ job.logs.tags)
      /\ request' = request
  BY DEF writeMemState, events
<1>3. /\ job' \in Jobs /\ job'.until = job.until /\ job'.actions = job.actions
      /\ job'.pkgs = job.pkgs /\ job'.seen = job.seen
      /\ job'.mails = job.mails /\ job'.sent = job.sent
  BY <1>1 DEF Jobs, writeMemState, Goto
<1>4. Events' = Events /\ Released' = Released
  BY <1>2, EventsSame
<1>5. TypeOK'
  BY <1>2, <1>4 DEF TypesInvariant, TypeOK, NoLog
<1>6. JobTyped'
  BY <1>1, <1>2, <1>3, <1>4 DEF JobTyped, TypesInvariant
<1> QED
  BY <1>2, <1>3, <1>5, <1>6 DEF TypesInvariant

LEMMA genTagProposalListTyped ==
    ASSUME TypesInvariant, genTagProposalList
    PROVE  TypesInvariant'
<1>1. Running /\ job \in Jobs /\ UNCHANGED server
  BY JobKinds DEF genTagProposalList, Running, TypesInvariant
<1> DEFINE to == {u \in maintainers : job.logs.listed /\ WantsTags(u)}
           mails == [to : to, about : {TagUpdate}]
<1>2. mails \subseteq Mail /\ \A m \in mails : m.about = TagUpdate
  BY TagUpdateTyped DEF Mail, TypesInvariant, TypeOK
<1>3. job' = [job EXCEPT !.at = "send", !.mails = @ \cup mails]
  BY DEF genTagProposalList
<1> HIDE DEF mails
<1>4. /\ job' \in Jobs /\ job'.until = job.until /\ job'.actions = job.actions
      /\ job'.pkgs = job.pkgs /\ job'.seen = job.seen
      /\ job'.mails = job.mails \cup mails /\ job'.sent = job.sent
  BY <1>1, <1>2, <1>3 DEF Jobs
<1> QED
  BY <1>1, <1>2, <1>4, WritesMails

LEMMA sendNotifyEmailMoves ==
    ASSUME TypesInvariant, sendNotifyEmail
    PROVE  /\ job' \in Jobs /\ job'.mails \cup job'.sent = job.mails \cup job.sent
           /\ job'.at = job.at /\ job'.prefs = job.prefs /\ job'.earlier = job.earlier
           /\ job'.until = job.until /\ job'.actions = job.actions
           /\ job'.pkgs = job.pkgs /\ job'.seen = job.seen
           /\ job'.logs = job.logs /\ job'.edited = job.edited
<1>1. Running /\ job \in Jobs
  BY JobKinds DEF sendNotifyEmail, Running, TypesInvariant
<1> DEFINE mail == {m \in job.mails : m.to = Min({n.to : n \in job.mails})}
<1>2. mail \subseteq job.mails
  OBVIOUS
<1>3. job' = [job EXCEPT !.mails = @ \ mail, !.sent = @ \cup mail]
  BY DEF sendNotifyEmail
<1> HIDE DEF mail
<1> QED
  BY <1>1, <1>2, <1>3 DEF Jobs

LEMMA sendNotifyEmailTyped ==
    ASSUME TypesInvariant, sendNotifyEmail
    PROVE  TypesInvariant'
<1>1. Running /\ UNCHANGED server
  BY DEF sendNotifyEmail, Running
<1> QED
  BY <1>1, sendNotifyEmailMoves, WritesMails

LEMMA finishJobTyped ==
    ASSUME TypesInvariant, finishJob
    PROVE  TypesInvariant'
<1>1. Running /\ job \in Jobs
  BY JobKinds DEF finishJob, Running, TypesInvariant
<1>2. /\ index' = index /\ adminLog' = adminLog /\ maintainers' = maintainers
      /\ clock' = clock /\ notifyPrefs' = notifyPrefs /\ notifyTime' = job.until
      /\ reviewTags' = reviewTags /\ tagProposalLog' = tagProposalLog
      /\ lost' = lost /\ request' = request /\ job' = Idle
  BY DEF finishJob, events, tags, SetNotifyTime
<1>3. Events' = Events
  BY <1>2, EventsSame
<1>4. notifyTime' \in 0 .. clock'
  BY <1>1, <1>2, NotifyAssumption DEF TypesInvariant, TypeOK, JobTyped, Jobs
<1>5. \A m \in told' : m.to \in UserId /\ m.about \in Events
  <2>1. \A m \in job.sent : m \in Mail /\ m.about \in Events \cup {TagUpdate}
    BY <1>1 DEF Jobs, JobTyped, TypesInvariant
  <2>2. \A m \in Mail : m.to \in UserId
    BY DEF Mail
  <2> QED
    BY <2>1, <2>2 DEF finishJob, TypesInvariant, TypeOK
<1>6. \A m \in excused' : m.to \in UserId /\ m.about \in Events
  <2> DEFINE E == {e \in Events : Time(e) \in notifyTime + 1 .. job.until}
             X == {m \in [to : UserId, about : E] : NeedNotTell(m.to, m.about)}
  <2>1. excused' = excused \cup X
    BY DEF finishJob
  <2>2. \A m \in X : m.to \in UserId /\ m.about \in Events
    OBVIOUS
  <2> HIDE DEF X
  <2> QED
    BY <2>1, <2>2 DEF TypesInvariant, TypeOK
<1>7. dealt' \subseteq Tag
  <2>1. job.logs.tags \subseteq Tag
    BY <1>1 DEF Jobs, Log
  <2> QED
    BY <2>1 DEF finishJob, TypesInvariant, TypeOK
<1>8. TypeOK'
  BY <1>2, <1>3, <1>4, <1>5, <1>6, <1>7 DEF TypesInvariant, TypeOK
<1>9. JobTyped' /\ job' \in Jobs \cup {Idle}
  BY <1>2 DEF JobTyped, Running, Idle
<1> QED
  BY <1>2, <1>8, <1>9 DEF TypesInvariant

LEMMA RememberedTyped ==
    ASSUME TypesInvariant
    PROVE  Remembered \subseteq Tag
<1>1. tagProposalLog.tags \subseteq Tag
  BY DEF TypesInvariant, TypeOK
<1>2. Running => job.logs.tags \subseteq Tag
  BY JobKinds DEF TypesInvariant, Jobs, Log
<1>3. \A q \in Request : request[q].at = "proposed" => request[q].tag \in Tag
  BY RequestKinds DEF TypesInvariant
<1> QED
  BY <1>1, <1>2, <1>3 DEF Remembered

(* A failure leaves the job idle, and the tags it held are lost.           *)
LEMMA FailureTyped ==
    ASSUME TypesInvariant, sendMailFails \/ Restart
    PROVE  TypesInvariant'
<1>1. /\ UNCHANGED <<clock, events, notifyPrefs, notifyTime, told, excused>>
      /\ reviewTags' = reviewTags /\ dealt' = dealt /\ job' = Idle
  BY DEF sendMailFails, Restart, tags
<1>2. lost' \subseteq Tag /\ tagProposalLog' \in Log /\ request' \in [Request -> Requests]
  <2>1. CASE sendMailFails
    <3>1. job.logs.tags \subseteq Tag
      BY <2>1, JobKinds DEF sendMailFails, Running, TypesInvariant, Jobs, Log
    <3> QED
      BY <2>1, <3>1 DEF sendMailFails, tags, TypesInvariant, TypeOK, Log
  <2>2. CASE Restart
    BY <2>2, RememberedTyped, IdleIsRequest
    DEF Restart, TypesInvariant, TypeOK, Log, NoLog
  <2> QED
    BY <2>1, <2>2
<1>3. /\ index' = index /\ adminLog' = adminLog /\ maintainers' = maintainers
      /\ clock' = clock /\ notifyPrefs' = notifyPrefs /\ notifyTime' = notifyTime
      /\ told' = told /\ excused' = excused
  BY <1>1 DEF events
<1>4. Events' = Events
  BY <1>3, EventsSame
<1>5. TypeOK'
  BY <1>1, <1>2, <1>3, <1>4 DEF TypesInvariant, TypeOK, Log
<1>6. JobTyped' /\ job' \in Jobs \cup {Idle}
  BY <1>1 DEF JobTyped, Running, Idle
<1> QED
  BY <1>2, <1>5, <1>6 DEF TypesInvariant

LEMMA TypesInit == Init => TypesInvariant
<1> SUFFICES ASSUME Init PROVE TypesInvariant
  OBVIOUS
<1>1. Min(UserId) \in UserId
  BY NotifyAssumption, MinIn
<1>2. index \in [Version -> Seq(Info)]
  <2>1. [time |-> 0, by |-> Min(UserId)] \in Info
    BY <1>1 DEF Info
  <2>2. <<[time |-> 0, by |-> Min(UserId)]>> \in Seq(Info)
    BY <2>1
  <2>3. << >> \in Seq(Info)
    OBVIOUS
  <2> QED
    BY <2>2, <2>3 DEF Init
<1>3. adminLog \in Seq(Info)
  BY DEF Init
<1>4. tagProposalLog \in Log /\ reviewTags \subseteq Tag
  <2>1. CASE reviewTags = {} /\ tagProposalLog = NoLog
    BY <2>1 DEF Log, NoLog
  <2>2. CASE reviewTags = Tag /\ tagProposalLog = [listed |-> TRUE, tags |-> Tag]
    BY <2>2 DEF Log
  <2> QED
    BY <2>1, <2>2 DEF Init
<1>5. notifyPrefs \in [UserId -> NotifyPref]
  BY NotifyAssumption DEF Init
<1>6. request \in [Request -> Requests] /\ job = Idle
  BY IdleIsRequest DEF Init
<1>7. JobTyped
  BY <1>6 DEF JobTyped, Running, Idle
<1>8. clock \in 1 .. MaxTime /\ notifyTime \in 0 .. clock
  BY NotifyAssumption DEF Init
<1> QED
  BY <1>2, <1>3, <1>4, <1>5, <1>6, <1>7, <1>8 DEF TypesInvariant, TypeOK, Info, Log, Init
(* Every step keeps the types, and what a running job holds is about       *)
(* events there are.                                                       *)
LEMMA TypesNext ==
    ASSUME TypesInvariant, [Next]_vars
    PROVE  TypesInvariant'
<1>1. ASSUME NEW r \in Request,
             \/ uploadPackage(r) \/ updateAddPackage(r)
             \/ updateUserGroup(r) \/ groupChangedHook(r) \/ AddAdminLog(r)
             \/ InsertReviewTags(r) \/ rememberProposal(r)
             \/ LookupReviewTags(r) \/ InsertReviewTagsAgain(r) \/ modifyTags(r)
      PROVE  TypesInvariant'
  <2>1. CASE uploadPackage(r)
    BY <2>1, uploadPackageTyped
  <2>2. CASE updateAddPackage(r)
    BY <2>2, updateAddPackageTyped
  <2>3. CASE AddAdminLog(r)
    BY <2>3, AddAdminLogStores, StoresEventTyped
  <2>4. CASE updateUserGroup(r)
    BY <2>4, updateUserGroupTyped
  <2>5. CASE groupChangedHook(r)
    BY <2>5, groupChangedHookTyped
  <2>6. CASE InsertReviewTags(r)
    BY <2>6, InsertReviewTagsTyped
  <2>7. CASE rememberProposal(r)
    BY <2>7, rememberProposalTyped
  <2>8. CASE LookupReviewTags(r)
    BY <2>8, LookupReviewTagsTyped
  <2>9. CASE InsertReviewTagsAgain(r)
    BY <2>9, InsertReviewTagsAgainTyped
  <2>10. CASE modifyTags(r)
    BY <2>10, modifyTagsTyped
  <2> QED
    BY <1>1, <2>1, <2>2, <2>3, <2>4, <2>5, <2>6, <2>7, <2>8, <2>9, <2>10
<1>2. CASE AddNotifyPref
  BY <1>2, AddNotifyPrefTyped
<1>3. CASE notifyCronAction
  BY <1>3, startJobTyped, collectRevisionsAndUploadsTyped, genRevUploadListTyped,
     collectAdminActionsTyped, genGroupUploadListTyped, readMemStateTyped,
     writeMemStateTyped, genTagProposalListTyped, sendNotifyEmailTyped, finishJobTyped
  DEF notifyCronAction
<1>4. CASE sendMailFails \/ Restart
  BY <1>4, FailureTyped
<1>5. CASE Tick
  BY <1>5, TickTyped
<1>6. CASE UNCHANGED vars
  <2>1. UNCHANGED server /\ job' = job
    BY <1>6 DEF vars
  <2>2. UNCHANGED <<clock, events, tags, notifyPrefs, notifyTime, history>>
        /\ request' = request /\ index' = index /\ adminLog' = adminLog /\ clock' = clock
    BY <2>1, ServerSame DEF server
  <2>3. TypeOK'
    BY <2>2, TypeOKSame DEF TypesInvariant
  <2>4. JobTyped' /\ job' \in Jobs \cup {Idle}
    BY <2>1, <2>2, JobTypedSame DEF JobKept
  <2> QED
    BY <2>2, <2>3, <2>4 DEF TypesInvariant
<1> QED
  BY <1>1, <1>2, <1>3, <1>4, <1>5, <1>6 DEF Next

LEMMA TypesHold == Spec => []TypesInvariant
<1>1. TypesInvariant /\ [Next]_vars => TypesInvariant'
  BY TypesNext
<1> QED
  BY <1>1, TypesInit, PTL DEF Spec

(* Every variable keeps its type: what is told, excused, dealt with or     *)
(* lost is about events and tags there are, and no run has told past the   *)
(* clock.                                                                  *)
THEOREM TypeCorrect == Spec => []TypeOK
<1>1. TypesInvariant => TypeOK
  BY DEF TypesInvariant
<1> QED
  BY <1>1, TypesHold, PTL
-----------------------------------------------------------------------------
(* Proposals reach the maintainers.                                        *)

(* What decided on some tags and has not updated the log: it read every    *)
(* tag that awaits review now, or noted it, or the tag is lost.            *)
DecidersKnow ==
    \A r \in Request : request[r].at = "decided" =>
        reviewTags \subseteq request[r].addRev \cup request[r].since \cup lost

(* The job has read the log when it is to report what the log lists, and   *)
(* in the end it mails that to each maintainer whom nobody edited.         *)
JobReports ==
    Running =>
        /\ job.logs.tags # {} => job.logs.listed
        /\ job.at \in {"collect", "revisions", "actions"} => job.logs = NoLog
        /\ job.at = "send" =>
              \A u \in maintainers \ job.edited :
                 job.logs.listed /\ WantsTags(u) =>
                     [to |-> u, about |-> TagUpdate] \in job.mails \cup job.sent

TagsInvariant ==
    /\ ProposalsReach
    /\ DecidersKnow
    /\ tagProposalLog.tags # {} => tagProposalLog.listed
    /\ JobReports

RememberedListed ==
    \A t : t \in Remembered <=>
              \/ t \in tagProposalLog.tags
              \/ Running /\ t \in job.logs.tags
              \/ \E q \in Request : request[q].at = "proposed" /\ request[q].tag = t

LEMMA RememberedMembers == RememberedListed
BY DEF RememberedListed, Remembered

LEMMA RememberedMembersNext == RememberedListed'
BY RememberedMembers, PTL

LEMMA TagsInit == Init => TagsInvariant
<1> SUFFICES ASSUME Init PROVE TagsInvariant
  OBVIOUS
<1>1. ~Running /\ \A r \in Request : request[r].at = "idle"
  BY DEF Init, Running, Idle
<1>2. reviewTags \subseteq tagProposalLog.tags
  BY DEF Init
<1>3. tagProposalLog.tags # {} => tagProposalLog.listed
  BY DEF Init, NoLog
<1> QED
  BY <1>1, <1>2, <1>3, RememberedMembers
  DEF TagsInvariant, ProposalsReach, DecidersKnow, JobReports, RememberedListed

(* Steps that leave tags alone.  Requests that hold some are the same, and *)
(* a maintainer who joins is one whom somebody edited.                     *)
TagsKept ==
    /\ UNCHANGED <<tags, dealt, lost>> /\ JobKept
    /\ \A q \in Request :
          request[q].at \in {"proposed", "decided"} \/ request'[q].at \in {"proposed", "decided"}
              => request'[q] = request[q]
    /\ Running => maintainers' \ job'.edited \subseteq maintainers \ job.edited

LEMMA TagsKeptHold ==
    ASSUME TypesInvariant, TagsInvariant, TagsKept
    PROVE  TagsInvariant'
<1>1. /\ reviewTags' = reviewTags /\ tagProposalLog' = tagProposalLog
      /\ dealt' = dealt /\ lost' = lost
  BY DEF TagsKept, tags
<1>2. /\ Running' = Running
      /\ Running => /\ job'.at = job.at /\ job'.prefs = job.prefs /\ job'.logs = job.logs
                    /\ job'.mails = job.mails /\ job'.sent = job.sent
  BY JobKeptFields DEF TagsKept, TypesInvariant
<1>3. ProposalsReach'
  <2> SUFFICES ASSUME NEW t \in reviewTags
               PROVE  t \in Remembered' \/ t \in dealt \/ t \in lost
    BY <1>1 DEF ProposalsReach
  <2>1. CASE \E q \in Request : request[q].at = "proposed" /\ request[q].tag = t
    <3>1. \E q \in Request : request'[q].at = "proposed" /\ request'[q].tag = t
      BY <2>1 DEF TagsKept
    <3> QED
      BY <3>1, RememberedMembersNext DEF RememberedListed
  <2>2. CASE t \in tagProposalLog.tags \/ (Running /\ t \in job.logs.tags)
    BY <1>1, <1>2, <2>2, RememberedMembersNext DEF RememberedListed
  <2> QED
    BY <2>1, <2>2, RememberedMembers DEF TagsInvariant, ProposalsReach, RememberedListed
<1>4. DecidersKnow'
  BY <1>1 DEF DecidersKnow, TagsInvariant, TagsKept
<1>5. JobReports'
  BY <1>2 DEF JobReports, TagsInvariant, TagsKept, WantsTags
<1> QED
  BY <1>1, <1>3, <1>4, <1>5 DEF TagsInvariant

LEMMA BecameOnly ==
    ASSUME request \in [Request -> Requests], NEW r \in Request, NEW new, Became(r, new)
    PROVE  request'[r] = new /\ \A q \in Request : q # r => request'[q] = request[q]
BY DEF Became

(* Requests that do not touch tags.                                        *)
LEMMA OtherRequestsKeepTags ==
    ASSUME TypesInvariant, NEW r \in Request,
           \/ uploadPackage(r) \/ updateAddPackage(r)
           \/ updateUserGroup(r) \/ groupChangedHook(r) \/ AddAdminLog(r)
           \/ LookupReviewTags(r)
    PROVE  TagsKept
<1>1. PICK new : /\ Became(r, new) /\ new.at \notin {"proposed", "decided"}
                 /\ request[r].at \notin {"proposed", "decided"}
  <2>1. CASE uploadPackage(r)
    <3>1. PICK v \in Version, u \in UserId :
             Became(r, [at |-> "release", of |-> v, new |-> index[v] = <<>>,
                        info |-> [time |-> clock, by |-> u]])
      BY <2>1 DEF uploadPackage
    <3> QED
      BY <2>1, <3>1 DEF uploadPackage, Begin, Idle
  <2>2. CASE updateAddPackage(r)
    BY <2>2 DEF updateAddPackage, Idle
  <2>3. CASE updateUserGroup(r)
    <3>1. PICK u \in UserId : Became(r, [at |-> "changed", by |-> u])
      BY <2>3 DEF updateUserGroup
    <3> QED
      BY <2>3, <3>1 DEF updateUserGroup, Begin, Idle
  <2>4. CASE groupChangedHook(r)
    BY <2>4 DEF groupChangedHook
  <2>5. CASE AddAdminLog(r)
    BY <2>5 DEF AddAdminLog, Idle
  <2>6. CASE LookupReviewTags(r)
    <3>1. PICK decided \in SUBSET reviewTags :
            Became(r, [at |-> "decide", addRev |-> reviewTags \ decided, since |-> {}])
      BY <2>6 DEF LookupReviewTags
    <3> QED
      BY <2>6, <3>1 DEF LookupReviewTags, Begin, Idle
  <2> QED
    BY <2>1, <2>2, <2>3, <2>4, <2>5, <2>6
<1>2. \A q \in Request :
        request[q].at \in {"proposed", "decided"} \/ request'[q].at \in {"proposed", "decided"}
            => request'[q] = request[q]
  BY <1>1, BecameOnly DEF TypesInvariant
<1>3. UNCHANGED <<tags, dealt, lost>>
  BY DEF uploadPackage, updateAddPackage, updateUserGroup, groupChangedHook, AddAdminLog,
         LookupReviewTags, history
<1>4. JobKept /\ (Running => maintainers' \ job'.edited \subseteq maintainers \ job.edited)
  <2>1. CASE updateUserGroup(r)
    <3>1. PICK u \in UserId, s \in Edited :
             /\ maintainers' \in {maintainers \cup {s}, maintainers \ {s}}
             /\ job' = IF Running THEN [job EXCEPT !.edited = @ \cup {s}] ELSE job
      BY <2>1 DEF updateUserGroup
    <3>2. s \in UserId
      BY NotifyAssumption
    <3>3. Running => job'.edited = job.edited \cup {s}
      BY <3>1, JobKinds DEF TypesInvariant, Jobs
    <3> QED
      BY <3>1, <3>2, <3>3 DEF JobKept
  <2>2. CASE ~ updateUserGroup(r)
    <3>1. job' = job /\ maintainers' = maintainers
      BY <2>2 DEF uploadPackage, updateAddPackage, groupChangedHook, AddAdminLog,
                  LookupReviewTags, events
    <3> QED
      BY <3>1 DEF JobKept
  <2> QED
    BY <2>1, <2>2
<1> QED
  BY <1>2, <1>3, <1>4 DEF TagsKept
(* Requests that touch tags leave the job alone.                           *)
LEMMA TagsByRequest ==
    ASSUME TypesInvariant, TagsInvariant, job' = job, maintainers' = maintainers,
           tagProposalLog'.tags # {} => tagProposalLog'.listed,
           \A t \in reviewTags' :
              \/ t \in tagProposalLog'.tags
              \/ Running /\ t \in job.logs.tags
              \/ \E q \in Request : request'[q].at = "proposed" /\ request'[q].tag = t
              \/ t \in dealt' \/ t \in lost',
           DecidersKnow'
    PROVE  TagsInvariant'
<1>1. ProposalsReach'
  BY RememberedMembersNext DEF ProposalsReach, RememberedListed, Running
<1>2. JobReports'
  BY DEF JobReports, TagsInvariant, WantsTags, Running
<1> QED
  BY <1>1, <1>2 DEF TagsInvariant

LEMMA ProposalAt ==
    ASSUME TagsInvariant, NEW t \in reviewTags
    PROVE  \/ t \in tagProposalLog.tags
           \/ Running /\ t \in job.logs.tags
           \/ \E q \in Request : request[q].at = "proposed" /\ request[q].tag = t
           \/ t \in dealt \/ t \in lost
BY RememberedMembers DEF TagsInvariant, ProposalsReach, RememberedListed

LEMMA InsertReviewTagsReaches ==
    ASSUME TypesInvariant, TagsInvariant, NEW r \in Request, InsertReviewTags(r)
    PROVE  TagsInvariant'
<1>1. PICK t \in Tag :
           /\ reviewTags' = reviewTags \cup {t}
           /\ request' = [q \in Request |->
                  IF q = r THEN [at |-> "proposed", tag |-> t]
                  ELSE IF request[q].at \in {"decide", "decided"}
                       THEN [request[q] EXCEPT !.since = @ \cup {t}]
                       ELSE request[q]]
           /\ dealt' = dealt \ {t} /\ lost' = lost \ {t}
  BY DEF InsertReviewTags
<1>2. /\ job' = job /\ maintainers' = maintainers /\ tagProposalLog' = tagProposalLog
      /\ request[r].at = "idle"
  BY DEF InsertReviewTags, events, Begin, Idle
<1>3. request'[r].at = "proposed" /\ request'[r].tag = t
  BY <1>1
<1>4. \A q \in Request : request[q].at = "proposed" => request'[q] = request[q]
  BY <1>1, <1>2
<1>5. ASSUME NEW q \in Request, request'[q].at = "decided"
      PROVE  /\ request[q].at = "decided" /\ request'[q].addRev = request[q].addRev
             /\ request'[q].since = request[q].since \cup {t}
  <2>1. q # r
    BY <1>3, <1>5
  <2>2. CASE request[q].at \in {"decide", "decided"}
    <3>1. request[q] \in [at : {"decide", "decided"}, addRev : SUBSET Tag, since : SUBSET Tag]
      BY <2>2, RequestKinds DEF TypesInvariant
    <3>2. request'[q] = [request[q] EXCEPT !.since = @ \cup {t}]
      BY <1>1, <2>1, <2>2
    <3> QED
      BY <1>5, <3>1, <3>2
  <2>3. CASE request[q].at \notin {"decide", "decided"}
    BY <1>1, <1>5, <2>1, <2>3
  <2> QED
    BY <2>2, <2>3
<1>6. ASSUME NEW x \in reviewTags'
      PROVE  \/ x \in tagProposalLog'.tags
             \/ Running /\ x \in job.logs.tags
             \/ \E q \in Request : request'[q].at = "proposed" /\ request'[q].tag = x
             \/ x \in dealt' \/ x \in lost'
  <2>1. CASE x = t
    BY <1>3, <2>1
  <2>2. CASE x # t
    BY <1>1, <1>2, <1>4, <1>6, <2>2, ProposalAt
  <2> QED
    BY <2>1, <2>2
<1>7. DecidersKnow'
  BY <1>1, <1>5 DEF DecidersKnow, TagsInvariant
<1>8. tagProposalLog'.tags # {} => tagProposalLog'.listed
  BY <1>2 DEF TagsInvariant
<1> QED
  BY <1>2, <1>6, <1>7, <1>8, TagsByRequest

LEMMA rememberProposalReaches ==
    ASSUME TypesInvariant, TagsInvariant, NEW r \in Request, rememberProposal(r)
    PROVE  TagsInvariant'
<1>1. /\ job' = job /\ maintainers' = maintainers /\ reviewTags' = reviewTags
      /\ dealt' = dealt /\ lost' = lost
      /\ request[r].at = "proposed" /\ Became(r, Idle)
      /\ tagProposalLog' = [listed |-> TRUE, tags |-> tagProposalLog.tags \cup {request[r].tag}]
  BY DEF rememberProposal, insertProposal, events, history
<1>2. request'[r] = Idle /\ \A q \in Request : q # r => request'[q] = request[q]
  BY <1>1, BecameOnly DEF TypesInvariant
<1>3. ASSUME NEW x \in reviewTags'
      PROVE  \/ x \in tagProposalLog'.tags
             \/ Running /\ x \in job.logs.tags
             \/ \E q \in Request : request'[q].at = "proposed" /\ request'[q].tag = x
             \/ x \in dealt' \/ x \in lost'
  BY <1>1, <1>2, ProposalAt
<1>4. DecidersKnow'
  BY <1>1, <1>2 DEF DecidersKnow, TagsInvariant, Idle
<1> QED
  BY <1>1, <1>3, <1>4, TagsByRequest

LEMMA InsertReviewTagsAgainReaches ==
    ASSUME TypesInvariant, TagsInvariant, NEW r \in Request, InsertReviewTagsAgain(r)
    PROVE  TagsInvariant'
<1>1. /\ job' = job /\ maintainers' = maintainers /\ tagProposalLog' = tagProposalLog
      /\ request[r].at = "decide" /\ reviewTags' = request[r].addRev
      /\ lost' = lost \cup (request[r].addRev \ reviewTags) /\ dealt' = dealt
      /\ Became(r, [request[r] EXCEPT !.at = "decided"])
  BY DEF InsertReviewTagsAgain, events
<1>2. request[r] \in [at : {"decide", "decided"}, addRev : SUBSET Tag, since : SUBSET Tag]
  BY <1>1, RequestKinds DEF TypesInvariant
<1>3. /\ request'[r].addRev = request[r].addRev /\ request'[r].at = "decided"
      /\ \A q \in Request : q # r => request'[q] = request[q]
  BY <1>1, <1>2, BecameOnly DEF TypesInvariant
<1>4. ASSUME NEW x \in reviewTags'
      PROVE  \/ x \in tagProposalLog'.tags
             \/ Running /\ x \in job.logs.tags
             \/ \E q \in Request : request'[q].at = "proposed" /\ request'[q].tag = x
             \/ x \in dealt' \/ x \in lost'
  <2>1. CASE x \in reviewTags
    BY <1>1, <1>3, <2>1, ProposalAt
  <2>2. CASE x \notin reviewTags
    BY <1>1, <1>4, <2>2
  <2> QED
    BY <2>1, <2>2
<1>5. DecidersKnow'
  BY <1>1, <1>3 DEF DecidersKnow, TagsInvariant
<1>6. tagProposalLog'.tags # {} => tagProposalLog'.listed
  BY <1>1 DEF TagsInvariant
<1> QED
  BY <1>1, <1>4, <1>5, <1>6, TagsByRequest

LEMMA modifyTagsReaches ==
    ASSUME TypesInvariant, TagsInvariant, NEW r \in Request, modifyTags(r)
    PROVE  TagsInvariant'
<1>1. /\ job' = job /\ maintainers' = maintainers /\ reviewTags' = reviewTags
      /\ tagProposalLog' = [tagProposalLog EXCEPT !.tags = @ \cap request[r].addRev]
      /\ request[r].at = "decided" /\ dealt' = dealt
      /\ lost' = lost \cup (request[r].since \ request[r].addRev)
      /\ Became(r, Idle)
  BY DEF modifyTags, events
<1>2. request'[r] = Idle /\ \A q \in Request : q # r => request'[q] = request[q]
  BY <1>1, BecameOnly DEF TypesInvariant
<1>3. /\ tagProposalLog'.tags = tagProposalLog.tags \cap request[r].addRev
      /\ tagProposalLog'.listed = tagProposalLog.listed
  BY <1>1 DEF TypesInvariant, TypeOK
<1>4. ASSUME NEW x \in reviewTags'
      PROVE  \/ x \in tagProposalLog'.tags
             \/ Running /\ x \in job.logs.tags
             \/ \E q \in Request : request'[q].at = "proposed" /\ request'[q].tag = x
             \/ x \in dealt' \/ x \in lost'
  <2>1. x \in request[r].addRev \cup request[r].since \cup lost
    BY <1>1 DEF TagsInvariant, DecidersKnow
  <2>2. CASE x \in request[r].addRev
    BY <1>1, <1>2, <1>3, <2>2, ProposalAt
  <2>3. CASE x \notin request[r].addRev
    BY <1>1, <2>1, <2>3
  <2> QED
    BY <2>2, <2>3
<1>5. DecidersKnow'
  BY <1>1, <1>2 DEF DecidersKnow, TagsInvariant, Idle
<1>6. tagProposalLog'.tags # {} => tagProposalLog'.listed
  BY <1>3 DEF TagsInvariant
<1> QED
  BY <1>1, <1>4, <1>5, <1>6, TagsByRequest

(* The job: what it does not change of the server stays, and it keeps the  *)
(* tags that it has read.                                                  *)
LEMMA TagsByJob ==
    ASSUME TypesInvariant, TagsInvariant, UNCHANGED server, Running',
           Running => job.logs.tags \subseteq job'.logs.tags, JobReports'
    PROVE  TagsInvariant'
<1>1. ProposalsReach'
  BY ServerSame, ProposalAt, RememberedMembersNext DEF ProposalsReach, RememberedListed
<1>2. DecidersKnow'
  BY ServerSame DEF DecidersKnow, TagsInvariant
<1> QED
  BY <1>1, <1>2, ServerSame DEF TagsInvariant

LEMMA startJobReaches ==
    ASSUME TypesInvariant, TagsInvariant, startJob
    PROVE  TagsInvariant'
<1>1. job'.at = "collect" /\ job'.logs = NoLog /\ Running' /\ ~Running /\ UNCHANGED server
  BY DEF startJob, Running
<1>2. JobReports'
  BY <1>1 DEF JobReports, NoLog
<1> QED
  BY <1>1, <1>2, TagsByJob

LEMMA CollectingReaches ==
    ASSUME TypesInvariant, TagsInvariant,
           \/ collectRevisionsAndUploads \/ genRevUploadList
           \/ collectAdminActions \/ genGroupUploadList
    PROVE  TagsInvariant'
<1>1. /\ UNCHANGED server /\ Running
      /\ job.at \in {"collect", "revisions", "actions"}
  BY DEF collectRevisionsAndUploads, genRevUploadList, collectAdminActions,
         genGroupUploadList, Running
<1>2. job \in Jobs
  BY <1>1, JobKinds DEF TypesInvariant
<1>3. job'.at \in {"revisions", "actions"} /\ job'.logs = job.logs
  BY <1>1, <1>2 DEF collectRevisionsAndUploads, genRevUploadList, collectAdminActions,
         genGroupUploadList, Jobs
<1>4. JobReports'
  BY <1>1, <1>3 DEF JobReports, TagsInvariant, NoLog
<1>5. Running'
  BY <1>3 DEF Running
<1> QED
  BY <1>1, <1>3, <1>4, <1>5, TagsByJob

LEMMA readMemStateReaches ==
    ASSUME TypesInvariant, TagsInvariant, readMemState
    PROVE  TagsInvariant'
<1>1. UNCHANGED server /\ Running /\ job.logs = NoLog
  BY DEF readMemState, Running, TagsInvariant, JobReports
<1>2. job \in Jobs
  BY <1>1, JobKinds DEF TypesInvariant
<1>3. job'.at = "empty" /\ job'.logs = tagProposalLog
  BY <1>2 DEF readMemState, Jobs
<1>4. JobReports'
  BY <1>3 DEF JobReports, TagsInvariant
<1>5. Running'
  BY <1>3 DEF Running
<1> QED
  BY <1>1, <1>4, <1>5, TagsByJob DEF NoLog

LEMMA genTagProposalListReaches ==
    ASSUME TypesInvariant, TagsInvariant, genTagProposalList
    PROVE  TagsInvariant'
<1>1. UNCHANGED server /\ Running
  BY DEF genTagProposalList, Running
<1>2. job \in Jobs
  BY <1>1, JobKinds DEF TypesInvariant
<1> DEFINE to == {u \in maintainers : job.logs.listed /\ WantsTags(u)}
<1>3. PICK mails : mails = [to : to, about : {TagUpdate}]
  OBVIOUS
<1>4. job' = [job EXCEPT !.at = "send", !.mails = @ \cup mails]
  BY <1>3 DEF genTagProposalList
<1>5. /\ job'.at = "send" /\ job'.logs = job.logs /\ job'.prefs = job.prefs
      /\ job'.mails = job.mails \cup mails
  BY <1>2, <1>4 DEF Jobs
<1>6. ASSUME NEW u \in maintainers, job.logs.listed, WantsTags(u)
      PROVE  [to |-> u, about |-> TagUpdate] \in mails
  BY <1>3, <1>6
<1>7. JobReports'
  BY <1>1, <1>5, <1>6, ServerSame DEF JobReports, TagsInvariant, WantsTags
<1>8. Running'
  BY <1>5 DEF Running
<1> QED
  BY <1>1, <1>5, <1>7, <1>8, TagsByJob

LEMMA sendNotifyEmailReaches ==
    ASSUME TypesInvariant, TagsInvariant, sendNotifyEmail
    PROVE  TagsInvariant'
<1>1. UNCHANGED server /\ Running
  BY DEF sendNotifyEmail, Running
<1>2. /\ job'.at = job.at /\ job'.logs = job.logs /\ job'.prefs = job.prefs
      /\ job'.edited = job.edited
      /\ job'.mails \cup job'.sent = job.mails \cup job.sent
  BY sendNotifyEmailMoves
<1>3. JobReports'
  BY <1>1, <1>2, ServerSame DEF JobReports, TagsInvariant, WantsTags
<1>4. Running'
  BY <1>1, <1>2 DEF Running
<1> QED
  BY <1>1, <1>2, <1>3, <1>4, TagsByJob

LEMMA writeMemStateReaches ==
    ASSUME TypesInvariant, TagsInvariant, writeMemState
    PROVE  TagsInvariant'
<1>1. Running /\ job \in Jobs
  BY JobKinds DEF writeMemState, Running, TypesInvariant
<1>2. /\ reviewTags' = reviewTags /\ tagProposalLog' = NoLog /\ dealt' = dealt
      /\ lost' = lost \cup (tagProposalLog.tags \ job.logs.tags) /\ request' = request
  BY DEF writeMemState
<1>3. job'.at = "proposals" /\ job'.logs = job.logs
  BY <1>1 DEF writeMemState, Goto, Jobs
<1>4. ProposalsReach'
  BY <1>1, <1>2, <1>3, ProposalAt, RememberedMembersNext
  DEF ProposalsReach, RememberedListed, Running
<1>5. DecidersKnow'
  BY <1>2 DEF DecidersKnow, TagsInvariant
<1>6. JobReports'
  BY <1>1, <1>3 DEF JobReports, TagsInvariant
<1> QED
  BY <1>2, <1>4, <1>5, <1>6 DEF TagsInvariant, NoLog

LEMMA finishJobReaches ==
    ASSUME TypesInvariant, TagsInvariant, finishJob
    PROVE  TagsInvariant'
<1>1. Running /\ job.at = "send" /\ job.mails = {}
  BY DEF finishJob, Running
<1>2. /\ reviewTags' = reviewTags /\ tagProposalLog' = tagProposalLog
      /\ lost' = lost /\ request' = request /\ job' = Idle
      /\ dealt' = dealt \cup
           {t \in job.logs.tags : \A u \in maintainers \ job.edited :
                WantsTags(u) => [to |-> u, about |-> TagUpdate] \in job.sent}
  BY DEF finishJob, tags
<1>3. job.logs.tags \subseteq dealt'
  <2> SUFFICES ASSUME NEW t \in job.logs.tags, NEW u \in maintainers \ job.edited, WantsTags(u)
               PROVE  [to |-> u, about |-> TagUpdate] \in job.sent
    BY <1>2
  <2> QED
    BY <1>1 DEF TagsInvariant, JobReports
<1>4. ProposalsReach'
  <2> SUFFICES ASSUME NEW t \in reviewTags
               PROVE  t \in Remembered' \/ t \in dealt' \/ t \in lost'
    BY <1>2 DEF ProposalsReach
  <2>1. CASE t \in job.logs.tags
    BY <1>3, <2>1
  <2>2. CASE t \notin job.logs.tags
    BY <1>2, <2>2, ProposalAt, RememberedMembersNext DEF RememberedListed
  <2> QED
    BY <2>1, <2>2
<1>5. DecidersKnow'
  BY <1>2 DEF DecidersKnow, TagsInvariant
<1>6. JobReports'
  BY <1>2 DEF JobReports, Running, Idle
<1> QED
  BY <1>2, <1>4, <1>5, <1>6 DEF TagsInvariant

LEMMA FailureReaches ==
    ASSUME TypesInvariant, TagsInvariant, sendMailFails \/ Restart
    PROVE  TagsInvariant'
<1>1. job' = Idle /\ reviewTags' = reviewTags /\ dealt' = dealt
  BY DEF sendMailFails, Restart, tags
<1>2. JobReports'
  BY <1>1 DEF JobReports, Running, Idle
<1>3. CASE sendMailFails
  <2>1. /\ tagProposalLog' = tagProposalLog /\ lost' = lost \cup job.logs.tags
        /\ request' = request
    BY <1>3 DEF sendMailFails, tags
  <2>2. ProposalsReach'
    BY <1>1, <2>1, ProposalAt, RememberedMembersNext DEF ProposalsReach, RememberedListed
  <2>3. DecidersKnow'
    BY <1>1, <2>1 DEF DecidersKnow, TagsInvariant
  <2> QED
    BY <1>2, <2>1, <2>2, <2>3 DEF TagsInvariant
<1>4. CASE Restart
  <2>1. /\ tagProposalLog' = NoLog /\ lost' = lost \cup Remembered
        /\ \A r \in Request : request'[r].at = "idle"
    BY <1>4 DEF Restart, Idle
  <2>2. ProposalsReach'
    BY <1>1, <2>1 DEF ProposalsReach, TagsInvariant
  <2>3. DecidersKnow'
    BY <2>1 DEF DecidersKnow
  <2> QED
    BY <1>2, <2>1, <2>2, <2>3 DEF TagsInvariant, NoLog
<1> QED
  BY <1>3, <1>4

LEMMA TagsNext ==
    ASSUME TypesInvariant, TagsInvariant, [Next]_vars
    PROVE  TagsInvariant'
<1>1. ASSUME NEW r \in Request,
             \/ uploadPackage(r) \/ updateAddPackage(r)
             \/ updateUserGroup(r) \/ groupChangedHook(r) \/ AddAdminLog(r)
             \/ InsertReviewTags(r) \/ rememberProposal(r)
             \/ LookupReviewTags(r) \/ InsertReviewTagsAgain(r) \/ modifyTags(r)
      PROVE  TagsInvariant'
  BY <1>1, OtherRequestsKeepTags, TagsKeptHold, InsertReviewTagsReaches,
     rememberProposalReaches, InsertReviewTagsAgainReaches, modifyTagsReaches
<1>2. CASE AddNotifyPref \/ Tick \/ UNCHANGED vars
  <2>1. TagsKept
    BY <1>2 DEF AddNotifyPref, Tick, vars, server, TagsKept, JobKept, events, history
  <2> QED
    BY <2>1, TagsKeptHold
<1>3. CASE notifyCronAction
  BY <1>3, startJobReaches, CollectingReaches, readMemStateReaches, writeMemStateReaches,
     genTagProposalListReaches, sendNotifyEmailReaches, finishJobReaches
  DEF notifyCronAction
<1>4. CASE sendMailFails \/ Restart
  BY <1>4, FailureReaches
<1> QED
  BY <1>1, <1>2, <1>3, <1>4 DEF Next

(* A tag that awaits review is in memory or on its way there, or with the  *)
(* job, or a run that finished mailed it to every maintainer who wants     *)
(* that, unless a restart, a mail that failed or a known race lost it:     *)
(* whichever requests overlap with which steps of the job.                 *)
THEOREM ProposalsAlwaysReach == Spec => []ProposalsReach
<1>1. TypesInvariant /\ TagsInvariant /\ [Next]_vars => TagsInvariant'
  BY TagsNext
<1>2. TagsInvariant => ProposalsReach
  BY DEF TagsInvariant
<1> QED
  BY <1>1, <1>2, TagsInit, TypesHold, PTL DEF Spec
-----------------------------------------------------------------------------
(* Every event is told, and not repeated by runs after one that finished.  *)

(* The run looks back to the last one that finished, or as far as the cap. *)
RunWindow ==
    Running =>
        /\ notifyTime <= job.until
        /\ job.earlier = IF job.until > notifyTime + Cap THEN job.until - Cap ELSE notifyTime

(* What is left to be written about, after the steps that collect it.      *)
Collected ==
    Running =>
        /\ job.at # "revisions" => job.pkgs = {}
        /\ job.at # "actions" => job.actions = {}
        /\ job.at = "collect" => job.seen = {}

SeenOf(v, k) == {d \in job.seen : d.of = v} = {ReleaseOf(v, n) : n \in 1 .. k}

(* The run saw the releases of a version up to one of them; those of a     *)
(* version it has to write about up to one in its window.                  *)
SeenReleases ==
    Running =>
        \A v \in Version : \E k \in 0 .. Len(index[v]) :
            /\ SeenOf(v, k)
            /\ v \in job.pkgs => k >= 1 /\ IsRecent(index[v][k].time)

(* Mails are about events in the window of their run.                      *)
MailsRecent ==
    /\ Running =>
          /\ \A n \in job.actions : IsRecent(adminLog[n].time)
          /\ \A m \in job.mails \cup job.sent : m.about = TagUpdate \/ IsRecent(Time(m.about))
    /\ \A m \in told : Time(m.about) <= notifyTime

(* Of each event that the run saw, a user need not be told, or there is a  *)
(* mail to him, or the run has it among those to write about.              *)
Mailed(u, e) == [to |-> u, about |-> e] \in job.mails \cup job.sent
ToCome(e) == \/ e.kind = "release" /\ e.of \in job.pkgs
             \/ e.kind = "group" /\ e.nr \in job.actions
DueMailed ==
    Running => \A e \in job.seen, u \in UserId :
                   NeedNotTell(u, e) \/ Mailed(u, e) \/ ToCome(e)

FewReleased == \E b \in Nat : \A v \in Released : v <= b

RunInvariant == RunWindow /\ Collected /\ SeenReleases /\ MailsRecent /\ DueMailed
MailsInvariant == RunInvariant /\ FewReleased /\ NothingMissed

LEMMA RecentIsInWindow ==
    ASSUME TypesInvariant, RunWindow, Running, NEW t \in Nat
    PROVE  /\ IsRecent(t) <=> InWindow(t)
           /\ IsRecent(t) => t > notifyTime /\ t <= job.until
<1>1. job.until \in Nat /\ notifyTime \in Nat /\ Cap \in Nat
  BY JobKinds, NotifyAssumption DEF TypesInvariant, TypeOK, Jobs
<1> QED
  BY <1>1 DEF RunWindow, IsRecent, InWindow

LEMMA ReleasesUpTo ==
    ASSUME NEW v, NEW k \in Nat, k >= 1
    PROVE  /\ Max({d.nr : d \in {ReleaseOf(v, n) : n \in 1 .. k}}) = k
           /\ Cardinality({ReleaseOf(v, n) : n \in 1 .. k}) = k
<1> DEFINE S == {ReleaseOf(v, n) : n \in 1 .. k}
           Nrs == {d.nr : d \in S}
<1>2. Nrs = 1 .. k
  <2>1. \A n : ReleaseOf(v, n).nr = n
    BY EventTells
  <2>2. Nrs \subseteq 1 .. k
    BY <2>1
  <2>3. ASSUME NEW n \in 1 .. k PROVE n \in Nrs
    <3>1. ReleaseOf(v, n) \in S
      OBVIOUS
    <3>2. ReleaseOf(v, n).nr \in Nrs
      BY <3>1
    <3> QED
      BY <2>1, <3>2
  <2> QED
    BY <2>2, <2>3
<1>3. Max(1 .. k) = k
  <2>1. (1 .. k) \in SUBSET Nat /\ k \in 1 .. k /\ \A x \in 1 .. k : x <= k
    OBVIOUS
  <2>2. Max(1 .. k) \in 1 .. k /\ \A x \in 1 .. k : x <= Max(1 .. k)
    BY <2>1, MaxIn
  <2>3. PICK m : m = Max(1 .. k)
    OBVIOUS
  <2>4. m \in 1 .. k /\ k <= m
    BY <2>1, <2>2, <2>3
  <2>5. m = k
    BY <2>4
  <2> QED
    BY <2>3, <2>5
<1>4. Cardinality(S) = k
  <2> DEFINE f == [n \in 1 .. k |-> ReleaseOf(v, n)]
  <2>1. f \in Bijection(1 .. k, S)
    <3>1. f \in [1 .. k -> S]
      OBVIOUS
    <3>2. \A a, b \in 1 .. k : f[a] = f[b] => a = b
      BY EventTells
    <3>3. \A s \in S : \E n \in 1 .. k : f[n] = s
      OBVIOUS
    <3> QED
      <4> HIDE DEF f, S
      <4> QED
        BY <3>1, <3>2, <3>3 DEF Bijection, Injection, Surjection, IsInjective
  <2>2. ExistsBijection(1 .. k, S)
    BY <2>1 DEF ExistsBijection
  <2>3. IsFiniteSet(1 .. k) /\ Cardinality(1 .. k) = IF 1 > k THEN 0 ELSE k - 1 + 1
    BY FS_Interval
  <2>4. Cardinality(1 .. k) = k
    BY <2>3
  <2> QED
    BY <2>2, <2>3, <2>4, FS_Bijection
<1> QED
  BY <1>2, <1>3, <1>4

LEMMA ReleaseSeen ==
    ASSUME NEW v, NEW k \in Nat, SeenOf(v, k), k >= 1
    PROVE  /\ Max({d.nr : d \in {d \in job.seen : d.of = v}}) = k
           /\ Cardinality({d \in job.seen : d.of = v}) = k
           /\ \A e \in job.seen : e.of = v => e.nr \in 1 .. k /\ e = ReleaseOf(v, e.nr)
<1> DEFINE S == {ReleaseOf(v, n) : n \in 1 .. k}
<1>1. {d \in job.seen : d.of = v} = S
  BY DEF SeenOf
<1>2. \A e \in S : e.nr \in 1 .. k /\ e = ReleaseOf(v, e.nr)
  BY EventTells
<1>3. Max({d.nr : d \in S}) = k /\ Cardinality(S) = k
  BY ReleasesUpTo
<1> QED
  BY <1>1, <1>2, <1>3

(* What the newest version is, the newest one among fewer was.             *)
LEMMA NewestWas ==
    ASSUME NEW S, NEW T, S \subseteq T, T \subseteq Nat, NEW b \in Nat, \A x \in T : x <= b,
           NEW v \in S, v = Max(T)
    PROVE  v = Max(S)
<1>1. Max(S) \in S /\ \A x \in S : x <= Max(S)
  BY MaxIn
<1>2. \A x \in T : x <= v
  BY MaxIn
<1>3. PICK m : m = Max(S)
  OBVIOUS
<1>4. m \in Nat /\ v \in Nat /\ m <= v /\ v <= m
  BY <1>1, <1>2, <1>3
<1>5. m = v
  BY <1>4
<1> QED
  BY <1>3, <1>5

(* A step during which the run has the same window, prefers the same, and  *)
(* nobody but those it knows to be edited became a maintainer.             *)
RunKept ==
    /\ EventsKept /\ index' \in [Version -> Seq(Info)] /\ adminLog' \in Seq(Info)
    /\ notifyTime' = notifyTime /\ told' = told
    /\ job'.prefs = job.prefs /\ job'.earlier = job.earlier /\ job'.until = job.until
    /\ maintainers' \ job'.edited \subseteq maintainers \ job.edited

(* Then a user who need not be told of an event need not be told later:    *)
(* what happens to the releases and the group only takes users away.       *)
LEMMA NeedNotTellKept ==
    ASSUME TypesInvariant, Running, RunKept, FewReleased', SeenReleases,
           NEW u, NEW e \in job.seen, e \in job'.seen, NeedNotTell(u, e),
           e.kind = "release" =>
               {d \in job'.seen : d.of = e.of} = {d \in job.seen : d.of = e.of}
    PROVE  NeedNotTell(u, e)'
<1>1. e \in Events /\ job.seen \subseteq Events
  BY DEF TypesInvariant, JobTyped
<1>2. /\ UploadInfo(e)' = UploadInfo(e) /\ Released \subseteq Released'
  BY <1>1, EventsGrow DEF TypesInvariant, RunKept
<1>3. e.kind = "release" => /\ e.of \in Version /\ e.nr \in 1 .. Len(index[e.of])
                            /\ e.of \in Released
  <2>1. e.kind = "release" => e.of \in Version /\ e.nr \in 1 .. Len(index[e.of])
    BY <1>1, EventTyped DEF TypesInvariant
  <2>2. \A v \in Version : index[v] = << >> => Len(index[v]) = 0
    OBVIOUS
  <2> QED
    BY <2>1, <2>2 DEF Released
<1>4. e.kind = "release" /\ WantsRevisions(u, e.of)' => WantsRevisions(u, e.of)
  <2> SUFFICES ASSUME e.kind = "release", job.prefs[u].range = "newest", e.of = Max(Released')
               PROVE  e.of = Max(Released)
    BY DEF WantsRevisions, RunKept
  <2>1. PICK b \in Nat : \A x \in Released' : x <= b
    BY DEF FewReleased
  <2>2. Released' \subseteq Nat
    BY NotifyAssumption DEF Released
  <2> QED
    BY <1>2, <1>3, <2>1, <2>2, NewestWas
<1>5. CASE u \notin maintainers \/ u \in job.edited
  BY <1>5 DEF NeedNotTell, RunKept
<1>6. CASE u = Actor(e)
  BY <1>2, <1>6 DEF NeedNotTell, Actor
<1>7. CASE ~ WantsToKnow(u, e)
  <2>1. ~ WantsToKnow(u, e)'
    BY <1>4, <1>7 DEF WantsToKnow, RunKept
  <2> QED
    BY <2>1 DEF NeedNotTell
<1>8. CASE ~ InWindow(Time(e))
  <2>1. ~ InWindow(Time(e))'
    BY <1>2, <1>8 DEF InWindow, Time, RunKept
  <2> QED
    BY <2>1 DEF NeedNotTell
<1>9. CASE e.kind = "release" /\ Overtaken(u, e)
  <2>1. PICK k \in 0 .. Len(index[e.of]) : SeenOf(e.of, k)
    BY <1>3, <1>9 DEF SeenReleases
  <2>2. Len(index[e.of]) \in Nat
    BY <1>3, <1>9 DEF TypesInvariant, TypeOK
  <2>3. k >= 1
    <3> SUFFICES ASSUME k = 0 PROVE FALSE
      BY <2>1, <2>2
    <3>1. e \in {ReleaseOf(e.of, n) : n \in 1 .. 0}
      BY <2>1 DEF SeenOf
    <3> QED
      BY <3>1
  <2>4. PICK last : last = Max({d.nr : d \in {d \in job.seen : d.of = e.of}})
    OBVIOUS
  <2>5. last = k
    <3>1. k \in Nat
      BY <2>1, <2>2
    <3> QED
      BY <2>1, <2>3, <2>4, <3>1, ReleaseSeen, Zenon
  <2>6. last = Max({d.nr : d \in {d \in job'.seen : d.of = e.of}})
    BY <1>9, <2>4
  <2>7. index'[e.of][last] = index[e.of][last]
    BY <1>3, <1>9, <2>1, <2>2, <2>3, <2>5 DEF RunKept, EventsKept
  <2>8. /\ last > e.nr
        /\ \/ index[e.of][last].by = u
           \/ ~InWindow(index[e.of][last].time)
           \/ ~WantsRevisions(u, e.of)
    BY <1>9, <2>4 DEF Overtaken
  <2>9. InWindow(index[e.of][last].time)' => InWindow(index[e.of][last].time)
    BY <2>7 DEF InWindow, RunKept
  <2>10. /\ last > e.nr
         /\ \/ index'[e.of][last].by = u
            \/ ~InWindow(index[e.of][last].time)'
            \/ ~WantsRevisions(u, e.of)'
    BY <1>4, <1>9, <2>7, <2>8, <2>9
  <2>11. Overtaken(u, e)'
    BY <2>6, <2>10 DEF Overtaken
  <2> QED
    BY <1>9, <2>11 DEF NeedNotTell
<1> QED
  BY <1>5, <1>6, <1>7, <1>8, <1>9 DEF NeedNotTell
LEMMA TimesKept ==
    ASSUME TypesInvariant, EventsKept,
           index' \in [Version -> Seq(Info)], adminLog' \in Seq(Info)
    PROVE  \A e \in Events : Time(e)' = Time(e)
<1>1. \A e \in Events : UploadInfo(e)' = UploadInfo(e)
  BY EventsGrow DEF TypesInvariant
<1> QED
  BY <1>1 DEF Time

LEMMA ToldKept ==
    ASSUME TypesInvariant, MailsRecent, EventsKept,
           index' \in [Version -> Seq(Info)], adminLog' \in Seq(Info),
           told' = told, notifyTime' = notifyTime
    PROVE  \A m \in told' : Time(m.about)' <= notifyTime'
<1>1. \A m \in told : m.about \in Events
  BY DEF TypesInvariant, TypeOK
<1> QED
  BY <1>1, TimesKept DEF MailsRecent

(* A step after which the run has written about what it no longer has to   *)
(* write about, and perhaps saw some changes of the group that it has to   *)
(* write about where they are due.                                         *)
LEMMA RunGoesOn ==
    ASSUME TypesInvariant, RunInvariant, FewReleased', Running, Running', RunKept,
           Collected', job'.pkgs \subseteq job.pkgs,
           NEW G \in SUBSET Events, job'.seen = job.seen \cup G,
           \A e \in G : e.kind = "group" /\ (InWindow(Time(e)) => e.nr \in job'.actions),
           \A n \in job'.actions : n \in DOMAIN adminLog /\ IsRecent(adminLog[n].time),
           job.mails \cup job.sent \subseteq job'.mails \cup job'.sent,
           \A m \in job'.mails \cup job'.sent :
              \/ m \in job.mails \cup job.sent
              \/ m.about = TagUpdate
              \/ m.about \in Events /\ IsRecent(Time(m.about)),
           \A e \in job.seen, u \in UserId :
              ToCome(e) => NeedNotTell(u, e) \/ Mailed(u, e)' \/ ToCome(e)'
    PROVE  RunInvariant'
<1>0. \A e \in Events : Time(e)' = Time(e)
  BY TimesKept DEF RunKept
<1>1. RunWindow'
  BY DEF RunInvariant, RunWindow, RunKept
<1>2. SeenReleases'
  <2> SUFFICES ASSUME NEW v \in Version
               PROVE  \E k \in 0 .. Len(index'[v]) :
                         /\ SeenOf(v, k)'
                         /\ v \in job'.pkgs => k >= 1 /\ IsRecent(index[v][k].time)'
    BY DEF SeenReleases
  <2>1. PICK k \in 0 .. Len(index[v]) :
           /\ SeenOf(v, k)
           /\ v \in job.pkgs => k >= 1 /\ IsRecent(index[v][k].time)
    BY DEF RunInvariant, SeenReleases
  <2>2. Len(index[v]) \in Nat /\ Len(index'[v]) \in Nat /\ Len(index[v]) <= Len(index'[v])
    BY DEF RunKept, EventsKept, TypesInvariant, TypeOK
  <2>3. k \in 0 .. Len(index'[v])
    BY <2>1, <2>2
  <2>4. k >= 1 => index'[v][k] = index[v][k]
    BY <2>1, <2>2 DEF RunKept, EventsKept
  <2>5. SeenOf(v, k)'
    <3>1. \A e \in G : e.of # v
      BY EventTyped, NotifyAssumption DEF TypesInvariant
    <3>2. {d \in job'.seen : d.of = v} = {d \in job.seen : d.of = v}
      BY <3>1
    <3> QED
      BY <2>1, <3>2 DEF SeenOf
  <2>6. v \in job'.pkgs => k >= 1 /\ IsRecent(index[v][k].time)'
    BY <2>1, <2>4 DEF IsRecent, RunKept
  <2> QED
    BY <2>3, <2>5, <2>6
<1>3. MailsRecent'
  <2>1. ASSUME NEW n \in job'.actions PROVE IsRecent(adminLog[n].time)'
    <3>1. n \in 1 .. Len(adminLog) /\ IsRecent(adminLog[n].time)
      BY DEF TypesInvariant, TypeOK
    <3>2. adminLog'[n] = adminLog[n]
      BY <3>1 DEF RunKept, EventsKept
    <3> QED
      BY <3>1, <3>2 DEF IsRecent, RunKept
  <2>2. ASSUME NEW m \in job'.mails \cup job'.sent, m.about # TagUpdate
        PROVE  IsRecent(Time(m.about))'
    <3>1. m.about \in Events /\ IsRecent(Time(m.about))
      BY <2>2 DEF TypesInvariant, JobTyped, RunInvariant, MailsRecent
    <3> QED
      BY <1>0, <3>1 DEF IsRecent, RunKept
  <2>3. \A m \in told' : Time(m.about)' <= notifyTime'
    BY ToldKept DEF RunKept, RunInvariant
  <2> QED
    BY <2>1, <2>2, <2>3 DEF MailsRecent
<1>4. DueMailed'
  <2> SUFFICES ASSUME NEW e \in job'.seen, NEW u \in UserId
               PROVE  NeedNotTell(u, e)' \/ Mailed(u, e)' \/ ToCome(e)'
    BY DEF DueMailed
  <2>1. CASE e \in job.seen
    <3>1. NeedNotTell(u, e) \/ Mailed(u, e) \/ ToCome(e)
      BY <2>1 DEF RunInvariant, DueMailed
    <3>2. CASE NeedNotTell(u, e)
      <4>1. e.kind = "release" => e.of \in Version
        BY <2>1, EventTyped DEF TypesInvariant, JobTyped
      <4>2. \A d \in G : d.of = 0
        BY EventTyped DEF TypesInvariant
      <4>3. e.kind = "release" =>
               {d \in job'.seen : d.of = e.of} = {d \in job.seen : d.of = e.of}
        BY <4>1, <4>2, NotifyAssumption
      <4> QED
        BY <2>1, <3>2, <4>3, NeedNotTellKept DEF RunInvariant
    <3>3. CASE Mailed(u, e)
      BY <3>3 DEF Mailed
    <3>4. CASE ToCome(e)
      BY <2>1, <3>2, <3>4
    <3> QED
      BY <3>1, <3>2, <3>3, <3>4
  <2>2. CASE e \in G
    <3>1. CASE InWindow(Time(e))
      BY <2>2, <3>1 DEF ToCome
    <3>2. CASE ~ InWindow(Time(e))
      <4>1. ~ InWindow(Time(e))'
        BY <1>0, <2>2, <3>2 DEF InWindow, RunKept
      <4> QED
        BY <4>1 DEF NeedNotTell
    <3> QED
      BY <3>1, <3>2
  <2> QED
    BY <2>1, <2>2
<1> QED
  BY <1>1, <1>2, <1>3, <1>4 DEF RunInvariant

(* The same, having seen no more.                                          *)
LEMMA RunWrites ==
    ASSUME TypesInvariant, RunInvariant, FewReleased', Running, Running', RunKept,
           Collected', job'.seen = job.seen,
           job'.pkgs \subseteq job.pkgs, job'.actions \subseteq job.actions,
           job.mails \cup job.sent \subseteq job'.mails \cup job'.sent,
           \A m \in job'.mails \cup job'.sent :
              \/ m \in job.mails \cup job.sent
              \/ m.about = TagUpdate
              \/ m.about \in Events /\ IsRecent(Time(m.about)),
           \A e \in job.seen, u \in UserId :
              ToCome(e) => NeedNotTell(u, e) \/ Mailed(u, e)' \/ ToCome(e)'
    PROVE  RunInvariant'
<1>1. \A n \in job'.actions : n \in DOMAIN adminLog /\ IsRecent(adminLog[n].time)
  BY DEF TypesInvariant, JobTyped, RunInvariant, MailsRecent
<1>2. PICK G \in SUBSET Events : G = {}
  OBVIOUS
<1>3. job'.seen = job.seen \cup G
  BY <1>2
<1> QED
  BY <1>1, <1>2, <1>3, RunGoesOn

(* Without a run there is only what runs have told.                        *)
LEMMA NoRunNext ==
    ASSUME ~Running', \A m \in told' : Time(m.about)' <= notifyTime'
    PROVE  RunInvariant'
BY DEF RunInvariant, RunWindow, Collected, SeenReleases, MailsRecent, DueMailed

(* Events that there are stay told; those that are added have to be told   *)
(* or excused.                                                             *)
LEMMA StillTold ==
    ASSUME TypesInvariant, NothingMissed, EventsKept,
           index' \in [Version -> Seq(Info)], adminLog' \in Seq(Info),
           notifyTime' = notifyTime, told' = told, excused \subseteq excused',
           \A e \in Events' : \/ e \in Events
                              \/ Time(e)' \in 1 .. notifyTime =>
                                    \A u \in UserId : [to |-> u, about |-> e] \in excused'
    PROVE  NothingMissed'
<1>1. \A e \in Events : Time(e)' = Time(e)
  BY TimesKept
<1> SUFFICES ASSUME NEW e \in Events', NEW u \in UserId, Time(e)' \in 1 .. notifyTime
             PROVE  [to |-> u, about |-> e] \in told \cup excused'
  BY DEF NothingMissed
<1>2. CASE e \in Events
  BY <1>1, <1>2 DEF NothingMissed
<1>3. CASE e \notin Events
  BY <1>3
<1> QED
  BY <1>2, <1>3

(* Requests and the clock.                                                 *)
Quiet ==
    /\ JobKept /\ EventsKept
    /\ index' \in [Version -> Seq(Info)] /\ adminLog' \in Seq(Info)
    /\ notifyTime' = notifyTime /\ told' = told /\ excused \subseteq excused'
    /\ Running => maintainers' \ job'.edited \subseteq maintainers \ job.edited
    /\ \A e \in Events' : \/ e \in Events
                          \/ Time(e)' \in 1 .. notifyTime =>
                                \A u \in UserId : [to |-> u, about |-> e] \in excused'

LEMMA QuietKeeps ==
    ASSUME TypesInvariant, MailsInvariant, FewReleased', Quiet
    PROVE  MailsInvariant'
<1>1. NothingMissed'
  BY StillTold DEF MailsInvariant, Quiet
<1>2. /\ Running' = Running /\ job'.at = job.at
      /\ Running => /\ job'.prefs = job.prefs /\ job'.earlier = job.earlier
                    /\ job'.until = job.until /\ job'.pkgs = job.pkgs
                    /\ job'.actions = job.actions /\ job'.mails = job.mails
                    /\ job'.sent = job.sent /\ job'.seen = job.seen
  BY JobKeptFields DEF Quiet, TypesInvariant
<1>3. CASE ~Running
  <2>1. \A m \in told' : Time(m.about)' <= notifyTime'
    BY ToldKept DEF Quiet, MailsInvariant, RunInvariant
  <2>2. RunInvariant'
    BY <1>2, <1>3, <2>1, NoRunNext
  <2> QED
    BY <1>1, <2>2 DEF MailsInvariant
<1>4. CASE Running
  <2>1. RunKept
    BY <1>2, <1>4 DEF RunKept, Quiet
  <2>2. Collected'
    BY <1>2, <1>4 DEF Collected, MailsInvariant, RunInvariant
  <2>3. \A e : ToCome(e)' <=> ToCome(e)
    BY <1>2, <1>4 DEF ToCome
  <2>4. RunInvariant'
    BY <1>2, <1>4, <2>1, <2>2, <2>3, RunWrites DEF MailsInvariant
  <2> QED
    BY <1>1, <2>4 DEF MailsInvariant
<1> QED
  BY <1>3, <1>4
LEMMA QuietWhenSame ==
    ASSUME TypesInvariant, MailsInvariant, index' = index, adminLog' = adminLog,
           notifyTime' = notifyTime, told' = told, excused' = excused, JobKept,
           Running => maintainers' \ job'.edited \subseteq maintainers \ job.edited
    PROVE  MailsInvariant'
<1>1. Events' = Events /\ Released' = Released
  BY EventsSame
<1>2. FewReleased'
  BY <1>1 DEF FewReleased, MailsInvariant
<1>3. Quiet
  BY <1>1, KeptWhenSame DEF Quiet, TypesInvariant
<1> QED
  BY <1>2, <1>3, QuietKeeps

(* What comes into the store after its time was told is excused.           *)
LEMMA StoresEventTold ==
    ASSUME TypesInvariant, MailsInvariant, NEW r \in Request, NEW e, NEW info,
           StoresEvent(r, e, info)
    PROVE  MailsInvariant'
<1>1. Time(e)' = info.time /\ e \in Events'
  BY DEF StoresEvent, Time
<1>2. ASSUME Time(e)' \in 1 .. notifyTime, NEW u \in UserId
      PROVE  [to |-> u, about |-> e] \in excused'
  <2>1. notifyTime \in Nat
    BY NotifyAssumption DEF TypesInvariant, TypeOK
  <2>2. info.time <= notifyTime
    BY <1>1, <1>2, <2>1
  <2>3. TooLate(info, e) = [to : UserId, about : {e}]
    BY <2>2 DEF TooLate
  <2> QED
    BY <2>3 DEF StoresEvent
<1>3. FewReleased'
  <2>1. PICK b \in Nat : \A v \in Released : v <= b
    BY DEF MailsInvariant, FewReleased
  <2>2. ASSUME NEW v \in Released' PROVE v \in Released \/ v = e.of
    <3>1. v \in Version /\ index'[v] # << >> /\ index'[v] \in Seq(Info)
      BY DEF Released, StoresEvent
    <3>2. 1 \in DOMAIN index'[v]
      BY <3>1
    <3>3. ReleaseOf(v, 1) \in Events'
      BY <3>1, <3>2, EventsMembersNext DEF EventsListed
    <3>4. CASE ReleaseOf(v, 1) \in Events
      <4>1. ReleaseOf(v, 1).nr \in 1 .. Len(index[v])
        BY <3>4, EventTyped, EventTells DEF TypesInvariant
      <4>2. index[v] # << >>
        BY <4>1, EventTells
      <4> QED
        BY <3>1, <4>2 DEF Released
    <3>5. CASE ReleaseOf(v, 1) = e
      BY <3>5, EventTells
    <3> QED
      BY <3>3, <3>4, <3>5 DEF StoresEvent
  <2>3. CASE \E v \in Released' : v = e.of
    <3>1. e.of \in Nat
      BY <2>3, NotifyAssumption DEF Released
    <3>2. PICK c \in Nat : c = IF e.of > b THEN e.of ELSE b
      BY <3>1
    <3>3. \A v \in Released : v \in Nat
      BY NotifyAssumption DEF Released
    <3>4. \A v \in Released' : v <= c
      BY <2>1, <2>2, <3>1, <3>2, <3>3
    <3> QED
      BY <3>4 DEF FewReleased
  <2>4. CASE ~ \E v \in Released' : v = e.of
    BY <2>1, <2>2, <2>4 DEF FewReleased
  <2> QED
    BY <2>3, <2>4
<1>4. Quiet
  <2>1. notifyTime' = notifyTime /\ told' = told /\ excused \subseteq excused' /\ JobKept
        /\ maintainers' = maintainers /\ job' = job
    BY DEF StoresEvent, JobKept
  <2> QED
    BY <1>1, <1>2, <2>1 DEF Quiet, StoresEvent
<1> QED
  BY <1>3, <1>4, QuietKeeps

LEMMA RequestsTold ==
    ASSUME TypesInvariant, MailsInvariant, NEW r \in Request,
           \/ uploadPackage(r) \/ updateAddPackage(r)
           \/ updateUserGroup(r) \/ groupChangedHook(r) \/ AddAdminLog(r)
           \/ InsertReviewTags(r) \/ rememberProposal(r)
           \/ LookupReviewTags(r) \/ InsertReviewTagsAgain(r) \/ modifyTags(r)
    PROVE  MailsInvariant'
<1>1. CASE updateAddPackage(r)
  <2>1. CASE UNCHANGED <<events, notifyTime, job, history>>
    BY <2>1, QuietWhenSame DEF events, history, JobKept
  <2> QED
    BY <1>1, <2>1, updateAddPackageStores, StoresEventTold
<1>2. CASE AddAdminLog(r)
  BY <1>2, AddAdminLogStores, StoresEventTold
<1>3. CASE updateUserGroup(r)
  <2>1. TagsKept
    BY <1>3, OtherRequestsKeepTags
  <2> QED
    BY <1>3, <2>1, QuietWhenSame DEF TagsKept, updateUserGroup, history
<1>4. CASE \/ uploadPackage(r) \/ groupChangedHook(r) \/ InsertReviewTags(r)
           \/ rememberProposal(r) \/ LookupReviewTags(r) \/ InsertReviewTagsAgain(r)
           \/ modifyTags(r)
  <2>1. /\ index' = index /\ adminLog' = adminLog /\ maintainers' = maintainers
        /\ notifyTime' = notifyTime /\ told' = told /\ excused' = excused /\ job' = job
    BY <1>4 DEF uploadPackage, groupChangedHook, InsertReviewTags, rememberProposal,
                LookupReviewTags, InsertReviewTagsAgain, modifyTags, events, history
  <2> QED
    BY <2>1, QuietWhenSame DEF JobKept
<1> QED
  BY <1>1, <1>2, <1>3, <1>4

(* The steps of the job, which leave the events alone.                     *)
LEMMA JobStepTold ==
    ASSUME TypesInvariant, MailsInvariant, index' = index, adminLog' = adminLog,
           notifyTime' = notifyTime, told' = told, excused' = excused, RunInvariant'
    PROVE  MailsInvariant'
<1>1. Events' = Events /\ Released' = Released
  BY EventsSame
<1>2. FewReleased'
  BY <1>1 DEF FewReleased, MailsInvariant
<1>3. NothingMissed'
  BY <1>1, KeptWhenSame, StillTold DEF TypesInvariant, MailsInvariant
<1> QED
  BY <1>2, <1>3 DEF MailsInvariant

LEMMA startJobTold ==
    ASSUME TypesInvariant, MailsInvariant, startJob
    PROVE  MailsInvariant'
<1>1. /\ Running' /\ job'.earlier = trimLastTime /\ job'.until = clock
      /\ job'.pkgs = {} /\ job'.actions = {} /\ job'.mails = {} /\ job'.sent = {}
      /\ job'.seen = {} /\ UNCHANGED server
  BY DEF startJob, Running
<1>2. clock \in Nat /\ notifyTime \in Nat /\ notifyTime <= clock /\ Cap \in Nat
  BY NotifyAssumption DEF TypesInvariant, TypeOK
<1>3. RunWindow'
  BY <1>1, <1>2, ServerSame DEF RunWindow, trimLastTime
<1>4. Collected'
  BY <1>1 DEF Collected
<1>5. SeenReleases'
  <2> SUFFICES ASSUME NEW v \in Version
               PROVE  \E k \in 0 .. Len(index'[v]) :
                         /\ SeenOf(v, k)'
                         /\ v \in job'.pkgs => k >= 1 /\ IsRecent(index[v][k].time)'
    BY DEF SeenReleases
  <2>1. SeenOf(v, 0)'
    BY <1>1 DEF SeenOf
  <2>2. 0 \in 0 .. Len(index'[v])
    BY ServerSame, <1>1 DEF TypesInvariant, TypeOK
  <2> QED
    BY <1>1, <2>1, <2>2
<1>6. \A m \in told' : Time(m.about)' <= notifyTime'
  BY <1>1, ServerSame, KeptWhenSame, ToldKept DEF TypesInvariant, MailsInvariant, RunInvariant
<1>7. MailsRecent' /\ DueMailed'
  BY <1>1, <1>6 DEF MailsRecent, DueMailed
<1> QED
  BY <1>1, <1>3, <1>4, <1>5, <1>7, ServerSame, JobStepTold DEF RunInvariant
(* The run sees every release there is.  One of a version that has nothing *)
(* recent last need not be told: it is the last, or was overtaken.         *)
LEMMA collectRevisionsAndUploadsTold ==
    ASSUME TypesInvariant, MailsInvariant, collectRevisionsAndUploads
    PROVE  MailsInvariant'
<1>1. Running /\ job \in Jobs /\ UNCHANGED server /\ job.at = "collect"
  BY JobKinds DEF collectRevisionsAndUploads, Running, TypesInvariant
<1>2. PICK P \in SUBSET Released : P = {v \in Released : IsRecent(Latest(v).time)}
  OBVIOUS
<1>3. PICK S \in SUBSET Events : S = {e \in Events : e.kind = "release"}
  OBVIOUS
<1>4. job' = [job EXCEPT !.at = "revisions", !.pkgs = P, !.seen = S]
  BY <1>2, <1>3, Zenon DEF collectRevisionsAndUploads
<1>5. /\ job'.at = "revisions" /\ job'.pkgs = P /\ job'.seen = S /\ Running'
      /\ job'.prefs = job.prefs /\ job'.earlier = job.earlier /\ job'.until = job.until
      /\ job'.actions = job.actions /\ job'.mails = job.mails /\ job'.sent = job.sent
  BY <1>1, <1>4 DEF Jobs, Running
<1>6. job.actions = {} /\ job.seen = {}
  BY <1>1 DEF MailsInvariant, RunInvariant, Collected
<1>7. RunWindow'
  BY <1>1, <1>5, ServerSame DEF RunWindow, MailsInvariant, RunInvariant
<1>8. Collected'
  BY <1>5, <1>6 DEF Collected
<1>9. ASSUME NEW v \in Version
      PROVE  {d \in S : d.of = v} = {ReleaseOf(v, n) : n \in 1 .. Len(index[v])}
  <2>1. ASSUME NEW d \in S, d.of = v
        PROVE  d \in {ReleaseOf(v, n) : n \in 1 .. Len(index[v])}
    BY <1>3, <2>1, EventTyped DEF TypesInvariant
  <2>2. ASSUME NEW n \in 1 .. Len(index[v])
        PROVE  ReleaseOf(v, n) \in S /\ ReleaseOf(v, n).of = v
    BY <1>3, EventsAre, EventTells DEF TypesInvariant
  <2> QED
    BY <2>1, <2>2
<1>10. SeenReleases'
  <2> SUFFICES ASSUME NEW v \in Version
               PROVE  \E k \in 0 .. Len(index'[v]) :
                         /\ SeenOf(v, k)'
                         /\ v \in job'.pkgs => k >= 1 /\ IsRecent(index[v][k].time)'
    BY DEF SeenReleases
  <2>1. Len(index[v]) \in Nat /\ (index[v] # << >> => Len(index[v]) >= 1)
    BY DEF TypesInvariant, TypeOK
  <2>2. SeenOf(v, Len(index[v]))'
    BY <1>1, <1>5, <1>9, ServerSame DEF SeenOf
  <2>3. v \in P => Len(index[v]) >= 1 /\ IsRecent(index[v][Len(index[v])].time)
    BY <1>2, <2>1 DEF Released, Latest
  <2>4. PICK k : k = Len(index[v])
    OBVIOUS
  <2>5. SeenOf(v, k)'
    BY <1>1, <2>2, <2>4, ServerSame
  <2>6. v \in P => k >= 1 /\ IsRecent(index[v][k].time)'
    BY <1>1, <1>5, <2>3, <2>4, ServerSame DEF IsRecent
  <2> QED
    BY <1>1, <1>5, <2>1, <2>4, <2>5, <2>6, ServerSame
<1>11. MailsRecent'
  <2>1. \A m \in told' : Time(m.about)' <= notifyTime'
    BY <1>1, ServerSame, KeptWhenSame, ToldKept
    DEF TypesInvariant, MailsInvariant, RunInvariant
  <2>2. \A m \in job.mails \cup job.sent :
           m.about = TagUpdate \/ IsRecent(Time(m.about))'
    BY <1>1, <1>5, ServerSame
    DEF MailsInvariant, RunInvariant, MailsRecent, IsRecent, Time
  <2> QED
    BY <1>5, <1>6, <2>1, <2>2 DEF MailsRecent
<1>12. DueMailed'
  <2> SUFFICES ASSUME NEW e \in S, NEW u \in UserId, e.of \notin P
               PROVE  NeedNotTell(u, e)'
    BY <1>3, <1>5 DEF DueMailed, ToCome
  <2>1. /\ e \in Events /\ e.kind = "release" /\ e.of \in Version
        /\ e.nr \in 1 .. Len(index[e.of])
    BY <1>3, EventTyped DEF TypesInvariant
  <2>2. PICK k \in Nat : k = Len(index[e.of])
    BY <2>1 DEF TypesInvariant, TypeOK
  <2>3. k >= 1 /\ index[e.of] # << >>
    BY <2>1, <2>2
  <2>4. ~ IsRecent(index[e.of][k].time)
    BY <1>2, <2>1, <2>2, <2>3 DEF Released, Latest
  <2>5. index[e.of][k].time \in Nat
    <3>0. index \in [Version -> Seq(Info)]
      BY DEF TypesInvariant, TypeOK, Info
    <3>1. index[e.of] \in Seq(Info) /\ k \in 1 .. Len(index[e.of])
      BY <2>1, <2>2, <2>3, <3>0
    <3>2. index[e.of][k] \in Info
      BY <3>1
    <3> QED
      BY <3>2 DEF Info
  <2>6. ~ InWindow(index[e.of][k].time)
    BY <1>1, <2>4, <2>5, RecentIsInWindow DEF MailsInvariant, RunInvariant
  <2>7. ~ InWindow(index[e.of][k].time)'
    BY <1>1, <1>5, <2>6, ServerSame DEF InWindow
  <2>8. CASE e.nr = k
    <3>1. Time(e)' = index'[e.of][k].time
      BY <1>1, <2>1, <2>8, ServerSame DEF Time, UploadInfo
    <3>2. ~ InWindow(Time(e))'
      BY <2>7, <3>1 DEF InWindow
    <3> QED
      BY <3>2 DEF NeedNotTell
  <2>9. CASE e.nr # k
    <3>1. {d \in job'.seen : d.of = e.of} = {ReleaseOf(e.of, n) : n \in 1 .. k}
      BY <1>5, <1>9, <2>1, <2>2
    <3>2. k = Max({d.nr : d \in {d \in job'.seen : d.of = e.of}})
      <4>1. Max({d.nr : d \in {ReleaseOf(e.of, n) : n \in 1 .. k}}) = k
        BY <2>3, ReleasesUpTo, Zenon
      <4> QED
        BY <3>1, <4>1, Zenon
    <3>3. k > e.nr
      BY <2>1, <2>2, <2>9
    <3>4. Overtaken(u, e)'
      BY <2>7, <3>2, <3>3 DEF Overtaken
    <3> QED
      BY <2>1, <3>4 DEF NeedNotTell
  <2> QED
    BY <2>8, <2>9
<1> QED
  BY <1>1, <1>7, <1>8, <1>10, <1>11, <1>12, ServerSame, JobStepTold DEF RunInvariant

(* A step of the job that keeps what the run is about.                     *)
LEMMA JobStepRunKept ==
    ASSUME TypesInvariant, index' = index, adminLog' = adminLog, maintainers' = maintainers,
           notifyTime' = notifyTime, told' = told,
           job'.prefs = job.prefs, job'.earlier = job.earlier, job'.until = job.until,
           job'.edited = job.edited
    PROVE  RunKept
BY KeptWhenSame DEF RunKept, TypesInvariant

LEMMA FewReleasedSame ==
    ASSUME MailsInvariant, index' = index
    PROVE  FewReleased'
<1>1. Released' = Released
  BY DEF Released
<1> QED
  BY <1>1 DEF MailsInvariant, FewReleased

LEMMA genRevUploadListTold ==
    ASSUME TypesInvariant, MailsInvariant, genRevUploadList
    PROVE  MailsInvariant'
<1>1. /\ Running /\ job \in Jobs /\ UNCHANGED server
      /\ job.at = "revisions" /\ job.pkgs # {}
  BY JobKinds DEF genRevUploadList, Running, TypesInvariant
<1>2. PICK v : v = Min(job.pkgs)
  OBVIOUS
<1>3. v \in job.pkgs /\ v \in Version
  <2>1. job.pkgs \in SUBSET Nat /\ job.pkgs \subseteq Version
    BY <1>1, NotifyAssumption DEF Jobs
  <2> QED
    BY <1>1, <1>2, <2>1, MinIn
<1>4. PICK k \in 0 .. Len(index[v]) :
         SeenOf(v, k) /\ k >= 1 /\ IsRecent(index[v][k].time)
  BY <1>1, <1>3 DEF MailsInvariant, RunInvariant, SeenReleases
<1>5. k \in Nat /\ k \in 1 .. Len(index[v])
  BY <1>3, <1>4 DEF TypesInvariant, TypeOK
<1>6. PICK revisions : revisions = {e \in job.seen : e.of = v}
  OBVIOUS
<1>7. /\ Cardinality(revisions) = k
      /\ Max({d.nr : d \in {d \in job.seen : d.of = v}}) = k
      /\ \A e \in revisions : e.nr \in 1 .. k /\ e = ReleaseOf(v, e.nr)
  BY <1>4, <1>5, <1>6, ReleaseSeen
<1> DEFINE mails ==
             IF k > 1
             THEN Mails({u \in maintainers : WantsRevisions(u, v)}, index[v][k].by,
                        {e \in revisions : IsRecent(Time(e))})
             ELSE Mails({u \in maintainers : job.prefs[u].upload}, index[v][k].by, revisions)
<1>8. job' = [job EXCEPT !.pkgs = @ \ {v}, !.mails = @ \cup mails]
  BY <1>2, <1>6, <1>7, Zenon DEF genRevUploadList
<1>9. revisions \subseteq Events
  BY <1>1, <1>6 DEF TypesInvariant, JobTyped
<1>10. ASSUME NEW m \in mails
       PROVE  m.about \in Events /\ IsRecent(Time(m.about))
  <2>1. CASE k > 1
    BY <1>9, <2>1 DEF Mails
  <2>2. CASE ~ (k > 1)
    <3>1. m.about \in revisions /\ k = 1
      BY <1>5, <2>2 DEF Mails
    <3>2. m.about = ReleaseOf(v, k)
      BY <1>7, <3>1
    <3>3. Time(m.about) = index[v][k].time
      BY <3>2, EventTells DEF Time, UploadInfo
    <3> QED
      BY <1>4, <1>9, <3>1, <3>3
  <2> QED
    BY <2>1, <2>2
<1>11. ASSUME NEW e \in revisions, NEW u \in UserId, ~ NeedNotTell(u, e)
       PROVE  [to |-> u, about |-> e] \in mails
  <2>1. /\ e \in job.seen /\ e.of = v /\ e.kind = "release" /\ e.nr \in 1 .. k
        /\ UploadInfo(e) = index[v][e.nr]
    BY <1>6, <1>7, EventTells DEF UploadInfo
  <2>2. /\ u \in maintainers /\ u # index[v][e.nr].by /\ WantsToKnow(u, e)
        /\ InWindow(Time(e)) /\ ~ Overtaken(u, e)
    BY <1>11, <2>1 DEF NeedNotTell, Actor
  <2>3. ~ job.prefs[u].optOut
    BY <2>2 DEF WantsToKnow
  <2>4. Time(e) \in Nat
    BY <1>9, EventTyped DEF Time, Info, TypesInvariant
  <2>5. IsRecent(Time(e))
    BY <1>1, <2>2, <2>4, RecentIsInWindow DEF MailsInvariant, RunInvariant
  <2>6. k > e.nr => index[v][k].by # u /\ WantsRevisions(u, v)
    <3>1. PICK last : last = Max({d.nr : d \in {d \in job.seen : d.of = e.of}})
      OBVIOUS
    <3>2. last = k
      BY <1>7, <2>1, <3>1
    <3>3. ~ (/\ last > e.nr
             /\ \/ index[e.of][last].by = u
                \/ ~InWindow(index[e.of][last].time)
                \/ ~WantsRevisions(u, e.of))
      BY <2>2, <3>1 DEF Overtaken
    <3> QED
      BY <2>1, <3>2, <3>3
  <2>7. u # index[v][k].by
    <3>1. CASE k > e.nr
      BY <2>6, <3>1
    <3>2. CASE k = e.nr
      BY <2>2, <3>2
    <3> QED
      BY <1>5, <2>1, <3>1, <3>2
  <2>8. CASE k > 1
    <3>1. WantsRevisions(u, v)
      <4>1. CASE e.nr = 1
        BY <2>6, <2>8, <4>1
      <4>2. CASE e.nr # 1
        BY <2>1, <2>2, <4>2 DEF WantsToKnow
      <4> QED
        BY <4>1, <4>2
    <3>2. u \in {w \in maintainers : WantsRevisions(w, v)}
      BY <2>2, <3>1
    <3> QED
      BY <2>3, <2>5, <2>7, <2>8, <3>2 DEF Mails
  <2>9. CASE ~ (k > 1)
    <3>1. e.nr = 1
      BY <1>5, <2>1, <2>9
    <3>2. job.prefs[u].upload
      BY <2>1, <2>2, <3>1 DEF WantsToKnow
    <3> QED
      BY <2>2, <2>3, <2>7, <2>9, <3>2 DEF Mails
  <2> QED
    BY <2>8, <2>9
<1> HIDE DEF mails
<1>12. /\ job'.at = job.at /\ Running' /\ job'.seen = job.seen
       /\ job'.prefs = job.prefs /\ job'.earlier = job.earlier /\ job'.until = job.until
       /\ job'.edited = job.edited /\ job'.actions = job.actions
       /\ job'.pkgs = job.pkgs \ {v} /\ job'.mails = job.mails \cup mails
       /\ job'.sent = job.sent
  BY <1>1, <1>8 DEF Jobs, Running
<1>13. RunKept
  BY <1>1, <1>12, ServerSame, JobStepRunKept
<1>14. Collected'
  BY <1>1, <1>12 DEF MailsInvariant, RunInvariant, Collected
<1>15. ASSUME NEW e \in job.seen, NEW u \in UserId, ToCome(e)
       PROVE  NeedNotTell(u, e) \/ Mailed(u, e)' \/ ToCome(e)'
  <2>1. CASE e.of = v
    BY <1>6, <1>11, <1>12, <2>1 DEF Mailed
  <2>2. CASE e.of # v
    BY <1>12, <1>15, <2>2 DEF ToCome
  <2> QED
    BY <2>1, <2>2
<1>16. RunInvariant'
  <2>1. FewReleased'
    BY <1>1, ServerSame, FewReleasedSame
  <2> QED
    BY <1>1, <1>10, <1>12, <1>13, <1>14, <1>15, <2>1, RunWrites DEF MailsInvariant
<1> QED
  BY <1>1, <1>16, ServerSame, JobStepTold
(* The run sees every change of the group, and writes about those that are *)
(* recent.                                                                 *)
LEMMA collectAdminActionsTold ==
    ASSUME TypesInvariant, MailsInvariant, collectAdminActions
    PROVE  MailsInvariant'
<1>1. /\ Running /\ job \in Jobs /\ UNCHANGED server
      /\ job.at = "revisions" /\ job.pkgs = {}
  BY JobKinds DEF collectAdminActions, Running, TypesInvariant
<1>2. PICK A \in SUBSET DOMAIN adminLog :
         A = {n \in DOMAIN adminLog : IsRecent(adminLog[n].time)}
  OBVIOUS
<1>3. PICK G \in SUBSET Events : G = {e \in Events : e.kind = "group"}
  OBVIOUS
<1>4. job' = [job EXCEPT !.at = "actions", !.actions = A, !.seen = @ \cup G]
  BY <1>2, <1>3, Zenon DEF collectAdminActions
<1>5. /\ job'.at = "actions" /\ Running' /\ job'.seen = job.seen \cup G
      /\ job'.prefs = job.prefs /\ job'.earlier = job.earlier /\ job'.until = job.until
      /\ job'.edited = job.edited /\ job'.actions = A /\ job'.pkgs = job.pkgs
      /\ job'.mails = job.mails /\ job'.sent = job.sent
  BY <1>1, <1>4 DEF Jobs, Running
<1>6. RunKept
  BY <1>1, <1>5, ServerSame, JobStepRunKept
<1>7. Collected'
  BY <1>1, <1>5 DEF Collected
<1>8. ASSUME NEW e \in G, InWindow(Time(e))
      PROVE  e.nr \in A
  <2>1. e.kind # "release" /\ e.nr \in DOMAIN adminLog /\ Time(e) = adminLog[e.nr].time
    <3>1. e.kind # "release" /\ e.nr \in 1 .. Len(adminLog)
      BY <1>3, EventTyped DEF TypesInvariant
    <3>2. DOMAIN adminLog = 1 .. Len(adminLog)
      BY DEF TypesInvariant, TypeOK
    <3> QED
      BY <3>1, <3>2 DEF Time, UploadInfo
  <2>2. Time(e) \in Nat
    BY EventTyped DEF Time, Info, TypesInvariant
  <2>3. IsRecent(Time(e))
    BY <1>1, <1>8, <2>2, RecentIsInWindow DEF MailsInvariant, RunInvariant
  <2> QED
    BY <1>2, <2>1, <2>3
<1>9. ASSUME NEW e \in job.seen, NEW u \in UserId, ToCome(e)
      PROVE  NeedNotTell(u, e) \/ Mailed(u, e)' \/ ToCome(e)'
  BY <1>1, <1>9 DEF ToCome, MailsInvariant, RunInvariant, Collected
<1>10. RunInvariant'
  <2>1. FewReleased'
    BY <1>1, ServerSame, FewReleasedSame
  <2>2. \A e \in G : e.kind = "group" /\ (InWindow(Time(e)) => e.nr \in job'.actions)
    BY <1>3, <1>5, <1>8
  <2>3. \A n \in job'.actions : n \in DOMAIN adminLog /\ IsRecent(adminLog[n].time)
    BY <1>2, <1>5
  <2> QED
    BY <1>1, <1>5, <1>6, <1>7, <1>9, <2>1, <2>2, <2>3, RunGoesOn DEF MailsInvariant
<1> QED
  BY <1>1, <1>10, ServerSame, JobStepTold

LEMMA genGroupUploadListTold ==
    ASSUME TypesInvariant, MailsInvariant, genGroupUploadList
    PROVE  MailsInvariant'
<1>1. /\ Running /\ job \in Jobs /\ UNCHANGED server
      /\ job.at = "actions" /\ job.actions # {}
  BY JobKinds DEF genGroupUploadList, Running, TypesInvariant
<1>2. PICK n : n = Max(job.actions)
  OBVIOUS
<1>3. n \in job.actions /\ n \in DOMAIN adminLog
  BY <1>1, <1>2, NextAction
<1> DEFINE mails == Mails(maintainers, adminLog[n].by, {GroupAction(n)})
<1>4. job' = [job EXCEPT !.actions = @ \ {n}, !.mails = @ \cup mails]
  BY <1>2 DEF genGroupUploadList
<1>5. UploadInfo(GroupAction(n)) = adminLog[n]
  BY EventTells DEF UploadInfo
<1>6. ASSUME NEW m \in mails
      PROVE  m.about \in Events /\ IsRecent(Time(m.about))
  <2>1. m.about = GroupAction(n)
    BY DEF Mails
  <2>2. GroupAction(n) \in Events
    BY <1>3, EventsMembers DEF EventsListed
  <2>3. IsRecent(adminLog[n].time)
    BY <1>1, <1>3 DEF MailsInvariant, RunInvariant, MailsRecent
  <2> QED
    BY <1>5, <2>1, <2>2, <2>3 DEF Time
<1>7. ASSUME NEW u \in UserId, ~ NeedNotTell(u, GroupAction(n))
      PROVE  [to |-> u, about |-> GroupAction(n)] \in mails
  <2>1. u \in maintainers /\ u # adminLog[n].by /\ ~ job.prefs[u].optOut
    BY <1>5, <1>7 DEF NeedNotTell, Actor, WantsToKnow
  <2> QED
    BY <2>1 DEF Mails
<1> HIDE DEF mails
<1>8. /\ job'.at = job.at /\ Running' /\ job'.seen = job.seen
      /\ job'.prefs = job.prefs /\ job'.earlier = job.earlier /\ job'.until = job.until
      /\ job'.edited = job.edited /\ job'.actions = job.actions \ {n}
      /\ job'.pkgs = job.pkgs /\ job'.mails = job.mails \cup mails /\ job'.sent = job.sent
  BY <1>1, <1>4 DEF Jobs, Running
<1>9. RunKept
  BY <1>1, <1>8, ServerSame, JobStepRunKept
<1>10. Collected'
  BY <1>1, <1>8 DEF MailsInvariant, RunInvariant, Collected
<1>11. ASSUME NEW e \in job.seen, NEW u \in UserId, ToCome(e)
       PROVE  NeedNotTell(u, e) \/ Mailed(u, e)' \/ ToCome(e)'
  <2>1. CASE e.kind = "group" /\ e.nr = n
    <3>1. e = GroupAction(n)
      BY <1>1, <2>1, EventTyped DEF TypesInvariant, JobTyped
    <3> QED
      BY <1>7, <1>8, <3>1 DEF Mailed
  <2>2. CASE ~ (e.kind = "group" /\ e.nr = n)
    BY <1>8, <1>11, <2>2 DEF ToCome
  <2> QED
    BY <2>1, <2>2
<1>12. RunInvariant'
  <2>1. FewReleased'
    BY <1>1, ServerSame, FewReleasedSame
  <2> QED
    BY <1>1, <1>6, <1>8, <1>9, <1>10, <1>11, <2>1, RunWrites DEF MailsInvariant
<1> QED
  BY <1>1, <1>12, ServerSame, JobStepTold

(* Steps that do not concern events: tags are collected, mails are sent.   *)
LEMMA OtherStepsTold ==
    ASSUME TypesInvariant, MailsInvariant,
           readMemState \/ writeMemState \/ genTagProposalList \/ sendNotifyEmail
    PROVE  MailsInvariant'
<1>1. /\ Running /\ job \in Jobs
      /\ job.at \in {"actions", "empty", "proposals", "send"}
      /\ job.pkgs = {} /\ job.actions = {}
  <2>1. /\ Running /\ job \in Jobs
        /\ \/ job.at = "actions" /\ job.actions = {}
           \/ job.at \in {"empty", "proposals", "send"}
    BY JobKinds DEF readMemState, writeMemState, genTagProposalList, sendNotifyEmail, Running,
                    TypesInvariant
  <2> QED
    BY <2>1 DEF MailsInvariant, RunInvariant, Collected
<1>2. /\ index' = index /\ adminLog' = adminLog /\ maintainers' = maintainers
      /\ notifyTime' = notifyTime /\ told' = told /\ excused' = excused
  <2>1. CASE writeMemState
    BY <2>1 DEF writeMemState, events
  <2>2. CASE UNCHANGED server
    BY <2>2, ServerSame
  <2> QED
    BY <2>1, <2>2 DEF readMemState, genTagProposalList, sendNotifyEmail
<1>3. /\ job'.seen = job.seen /\ job'.prefs = job.prefs /\ job'.earlier = job.earlier
      /\ job'.until = job.until /\ job'.edited = job.edited
      /\ job'.actions = job.actions /\ job'.pkgs = job.pkgs
      /\ job'.at \in {"empty", "proposals", "send"}
      /\ job.mails \cup job.sent \subseteq job'.mails \cup job'.sent
      /\ \A m \in job'.mails \cup job'.sent :
            m \in job.mails \cup job.sent \/ m.about = TagUpdate
  <2>1. CASE readMemState
    BY <1>1, <2>1 DEF readMemState, Jobs
  <2>2. CASE writeMemState
    BY <1>1, <2>2 DEF writeMemState, Goto, Jobs
  <2>3. CASE genTagProposalList
    <3> DEFINE to == {u \in maintainers : job.logs.listed /\ WantsTags(u)}
    <3>1. PICK mails : mails = [to : to, about : {TagUpdate}]
      OBVIOUS
    <3>2. job' = [job EXCEPT !.at = "send", !.mails = @ \cup mails]
      BY <2>3, <3>1 DEF genTagProposalList
    <3>3. \A m \in mails : m.about = TagUpdate
      BY <3>1
    <3> QED
      BY <1>1, <3>2, <3>3 DEF Jobs
  <2>4. CASE sendNotifyEmail
    <3>1. job'.at = "send"
      BY <2>4, sendNotifyEmailMoves DEF sendNotifyEmail
    <3> QED
      BY <2>4, <3>1, sendNotifyEmailMoves
  <2> QED
    BY <2>1, <2>2, <2>3, <2>4
<1>4. RunKept
  BY <1>2, <1>3, JobStepRunKept
<1>5. Running' /\ Collected'
  BY <1>1, <1>3 DEF Collected, Running
<1>6. \A e : ~ ToCome(e)
  BY <1>1 DEF ToCome
<1>7. RunInvariant'
  <2>1. FewReleased'
    BY <1>2, FewReleasedSame
  <2> QED
    BY <1>1, <1>3, <1>4, <1>5, <1>6, <2>1, RunWrites DEF MailsInvariant
<1> QED
  BY <1>2, <1>7, JobStepTold

(* When the run finishes, it has told what it need not be excused of.      *)
LEMMA finishJobTold ==
    ASSUME TypesInvariant, MailsInvariant, finishJob
    PROVE  MailsInvariant'
<1>1. Running /\ job \in Jobs /\ job.at = "send" /\ job.mails = {}
  BY JobKinds DEF finishJob, Running, TypesInvariant
<1>2. /\ index' = index /\ adminLog' = adminLog /\ notifyTime' = job.until /\ job' = Idle
      /\ told' = told \cup {m \in job.sent : m.about # TagUpdate}
  BY DEF finishJob, events, SetNotifyTime
<1>3. PICK due \in SUBSET Events :
         due = {e \in Events : Time(e) \in notifyTime + 1 .. job.until}
  OBVIOUS
<1>4. excused' = excused \cup {m \in [to : UserId, about : due] : NeedNotTell(m.to, m.about)}
  BY <1>3, Zenon DEF finishJob
<1>5. Events' = Events /\ \A e \in Events : Time(e)' = Time(e) /\ Time(e) \in Nat
  BY <1>2, EventsSame, EventTyped DEF Time, Info, TypesInvariant
<1>6. job.pkgs = {} /\ job.actions = {}
  BY <1>1 DEF MailsInvariant, RunInvariant, Collected
<1>7. notifyTime \in Nat /\ job.until \in Nat /\ notifyTime <= job.until
  BY <1>1, NotifyAssumption DEF TypesInvariant, TypeOK, Jobs, MailsInvariant, RunInvariant,
                                RunWindow
<1>8. ASSUME NEW e \in due, NEW u \in UserId, ~ NeedNotTell(u, e)
      PROVE  [to |-> u, about |-> e] \in told'
  <2>1. e \in job.seen
    BY <1>8 DEF NeedNotTell
  <2>2. Mailed(u, e)
    BY <1>1, <1>6, <1>8, <2>1 DEF MailsInvariant, RunInvariant, DueMailed, ToCome
  <2>3. e # TagUpdate
    BY EventTyped DEF TypesInvariant
  <2> QED
    BY <1>1, <1>2, <2>2, <2>3 DEF Mailed
<1>9. NothingMissed'
  <2> SUFFICES ASSUME NEW e \in Events, NEW u \in UserId, Time(e) \in 1 .. job.until
               PROVE  [to |-> u, about |-> e] \in told' \cup excused'
    BY <1>2, <1>5 DEF NothingMissed
  <2>1. CASE Time(e) <= notifyTime
    <3>1. Time(e) \in 1 .. notifyTime
      BY <1>5, <1>7, <2>1
    <3>2. [to |-> u, about |-> e] \in told \cup excused
      BY <3>1 DEF MailsInvariant, NothingMissed
    <3> QED
      BY <1>2, <1>4, <3>2
  <2>2. CASE ~ (Time(e) <= notifyTime)
    <3>1. e \in due
      BY <1>3, <1>5, <1>7, <2>2
    <3>2. CASE NeedNotTell(u, e)
      <4>1. PICK m \in [to : UserId, about : due] : m = [to |-> u, about |-> e]
        BY <3>1
      <4>2. m.to = u /\ m.about = e
        BY <4>1
      <4>3. NeedNotTell(m.to, m.about)
        BY <3>2, <4>2
      <4> QED
        BY <1>4, <4>1, <4>3
    <3> QED
      BY <1>8, <3>1, <3>2
  <2> QED
    BY <2>1, <2>2
<1>10. \A m \in told' : Time(m.about)' <= notifyTime'
  <2>1. ASSUME NEW m \in told PROVE Time(m.about)' <= notifyTime'
    <3>1. m.about \in Events /\ Time(m.about) <= notifyTime
      BY DEF TypesInvariant, TypeOK, MailsInvariant, RunInvariant, MailsRecent
    <3> QED
      BY <1>2, <1>5, <1>7, <3>1
  <2>2. ASSUME NEW m \in job.sent, m.about # TagUpdate PROVE Time(m.about)' <= notifyTime'
    <3>1. m.about \in Events /\ IsRecent(Time(m.about))
      BY <1>1, <2>2 DEF TypesInvariant, JobTyped, MailsInvariant, RunInvariant, MailsRecent
    <3> QED
      BY <1>2, <1>5, <3>1 DEF IsRecent
  <2> QED
    BY <1>2, <2>1, <2>2
<1>11. ~ Running'
  BY <1>2 DEF Running, Idle
<1>12. FewReleased'
  BY <1>2, FewReleasedSame
<1> QED
  BY <1>9, <1>10, <1>11, <1>12, NoRunNext DEF MailsInvariant

LEMMA FailureTold ==
    ASSUME TypesInvariant, MailsInvariant, sendMailFails \/ Restart
    PROVE  MailsInvariant'
<1>1. /\ index' = index /\ adminLog' = adminLog /\ notifyTime' = notifyTime
      /\ told' = told /\ excused' = excused /\ job' = Idle
  BY DEF sendMailFails, Restart, events
<1>2. ~ Running'
  BY <1>1 DEF Running, Idle
<1>3. \A m \in told' : Time(m.about)' <= notifyTime'
  BY <1>1, KeptWhenSame, ToldKept DEF TypesInvariant, MailsInvariant, RunInvariant
<1> QED
  BY <1>1, <1>2, <1>3, NoRunNext, JobStepTold

LEMMA MailsInit == Init => MailsInvariant
<1> SUFFICES ASSUME Init PROVE MailsInvariant
  OBVIOUS
<1>1. ~ Running /\ told = {} /\ notifyTime = 0
  BY DEF Init, Running, Idle
<1>2. RunInvariant
  BY <1>1 DEF RunInvariant, RunWindow, Collected, SeenReleases, MailsRecent, DueMailed
<1>3. FewReleased
  <2>1. \A v \in Released : v = Min(Version)
    BY DEF Init, Released
  <2>2. CASE Released = {}
    <3>1. \A v \in Released : v <= 0
      BY <2>2
    <3> QED
      BY <3>1 DEF FewReleased
  <2>3. CASE Released # {}
    <3>1. PICK v \in Released : TRUE
      BY <2>3
    <3>2. v \in Nat /\ \A w \in Released : w = v
      BY <2>1, <3>1, NotifyAssumption DEF Released
    <3>3. \A w \in Released : w <= v
      BY <3>2
    <3> QED
      BY <3>2, <3>3 DEF FewReleased
  <2> QED
    BY <2>2, <2>3
<1>4. NothingMissed
  BY <1>1 DEF NothingMissed
<1> QED
  BY <1>2, <1>3, <1>4 DEF MailsInvariant

LEMMA MailsNext ==
    ASSUME TypesInvariant, MailsInvariant, [Next]_vars
    PROVE  MailsInvariant'
<1>1. ASSUME NEW r \in Request,
             \/ uploadPackage(r) \/ updateAddPackage(r)
             \/ updateUserGroup(r) \/ groupChangedHook(r) \/ AddAdminLog(r)
             \/ InsertReviewTags(r) \/ rememberProposal(r)
             \/ LookupReviewTags(r) \/ InsertReviewTagsAgain(r) \/ modifyTags(r)
      PROVE  MailsInvariant'
  BY <1>1, RequestsTold
<1>2. CASE AddNotifyPref \/ Tick \/ UNCHANGED vars
  <2>1. /\ index' = index /\ adminLog' = adminLog /\ maintainers' = maintainers
        /\ notifyTime' = notifyTime /\ told' = told /\ excused' = excused /\ job' = job
    BY <1>2 DEF AddNotifyPref, Tick, vars, server, events, history
  <2> QED
    BY <2>1, QuietWhenSame DEF JobKept
<1>3. CASE notifyCronAction
  BY <1>3, startJobTold, collectRevisionsAndUploadsTold, genRevUploadListTold,
     collectAdminActionsTold, genGroupUploadListTold, OtherStepsTold, finishJobTold
  DEF notifyCronAction
<1>4. CASE sendMailFails \/ Restart
  BY <1>4, FailureTold
<1> QED
  BY <1>1, <1>2, <1>3, <1>4 DEF Next

(* Mails that were sent are about events in the window of the run; told    *)
(* are only events up to where that begins.                                *)
LEMMA NothingTwice ==
    ASSUME TypesInvariant, MailsInvariant
    PROVE  NothingRepeated
<1> SUFFICES ASSUME Running, NEW m \in job.sent, m \in told
             PROVE  FALSE
  BY DEF NothingRepeated
<1>1. m.about \in Events /\ m.about # TagUpdate
  BY EventTyped DEF TypesInvariant, TypeOK
<1>2. Time(m.about) \in Nat
  BY <1>1, EventTyped DEF Time, Info, TypesInvariant
<1>3. IsRecent(Time(m.about)) /\ Time(m.about) <= notifyTime
  BY <1>1 DEF MailsInvariant, RunInvariant, MailsRecent
<1>4. notifyTime \in Nat
  BY NotifyAssumption DEF TypesInvariant, TypeOK
<1>5. Time(m.about) > notifyTime
  BY <1>2, <1>3, RecentIsInWindow DEF MailsInvariant, RunInvariant
<1> QED
  BY <1>2, <1>3, <1>4, <1>5

(* Every release, revision and change of the group is told to every        *)
(* maintainer who wants to know: a run that finishes has mailed what it    *)
(* advances the stored time past, whatever requests, failures and restarts *)
(* came between its steps, except of what was excused; and none mails      *)
(* anybody what an earlier one that finished told him.  What a run mailed  *)
(* before it failed is mailed again.                                       *)
THEOREM EventsAreTold == Spec => []ToldAndNotRepeated
<1>1. TypesInvariant /\ MailsInvariant /\ [Next]_vars => MailsInvariant'
  BY MailsNext
<1>2. TypesInvariant /\ MailsInvariant => ToldAndNotRepeated
  BY NothingTwice DEF ToldAndNotRepeated, MailsInvariant
<1> QED
  BY <1>1, <1>2, MailsInit, TypesHold, PTL DEF Spec
=============================================================================
