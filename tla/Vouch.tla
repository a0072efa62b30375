------------------------------- MODULE Vouch -------------------------------
(***************************************************************************)
(* Endorsements (Features/Vouch.hs): uploaders vouch for a user, and one   *)
(* with RequiredCountOfVouches of them becomes an uploader and is told so  *)
(* by the notification job.  A request reads the group, the vouches of the *)
(* voucher and those of the vouchee, judges, and only then stores its      *)
(* vouch; that a vouchee is to be notified is stored by replacing all of   *)
(* VouchData with what was read one step before, which the job that drains *)
(* the queue does as well.  A request or the job may end anywhere.         *)
(***************************************************************************)
EXTENDS Integers, Sequences, FiniteSets

CONSTANTS User,
          Founders,  \* the uploaders at first
          Vouchee,   \* bound: the users who are vouched for
          requiredCountOfVouches,
          Month,     \* for how long a vouch is recent
          Request,   \* request threads
          Edited,    \* bound: whom an admin may put into the group or remove
          MaxPosts,  \* bound: so many requests pass the check of the group
          MaxTime    \* bound: the time stops here

ASSUME VouchAssumption ==
    /\ Founders \subseteq User /\ Vouchee \subseteq User
    /\ requiredCountOfVouches \in Nat \ {0, 1}
    /\ Edited \subseteq User
    /\ Month \in Nat /\ MaxPosts \in Nat /\ MaxTime \in Nat

VARIABLES vouches,     \* VouchData: for every user his vouches, newest first
          notNotified, \* VouchData: those who are uploaders and not told
          uploaders,   \* the uploaders group
          now,
          req,         \* per request: what it does next, and what it holds
          job,         \* the notification job, likewise
          posts,       \* how many requests passed the check of the group
          given,       \* history: the vouches ever stored
          ever,        \* history: who was an uploader at some time
          told,        \* history: who was sent the notification
          excused,     \* history: whom an admin put into the group or
                       \* removed, or whose last request died
          overlapped,  \* history: those vouched for by overlapping requests
          reverted     \* history: those whose vouches were replaced by others

data    == <<vouches, notNotified>>
history == <<given, ever, told, excused, overlapped, reverted>>
vars    == <<data, uploaders, now, req, job, posts, history>>

VouchList == Seq([by : User, time : Nat])
VouchData == [vouches : [User -> VouchList], notNotified : SUBSET User]

Idle   == [at |-> "idle"]
Parties == [by : User, of : Vouchee, time : Nat]
Thread ==
    {Idle}
    \cup [at : {"own", "existing", "read", "join"}, for : Parties]
    \cup [at : {"put"}, for : Parties, existing : VouchList]
    \cup [at : {"enqueue"}, for : Parties, read : VouchData]
Job == {Idle} \cup [at : {"clear"}, read : VouchData] \cup [at : {"mail"}, queue : SUBSET User]

Become(r, new) == req' = [req EXCEPT ![r] = new]
End(r)         == Become(r, Idle)

-----------------------------------------------------------------------------
(* The judgement.  Each of its rules needs one of the reads and is applied *)
(* where that is read: a request that breaks one changes nothing.          *)

MayUseGroup(for) == for.by \in uploaders /\ for.of \notin uploaders

isWithinLastMonth(time, vouch) == vouch.time + Month >= time

(* Mutant: one old vouch is enough.                                        *)
TooNew_All(time, own) ==
    /\ Len(own) >= requiredCountOfVouches
    /\ \A i \in DOMAIN own : isWithinLastMonth(time, own[i])

TooNew(time, own) ==
    /\ Len(own) >= requiredCountOfVouches
    /\ \E i \in DOMAIN own : isWithinLastMonth(time, own[i])

(* Mutant: nobody looks who vouched before.                                *)
MayVouch_Twice(by, existing) == Len(existing) < requiredCountOfVouches

MayVouch(by, existing) ==
    /\ Len(existing) < requiredCountOfVouches
    /\ \A i \in DOMAIN existing : existing[i].by # by

(* Mutant: off by one.                                                     *)
Completes_TooLate(existing) == Len(existing) = requiredCountOfVouches

Completes(existing) == Len(existing) = requiredCountOfVouches - 1

-----------------------------------------------------------------------------
(* A request that vouches (handlePostVouch).                               *)

handlePostVouch(r) ==
    /\ req[r] = Idle
    /\ posts < MaxPosts /\ posts' = posts + 1
    /\ \E by \in User, of \in Vouchee :
           LET for == [by |-> by, of |-> of, time |-> now]
           IN  MayUseGroup(for) /\ Become(r, [at |-> "own", for |-> for])
    /\ UNCHANGED <<data, uploaders, now, job, history>>

vouchersForVoucher(r) ==
    /\ req[r].at = "own"
    /\ IF TooNew(req[r].for.time, vouches[req[r].for.by])
       THEN End(r) ELSE Become(r, [at |-> "existing", for |-> req[r].for])
    /\ UNCHANGED <<posts, data, uploaders, now, job, history>>

existingVouchers(r) ==
    /\ req[r].at = "existing"
    /\ LET for == req[r].for
           existing == vouches[for.of]
       IN  IF MayVouch(for.by, existing)
           THEN Become(r, [at |-> "put", for |-> for, existing |-> existing])
           ELSE End(r)
    /\ UNCHANGED <<posts, data, uploaders, now, job, history>>

Vouched(for) == <<[by |-> for.by, time |-> for.time]>> \o vouches[for.of]

putVouch(r) ==
    /\ req[r].at = "put"
    /\ LET for == req[r].for
       IN  /\ vouches' = [vouches EXCEPT ![for.of] = Vouched(for)]
           /\ IF Completes(req[r].existing)
              THEN Become(r, [at |-> "read", for |-> for]) ELSE End(r)
           /\ given' = given \cup {for}
           /\ overlapped' = IF vouches[for.of] # req[r].existing
                            THEN overlapped \cup {for.of} ELSE overlapped
    /\ UNCHANGED <<posts, notNotified, uploaders, now, job, ever, told, excused, reverted>>

getVouchesData(r) ==
    /\ req[r].at = "read"
    /\ Become(r, [at |-> "enqueue", for |-> req[r].for,
                  read |-> [vouches |-> vouches, notNotified |-> notNotified]])
    /\ UNCHANGED <<posts, data, uploaders, now, job, history>>

Replace(newVouches, newQueue) ==
    /\ vouches' = newVouches /\ notNotified' = newQueue
    /\ reverted' = reverted \cup {u \in User : newVouches[u] # vouches[u]}
    /\ UNCHANGED <<given, ever, told, excused, overlapped>>

(* Everything is replaced by what was read, with the vouchee in the queue. *)
replaceVouchesData(r) ==
    /\ req[r].at = "enqueue"
    /\ Replace(req[r].read.vouches, req[r].read.notNotified \cup {req[r].for.of})
    /\ Become(r, [at |-> "join", for |-> req[r].for])
    /\ UNCHANGED <<posts, uploaders, now, job>>

(* Mutant: the vouchee is not put into the group.                          *)
addUserToGroup_Not(r) ==
    /\ req[r].at = "join"
    /\ End(r)
    /\ UNCHANGED <<posts, data, uploaders, now, job, history>>

addUserToGroup(r) ==
    /\ req[r].at = "join"
    /\ uploaders' = uploaders \cup {req[r].for.of}
    /\ ever' = ever \cup {req[r].for.of}
    /\ End(r)
    /\ UNCHANGED <<posts, data, now, job, given, told, excused, overlapped, reverted>>

-----------------------------------------------------------------------------
(* The notification job (drainQueuedNotifications in notifyCronAction).    *)

drainQueuedNotifications ==
    /\ job = Idle
    /\ job' = [at |-> "clear", read |-> [vouches |-> vouches, notNotified |-> notNotified]]
    /\ UNCHANGED <<posts, data, uploaders, now, req, history>>

clearQueue ==
    /\ job.at = "clear"
    /\ Replace(job.read.vouches, {})
    /\ job' = [at |-> "mail", queue |-> job.read.notNotified]
    /\ UNCHANGED <<posts, uploaders, now, req>>

sendNotifyEmails ==
    /\ job.at = "mail"
    /\ told' = told \cup job.queue
    /\ job' = Idle
    /\ UNCHANGED <<posts, data, uploaders, now, req, given, ever, excused, overlapped, reverted>>

-----------------------------------------------------------------------------
(* Threads that die, admins who edit the group, and time.                  *)

Completing(r, u) == req[r].at \in {"read", "enqueue", "join"} /\ req[r].for.of = u

Abort(r) ==
    /\ req[r] # Idle
    /\ End(r)
    /\ excused' = excused \cup {u \in Vouchee : Completing(r, u)}
    /\ UNCHANGED <<posts, data, uploaders, now, job, given, ever, told, overlapped, reverted>>

AbortJob ==
    /\ job # Idle
    /\ job' = Idle
    /\ UNCHANGED <<posts, data, uploaders, now, req, history>>

groupAddUser ==
    /\ \E u \in Edited \ uploaders :
           /\ uploaders' = uploaders \cup {u} /\ ever' = ever \cup {u}
           /\ excused' = excused \cup {u}
    /\ UNCHANGED <<posts, data, now, req, job, given, told, overlapped, reverted>>

groupDeleteUser ==
    /\ \E u \in Edited \cap uploaders :
           uploaders' = uploaders \ {u} /\ excused' = excused \cup {u}
    /\ UNCHANGED <<posts, data, now, req, job, given, ever, told, overlapped, reverted>>

Tick ==
    /\ now < MaxTime
    /\ now' = now + 1
    /\ UNCHANGED <<posts, data, uploaders, req, job, history>>

Init ==
    /\ vouches = [u \in User |-> <<>>] /\ notNotified = {}
    /\ uploaders = Founders /\ now = 0
    /\ req = [r \in Request |-> Idle] /\ job = Idle
    /\ given = {} /\ ever = Founders /\ told = {}
    /\ excused = {} /\ overlapped = {} /\ reverted = {} /\ posts = 0

Post(r) ==
    \/ handlePostVouch(r) \/ vouchersForVoucher(r) \/ existingVouchers(r) \/ putVouch(r)
    \/ getVouchesData(r) \/ replaceVouchesData(r) \/ addUserToGroup(r)

Next ==
    \/ \E r \in Request : Post(r) \/ Abort(r)
    \/ drainQueuedNotifications \/ clearQueue \/ sendNotifyEmails \/ AbortJob
    \/ groupAddUser \/ groupDeleteUser
    \/ Tick

Spec == Init /\ [][Next]_vars

-----------------------------------------------------------------------------
(* Properties.                                                             *)

(* Vouches, requests and the job are well formed.                          *)
TypeOK ==
    /\ vouches \in [User -> VouchList] /\ notNotified \subseteq User
    /\ uploaders \subseteq User /\ now \in Nat /\ posts \in Nat
    /\ req \in [Request -> Thread] /\ job \in Job
    /\ given \subseteq Parties
    /\ ever \subseteq User /\ told \subseteq User
    /\ excused \subseteq User /\ overlapped \subseteq User /\ reverted \subseteq User

(* Whoever a request makes an uploader was vouched for by at least two     *)
(* users, whatever vouches were stored twice or lost on the way.           *)
SeveralVouchers ==
    [][\A u \in uploaders' \ uploaders : req' = req \/
           \E v, w \in given : v.of = u /\ w.of = u /\ v.by # w.by]_vars

(* Whoever became an uploader by vouches waits for a month after the       *)
(* newest of them before he vouches himself.  The code keeps this only for *)
(* users whose vouches were neither stored at the same time nor lost to a  *)
(* replacement, and who were not put into the group by an admin.           *)
NewUploadersWait ==
    [][\A v \in given' \ given :
           LET own == {w \in given : w.of = v.by}
           IN  \/ v.by \in overlapped \cup reverted \cup excused
               \/ Cardinality(own) < requiredCountOfVouches
               \/ \A w \in own : w.time + Month < v.time]_vars

(* The notification that somebody is an uploader goes only to one who is   *)
(* or was, or whose request to make him one is on its way or has died.     *)
NotificationsAreTrue ==
    \A u \in told : u \in ever \cup excused \/ \E r \in Request : Completing(r, u)

(* The page promises that a user with enough vouches will be added to the  *)
(* uploaders: he is one, about to be one, or was removed, or the request   *)
(* that would have added him died; or two requests vouched for him at the  *)
(* same time, and then he may be stuck for good.                           *)
EnoughUnlessOverlapped ==
    \A u \in User : Len(vouches[u]) >= requiredCountOfVouches =>
        u \in uploaders \cup excused \cup overlapped \/ \E r \in Request : Completing(r, u)
=============================================================================
