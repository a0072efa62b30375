---------------------------- MODULE Vouch_proofs ----------------------------
(***************************************************************************)
(* Theorems about Vouch: its types, that nobody becomes an uploader on one *)
(* user's word, that notifications are true, that enough vouches make an   *)
(* uploader unless requests overlapped, and that new uploaders wait, for   *)
(* any number of users and requests and whatever dies or is edited.        *)
(***************************************************************************)
EXTENDS Vouch, FiniteSetTheorems, TLAPS

-----------------------------------------------------------------------------
(* The threads.                                                            *)

Plain   == [at : {"own", "existing", "read", "join"}, for : Parties]
Storing == [at : {"put"}, for : Parties, existing : VouchList]
Queuing == [at : {"enqueue"}, for : Parties, read : VouchData]

Others(r) == \A q \in Request : q # r => req'[q] = req[q]

LEMMA ThreadKinds ==
    ASSUME req \in [Request -> Thread], NEW r \in Request
    PROVE  /\ req[r].at \in {"own", "existing", "read", "join"} => req[r] \in Plain
           /\ req[r].at = "put" => req[r] \in Storing
           /\ req[r].at = "enqueue" => req[r] \in Queuing
           /\ req[r] # Idle => req[r].for \in Parties
  BY DEF Thread, Idle, Plain, Storing, Queuing

LEMMA BecomeStep ==
    ASSUME req \in [Request -> Thread], NEW r \in Request, NEW t \in Thread, Become(r, t)
    PROVE  req' \in [Request -> Thread] /\ Others(r) /\ req'[r] = t
  BY DEF Become, Others

LEMMA EndStep ==
    ASSUME req \in [Request -> Thread], NEW r \in Request, End(r)
    PROVE  req' \in [Request -> Thread] /\ Others(r) /\ req'[r] = Idle
  BY DEF End, Become, Others, Thread

LEMMA OthersStay ==
    ASSUME req \in [Request -> Thread], NEW r \in Request, NEW t, Become(r, t)
    PROVE  Others(r)
  BY DEF Become, Others

LEMMA VouchedType ==
    ASSUME NEW for \in Parties, vouches \in [User -> VouchList]
    PROVE  /\ Vouched(for) \in VouchList
           /\ Len(Vouched(for)) = Len(vouches[for.of]) + 1
           /\ Vouched(for)[1] = [by |-> for.by, time |-> for.time]
           /\ \A i \in DOMAIN Vouched(for) : i # 1 =>
                  i - 1 \in DOMAIN vouches[for.of] /\ Vouched(for)[i] = vouches[for.of][i - 1]
  <1> DEFINE new == [by |-> for.by, time |-> for.time]
  <1>1. for.of \in User /\ new \in [by : User, time : Nat]
    BY VouchAssumption DEF Parties
  <1>2. vouches[for.of] \in Seq([by : User, time : Nat])
    BY <1>1 DEF VouchList
  <1> HIDE DEF new
  <1>3. Vouched(for) = <<new>> \o vouches[for.of]
    BY DEF Vouched, new
  <1>4. <<new>> \in Seq([by : User, time : Nat])
    BY <1>1
  <1>5. /\ Vouched(for) \in VouchList
        /\ Len(Vouched(for)) = Len(vouches[for.of]) + 1
        /\ Vouched(for)[1] = new
    BY <1>2, <1>3, <1>4 DEF VouchList
  <1>6. ASSUME NEW i \in DOMAIN Vouched(for), i # 1
        PROVE  i - 1 \in DOMAIN vouches[for.of] /\ Vouched(for)[i] = vouches[for.of][i - 1]
    BY <1>2, <1>3, <1>4, <1>5, <1>6 DEF VouchList
  <1> QED BY <1>5, <1>6 DEF new

-----------------------------------------------------------------------------
(* Types.                                                                  *)

(* The types: whatever requests, the job and admins do, what is stored and *)
(* what they hold stays well formed.                                       *)
THEOREM TypeCorrect == Spec => []TypeOK
  <1>1. Init => TypeOK
    <2> SUFFICES ASSUME Init PROVE TypeOK
      OBVIOUS
    <2>1. <<>> \in VouchList
      BY DEF VouchList
    <2> QED BY <2>1, VouchAssumption DEF Init, TypeOK, Thread, Job, Idle
  <1>2. TypeOK /\ [Next]_vars => TypeOK'
    <2> SUFFICES ASSUME TypeOK, [Next]_vars PROVE TypeOK'
      OBVIOUS
    <2> USE VouchAssumption
    <2>1. ASSUME NEW r \in Request, handlePostVouch(r) PROVE TypeOK'
      <3>1. PICK by \in User, of \in Vouchee :
               Become(r, [at |-> "own", for |-> [by |-> by, of |-> of, time |-> now]])
        BY <2>1 DEF handlePostVouch
      <3>2. [at |-> "own", for |-> [by |-> by, of |-> of, time |-> now]] \in Thread
        BY DEF Thread, Parties, TypeOK
      <3>3. req' \in [Request -> Thread]
        BY <3>1, <3>2, BecomeStep DEF TypeOK
      <3> QED BY <2>1, <3>3 DEF handlePostVouch, TypeOK, data, history
    <2>2. ASSUME NEW r \in Request, vouchersForVoucher(r) PROVE TypeOK'
      <3>1. req[r].for \in Parties
        BY <2>2, ThreadKinds DEF vouchersForVoucher, TypeOK, Plain
      <3>2. [at |-> "existing", for |-> req[r].for] \in Thread
        BY <3>1 DEF Thread
      <3>3. req' \in [Request -> Thread]
        BY <2>2, <3>2, BecomeStep, EndStep DEF vouchersForVoucher, TypeOK
      <3> QED BY <2>2, <3>3 DEF vouchersForVoucher, TypeOK, data, history
    <2>3. ASSUME NEW r \in Request, existingVouchers(r) PROVE TypeOK'
      <3>1. req[r].for \in Parties
        BY <2>3, ThreadKinds DEF existingVouchers, TypeOK, Plain
      <3>2. vouches[req[r].for.of] \in VouchList
        BY <3>1 DEF TypeOK, Parties
      <3>3. [at |-> "put", for |-> req[r].for, existing |-> vouches[req[r].for.of]] \in Thread
        BY <3>1, <3>2 DEF Thread
      <3>4. req' \in [Request -> Thread]
        BY <2>3, <3>3, BecomeStep, EndStep DEF existingVouchers, TypeOK
      <3> QED BY <2>3, <3>4 DEF existingVouchers, TypeOK, data, history
    <2>4. ASSUME NEW r \in Request, putVouch(r) PROVE TypeOK'
      <3>1. req[r].for \in Parties
        BY <2>4, ThreadKinds DEF putVouch, TypeOK, Storing
      <3>2. Vouched(req[r].for) \in VouchList
        BY <3>1, VouchedType DEF TypeOK
      <3>3. [at |-> "read", for |-> req[r].for] \in Thread
        BY <3>1 DEF Thread
      <3>4. req' \in [Request -> Thread]
        BY <2>4, <3>3, BecomeStep, EndStep DEF putVouch, TypeOK
      <3>5. vouches' \in [User -> VouchList] /\ given' \subseteq Parties /\ overlapped' \subseteq User
        BY <2>4, <3>1, <3>2 DEF putVouch, TypeOK, Parties
      <3> QED BY <2>4, <3>4, <3>5 DEF putVouch, TypeOK
    <2>5. ASSUME NEW r \in Request, getVouchesData(r) PROVE TypeOK'
      <3>1. req[r].for \in Parties
        BY <2>5, ThreadKinds DEF getVouchesData, TypeOK, Plain
      <3>2. [at |-> "enqueue", for |-> req[r].for,
             read |-> [vouches |-> vouches, notNotified |-> notNotified]] \in Thread
        BY <3>1 DEF Thread, VouchData, TypeOK
      <3>3. req' \in [Request -> Thread]
        BY <2>5, <3>2, BecomeStep DEF getVouchesData, TypeOK
      <3> QED BY <2>5, <3>3 DEF getVouchesData, TypeOK, data, history
    <2>6. ASSUME NEW r \in Request, replaceVouchesData(r) PROVE TypeOK'
      <3>1. req[r].for \in Parties /\ req[r].read \in VouchData
        BY <2>6, ThreadKinds DEF replaceVouchesData, TypeOK, Queuing
      <3>2. [at |-> "join", for |-> req[r].for] \in Thread
        BY <3>1 DEF Thread
      <3>3. req' \in [Request -> Thread]
        BY <2>6, <3>2, BecomeStep DEF replaceVouchesData, TypeOK
      <3> QED BY <2>6, <3>1, <3>3 DEF replaceVouchesData, Replace, VouchData, Parties, TypeOK
    <2>7. ASSUME NEW r \in Request, addUserToGroup(r) PROVE TypeOK'
      <3>1. req[r].for \in Parties
        BY <2>7, ThreadKinds DEF addUserToGroup, TypeOK, Plain
      <3>2. req' \in [Request -> Thread]
        BY <2>7, EndStep DEF addUserToGroup, TypeOK
      <3> QED BY <2>7, <3>1, <3>2 DEF addUserToGroup, TypeOK, Parties, data
    <2>8. ASSUME NEW r \in Request, Abort(r) PROVE TypeOK'
      <3>1. req' \in [Request -> Thread]
        BY <2>8, EndStep DEF Abort, TypeOK
      <3> QED BY <2>8, <3>1 DEF Abort, TypeOK, data
    <2>9. CASE drainQueuedNotifications
      <3>1. [vouches |-> vouches, notNotified |-> notNotified] \in VouchData
        BY DEF TypeOK, VouchData
      <3> QED BY <2>9, <3>1 DEF drainQueuedNotifications, TypeOK, Job, data, history
    <2>10. CASE clearQueue
      <3>1. job.read \in VouchData
        BY <2>10 DEF clearQueue, TypeOK, Job, Idle
      <3> QED BY <2>10, <3>1 DEF clearQueue, Replace, TypeOK, Job, VouchData
    <2>11. CASE sendNotifyEmails
      <3>1. job.queue \subseteq User
        BY <2>11 DEF sendNotifyEmails, TypeOK, Job, Idle
      <3> QED BY <2>11, <3>1 DEF sendNotifyEmails, TypeOK, Job, data
    <2>12. CASE AbortJob
      BY <2>12 DEF AbortJob, TypeOK, Job, data, history
    <2>13. CASE groupAddUser
      BY <2>13 DEF groupAddUser, TypeOK, data
    <2>14. CASE groupDeleteUser
      BY <2>14 DEF groupDeleteUser, TypeOK, data
    <2>15. CASE Tick
      BY <2>15 DEF Tick, TypeOK, data, history
    <2>16. CASE UNCHANGED vars
      BY <2>16 DEF vars, TypeOK, data, history
    <2> QED
      BY <2>1, <2>2, <2>3, <2>4, <2>5, <2>6, <2>7, <2>8, <2>9, <2>10, <2>11, <2>12,
         <2>13, <2>14, <2>15, <2>16 DEF Next, Post
  <1> QED BY <1>1, <1>2, PTL DEF Spec

-----------------------------------------------------------------------------
(* What holds of the vouches that are stored or held.  The operators take  *)
(* the state they speak of: the vouches given, the users for whom nothing  *)
(* is left to do (closed) and those who may be told (settled).  All three  *)
(* sets only ever grow.                                                    *)

Closed  == {u \in User : \/ u \in uploaders \cup excused \cup overlapped
                         \/ \E r \in Request : Completing(r, u)}
Settled == {u \in User : \/ u \in ever \cup excused
                         \/ \E r \in Request : Completing(r, u)}

(* Every vouch of the list was given for u.                                *)
Witnessed(g, list, u) ==
    \A i \in DOMAIN list : [by |-> list[i].by, of |-> u, time |-> list[i].time] \in g

(* u was vouched for by two users.                                         *)
Backed(g, u) == \E v, w \in g : v.of = u /\ w.of = u /\ v.by # w.by

VouchesOK(g, C, tbl) ==
    \A u \in User : /\ Witnessed(g, tbl[u], u)
                    /\ Len(tbl[u]) >= requiredCountOfVouches => u \in C

ThreadOK(g, C, S, t) ==
    /\ t.at = "put" =>
           /\ Witnessed(g, t.existing, t.for.of)
           /\ Len(t.existing) < requiredCountOfVouches
           /\ \A i \in DOMAIN t.existing : t.existing[i].by # t.for.by
    /\ t.at \in {"read", "enqueue", "join"} => Backed(g, t.for.of)
    /\ t.at = "enqueue" => VouchesOK(g, C, t.read.vouches) /\ t.read.notNotified \subseteq S

JobOK(g, C, S, j) ==
    /\ j.at = "clear" => VouchesOK(g, C, j.read.vouches) /\ j.read.notNotified \subseteq S
    /\ j.at = "mail" => j.queue \subseteq S

Inv ==
    /\ VouchesOK(given, Closed, vouches) /\ notNotified \subseteq Settled
    /\ \A r \in Request : ThreadOK(given, Closed, Settled, req[r])
    /\ JobOK(given, Closed, Settled, job)
    /\ told \subseteq Settled

LEMMA Monotone ==
    ASSUME NEW g, NEW C, NEW S, NEW g2, NEW C2, NEW S2,
           g \subseteq g2, C \subseteq C2, S \subseteq S2
    PROVE  /\ \A tbl : VouchesOK(g, C, tbl) => VouchesOK(g2, C2, tbl)
           /\ \A t : ThreadOK(g, C, S, t) => ThreadOK(g2, C2, S2, t)
           /\ \A j : JobOK(g, C, S, j) => JobOK(g2, C2, S2, j)
  <1>1. \A list, u : Witnessed(g, list, u) => Witnessed(g2, list, u)
    BY DEF Witnessed
  <1>2. \A u : Backed(g, u) => Backed(g2, u)
    BY DEF Backed
  <1>3. \A tbl : VouchesOK(g, C, tbl) => VouchesOK(g2, C2, tbl)
    BY <1>1 DEF VouchesOK
  <1>4. ASSUME NEW t, ThreadOK(g, C, S, t) PROVE ThreadOK(g2, C2, S2, t)
    BY <1>1, <1>2, <1>3, <1>4 DEF ThreadOK
  <1>5. ASSUME NEW j, JobOK(g, C, S, j) PROVE JobOK(g2, C2, S2, j)
    BY <1>3, <1>5 DEF JobOK
  <1> QED BY <1>3, <1>4, <1>5

(* The three sets grow.                                                    *)
Grown == given \subseteq given' /\ Closed \subseteq Closed' /\ Settled \subseteq Settled'

LEMMA GrownIfKept ==
    ASSUME given \subseteq given', ever \subseteq ever', excused \subseteq excused',
           overlapped \subseteq overlapped', uploaders \subseteq uploaders' \cup excused',
           \A r \in Request, u \in User :
               Completing(r, u) => \/ Completing(r, u)'
                                  \/ u \in excused' \/ (u \in uploaders' /\ u \in ever')
    PROVE  Grown
  <1>1. ASSUME NEW u \in Closed PROVE u \in Closed'
    <2>1. CASE u \in uploaders \cup excused \cup overlapped
      BY <1>1, <2>1 DEF Closed
    <2>2. CASE \E r \in Request : Completing(r, u)
      BY <1>1, <2>2 DEF Closed
    <2> QED BY <1>1, <2>1, <2>2 DEF Closed
  <1>2. ASSUME NEW u \in Settled PROVE u \in Settled'
    <2>1. CASE u \in ever \cup excused
      BY <1>2, <2>1 DEF Settled
    <2>2. CASE \E r \in Request : Completing(r, u)
      BY <1>2, <2>2 DEF Settled
    <2> QED BY <1>2, <2>1, <2>2 DEF Settled
  <1> QED BY <1>1, <1>2 DEF Grown

(* A step of a request that is not about to make anybody an uploader, or   *)
(* that goes on with it.                                                   *)
LEMMA CompletingKept ==
    ASSUME TypeOK, NEW r \in Request, Others(r),
           req[r].at \notin {"read", "enqueue", "join"} \/
               (req'[r].at \in {"read", "enqueue", "join"} /\ req'[r].for = req[r].for)
    PROVE  \A q \in Request, u \in User : Completing(q, u) => Completing(q, u)'
  BY DEF Others, Completing

LEMMA StepGrows ==
    ASSUME TypeOK, [Next]_vars PROVE Grown
  <1>1. ASSUME NEW r \in Request, handlePostVouch(r) PROVE Grown
    <2>1. Others(r) /\ req[r].at \notin {"read", "enqueue", "join"}
      BY <1>1 DEF handlePostVouch, Become, Others, Idle
    <2> QED BY <1>1, <2>1, CompletingKept, GrownIfKept DEF handlePostVouch, history
  <1>2. ASSUME NEW r \in Request, vouchersForVoucher(r) PROVE Grown
    <2>1. Others(r) /\ req[r].at \notin {"read", "enqueue", "join"}
      <3>1. PICK t : Become(r, t)
        BY <1>2 DEF vouchersForVoucher, End
      <3> QED BY <1>2, <3>1, OthersStay DEF vouchersForVoucher, TypeOK
    <2> QED BY <1>2, <2>1, CompletingKept, GrownIfKept DEF vouchersForVoucher, history
  <1>3. ASSUME NEW r \in Request, existingVouchers(r) PROVE Grown
    <2>1. Others(r) /\ req[r].at \notin {"read", "enqueue", "join"}
      <3>1. PICK t : Become(r, t)
        BY <1>3 DEF existingVouchers, End
      <3> QED BY <1>3, <3>1, OthersStay DEF existingVouchers, TypeOK
    <2> QED BY <1>3, <2>1, CompletingKept, GrownIfKept DEF existingVouchers, history
  <1>4. ASSUME NEW r \in Request, putVouch(r) PROVE Grown
    <2>1. Others(r) /\ req[r].at \notin {"read", "enqueue", "join"}
      <3>1. PICK t : Become(r, t)
        BY <1>4 DEF putVouch, End
      <3> QED BY <1>4, <3>1, OthersStay DEF putVouch, TypeOK
    <2> QED BY <1>4, <2>1, CompletingKept, GrownIfKept DEF putVouch
  <1>5. ASSUME NEW r \in Request, getVouchesData(r) PROVE Grown
    <2>1. Others(r) /\ req'[r].at = "enqueue" /\ req'[r].for = req[r].for
      BY <1>5 DEF getVouchesData, Become, Others, TypeOK
    <2> QED BY <1>5, <2>1, CompletingKept, GrownIfKept DEF getVouchesData, history
  <1>6. ASSUME NEW r \in Request, replaceVouchesData(r) PROVE Grown
    <2>1. Others(r) /\ req'[r].at = "join" /\ req'[r].for = req[r].for
      BY <1>6 DEF replaceVouchesData, Become, Others, TypeOK
    <2> QED BY <1>6, <2>1, CompletingKept, GrownIfKept DEF replaceVouchesData, Replace
  <1>7. ASSUME NEW r \in Request, addUserToGroup(r) PROVE Grown
    <2>1. Others(r)
      BY <1>7 DEF addUserToGroup, End, Become, Others
    <2>2. ASSUME NEW q \in Request, NEW u \in User, Completing(q, u)
          PROVE  Completing(q, u)' \/ (u \in uploaders' /\ u \in ever')
      BY <1>7, <2>1, <2>2 DEF addUserToGroup, Completing, Others
    <2> QED BY <1>7, <2>2, GrownIfKept DEF addUserToGroup
  <1>8. ASSUME NEW r \in Request, Abort(r) PROVE Grown
    <2>1. Others(r)
      BY <1>8 DEF Abort, End, Become, Others
    <2>2. ASSUME NEW q \in Request, NEW u \in User, Completing(q, u)
          PROVE  Completing(q, u)' \/ u \in excused'
      <3>1. CASE q = r
        <4>1. req[r].for \in Parties
          BY <1>8, ThreadKinds DEF Abort, TypeOK
        <4>2. u \in Vouchee
          BY <2>2, <3>1, <4>1 DEF Completing, Parties
        <4> QED BY <1>8, <2>2, <3>1, <4>2 DEF Abort
      <3>2. CASE q # r
        BY <2>1, <2>2, <3>2 DEF Completing, Others
      <3> QED BY <3>1, <3>2
    <2> QED BY <1>8, <2>2, GrownIfKept DEF Abort
  <1>9. CASE req' = req /\ given' = given /\ ever' = ever /\ overlapped' = overlapped
             /\ excused' = excused /\ uploaders' = uploaders
    BY <1>9, GrownIfKept DEF Completing
  <1>10. CASE groupAddUser \/ groupDeleteUser
    <2>1. req' = req
      BY <1>10 DEF groupAddUser, groupDeleteUser
    <2>2. \A q \in Request, u \in User : Completing(q, u) => Completing(q, u)'
      BY <2>1 DEF Completing
    <2> QED BY <1>10, <2>2, GrownIfKept DEF groupAddUser, groupDeleteUser
  <1>11. CASE drainQueuedNotifications \/ clearQueue \/ sendNotifyEmails \/ AbortJob \/ Tick
    BY <1>9, <1>11
       DEF drainQueuedNotifications, clearQueue, Replace, sendNotifyEmails, AbortJob, Tick, history
  <1>12. CASE UNCHANGED vars
    BY <1>9, <1>12 DEF vars, history
  <1> QED
    BY <1>1, <1>2, <1>3, <1>4, <1>5, <1>6, <1>7, <1>8, <1>10, <1>11, <1>12 DEF Next, Post

-----------------------------------------------------------------------------
(* The invariant is inductive.                                             *)

LEMMA InvInit == ASSUME Init PROVE Inv
  <1>1. VouchesOK(given, Closed, vouches)
    BY VouchAssumption DEF Init, VouchesOK, Witnessed
  <1>2. \A r \in Request : ThreadOK(given, Closed, Settled, req[r])
    BY DEF Init, ThreadOK, Idle
  <1>3. JobOK(given, Closed, Settled, job)
    BY DEF Init, JobOK, Idle
  <1> QED BY <1>1, <1>2, <1>3 DEF Init, Inv

(* The parts of the invariant after a step, from those the step changes.   *)
LEMMA InvParts ==
    ASSUME VouchesOK(given', Closed', vouches'), notNotified' \subseteq Settled',
           \A r \in Request : ThreadOK(given', Closed', Settled', req'[r]),
           JobOK(given', Closed', Settled', job'), told' \subseteq Settled'
    PROVE  Inv'
  BY DEF Inv

(* A thread that holds no judgement yet, or none any more.                 *)
LEMMA NothingHeld ==
    ASSUME NEW g, NEW C, NEW S, NEW t, t.at \notin {"put", "read", "enqueue", "join"}
    PROVE  ThreadOK(g, C, S, t)
  BY DEF ThreadOK

LEMMA OneThread ==
    ASSUME NEW r \in Request, Others(r), req \in [Request -> Thread],
           \A q \in Request : ThreadOK(given', Closed', Settled', req[q]),
           ThreadOK(given', Closed', Settled', req'[r])
    PROVE  \A q \in Request : ThreadOK(given', Closed', Settled', req'[q])
  BY DEF Others

(* A user whose request goes on to make him an uploader is closed, and     *)
(* settled.                                                                *)
LEMMA InClosed ==
    ASSUME NEW r \in Request, NEW u \in User,
           req'[r].at \in {"read", "enqueue", "join"}, req'[r].for.of = u
    PROVE  u \in Closed' /\ u \in Settled'
  <1>1. \E q \in Request : req'[q].at \in {"read", "enqueue", "join"} /\ req'[q].for.of = u
    OBVIOUS
  <1> QED BY <1>1 DEF Closed, Settled, Completing

LEMMA StoredVouch ==
    ASSUME TypeOK, Inv, NEW r \in Request, putVouch(r),
           VouchesOK(given', Closed', vouches), ThreadOK(given', Closed', Settled', req[r])
    PROVE  /\ VouchesOK(given', Closed', vouches')
           /\ ThreadOK(given', Closed', Settled', req'[r])
  <1> DEFINE for == req[r].for
             existing == req[r].existing
  <1>1. for \in Parties /\ existing \in VouchList
    BY ThreadKinds DEF putVouch, TypeOK, Storing
  <1>2. for.of \in User /\ for.by \in User /\ for.time \in Nat
        /\ for = [by |-> for.by, of |-> for.of, time |-> for.time]
    BY <1>1, VouchAssumption DEF Parties
  <1>3. /\ vouches' = [vouches EXCEPT ![for.of] = Vouched(for)]
        /\ for \in given'
        /\ vouches[for.of] # existing => for.of \in overlapped'
        /\ Completes(existing) => Become(r, [at |-> "read", for |-> for])
        /\ ~Completes(existing) => End(r)
    BY DEF putVouch
  <1>4. /\ Witnessed(given', existing, for.of)
        /\ Len(existing) < requiredCountOfVouches
        /\ \A i \in DOMAIN existing : existing[i].by # for.by
    BY DEF ThreadOK, putVouch
  <1>5. vouches'[for.of] = Vouched(for) /\ \A u \in User : u # for.of => vouches'[u] = vouches[u]
    BY <1>2, <1>3 DEF TypeOK
  <1>6. req'[r] = IF Completes(existing) THEN [at |-> "read", for |-> for] ELSE Idle
    BY <1>3 DEF Become, End, TypeOK
  <1>7. Witnessed(given', Vouched(for), for.of)
    <2> SUFFICES ASSUME NEW i \in DOMAIN Vouched(for)
                 PROVE  [by |-> Vouched(for)[i].by, of |-> for.of,
                         time |-> Vouched(for)[i].time] \in given'
      BY DEF Witnessed
    <2>1. CASE i = 1
      <3>1. Vouched(for)[1] = [by |-> for.by, time |-> for.time]
        BY <1>1, VouchedType DEF TypeOK
      <3>2. Vouched(for)[i].by = for.by /\ Vouched(for)[i].time = for.time
        BY <2>1, <3>1
      <3>3. [by |-> Vouched(for)[i].by, of |-> for.of, time |-> Vouched(for)[i].time] = for
        BY <1>2, <3>2
      <3> QED BY <1>3, <3>3
    <2>2. CASE i # 1
      <3>1. i - 1 \in DOMAIN vouches[for.of] /\ Vouched(for)[i] = vouches[for.of][i - 1]
        BY <1>1, <2>2, VouchedType DEF TypeOK
      <3>2. Witnessed(given', vouches[for.of], for.of)
        BY <1>2 DEF VouchesOK
      <3> QED BY <3>1, <3>2 DEF Witnessed
    <2> QED BY <2>1, <2>2
  <1>8. Len(Vouched(for)) >= requiredCountOfVouches => for.of \in Closed'
    <2> SUFFICES ASSUME Len(Vouched(for)) >= requiredCountOfVouches
                 PROVE  for.of \in Closed'
      OBVIOUS
    <2>1. CASE vouches[for.of] # existing
      BY <1>2, <1>3, <2>1 DEF Closed
    <2>2. CASE vouches[for.of] = existing
      <3>1. Len(Vouched(for)) = Len(existing) + 1 /\ Len(existing) \in Nat
        <4>1. Len(Vouched(for)) = Len(vouches[for.of]) + 1
          BY <1>1, VouchedType DEF TypeOK
        <4>2. Len(existing) \in Nat
          BY <1>1 DEF VouchList
        <4> QED BY <2>2, <4>1, <4>2
      <3>2. Completes(existing)
        BY <1>4, <3>1, VouchAssumption DEF Completes
      <3>3. req'[r].at = "read" /\ req'[r].for.of = for.of
        BY <1>6, <3>2
      <3> QED BY <1>2, <3>3, InClosed
    <2> QED BY <2>1, <2>2
  <1>9. VouchesOK(given', Closed', vouches')
    <2> SUFFICES ASSUME NEW u \in User
                 PROVE  /\ Witnessed(given', vouches'[u], u)
                        /\ Len(vouches'[u]) >= requiredCountOfVouches => u \in Closed'
      BY DEF VouchesOK
    <2>1. CASE u = for.of
      BY <1>5, <1>7, <1>8, <2>1
    <2>2. CASE u # for.of
      BY <1>5, <2>2 DEF VouchesOK
    <2> QED BY <2>1, <2>2
  <1>10. CASE Completes(existing)
    <2>1. 1 \in DOMAIN existing
      BY <1>1, <1>10, VouchAssumption DEF Completes, VouchList
    <2> DEFINE v == [by |-> existing[1].by, of |-> for.of, time |-> existing[1].time]
    <2>2. v \in given'
      BY <1>4, <2>1 DEF Witnessed
    <2>3. v.of = for.of /\ v.by # for.by
      BY <1>4, <2>1
    <2>4. Backed(given', for.of)
      BY <1>3, <2>2, <2>3 DEF Backed
    <2>5. req'[r].at = "read" /\ req'[r].for.of = for.of
      BY <1>6, <1>10
    <2>6. ThreadOK(given', Closed', Settled', req'[r])
      BY <2>4, <2>5 DEF ThreadOK
    <2> QED BY <1>9, <2>6
  <1>11. CASE ~Completes(existing)
    BY <1>6, <1>9, <1>11, NothingHeld DEF Idle
  <1> QED BY <1>10, <1>11

LEMMA InvNext ==
    ASSUME TypeOK, TypeOK', Inv, [Next]_vars PROVE Inv'
  <1>1. Grown
    BY StepGrows
  <1>2. /\ \A tbl : VouchesOK(given, Closed, tbl) => VouchesOK(given', Closed', tbl)
        /\ \A t : ThreadOK(given, Closed, Settled, t) => ThreadOK(given', Closed', Settled', t)
        /\ \A j : JobOK(given, Closed, Settled, j) => JobOK(given', Closed', Settled', j)
    BY <1>1, Monotone DEF Grown
  <1>3. /\ VouchesOK(given', Closed', vouches) /\ notNotified \subseteq Settled'
        /\ \A q \in Request : ThreadOK(given', Closed', Settled', req[q])
        /\ JobOK(given', Closed', Settled', job)
        /\ told \subseteq Settled'
    BY <1>1, <1>2 DEF Inv, Grown
  <1>4. ASSUME UNCHANGED <<data, job, told>>, NEW r \in Request, NEW t \in Thread,
               Become(r, t), ThreadOK(given', Closed', Settled', t)
        PROVE  Inv'
    <2>1. req'[r] = t /\ Others(r)
      BY <1>4, BecomeStep DEF TypeOK
    <2>2. \A q \in Request : ThreadOK(given', Closed', Settled', req'[q])
      BY <1>3, <1>4, <2>1, OneThread DEF TypeOK
    <2> QED BY <1>3, <1>4, <2>2, InvParts DEF data
  <1>5. ASSUME UNCHANGED <<data, job, told>>, NEW r \in Request, End(r) PROVE Inv'
    <2>1. Idle \in Thread /\ ThreadOK(given', Closed', Settled', Idle)
      BY NothingHeld DEF Thread, Idle
    <2> QED BY <1>4, <1>5, <2>1 DEF End
  <1>6. ASSUME NEW r \in Request, handlePostVouch(r) PROVE Inv'
    <2>1. PICK by \in User, of \in Vouchee :
             Become(r, [at |-> "own", for |-> [by |-> by, of |-> of, time |-> now]])
      BY <1>6 DEF handlePostVouch
    <2> DEFINE t == [at |-> "own", for |-> [by |-> by, of |-> of, time |-> now]]
    <2>2. t \in Thread
      BY DEF Thread, Parties, TypeOK
    <2>3. ThreadOK(given', Closed', Settled', t)
      BY NothingHeld
    <2>4. UNCHANGED <<data, job, told>>
      BY <1>6 DEF handlePostVouch, history
    <2> HIDE DEF t
    <2> QED BY <1>4, <2>1, <2>2, <2>3, <2>4 DEF t
  <1>7. ASSUME NEW r \in Request, vouchersForVoucher(r) PROVE Inv'
    <2> DEFINE t == [at |-> "existing", for |-> req[r].for]
    <2>1. t \in Thread
      BY <1>7, ThreadKinds DEF vouchersForVoucher, TypeOK, Plain, Thread
    <2>2. ThreadOK(given', Closed', Settled', t)
      BY NothingHeld
    <2>3. UNCHANGED <<data, job, told>> /\ (End(r) \/ Become(r, t))
      BY <1>7 DEF vouchersForVoucher, history
    <2> HIDE DEF t
    <2> QED BY <1>4, <1>5, <2>1, <2>2, <2>3
  <1>8. ASSUME NEW r \in Request, existingVouchers(r) PROVE Inv'
    <2> DEFINE for == req[r].for
               t == [at |-> "put", for |-> for, existing |-> vouches[for.of]]
    <2>1. for \in Parties /\ for.of \in User
      BY <1>8, ThreadKinds, VouchAssumption DEF existingVouchers, TypeOK, Plain, Parties
    <2>2. t \in Thread
      BY <2>1 DEF TypeOK, Thread
    <2>3. UNCHANGED <<data, job, told>>
          /\ (End(r) \/ (MayVouch(for.by, vouches[for.of]) /\ Become(r, t)))
      BY <1>8 DEF existingVouchers, history
    <2>4. CASE MayVouch(for.by, vouches[for.of]) /\ Become(r, t)
      <3>1. Witnessed(given', vouches[for.of], for.of)
        BY <1>3, <2>1 DEF VouchesOK
      <3>2. ThreadOK(given', Closed', Settled', t)
        BY <2>4, <3>1 DEF ThreadOK, MayVouch
      <3> HIDE DEF t
      <3> QED BY <1>4, <2>2, <2>3, <2>4, <3>2
    <2> HIDE DEF t
    <2> QED BY <1>5, <2>3, <2>4
  <1>9. ASSUME NEW r \in Request, putVouch(r) PROVE Inv'
    <2>1. VouchesOK(given', Closed', vouches') /\ ThreadOK(given', Closed', Settled', req'[r])
      BY <1>3, <1>9, StoredVouch
    <2>2. Others(r)
      <3>1. PICK t : Become(r, t)
        BY <1>9 DEF putVouch, End
      <3> QED BY <3>1, OthersStay DEF TypeOK
    <2>3. \A q \in Request : ThreadOK(given', Closed', Settled', req'[q])
      BY <1>3, <2>1, <2>2, OneThread DEF TypeOK
    <2>4. notNotified' = notNotified /\ job' = job /\ told' = told
      BY <1>9 DEF putVouch
    <2> QED BY <1>3, <2>1, <2>3, <2>4, InvParts
  <1>10. ASSUME NEW r \in Request, getVouchesData(r) PROVE Inv'
    <2> DEFINE t == [at |-> "enqueue", for |-> req[r].for,
                     read |-> [vouches |-> vouches, notNotified |-> notNotified]]
    <2>1. t \in Thread
      BY <1>10, ThreadKinds DEF getVouchesData, TypeOK, Plain, Thread, VouchData
    <2>2. Backed(given', req[r].for.of)
      BY <1>3, <1>10 DEF ThreadOK, getVouchesData
    <2>3. ThreadOK(given', Closed', Settled', t)
      BY <1>3, <2>2 DEF ThreadOK
    <2>4. UNCHANGED <<data, job, told>> /\ Become(r, t)
      BY <1>10 DEF getVouchesData, history
    <2> HIDE DEF t
    <2> QED BY <1>4, <2>1, <2>3, <2>4
  <1>11. ASSUME NEW r \in Request, replaceVouchesData(r) PROVE Inv'
    <2> DEFINE t == [at |-> "join", for |-> req[r].for]
    <2>1. req[r].for \in Parties /\ req[r].for.of \in User
      BY <1>11, ThreadKinds, VouchAssumption DEF replaceVouchesData, TypeOK, Queuing, Parties
    <2>2. t \in Thread
      BY <2>1 DEF Thread
    <2>3. Others(r) /\ req'[r] = t
      BY <1>11, <2>2, BecomeStep DEF replaceVouchesData, TypeOK
    <2>4. /\ Backed(given', req[r].for.of)
          /\ VouchesOK(given', Closed', req[r].read.vouches)
          /\ req[r].read.notNotified \subseteq Settled'
      BY <1>3, <1>11 DEF ThreadOK, replaceVouchesData
    <2>5. req[r].for.of \in Settled'
      BY <2>1, <2>3, InClosed
    <2>6. ThreadOK(given', Closed', Settled', req'[r])
      BY <2>3, <2>4 DEF ThreadOK
    <2>7. \A q \in Request : ThreadOK(given', Closed', Settled', req'[q])
      BY <1>3, <2>3, <2>6, OneThread DEF TypeOK
    <2>8. /\ vouches' = req[r].read.vouches /\ job' = job /\ told' = told
          /\ notNotified' = req[r].read.notNotified \cup {req[r].for.of}
      BY <1>11 DEF replaceVouchesData, Replace
    <2>9. VouchesOK(given', Closed', vouches') /\ notNotified' \subseteq Settled'
      BY <2>4, <2>5, <2>8
    <2> QED BY <1>3, <2>7, <2>8, <2>9, InvParts
  <1>12. ASSUME NEW r \in Request, addUserToGroup(r) PROVE Inv'
    BY <1>5, <1>12 DEF addUserToGroup
  <1>13. ASSUME NEW r \in Request, Abort(r) PROVE Inv'
    BY <1>5, <1>13 DEF Abort
  <1>14. ASSUME req' = req, VouchesOK(given', Closed', vouches'),
                notNotified' \subseteq Settled', told' \subseteq Settled',
                JobOK(given', Closed', Settled', job')
         PROVE  Inv'
    BY <1>3, <1>14, InvParts
  <1>15. CASE drainQueuedNotifications
    <2>1. UNCHANGED <<req, vouches, notNotified, told>>
          /\ job' = [at |-> "clear", read |-> [vouches |-> vouches, notNotified |-> notNotified]]
      BY <1>15 DEF drainQueuedNotifications, data, history
    <2>2. JobOK(given', Closed', Settled', job')
      BY <1>3, <2>1 DEF JobOK
    <2> QED BY <1>3, <1>14, <2>1, <2>2
  <1>16. CASE clearQueue
    <2>1. /\ vouches' = job.read.vouches /\ notNotified' = {} /\ req' = req /\ told' = told
          /\ job' = [at |-> "mail", queue |-> job.read.notNotified]
      BY <1>16 DEF clearQueue, Replace
    <2>2. VouchesOK(given', Closed', job.read.vouches) /\ job.read.notNotified \subseteq Settled'
      BY <1>3, <1>16 DEF clearQueue, JobOK
    <2>3. JobOK(given', Closed', Settled', job')
      BY <2>1, <2>2 DEF JobOK
    <2> QED BY <1>3, <1>14, <2>1, <2>2, <2>3
  <1>17. CASE sendNotifyEmails
    <2>1. /\ UNCHANGED <<req, vouches, notNotified>>
          /\ told' = told \cup job.queue /\ job' = Idle
      BY <1>17 DEF sendNotifyEmails, data
    <2>2. job.queue \subseteq Settled'
      BY <1>3, <1>17 DEF sendNotifyEmails, JobOK
    <2>3. JobOK(given', Closed', Settled', job')
      BY <2>1 DEF JobOK, Idle
    <2> QED BY <1>3, <1>14, <2>1, <2>2, <2>3
  <1>18. CASE AbortJob
    <2>1. UNCHANGED <<req, vouches, notNotified, told>> /\ job' = Idle
      BY <1>18 DEF AbortJob, data, history
    <2>2. JobOK(given', Closed', Settled', job')
      BY <2>1 DEF JobOK, Idle
    <2> QED BY <1>3, <1>14, <2>1, <2>2
  <1>19. ASSUME UNCHANGED <<req, vouches, notNotified, told, job>> PROVE Inv'
    BY <1>3, <1>14, <1>19
  <1>20. CASE groupAddUser \/ groupDeleteUser \/ Tick \/ UNCHANGED vars
    BY <1>19, <1>20 DEF groupAddUser, groupDeleteUser, Tick, vars, data, history
  <1> QED
    BY <1>6, <1>7, <1>8, <1>9, <1>10, <1>11, <1>12, <1>13, <1>15, <1>16, <1>17, <1>18, <1>20
       DEF Next, Post

LEMMA AlwaysInv == Spec => []Inv
  <1>1. TypeOK /\ TypeOK' /\ Inv /\ [Next]_vars => Inv'
    BY InvNext
  <1> QED BY <1>1, InvInit, TypeCorrect, PTL DEF Spec

-----------------------------------------------------------------------------
(* The properties.                                                         *)

(* Whomever a request makes an uploader, two users vouched for him: the    *)
(* check of handlePostVouch against what it read is enough, whatever was   *)
(* stored twice or lost since.                                             *)
THEOREM SeveralVouchersHold == Spec => SeveralVouchers
  <1> DEFINE Step == \A u \in uploaders' \ uploaders : req' = req \/
                         \E v, w \in given : v.of = u /\ w.of = u /\ v.by # w.by
  <1>1. Inv /\ [Next]_vars => [Step]_vars
    <2> SUFFICES ASSUME Inv, [Next]_vars PROVE Step
      OBVIOUS
    <2>1. CASE uploaders' = uploaders
      BY <2>1
    <2>2. CASE req' = req
      BY <2>2
    <2>3. ASSUME NEW r \in Request, addUserToGroup(r) PROVE Step
      <3>1. Backed(given, req[r].for.of)
        BY <2>3 DEF Inv, ThreadOK, addUserToGroup
      <3>2. uploaders' = uploaders \cup {req[r].for.of}
        BY <2>3 DEF addUserToGroup
      <3> QED BY <3>1, <3>2 DEF Backed
    <2>4. ASSUME NEW r \in Request, Post(r) \/ Abort(r), ~addUserToGroup(r) PROVE Step
      <3>1. uploaders' = uploaders
        BY <2>4 DEF Post, Abort, handlePostVouch, vouchersForVoucher, existingVouchers,
                    putVouch, getVouchesData, replaceVouchesData
      <3> QED BY <2>1, <3>1
    <2>5. CASE drainQueuedNotifications \/ clearQueue \/ sendNotifyEmails \/ AbortJob
               \/ groupAddUser \/ groupDeleteUser \/ Tick \/ UNCHANGED vars
      <3>1. req' = req
        BY <2>5 DEF drainQueuedNotifications, clearQueue, sendNotifyEmails, AbortJob,
                    groupAddUser, groupDeleteUser, Tick, vars
      <3> QED BY <2>2, <3>1
    <2> QED BY <2>3, <2>4, <2>5 DEF Next
  <1> QED BY <1>1, AlwaysInv, PTL DEF Spec, SeveralVouchers

(* Nobody is told that he is an uploader who is not, was not and is not    *)
(* about to be, unless the request that would have made him one died.      *)
THEOREM NotificationsHold == Spec => []NotificationsAreTrue
  <1>1. Inv => NotificationsAreTrue
    BY DEF Inv, Settled, NotificationsAreTrue
  <1> QED BY <1>1, AlwaysInv, PTL

(* Whoever has enough vouches is an uploader or about to be one, but for   *)
(* those for whom two requests vouched at once and those whom admins       *)
(* edited or whose last request died.                                      *)
THEOREM EnoughHolds == Spec => []EnoughUnlessOverlapped
  <1>1. Inv => EnoughUnlessOverlapped
    BY DEF Inv, VouchesOK, Closed, EnoughUnlessOverlapped
  <1> QED BY <1>1, AlwaysInv, PTL-----------------------------------------------------------------------------
(* New uploaders wait.  Of a user for whom nobody excuses the rule, every  *)
(* vouch ever given is still stored; if he is an uploader they are as many *)
(* as are required, and no more come, or he is a founder for whom nobody   *)
(* vouches; and a request of his that passed the rule would pass it still. *)

Touched     == overlapped \cup reverted \cup excused
Full(u)     == Len(vouches[u]) >= requiredCountOfVouches
Founding(u) == /\ u \in uploaders /\ vouches[u] = <<>>
               /\ \A r \in Request : req[r] # Idle => req[r].for.of # u

StoredIn(g, u, list) ==
    \A w \in g : w.of = u => \E i \in DOMAIN list : list[i].by = w.by /\ list[i].time = w.time
AllStored(u) == StoredIn(given, u, vouches[u])
WaitsFor(u, r) ==
    /\ Completing(r, u) => Full(u)
    /\ req[r].at \in {"own", "existing", "put"} /\ req[r].for.by = u => u \in ever
    /\ req[r].at \in {"existing", "put"} /\ req[r].for.by = u =>
           ~TooNew(req[r].for.time, vouches[u])

Waiting ==
    /\ uploaders \subseteq ever
    /\ \A r \in Request : req[r].at = "put" => Len(req[r].existing) < requiredCountOfVouches
    /\ \A u \in User \ Touched :
           /\ AllStored(u)
           /\ u \in ever => Full(u) \/ Founding(u)
           /\ \A r \in Request : WaitsFor(u, r)

LEMMA WaitingInit == Init => Waiting
  BY DEF Init, Waiting, Touched, AllStored, StoredIn, Full, Founding, WaitsFor, Completing, Idle

(* How a thread goes on, short of storing its vouch.                       *)
GoesOn(r) ==
    \/ req'[r] = req[r]
    \/ req'[r] = Idle
    \/ /\ req'[r].at = "own"
       /\ req'[r].for.by \in uploaders /\ req'[r].for.of \notin uploaders
    \/ /\ req[r] # Idle /\ req'[r].for = req[r].for
       /\ \/ /\ req[r].at = "own" /\ req'[r].at = "existing"
             /\ ~TooNew(req[r].for.time, vouches[req[r].for.by])
          \/ /\ req[r].at = "existing" /\ req'[r].at = "put"
             /\ Len(req'[r].existing) < requiredCountOfVouches
          \/ Completing(r, req[r].for.of) /\ req'[r].at \in {"read", "enqueue", "join"}

LEMMA WaitingKept ==
    ASSUME Waiting, \A r \in Request : GoesOn(r),
           Touched \subseteq Touched', ever \subseteq ever', uploaders' \subseteq ever',
           given' = given,
           \A u \in User \ Touched' :
               /\ vouches'[u] = vouches[u]
               /\ u \in ever' => u \in ever \/ Full(u)
               /\ u \in uploaders => u \in uploaders'
    PROVE  Waiting'
  <1>1. ASSUME NEW r \in Request, req'[r].at = "put"
        PROVE  Len(req'[r].existing) < requiredCountOfVouches
    BY <1>1 DEF Waiting, GoesOn, Idle
  <1>2. ASSUME NEW u \in User \ Touched'
        PROVE  /\ AllStored(u)'
               /\ (u \in ever => Full(u) \/ Founding(u))'
               /\ \A r \in Request : WaitsFor(u, r)'
    <2>1. /\ AllStored(u) /\ vouches'[u] = vouches[u]
          /\ u \in ever => Full(u) \/ Founding(u)
          /\ \A r \in Request : WaitsFor(u, r)
      BY <1>2 DEF Waiting
    <2>2. AllStored(u)' /\ (Full(u) => Full(u)')
      BY <2>1 DEF AllStored, Full
    <2>3. Founding(u) => Founding(u)'
      BY <1>2, <2>1 DEF Founding, GoesOn
    <2>4. ASSUME NEW r \in Request PROVE WaitsFor(u, r)'
      <3>1. WaitsFor(u, r) /\ GoesOn(r)
        BY <2>1
      <3>2. \A t : TooNew(t, vouches[u])' <=> TooNew(t, vouches[u])
        BY <2>1 DEF TooNew, isWithinLastMonth
      <3>3. uploaders \subseteq ever
        BY DEF Waiting
      <3> QED
        BY <2>1, <2>2, <3>1, <3>2, <3>3 DEF WaitsFor, GoesOn, Completing, Idle
    <2> QED
      BY <1>2, <2>1, <2>2, <2>3, <2>4
  <1> QED
    BY <1>1, <1>2 DEF Waiting

LEMMA ElementsOf ==
    ASSUME NEW S, NEW list \in Seq(S) PROVE \A i \in DOMAIN list : list[i] \in S
  OBVIOUS

LEMMA VouchTimes ==
    ASSUME NEW list \in VouchList PROVE \A i \in DOMAIN list : list[i].time \in Nat
  <1>1. \A i \in DOMAIN list : list[i] \in [by : User, time : Nat]
    BY ElementsOf DEF VouchList
  <1> QED
    BY <1>1

LEMMA Prepended ==
    ASSUME NEW S, NEW list \in Seq(S), NEW new \in S
    PROVE  /\ 1 \in DOMAIN (<<new>> \o list) /\ (<<new>> \o list)[1] = new
           /\ \A i \in DOMAIN list : /\ i + 1 \in DOMAIN (<<new>> \o list)
                                     /\ (<<new>> \o list)[i + 1] = list[i]
  OBVIOUS

LEMMA StoredInMore ==
    ASSUME NEW g, NEW for \in Parties, vouches \in [User -> VouchList],
           StoredIn(g, for.of, vouches[for.of])
    PROVE  StoredIn(g \cup {for}, for.of, Vouched(for))
  <1>1. PICK list : list = vouches[for.of] /\ list \in Seq([by : User, time : Nat])
    BY VouchAssumption DEF Parties, VouchList
  <1>2. PICK new : new = [by |-> for.by, time |-> for.time]
    OBVIOUS
  <1>3. Vouched(for) = <<new>> \o list
    BY <1>1, <1>2 DEF Vouched
  <1>4. new \in [by : User, time : Nat]
    BY <1>2, VouchAssumption DEF Parties
  <1>5. 1 \in DOMAIN Vouched(for) /\ Vouched(for)[1].by = for.by /\ Vouched(for)[1].time = for.time
    BY <1>1, <1>2, <1>3, <1>4, Prepended
  <1>6. \A i \in DOMAIN list : i + 1 \in DOMAIN Vouched(for) /\ Vouched(for)[i + 1] = list[i]
    BY <1>1, <1>3, <1>4, Prepended
  <1>7. \A w \in g : w.of = for.of =>
            \E i \in DOMAIN list : list[i].by = w.by /\ list[i].time = w.time
    BY <1>1 DEF StoredIn
  <1>8. \A w \in g \cup {for} : w.of = for.of =>
            \E i \in DOMAIN Vouched(for) :
                Vouched(for)[i].by = w.by /\ Vouched(for)[i].time = w.time
    BY <1>5, <1>6, <1>7
  <1> QED
    BY <1>8 DEF StoredIn

(* The one step that stores a vouch: for somebody who is no uploader yet,  *)
(* unless requests for him overlapped.                                     *)
LEMMA WaitingStored ==
    ASSUME TypeOK, Waiting, NEW r \in Request, putVouch(r)
    PROVE  Waiting'
  <1> DEFINE for == req[r].for
             existing == req[r].existing
  <1>1. for \in Parties /\ existing \in VouchList
    BY ThreadKinds DEF putVouch, TypeOK, Storing
  <1>2. for.of \in User /\ for.by \in User /\ for.time \in Nat
    BY <1>1, VouchAssumption DEF Parties
  <1>3. /\ vouches' = [vouches EXCEPT ![for.of] = Vouched(for)]
        /\ given' = given \cup {for} /\ Len(existing) < requiredCountOfVouches
        /\ vouches[for.of] # existing => for.of \in Touched'
        /\ Touched \subseteq Touched' /\ ever' = ever /\ uploaders' = uploaders
        /\ req[r].at = "put" /\ req[r] # Idle
    BY DEF putVouch, Waiting, Touched, Idle
  <1>4. vouches'[for.of] = Vouched(for) /\ \A u \in User : u # for.of => vouches'[u] = vouches[u]
    BY <1>2, <1>3 DEF TypeOK
  <1>5. /\ Others(r)
        /\ req'[r] = IF Completes(existing) THEN [at |-> "read", for |-> for] ELSE Idle
    BY DEF putVouch, Become, End, Others, TypeOK
  <1>6. \A q \in Request : req'[q].at = "put" => Len(req'[q].existing) < requiredCountOfVouches
    BY <1>5 DEF Waiting, Others, Idle
  <1>7. ASSUME NEW u \in User \ Touched', u = for.of
        PROVE  /\ AllStored(u)'
               /\ (u \in ever => Full(u) \/ Founding(u))'
               /\ \A q \in Request : WaitsFor(u, q)'
    <2>1. vouches[u] = existing /\ ~Full(u) /\ Len(existing) \in Nat
      BY <1>1, <1>3, <1>7, VouchAssumption DEF Full, VouchList
    <2>2. /\ AllStored(u) /\ \A q \in Request : WaitsFor(u, q)
          /\ u \in ever => Full(u) \/ Founding(u)
      BY <1>3, <1>7 DEF Waiting
    <2>3. u \notin ever
      BY <1>3, <1>7, <2>1, <2>2 DEF Founding
    <2>4. AllStored(u)'
      BY <1>1, <1>3, <1>4, <1>7, <2>2, StoredInMore DEF AllStored, TypeOK
    <2>5. ASSUME NEW q \in Request PROVE WaitsFor(u, q)'
      <3>1. CASE q = r
        <4>1. Completes(existing) => Full(u)'
          <5>1. Len(Vouched(for)) = Len(vouches[u]) + 1
            BY <1>1, <1>7, VouchedType DEF TypeOK
          <5> QED
            BY <1>4, <1>7, <2>1, <5>1, VouchAssumption DEF Completes, Full
        <4> QED
          BY <1>5, <3>1, <4>1 DEF WaitsFor, Completing, Idle
      <3>2. CASE q # r
        <4>1. req'[q] = req[q] /\ WaitsFor(u, q)
          BY <1>5, <2>2, <3>2 DEF Others
        <4>2. ~Completing(q, u) /\ (req[q].at \in {"own", "existing", "put"} => req[q].for.by # u)
          BY <2>1, <2>3, <4>1 DEF WaitsFor
        <4> QED
          BY <4>1, <4>2 DEF WaitsFor, Completing
      <3> QED
        BY <3>1, <3>2
    <2> QED
      BY <1>3, <2>3, <2>4, <2>5
  <1>8. ASSUME NEW u \in User \ Touched', u # for.of
        PROVE  /\ AllStored(u)'
               /\ (u \in ever => Full(u) \/ Founding(u))'
               /\ \A q \in Request : WaitsFor(u, q)'
    <2>1. /\ AllStored(u) /\ (\A q \in Request : WaitsFor(u, q))
          /\ u \in ever => Full(u) \/ Founding(u)
          /\ vouches'[u] = vouches[u]
      BY <1>3, <1>4, <1>8 DEF Waiting
    <2>2. AllStored(u)' /\ (Full(u) => Full(u)')
      BY <1>3, <1>8, <2>1 DEF AllStored, StoredIn, Full
    <2>3. Founding(u) => Founding(u)'
      BY <1>3, <1>5, <1>8, <2>1 DEF Founding, Others
    <2>4. ASSUME NEW q \in Request PROVE WaitsFor(u, q)'
      <3>1. CASE q = r
        BY <1>5, <1>8, <3>1 DEF WaitsFor, Completing, Idle
      <3>2. CASE q # r
        <4>1. req'[q] = req[q] /\ WaitsFor(u, q)
          BY <1>5, <2>1, <3>2 DEF Others
        <4>2. TooNew(req[q].for.time, vouches[u])' <=> TooNew(req[q].for.time, vouches[u])
          BY <2>1, <4>1 DEF TooNew, isWithinLastMonth
        <4> QED
          BY <1>3, <2>2, <4>1, <4>2 DEF WaitsFor, Completing
      <3> QED
        BY <3>1, <3>2
    <2> QED
      BY <1>3, <2>1, <2>2, <2>3, <2>4
  <1>9. uploaders' \subseteq ever'
    BY <1>3 DEF Waiting
  <1> QED
    BY <1>6, <1>7, <1>8, <1>9 DEF Waiting

LEMMA ReplaceKeeps ==
    ASSUME TypeOK, NEW tbl, NEW queue, Replace(tbl, queue)
    PROVE  /\ given' = given /\ ever' = ever /\ Touched \subseteq Touched'
           /\ \A u \in User \ Touched' : vouches'[u] = vouches[u]
  BY DEF Replace, Touched

(* The steps of a request but for storing the vouch.                       *)
LEMMA WaitingPost ==
    ASSUME TypeOK, Waiting, NEW r \in Request, Post(r) \/ Abort(r), ~putVouch(r)
    PROVE  Waiting'
  <1>1. uploaders \subseteq ever
    BY DEF Waiting
  <1>2. ASSUME NEW t, Become(r, t), GoesOn(r) PROVE \A q \in Request : GoesOn(q)
    <2>1. Others(r)
      BY <1>2, OthersStay DEF TypeOK
    <2> QED
      BY <1>2, <2>1 DEF Others, GoesOn
  <1>3. ASSUME UNCHANGED <<data, uploaders, history>>, \A q \in Request : GoesOn(q)
        PROVE  Waiting'
    BY <1>1, <1>3, WaitingKept DEF data, history, Touched
  <1>4. ASSUME End(r) PROVE GoesOn(r) /\ Become(r, Idle)
    BY <1>4, EndStep DEF GoesOn, End, TypeOK
  <1>5. CASE handlePostVouch(r)
    <2>1. PICK by \in User, of \in Vouchee :
              /\ MayUseGroup([by |-> by, of |-> of, time |-> now])
              /\ Become(r, [at |-> "own", for |-> [by |-> by, of |-> of, time |-> now]])
      BY <1>5 DEF handlePostVouch
    <2>2. GoesOn(r)
      BY <2>1 DEF Become, MayUseGroup, GoesOn, TypeOK
    <2> QED
      BY <1>2, <1>3, <1>5, <2>1, <2>2 DEF handlePostVouch
  <1>6. CASE vouchersForVoucher(r)
    <2>1. CASE End(r)
      BY <1>2, <1>3, <1>4, <1>6, <2>1 DEF vouchersForVoucher
    <2>2. CASE ~End(r)
      <3>1. /\ req[r].at = "own" /\ ~TooNew(req[r].for.time, vouches[req[r].for.by])
            /\ Become(r, [at |-> "existing", for |-> req[r].for])
        BY <1>6, <2>2 DEF vouchersForVoucher
      <3>2. GoesOn(r)
        BY <3>1 DEF Become, GoesOn, TypeOK, Idle
      <3> QED
        BY <1>2, <1>3, <1>6, <3>1, <3>2 DEF vouchersForVoucher
    <2> QED
      BY <2>1, <2>2
  <1>7. CASE existingVouchers(r)
    <2>1. CASE End(r)
      BY <1>2, <1>3, <1>4, <1>7, <2>1 DEF existingVouchers
    <2>2. CASE ~End(r)
      <3>1. /\ req[r].at = "existing" /\ Len(vouches[req[r].for.of]) < requiredCountOfVouches
            /\ Become(r, [at |-> "put", for |-> req[r].for, existing |-> vouches[req[r].for.of]])
        BY <1>7, <2>2 DEF existingVouchers, MayVouch
      <3>2. GoesOn(r)
        BY <3>1 DEF Become, GoesOn, TypeOK, Idle
      <3> QED
        BY <1>2, <1>3, <1>7, <3>1, <3>2 DEF existingVouchers
    <2> QED
      BY <2>1, <2>2
  <1>8. CASE getVouchesData(r)
    <2>1. PICK d : req[r].at = "read"
                   /\ Become(r, [at |-> "enqueue", for |-> req[r].for, read |-> d])
      BY <1>8 DEF getVouchesData
    <2>2. GoesOn(r)
      BY <2>1 DEF Become, GoesOn, TypeOK, Idle, Completing
    <2> QED
      BY <1>2, <1>3, <1>8, <2>1, <2>2 DEF getVouchesData
  <1>9. CASE replaceVouchesData(r)
    <2>1. /\ req[r].at = "enqueue" /\ Become(r, [at |-> "join", for |-> req[r].for])
          /\ uploaders' = uploaders
      BY <1>9 DEF replaceVouchesData
    <2>2. GoesOn(r)
      BY <2>1 DEF Become, GoesOn, TypeOK, Idle, Completing
    <2>3. \A q \in Request : GoesOn(q)
      BY <1>2, <2>1, <2>2
    <2>4. /\ given' = given /\ ever' = ever /\ Touched \subseteq Touched'
          /\ \A u \in User \ Touched' : vouches'[u] = vouches[u]
      BY <1>9, ReplaceKeeps DEF replaceVouchesData
    <2> QED
      BY <1>1, <2>1, <2>3, <2>4, WaitingKept
  <1>10. CASE addUserToGroup(r)
    <2>1. /\ uploaders' = uploaders \cup {req[r].for.of} /\ ever' = ever \cup {req[r].for.of}
          /\ vouches' = vouches /\ given' = given /\ Touched' = Touched
          /\ Completing(r, req[r].for.of)
      BY <1>10 DEF addUserToGroup, data, Touched, Completing
    <2>2. \A q \in Request : GoesOn(q)
      BY <1>2, <1>4, <1>10 DEF addUserToGroup
    <2>3. \A u \in User \ Touched' : u \in ever' => u \in ever \/ Full(u)
      BY <2>1 DEF Waiting, WaitsFor
    <2> QED
      BY <1>1, <2>1, <2>2, <2>3, WaitingKept
  <1>11. CASE Abort(r)
    <2>1. /\ UNCHANGED <<data, uploaders, given, ever>> /\ Touched \subseteq Touched'
      BY <1>11 DEF Abort, Touched
    <2>2. \A q \in Request : GoesOn(q)
      BY <1>2, <1>4, <1>11 DEF Abort
    <2> QED
      BY <1>1, <2>1, <2>2, WaitingKept DEF data
  <1> QED
    BY <1>5, <1>6, <1>7, <1>8, <1>9, <1>10, <1>11 DEF Post

LEMMA WaitingNext ==
    ASSUME TypeOK, Waiting, [Next]_vars PROVE Waiting'
  <1>1. uploaders \subseteq ever
    BY DEF Waiting
  <1>2. ASSUME req' = req PROVE \A r \in Request : GoesOn(r)
    BY <1>2 DEF GoesOn
  <1>3. CASE clearQueue
    <2>1. req' = req /\ uploaders' = uploaders
      BY <1>3 DEF clearQueue
    <2>2. /\ given' = given /\ ever' = ever /\ Touched \subseteq Touched'
          /\ \A u \in User \ Touched' : vouches'[u] = vouches[u]
      BY <1>3, ReplaceKeeps DEF clearQueue
    <2> QED
      BY <1>1, <1>2, <2>1, <2>2, WaitingKept
  <1>4. CASE groupAddUser \/ groupDeleteUser
    <2>1. /\ req' = req /\ vouches' = vouches /\ given' = given /\ Touched \subseteq Touched'
          /\ ever \subseteq ever' /\ uploaders' \subseteq ever'
          /\ \A u \in User \ Touched' :
                 (u \in ever' => u \in ever) /\ (u \in uploaders => u \in uploaders')
      BY <1>1, <1>4 DEF groupAddUser, groupDeleteUser, data, Touched
    <2> QED
      BY <1>2, <2>1, WaitingKept
  <1>5. CASE drainQueuedNotifications \/ sendNotifyEmails \/ AbortJob \/ Tick \/ UNCHANGED vars
    <2>1. UNCHANGED <<req, data, uploaders, given, ever>> /\ Touched' = Touched
      BY <1>5 DEF drainQueuedNotifications, sendNotifyEmails, AbortJob, Tick, vars, history, Touched
    <2> QED
      BY <1>1, <1>2, <2>1, WaitingKept DEF data
  <1> QED
    BY <1>3, <1>4, <1>5, WaitingStored, WaitingPost DEF Next, Post

(* Whoever became an uploader by vouches and vouches himself does so more  *)
(* than a month after each vouch he was given, although his own vouches    *)
(* are read two steps before he stores one: for any number of users and    *)
(* requests, unless requests for him overlapped, his vouches were replaced *)
(* or an admin edited him.                                                 *)
THEOREM UploadersWait == Spec => NewUploadersWait
  <1> DEFINE Own(v) == {w \in given : w.of = v.by}
             Late(v) == \/ v.by \in overlapped \cup reverted \cup excused
                        \/ Cardinality(Own(v)) < requiredCountOfVouches
                        \/ \A w \in Own(v) : w.time + Month < v.time
             Step == \A v \in given' \ given : Late(v)
  <1>1. TypeOK /\ Waiting /\ [Next]_vars => [Step]_vars
    <2> SUFFICES ASSUME TypeOK, Waiting, [Next]_vars, NEW v \in given' \ given PROVE Late(v)
      OBVIOUS
    <2>1. PICK r \in Request : putVouch(r)
      <3>1. CASE \E r \in Request : (Post(r) \/ Abort(r)) /\ ~putVouch(r)
        BY <3>1 DEF Post, Abort, handlePostVouch, vouchersForVoucher, existingVouchers,
                    getVouchesData, replaceVouchesData, Replace, addUserToGroup, history
      <3>2. CASE drainQueuedNotifications \/ clearQueue \/ sendNotifyEmails \/ AbortJob
                 \/ groupAddUser \/ groupDeleteUser \/ Tick \/ UNCHANGED vars
        BY <3>2 DEF drainQueuedNotifications, clearQueue, Replace, sendNotifyEmails, AbortJob,
                    groupAddUser, groupDeleteUser, Tick, vars, history
      <3> QED
        BY <3>1, <3>2 DEF Next
    <2>2. v = req[r].for /\ req[r].at = "put" /\ v \in Parties
      BY <2>1, ThreadKinds DEF putVouch, TypeOK, Storing
    <2>3. PICK u \in User : u = v.by
      BY <2>2 DEF Parties
    <2>4. CASE u \in Touched
      BY <2>3, <2>4 DEF Touched
    <2>5. CASE u \notin Touched
      <3>1. /\ AllStored(u) /\ ~TooNew(v.time, vouches[u])
            /\ Full(u) \/ Founding(u)
        BY <2>2, <2>3, <2>5 DEF Waiting, WaitsFor
      <3>2. CASE Founding(u)
        <4>1. Own(v) = {}
          BY <2>3, <3>1, <3>2 DEF AllStored, StoredIn, Founding
        <4> QED
          BY <4>1, FS_EmptySet, VouchAssumption
      <3>3. CASE Full(u)
        <4>1. vouches[u] \in Seq([by : User, time : Nat]) /\ v.time \in Nat /\ Month \in Nat
          BY <2>2, VouchAssumption DEF TypeOK, VouchList, Parties
        <4>2. \A i \in DOMAIN vouches[u] : ~isWithinLastMonth(v.time, vouches[u][i])
          BY <3>1, <3>3 DEF TooNew, Full
        <4>3. \A i \in DOMAIN vouches[u] : vouches[u][i].time \in Nat
          BY <4>1, VouchTimes DEF VouchList
        <4>5. \A w \in Own(v) : w.time + Month < v.time
          <5> SUFFICES ASSUME NEW w \in Own(v) PROVE w.time + Month < v.time
            OBVIOUS
          <5>1. PICK i \in DOMAIN vouches[u] : vouches[u][i].time = w.time
            BY <2>3, <3>1 DEF AllStored, StoredIn
          <5>2. ~(w.time + Month >= v.time) /\ w.time \in Nat
            BY <4>2, <4>3, <5>1 DEF isWithinLastMonth
          <5> QED
            BY <4>1, <5>2
        <4> QED
          BY <4>5
      <3> QED
        BY <3>1, <3>2, <3>3
    <2> QED
      BY <2>4, <2>5
  <1>2. TypeOK /\ Waiting /\ [Next]_vars => Waiting'
    BY WaitingNext
  <1> QED
    BY <1>1, <1>2, WaitingInit, TypeCorrect, PTL DEF Spec, NewUploadersWait
=============================================================================
