--------------------------- MODULE Uploads_proofs ---------------------------
(***************************************************************************)
(* Theorems about Uploads: its types, that reports are true, that whoever  *)
(* releases a package or joins a group was entitled to, and that released  *)
(* packages have an owner.                                                 *)
(***************************************************************************)
EXTENDS Uploads, TLAPS

-----------------------------------------------------------------------------
(* What the steps do to the requests.                                      *)

AtRest == {"idle", "done"}
OnUpload == [at : Steps, id : PackageId, uid : User, tarball : Tarball,
             seen : SUBSET PackageId]
OnLookup == [at : {"lookup"}, id : PackageId, uid : User, seen : SUBSET PackageId,
             doDelete : BOOLEAN]
OnPublish == [at : PublishSteps, id : PackageId, uid : User, tarball : Tarball,
              seen : SUBSET PackageId, doDelete : BOOLEAN]
OnDelete == [at : {"delete"}, ids : SUBSET PackageId]

Others(r) == \A q \in Request : q # r => req'[q] = req[q]

(* A request that goes on keeps what it holds.                             *)
LEMMA GoOnUpload ==
    ASSUME req \in [Request -> Thread], NEW r \in Request, NEW a \in Steps,
           req[r].at \in Steps, Go(r, a)
    PROVE  /\ req' \in [Request -> Thread] /\ Others(r)
           /\ req[r] \in OnUpload /\ req'[r] \in OnUpload /\ req'[r].at = a
           /\ req'[r].id = req[r].id /\ req'[r].uid = req[r].uid
           /\ req'[r].tarball = req[r].tarball /\ req'[r].seen = req[r].seen
  <1>1. req[r] \in OnUpload
    BY DEF Thread, Idle, Released, PublishSteps, Steps, OnUpload
  <1>2. /\ req'[r] \in OnUpload /\ req'[r].at = a
        /\ req'[r].id = req[r].id /\ req'[r].uid = req[r].uid
        /\ req'[r].tarball = req[r].tarball /\ req'[r].seen = req[r].seen
    BY <1>1 DEF Go, OnUpload
  <1>3. req' \in [Request -> Thread] /\ Others(r)
    BY <1>2 DEF Go, Others, Thread, OnUpload
  <1> QED BY <1>1, <1>2, <1>3

LEMMA GoOnPublish ==
    ASSUME req \in [Request -> Thread], NEW r \in Request, NEW a \in PublishSteps,
           req[r].at \in PublishSteps, Go(r, a)
    PROVE  /\ req' \in [Request -> Thread] /\ Others(r)
           /\ req[r] \in OnPublish /\ req'[r] \in OnPublish /\ req'[r].at = a
           /\ req'[r].id = req[r].id /\ req'[r].uid = req[r].uid
           /\ req'[r].tarball = req[r].tarball /\ req'[r].seen = req[r].seen
  <1>1. req[r] \in OnPublish
    BY DEF Thread, Idle, Released, PublishSteps, Steps, OnPublish
  <1>2. /\ req'[r] \in OnPublish /\ req'[r].at = a
        /\ req'[r].id = req[r].id /\ req'[r].uid = req[r].uid
        /\ req'[r].tarball = req[r].tarball /\ req'[r].seen = req[r].seen
    BY <1>1 DEF Go, OnPublish
  <1>3. req' \in [Request -> Thread] /\ Others(r)
    BY <1>2 DEF Go, Others, Thread, OnPublish
  <1> QED BY <1>1, <1>2, <1>3

(* A request that ends forgets everything, or remembers its release.       *)
LEMMA EndStep ==
    ASSUME req \in [Request -> Thread], NEW r \in Request, End(r)
    PROVE  req' \in [Request -> Thread] /\ Others(r) /\ req'[r] = Idle
  BY DEF End, Others, Thread

LEMMA ReportStep ==
    ASSUME req \in [Request -> Thread], NEW r \in Request, Report(r),
           req[r].at \in Steps \cup PublishSteps
    PROVE  /\ req' \in [Request -> Thread] /\ Others(r)
           /\ req'[r].at = "done" /\ req'[r].id = req[r].id
           /\ req'[r].uid = req[r].uid /\ req'[r].tarball = req[r].tarball
  <1>1. req[r] \in OnUpload \/ req[r] \in OnPublish
    BY DEF Thread, Idle, Released, PublishSteps, Steps, OnPublish, OnUpload
  <1>2. req[r].id \in PackageId /\ req[r].uid \in User /\ req[r].tarball \in Tarball
    BY <1>1 DEF OnUpload, OnPublish
  <1> DEFINE done == [at |-> "done", id |-> req[r].id, uid |-> req[r].uid,
                      tarball |-> req[r].tarball]
  <1>3. done \in Released
    BY <1>2 DEF Released
  <1>4. req' = [req EXCEPT ![r] = done]
    BY DEF Report
  <1>5. req' \in [Request -> Thread] /\ Others(r) /\ req'[r] = done
    BY <1>3, <1>4 DEF Others, Thread
  <1> QED BY <1>5

(* A request that starts comes from rest and holds what it was sent.       *)
LEMMA StartStep ==
    ASSUME req \in [Request -> Thread], NEW r \in Request, NEW t \in Thread,
           req' = [req EXCEPT ![r] = t]
    PROVE  req' \in [Request -> Thread] /\ Others(r) /\ req'[r] = t
  BY DEF Others

-----------------------------------------------------------------------------
(* Types.                                                                  *)

StateTypeOK ==
    /\ DOMAIN released \subseteq PackageId
    /\ released \in [DOMAIN released -> [by : User, tarball : Tarball]]
    /\ DOMAIN candidates \subseteq PackageId
    /\ candidates \in [DOMAIN candidates -> Tarball]
    /\ maintainers \in [Name -> SUBSET User]

(* The history variables keep their types whatever the step does.          *)
LEMMA RecordTypeOK ==
    ASSUME TypeOK, StateTypeOK', Record
    PROVE  /\ during' \in [Request -> [mine : SUBSET Name, held : SUBSET Name]]
           /\ unowned' \subseteq Name /\ excused' \subseteq PackageId
  <1>1. ASSUME NEW r \in Request
        PROVE  Followed(r) \in [mine : SUBSET Name, held : SUBSET Name]
    BY <1>1 DEF TypeOK, Followed, MineIn, Maintained
  <1>2. during' \in [Request -> [mine : SUBSET Name, held : SUBSET Name]]
    BY <1>1 DEF Record
  <1>3. unowned' \subseteq Name
    BY DEF Record
  <1>4. excused' \subseteq PackageId
    BY DEF Record, TypeOK, StateTypeOK
  <1> QED BY <1>2, <1>3, <1>4

LEMMA AddPackageTypeOK ==
    ASSUME StateTypeOK, NEW r \in Request, req[r] \in OnUpload \cup OnPublish, AddPackage(r),
           UNCHANGED <<candidates, maintainers>>
    PROVE  /\ StateTypeOK'
           /\ DOMAIN released' = DOMAIN released \cup {req[r].id}
           /\ \A id \in DOMAIN released : released'[id] = released[id]
           /\ req[r].id \notin DOMAIN released =>
                  released'[req[r].id] = [by |-> req[r].uid, tarball |-> req[r].tarball]
  <1>1. req[r].id \in PackageId /\ req[r].uid \in User /\ req[r].tarball \in Tarball
    BY DEF OnUpload, OnPublish
  <1>2. CASE req[r].id \in DOMAIN released
    BY <1>2 DEF AddPackage, StateTypeOK
  <1>3. CASE req[r].id \notin DOMAIN released
    <2> DEFINE new == [by |-> req[r].uid, tarball |-> req[r].tarball]
    <2>1. released' = [id \in DOMAIN released \cup {req[r].id} |->
                          IF id = req[r].id THEN new ELSE released[id]]
      BY <1>3 DEF AddPackage
    <2>2. new \in [by : User, tarball : Tarball]
      BY <1>1
    <2> HIDE DEF new
    <2>3. /\ DOMAIN released' = DOMAIN released \cup {req[r].id}
          /\ \A id \in DOMAIN released : released'[id] = released[id]
          /\ released'[req[r].id] = new
      BY <1>3, <2>1
    <2>4. released' \in [DOMAIN released' -> [by : User, tarball : Tarball]]
      BY <1>1, <2>1, <2>2 DEF StateTypeOK
    <2> QED BY <1>1, <1>3, <2>3, <2>4 DEF StateTypeOK, new
  <1> QED BY <1>2, <1>3

LEMMA GroupTypeOK ==
    ASSUME StateTypeOK, NEW n \in Name, NEW u \in User, addUserToGroup(n, u),
           UNCHANGED <<released, candidates>>
    PROVE  /\ StateTypeOK'
           /\ \A m \in Name : m # n => maintainers'[m] = maintainers[m]
           /\ maintainers'[n] = maintainers[n] \cup {u}
  BY DEF StateTypeOK, addUserToGroup

LEMMA WithoutTypeOK ==
    ASSUME StateTypeOK, NEW S, candidates' = Without(candidates, S),
           UNCHANGED <<released, maintainers>>
    PROVE  StateTypeOK'
  BY DEF StateTypeOK, Without, Restrict

(* What holds after every step, before the history is looked at.           *)
Typed(r) == StateTypeOK' /\ req' \in [Request -> Thread] /\ Others(r)

LEMMA UploadTyped ==
    ASSUME TypeOK, NEW r \in Request, Upload(r)
    PROVE  Typed(r) /\ Record
  <1> USE DEF Typed
  <1>a. StateTypeOK /\ req \in [Request -> Thread]
    BY DEF TypeOK, StateTypeOK
  <1>1. CASE uploadPackage(r)
    <2>1. PICK id \in PackageId, uid \in User, t \in Tarball :
              req' = [req EXCEPT ![r] =
                  [at |-> "processUpload", id |-> id, uid |-> uid,
                   tarball |-> t, seen |-> DOMAIN released]]
      BY <1>1 DEF uploadPackage
    <2>2. [at |-> "processUpload", id |-> id, uid |-> uid, tarball |-> t,
           seen |-> DOMAIN released] \in Thread
      BY <1>a DEF Thread, Steps, StateTypeOK
    <2>3. req' \in [Request -> Thread] /\ Others(r)
      BY <2>1, <2>2, <1>a, StartStep
    <2> QED BY <1>1, <1>a, <2>3 DEF uploadPackage, state, StateTypeOK
  <1>2. CASE processUpload(r)
    <2>1. Go(r, "addPackage") \/ End(r)
      BY <1>2 DEF processUpload
    <2>2. req' \in [Request -> Thread] /\ Others(r)
      BY <1>2, <1>a, <2>1, GoOnUpload, EndStep DEF processUpload, Steps
    <2> QED BY <1>2, <1>a, <2>2 DEF processUpload, state, StateTypeOK
  <1>3. CASE updateAddPackage(r)
    <2>1. Go(r, "uploaded") \/ End(r)
      BY <1>3 DEF updateAddPackage
    <2>2. req' \in [Request -> Thread] /\ Others(r)
      BY <1>3, <1>a, <2>1, GoOnUpload, EndStep DEF updateAddPackage, Steps
    <2>3. req[r] \in OnUpload
      BY <1>3, <1>a DEF updateAddPackage, Thread, Idle, Released, PublishSteps, Steps, OnUpload
    <2>4. StateTypeOK'
      BY <1>3, <1>a, <2>3, AddPackageTypeOK DEF updateAddPackage
    <2> QED BY <1>3, <2>2, <2>4 DEF updateAddPackage
  <1>4. CASE finishUpload(r)
    <2>1. req' \in [Request -> Thread] /\ Others(r)
      BY <1>4, <1>a, ReportStep DEF finishUpload, Steps
    <2>2. req[r].id.name \in Name /\ req[r].uid \in User
      BY <1>4, <1>a, UploadsAssumption
      DEF finishUpload, Thread, Idle, Released, PublishSteps, Steps
    <2>3. StateTypeOK'
      <3>1. CASE UNCHANGED maintainers
        BY <1>4, <1>a, <3>1 DEF finishUpload, StateTypeOK
      <3>2. CASE addUserToGroup(req[r].id.name, req[r].uid)
        BY <1>4, <1>a, <2>2, <3>2, GroupTypeOK DEF finishUpload
      <3> QED BY <1>4, <3>1, <3>2 DEF finishUpload
    <2> QED BY <1>4, <2>1, <2>3 DEF finishUpload
  <1> QED BY <1>1, <1>2, <1>3, <1>4 DEF Upload

LEMMA CandidateTyped ==
    ASSUME TypeOK, NEW r \in Request, Candidate(r)
    PROVE  Typed(r) /\ Record
  <1> USE DEF Typed
  <1>a. StateTypeOK /\ req \in [Request -> Thread]
    BY DEF TypeOK, StateTypeOK
  <1>1. CASE uploadCandidate(r)
    <2>1. PICK id \in CandidateId, uid \in Uploaders, t \in Tarball :
              req' = [req EXCEPT ![r] =
                  [at |-> "processCandidate", id |-> id, uid |-> uid,
                   tarball |-> t, seen |-> DOMAIN released]]
      BY <1>1 DEF uploadCandidate
    <2>2. [at |-> "processCandidate", id |-> id, uid |-> uid, tarball |-> t,
           seen |-> DOMAIN released] \in Thread
      BY <1>a, UploadsAssumption DEF Thread, Steps, StateTypeOK
    <2>3. req' \in [Request -> Thread] /\ Others(r)
      BY <2>1, <2>2, <1>a, StartStep
    <2> QED BY <1>1, <1>a, <2>3 DEF uploadCandidate, state, StateTypeOK
  <1>2. CASE processCandidate(r)
    <2>1. Go(r, "checkCandidate") \/ End(r)
      BY <1>2 DEF processCandidate
    <2>2. req' \in [Request -> Thread] /\ Others(r)
      BY <1>2, <1>a, <2>1, GoOnUpload, EndStep DEF processCandidate, Steps
    <2> QED BY <1>2, <1>a, <2>2 DEF processCandidate, state, StateTypeOK
  <1>3. CASE checkCandidate(r)
    <2>1. Go(r, "addCandidate") \/ End(r)
      BY <1>3 DEF checkCandidate
    <2>2. req' \in [Request -> Thread] /\ Others(r)
      BY <1>3, <1>a, <2>1, GoOnUpload, EndStep DEF checkCandidate, Steps
    <2> QED BY <1>3, <1>a, <2>2 DEF checkCandidate, state, StateTypeOK
  <1>4. CASE addCandidate(r)
    <2>1. req' \in [Request -> Thread] /\ Others(r)
      BY <1>4, <1>a, GoOnUpload DEF addCandidate, Steps
    <2>2. req[r].id \in PackageId /\ req[r].tarball \in Tarball
      BY <1>4, <1>a DEF addCandidate, Thread, Idle, Released, PublishSteps, Steps
    <2>3. StateTypeOK'
      BY <1>4, <1>a, <2>2 DEF addCandidate, StateTypeOK
    <2> QED BY <1>4, <2>1, <2>3 DEF addCandidate
  <1>5. CASE joinGroup(r)
    <2>1. req' \in [Request -> Thread] /\ Others(r)
      BY <1>5, <1>a, EndStep DEF joinGroup
    <2>2. req[r].id.name \in Name /\ req[r].uid \in User
      BY <1>5, <1>a, UploadsAssumption
      DEF joinGroup, Thread, Idle, Released, PublishSteps, Steps
    <2>3. StateTypeOK'
      BY <1>5, <1>a, <2>2, GroupTypeOK DEF joinGroup
    <2> QED BY <1>5, <2>1, <2>3 DEF joinGroup
  <1>6. CASE doDeleteCandidate(r)
    <2>1. PICK ids \in {{id} : id \in DOMAIN candidates}
                  \cup {{id \in CandidateId : id.name = n} : n \in packageNames(CandidateId)} :
              req' = [req EXCEPT ![r] = [at |-> "delete", ids |-> ids]]
      BY <1>6 DEF doDeleteCandidate
    <2>2. ids \in SUBSET PackageId
      BY <1>a, <2>1, UploadsAssumption DEF StateTypeOK
    <2>3. [at |-> "delete", ids |-> ids] \in Thread
      BY <2>2 DEF Thread
    <2>4. req' \in [Request -> Thread] /\ Others(r)
      BY <2>1, <2>3, <1>a, StartStep
    <2> QED BY <1>6, <1>a, <2>4 DEF doDeleteCandidate, state, StateTypeOK
  <1>7. CASE deleteCandidate(r)
    BY <1>7, <1>a, EndStep, WithoutTypeOK DEF deleteCandidate
  <1> QED BY <1>1, <1>2, <1>3, <1>4, <1>5, <1>6, <1>7 DEF Candidate

LEMMA PublishTyped ==
    ASSUME TypeOK, NEW r \in Request, Publish(r)
    PROVE  Typed(r) /\ Record
  <1> USE DEF Typed
  <1>a. StateTypeOK /\ req \in [Request -> Thread]
    BY DEF TypeOK, StateTypeOK
  <1>1. CASE publishCandidate(r)
    <2>1. PICK id \in CandidateId, uid \in User, doDelete \in BOOLEAN :
              req' = [req EXCEPT ![r] =
                  [at |-> "lookup", id |-> id, uid |-> uid,
                   seen |-> DOMAIN released, doDelete |-> doDelete]]
      BY <1>1 DEF publishCandidate
    <2>2. [at |-> "lookup", id |-> id, uid |-> uid, seen |-> DOMAIN released,
           doDelete |-> doDelete] \in Thread
      BY <1>a, UploadsAssumption DEF Thread, StateTypeOK
    <2>3. req' \in [Request -> Thread] /\ Others(r)
      BY <2>1, <2>2, <1>a, StartStep
    <2> QED BY <1>1, <1>a, <2>3 DEF publishCandidate, state, StateTypeOK
  <1>2. CASE lookupCandidateId(r)
    <2>1. req' \in [Request -> Thread] /\ Others(r)
      <3>1. CASE req[r].id \in DOMAIN candidates
        <4>1. req[r] \in OnLookup
          BY <1>2, <1>a DEF lookupCandidateId, Thread, Idle, Released, PublishSteps, Steps, OnLookup
        <4>2. [at |-> "checkPublish", id |-> req[r].id, uid |-> req[r].uid,
               tarball |-> candidates[req[r].id], seen |-> req[r].seen,
               doDelete |-> req[r].doDelete] \in Thread
          BY <1>a, <3>1, <4>1 DEF Thread, PublishSteps, OnLookup, StateTypeOK
        <4> QED BY <1>2, <1>a, <3>1, <4>2, StartStep DEF lookupCandidateId
      <3>2. CASE req[r].id \notin DOMAIN candidates
        BY <1>2, <1>a, <3>2, EndStep DEF lookupCandidateId
      <3> QED BY <3>1, <3>2
    <2> QED BY <1>2, <1>a, <2>1 DEF lookupCandidateId, state, StateTypeOK
  <1>3. CASE checkPublish(r)
    <2>1. Go(r, "publish") \/ End(r)
      BY <1>3 DEF checkPublish
    <2>2. req' \in [Request -> Thread] /\ Others(r)
      BY <1>3, <1>a, <2>1, GoOnPublish, EndStep DEF checkPublish, PublishSteps
    <2> QED BY <1>3, <1>a, <2>2 DEF checkPublish, state, StateTypeOK
  <1>4. CASE publish(r)
    <2>1. Go(r, "published") \/ End(r)
      BY <1>4 DEF publish
    <2>2. req' \in [Request -> Thread] /\ Others(r)
      BY <1>4, <1>a, <2>1, GoOnPublish, EndStep DEF publish, PublishSteps
    <2>3. req[r] \in OnPublish
      BY <1>4, <1>a DEF publish, Thread, Idle, Released, PublishSteps, Steps, OnPublish
    <2>4. StateTypeOK'
      BY <1>4, <1>a, <2>3, AddPackageTypeOK DEF publish
    <2> QED BY <1>4, <2>2, <2>4 DEF publish
  <1>5. CASE finishPublish(r)
    <2>1. req' \in [Request -> Thread] /\ Others(r)
      BY <1>5, <1>a, ReportStep DEF finishPublish, PublishSteps
    <2>2. StateTypeOK'
      <3>1. CASE UNCHANGED candidates
        BY <1>5, <1>a, <3>1 DEF finishPublish, StateTypeOK
      <3>2. CASE candidates' = Without(candidates, {req[r].id})
        BY <1>5, <1>a, <3>2, WithoutTypeOK DEF finishPublish
      <3> QED BY <1>5, <3>1, <3>2 DEF finishPublish
    <2> QED BY <1>5, <2>1, <2>2 DEF finishPublish
  <1> QED BY <1>1, <1>2, <1>3, <1>4, <1>5 DEF Publish

LEMMA GroupEditTyped ==
    ASSUME TypeOK, groupAddUser \/ groupDeleteUser
    PROVE  StateTypeOK' /\ req' = req /\ Record
  BY UploadsAssumption DEF TypeOK, StateTypeOK, groupAddUser, groupDeleteUser, addUserToGroup

LEMMA AbortTyped ==
    ASSUME TypeOK, NEW r \in Request, Abort(r)
    PROVE  Typed(r) /\ Record /\ req'[r] = Idle /\ UNCHANGED state
  BY EndStep DEF Typed, TypeOK, StateTypeOK, Abort, state

(* The state stays well formed, for any number of names, packages, users   *)
(* and requests.                                                           *)
THEOREM TypeCorrect == Spec => []TypeOK
  <1>1. Init => TypeOK
    BY DEF Init, TypeOK, Thread, Idle
  <1>2. TypeOK /\ [Next]_vars => TypeOK'
    <2> SUFFICES ASSUME TypeOK, [Next]_vars PROVE TypeOK'
      OBVIOUS
    <2>1. CASE UNCHANGED vars
      BY <2>1 DEF vars, state, TypeOK
    <2>2. CASE Next
      <3>1. StateTypeOK' /\ req' \in [Request -> Thread] /\ Record
        BY <2>2, UploadTyped, CandidateTyped, PublishTyped, AbortTyped, GroupEditTyped
        DEF Next, Typed, TypeOK
      <3>2. /\ during' \in [Request -> [mine : SUBSET Name, held : SUBSET Name]]
            /\ unowned' \subseteq Name /\ excused' \subseteq PackageId
        BY <3>1, RecordTypeOK
      <3> QED BY <3>1, <3>2 DEF TypeOK, StateTypeOK
    <2> QED BY <2>1, <2>2
  <1> QED BY <1>1, <1>2, PTL DEF Spec

-----------------------------------------------------------------------------
(* What a request that has come past its transaction knows.                *)

HasReleased(r) ==
    /\ req[r].id \in DOMAIN released
    /\ released[req[r].id] = [by |-> req[r].uid, tarball |-> req[r].tarball]

ReleasesHold ==
    \A r \in Request : req[r].at \in {"uploaded", "published", "done"} => HasReleased(r)

Kept ==
    \A id \in DOMAIN released : id \in DOMAIN released' /\ released'[id] = released[id]

(* The transaction leaves the releases that are there alone, and a request *)
(* that goes on has made its own.                                          *)
LEMMA TransactionKeeps ==
    ASSUME TypeOK, NEW r \in Request, updateAddPackage(r) \/ publish(r)
    PROVE  /\ Kept
           /\ req'[r] = Idle \/ HasReleased(r)'
  <1>1. req[r] \in OnUpload \cup OnPublish
    BY DEF TypeOK, updateAddPackage, publish, Thread, Idle, Released, PublishSteps, Steps,
           OnUpload, OnPublish
  <1>2. StateTypeOK /\ AddPackage(r) /\ UNCHANGED <<candidates, maintainers>>
    BY DEF TypeOK, StateTypeOK, updateAddPackage, publish
  <1>3. /\ DOMAIN released' = DOMAIN released \cup {req[r].id}
        /\ \A id \in DOMAIN released : released'[id] = released[id]
        /\ req[r].id \notin DOMAIN released =>
               released'[req[r].id] = [by |-> req[r].uid, tarball |-> req[r].tarball]
    BY <1>1, <1>2, AddPackageTypeOK
  <1>4. Kept
    BY <1>3 DEF Kept
  <1>5. CASE req[r].id \in DOMAIN released
    <2>1. End(r)
      BY <1>5 DEF updateAddPackage, publish
    <2> QED BY <1>4, <2>1, EndStep DEF TypeOK
  <1>6. CASE req[r].id \notin DOMAIN released
    <2>1. CASE updateAddPackage(r)
      <3>1. /\ req'[r].id = req[r].id /\ req'[r].uid = req[r].uid
            /\ req'[r].tarball = req[r].tarball
        BY <1>6, <2>1, GoOnUpload DEF TypeOK, updateAddPackage, Steps
      <3> QED BY <1>3, <1>4, <1>6, <3>1 DEF HasReleased
    <2>2. CASE publish(r)
      <3>1. /\ req'[r].id = req[r].id /\ req'[r].uid = req[r].uid
            /\ req'[r].tarball = req[r].tarball
        BY <1>6, <2>2, GoOnPublish DEF TypeOK, publish, PublishSteps
      <3> QED BY <1>3, <1>4, <1>6, <3>1 DEF HasReleased
    <2> QED BY <2>1, <2>2
  <1> QED BY <1>5, <1>6

(* All other steps leave the index alone, and a request that reports has   *)
(* what it had.                                                            *)
LEMMA OthersKeep ==
    ASSUME TypeOK, ReleasesHold, NEW r \in Request,
           Upload(r) \/ Candidate(r) \/ Publish(r) \/ Abort(r),
           ~updateAddPackage(r), ~publish(r)
    PROVE  /\ released' = released
           /\ req'[r].at \in {"uploaded", "published", "done"} => HasReleased(r)'
  <1>1. CASE finishUpload(r) \/ finishPublish(r)
    <2>1. req[r].at \in {"uploaded", "published"} /\ Report(r) /\ released' = released
      BY <1>1 DEF finishUpload, finishPublish
    <2>2. /\ req'[r].id = req[r].id /\ req'[r].uid = req[r].uid
          /\ req'[r].tarball = req[r].tarball
      BY <2>1, ReportStep DEF TypeOK, Steps, PublishSteps
    <2> QED BY <2>1, <2>2 DEF ReleasesHold, HasReleased
  <1>2. CASE uploadPackage(r) \/ uploadCandidate(r) \/ doDeleteCandidate(r) \/ publishCandidate(r)
    BY <1>2 DEF TypeOK, uploadPackage, uploadCandidate, doDeleteCandidate, publishCandidate, state
  <1>3. CASE processUpload(r) \/ processCandidate(r) \/ checkCandidate(r) \/ checkPublish(r)
    <2>1. released' = released
      BY <1>3 DEF processUpload, processCandidate, checkCandidate, checkPublish, state
    <2>2. req'[r].at \notin {"uploaded", "published", "done"}
      BY <1>3, GoOnUpload, GoOnPublish, EndStep
      DEF TypeOK, processUpload, processCandidate, checkCandidate, checkPublish, Steps,
          PublishSteps, Idle
    <2> QED BY <2>1, <2>2
  <1>4. CASE lookupCandidateId(r)
    BY <1>4, EndStep DEF TypeOK, lookupCandidateId, state, Idle
  <1>5. CASE addCandidate(r)
    BY <1>5, GoOnUpload DEF TypeOK, addCandidate, Steps
  <1>6. CASE joinGroup(r) \/ deleteCandidate(r) \/ Abort(r)
    BY <1>6, EndStep DEF TypeOK, joinGroup, deleteCandidate, Abort, state, Idle
  <1> QED BY <1>1, <1>2, <1>3, <1>4, <1>5, <1>6 DEF Upload, Candidate, Publish

LEMMA ReleasesHoldStep ==
    ASSUME TypeOK, ReleasesHold, [Next]_vars
    PROVE  ReleasesHold'
  <1>1. CASE UNCHANGED vars
    BY <1>1 DEF vars, state, ReleasesHold, HasReleased
  <1>2. CASE groupAddUser \/ groupDeleteUser
    BY <1>2 DEF groupAddUser, groupDeleteUser, ReleasesHold, HasReleased
  <1>3. ASSUME NEW r \in Request, Upload(r) \/ Candidate(r) \/ Publish(r) \/ Abort(r)
        PROVE  ReleasesHold'
    <2>1. Others(r)
      BY <1>3, UploadTyped, CandidateTyped, PublishTyped, AbortTyped DEF Typed
    <2>2. Kept /\ (req'[r].at \in {"uploaded", "published", "done"} => HasReleased(r)')
      <3>1. CASE updateAddPackage(r) \/ publish(r)
        BY <3>1, TransactionKeeps DEF Idle
      <3>2. CASE ~(updateAddPackage(r) \/ publish(r))
        BY <1>3, <3>2, OthersKeep DEF Kept
      <3> QED BY <3>1, <3>2
    <2> SUFFICES ASSUME NEW q \in Request, q # r,
                        req'[q].at \in {"uploaded", "published", "done"}
                 PROVE  HasReleased(q)'
      BY <2>2 DEF ReleasesHold
    <2>3. req'[q] = req[q] /\ HasReleased(q)
      BY <2>1 DEF Others, ReleasesHold
    <2> QED BY <2>2, <2>3 DEF HasReleased, Kept
  <1> QED BY <1>1, <1>2, <1>3 DEF Next

(* A request that reported a release made it, and nothing changes it.      *)
THEOREM ReportsHold == Spec => []ReportsAreTrue
  <1>1. Init => ReleasesHold
    BY DEF Init, ReleasesHold, Idle
  <1>2. TypeOK /\ ReleasesHold /\ [Next]_vars => ReleasesHold'
    BY ReleasesHoldStep
  <1>3. ReleasesHold => ReportsAreTrue
    BY DEF ReleasesHold, HasReleased, ReportsAreTrue
  <1> QED BY <1>1, <1>2, <1>3, TypeCorrect, PTL DEF Spec

-----------------------------------------------------------------------------
(* Entitlement.  What was checked of the groups stays true of the names    *)
(* that the user has maintained since the request started.                 *)

WasMember(r) == req[r].id.name \in during[r].held => req[r].id.name \in during[r].mine

WasEntitled(r) ==
    LET id    == req[r].id
        index == req[r].seen
        mine  == during[r].mine
        clash == searchByName(index, id.name)
    IN  /\ (packageExists(index, id) \/ id.name \in during[r].held) => id.name \in mine
        /\ (~packageExists(index, id) /\ clash # {}) => clash \cap mine # {}

Checked == {"addPackage", "uploaded", "checkCandidate", "addCandidate", "joinGroup"}

Entitled ==
    \A r \in Request :
        /\ req[r].at \in {"addPackage", "publish"} => WasEntitled(r)
        /\ req[r].at \in Checked => WasMember(r)

(* While a request is at work it only gains names that it maintained and   *)
(* only loses names that were never without a maintainer.                  *)
LEMMA DuringGrows ==
    ASSUME TypeOK, Record, NEW r \in Request,
           req[r].at \notin {"idle", "done"}, req'[r].at \notin {"idle", "done", "delete"}
    PROVE  /\ during[r].mine \subseteq during'[r].mine
           /\ MineIn(maintainers', req'[r].uid) \subseteq during'[r].mine
           /\ during'[r].held \subseteq during[r].held
           /\ during'[r].held \subseteq Maintained(maintainers')
  <1>1. during'[r] = Followed(r)
    BY DEF Record
  <1>2. Followed(r) = [mine |-> during[r].mine \cup MineIn(maintainers', req'[r].uid),
                       held |-> during[r].held \cap Maintained(maintainers')]
    BY DEF Followed, Resting
  <1> HIDE DEF MineIn, Maintained
  <1> QED BY <1>1, <1>2

LEMMA StaysEntitled ==
    ASSUME TypeOK, Record, NEW r \in Request,
           req[r].at \notin {"idle", "done"}, req'[r].at \notin {"idle", "done", "delete"},
           req'[r].id = req[r].id, req'[r].seen = req[r].seen
    PROVE  /\ WasMember(r) => WasMember(r)'
           /\ WasEntitled(r) => WasEntitled(r)'
  <1>1. during[r].mine \subseteq during'[r].mine /\ during'[r].held \subseteq during[r].held
    BY DuringGrows
  <1>2. WasMember(r) => WasMember(r)'
    BY <1>1 DEF WasMember
  <1>3. WasEntitled(r) => WasEntitled(r)'
    BY <1>1 DEF WasEntitled, packageExists, searchByName, packageNames
  <1> QED BY <1>2, <1>3

(* The check of the groups is one of the present members.                  *)
LEMMA CheckEntitles ==
    ASSUME TypeOK, Record, NEW r \in Request, UNCHANGED maintainers,
           req[r].at \notin {"idle", "done"}, req'[r].at \notin {"idle", "done", "delete"},
           req'[r].id = req[r].id, req'[r].seen = req[r].seen, req'[r].uid = req[r].uid,
           req[r].id \in PackageId, req[r].seen \subseteq PackageId
    PROVE  /\ (~GroupNull(req[r].id) => Maintains(req[r].uid, req[r].id)) => WasMember(r)'
           /\ (/\ ~GroupNull(req[r].id) => Maintains(req[r].uid, req[r].id)
               /\ packageExists(req[r].seen, req[r].id) => Maintains(req[r].uid, req[r].id)
               /\ ~CaseClash(req[r].seen, req[r].id, req[r].uid)) => WasEntitled(r)'
  <1> DEFINE n == req[r].id.name
             mine == MineIn(maintainers, req[r].uid)
  <1>1. mine \subseteq during'[r].mine /\ during'[r].held \subseteq Maintained(maintainers)
    BY DuringGrows
  <1>2. n \in Name /\ \A id \in req[r].seen : id.name \in Name
    BY UploadsAssumption
  <1>3. Maintains(req[r].uid, req[r].id) => n \in mine
    BY <1>2 DEF Maintains, MineIn
  <1>4. n \in Maintained(maintainers) => ~GroupNull(req[r].id)
    BY DEF Maintained, GroupNull
  <1>5. (~packageExists(req[r].seen, req[r].id) /\ searchByName(req[r].seen, n) # {}
           /\ ~CaseClash(req[r].seen, req[r].id, req[r].uid))
           => searchByName(req[r].seen, n) \cap mine # {}
    <2> SUFFICES ASSUME ~packageExists(req[r].seen, req[r].id),
                        searchByName(req[r].seen, n) # {},
                        ~CaseClash(req[r].seen, req[r].id, req[r].uid)
                 PROVE  searchByName(req[r].seen, n) \cap mine # {}
      OBVIOUS
    <2>1. PICK m \in searchByName(req[r].seen, n) : req[r].uid \in maintainers[m]
      BY DEF CaseClash
    <2>2. m \in Name
      BY <1>2 DEF searchByName, packageNames
    <2> QED BY <2>1, <2>2 DEF MineIn
  <1> HIDE DEF mine
  <1>6. (~GroupNull(req[r].id) => Maintains(req[r].uid, req[r].id)) => WasMember(r)'
    BY <1>1, <1>3, <1>4 DEF WasMember
  <1>7. (/\ ~GroupNull(req[r].id) => Maintains(req[r].uid, req[r].id)
         /\ packageExists(req[r].seen, req[r].id) => Maintains(req[r].uid, req[r].id)
         /\ ~CaseClash(req[r].seen, req[r].id, req[r].uid)) => WasEntitled(r)'
    <2> SUFFICES ASSUME ~GroupNull(req[r].id) => Maintains(req[r].uid, req[r].id),
                        packageExists(req[r].seen, req[r].id) => Maintains(req[r].uid, req[r].id),
                        ~CaseClash(req[r].seen, req[r].id, req[r].uid)
                 PROVE  WasEntitled(r)'
      OBVIOUS
    <2>1. packageExists(req[r].seen, req[r].id)' <=> packageExists(req[r].seen, req[r].id)
      BY DEF packageExists, packageNames
    <2>2. searchByName(req[r].seen, n)' = searchByName(req[r].seen, n)
      BY DEF searchByName, packageNames
    <2>3. (packageExists(req[r].seen, req[r].id)' \/ n \in during'[r].held) => n \in during'[r].mine
      BY <1>1, <1>3, <1>4, <2>1
    <2>4. (~packageExists(req[r].seen, req[r].id)' /\ searchByName(req[r].seen, n)' # {})
            => searchByName(req[r].seen, n)' \cap during'[r].mine # {}
      BY <1>1, <1>5, <2>1, <2>2
    <2> QED BY <2>3, <2>4 DEF WasEntitled
  <1> QED BY <1>6, <1>7

Acts(r) == Upload(r) \/ Candidate(r) \/ Publish(r) \/ Abort(r)

LEMMA ActsTyped ==
    ASSUME TypeOK, NEW r \in Request, Acts(r)
    PROVE  Typed(r) /\ Record
  BY UploadTyped, CandidateTyped, PublishTyped, AbortTyped DEF Acts

EntitledAt(r) ==
    /\ req[r].at \in {"addPackage", "publish"} => WasEntitled(r)
    /\ req[r].at \in Checked => WasMember(r)

(* The request that takes a step: its checks entitle it, and what entitled *)
(* it before does so still.                                                *)
LEMMA ActsEntitled ==
    ASSUME TypeOK, Entitled, NEW r \in Request, Acts(r)
    PROVE  EntitledAt(r)'
  <1>a. req \in [Request -> Thread] /\ Record /\ EntitledAt(r)
    BY ActsTyped DEF TypeOK, Entitled, EntitledAt
  <1> DEFINE out == {"addPackage", "publish"} \cup Checked
  <1>1. CASE processUpload(r)
    <2>1. CASE MayUpload(req[r].seen, req[r].id, req[r].uid)
      <3>1. /\ req[r] \in OnUpload /\ req'[r].at = "addPackage"
            /\ req'[r].id = req[r].id /\ req'[r].uid = req[r].uid /\ req'[r].seen = req[r].seen
        BY <1>1, <1>a, <2>1, GoOnUpload DEF processUpload, Steps
      <3>2. UNCHANGED maintainers /\ req[r].at \notin {"idle", "done"}
        BY <1>1 DEF processUpload, state
      <3>3. req[r].id \in PackageId /\ req[r].seen \subseteq PackageId
        BY <3>1 DEF OnUpload
      <3>4. WasMember(r)' /\ WasEntitled(r)'
        BY <1>a, <2>1, <3>1, <3>2, <3>3, CheckEntitles DEF MayUpload
      <3> QED BY <3>4 DEF EntitledAt
    <2>2. CASE ~MayUpload(req[r].seen, req[r].id, req[r].uid)
      BY <1>1, <1>a, <2>2, EndStep DEF processUpload, EntitledAt, Idle, Checked
    <2> QED BY <2>1, <2>2
  <1>2. CASE processCandidate(r)
    <2>1. CASE MayUploadCandidate(req[r].seen, req[r].id, req[r].uid)
      <3>1. /\ req[r] \in OnUpload /\ req'[r].at = "checkCandidate"
            /\ req'[r].id = req[r].id /\ req'[r].uid = req[r].uid /\ req'[r].seen = req[r].seen
        BY <1>2, <1>a, <2>1, GoOnUpload DEF processCandidate, Steps
      <3>2. UNCHANGED maintainers /\ req[r].at \notin {"idle", "done"}
        BY <1>2 DEF processCandidate, state
      <3>3. req[r].id \in PackageId /\ req[r].seen \subseteq PackageId
        BY <3>1 DEF OnUpload
      <3>4. WasMember(r)'
        BY <1>a, <2>1, <3>1, <3>2, <3>3, CheckEntitles DEF MayUploadCandidate
      <3> QED BY <3>1, <3>4 DEF EntitledAt
    <2>2. CASE ~MayUploadCandidate(req[r].seen, req[r].id, req[r].uid)
      BY <1>2, <1>a, <2>2, EndStep DEF processCandidate, EntitledAt, Idle, Checked
    <2> QED BY <2>1, <2>2
  <1>3. CASE checkPublish(r)
    <2> DEFINE may == Maintains(req[r].uid, req[r].id)
                      /\ SafeToInsert(req[r].seen, req[r].id, req[r].uid)
    <2>1. CASE may
      <3>1. /\ req[r] \in OnPublish /\ req'[r].at = "publish"
            /\ req'[r].id = req[r].id /\ req'[r].uid = req[r].uid /\ req'[r].seen = req[r].seen
        BY <1>3, <1>a, <2>1, GoOnPublish DEF checkPublish, PublishSteps
      <3>2. UNCHANGED maintainers /\ req[r].at \notin {"idle", "done"}
        BY <1>3 DEF checkPublish, state
      <3>3. req[r].id \in PackageId /\ req[r].seen \subseteq PackageId
        BY <3>1 DEF OnPublish
      <3>4. WasEntitled(r)'
        BY <1>a, <2>1, <3>1, <3>2, <3>3, CheckEntitles DEF SafeToInsert
      <3> QED BY <3>1, <3>4 DEF EntitledAt, Checked
    <2>2. CASE ~may
      BY <1>3, <1>a, <2>2, EndStep DEF checkPublish, EntitledAt, Idle, Checked
    <2> QED BY <2>1, <2>2
  <1>4. CASE updateAddPackage(r) \/ checkCandidate(r) \/ addCandidate(r)
    <2>1. CASE End(r)
      BY <1>a, <2>1, EndStep DEF EntitledAt, Idle, Checked
    <2>2. ASSUME NEW a \in {"uploaded", "addCandidate", "joinGroup"}, Go(r, a)
          PROVE  EntitledAt(r)'
      <3>1. req[r].at \in {"addPackage", "checkCandidate", "addCandidate"}
        BY <1>4 DEF updateAddPackage, checkCandidate, addCandidate
      <3>2. req'[r].at = a /\ req'[r].id = req[r].id /\ req'[r].seen = req[r].seen
        BY <1>a, <2>2, <3>1, GoOnUpload DEF Steps
      <3>3. WasMember(r)
        BY <1>a, <3>1 DEF EntitledAt, Checked
      <3>4. WasMember(r)'
        BY <1>a, <2>2, <3>1, <3>2, <3>3, StaysEntitled
      <3> QED BY <2>2, <3>2, <3>4 DEF EntitledAt
    <2> QED BY <1>4, <2>1, <2>2 DEF updateAddPackage, checkCandidate, addCandidate
  <1>5. CASE publish(r)
    BY <1>5, <1>a, GoOnPublish, EndStep DEF publish, PublishSteps, Idle, EntitledAt, Checked
  <1>6. CASE finishUpload(r) \/ finishPublish(r)
    BY <1>6, <1>a, ReportStep
    DEF finishUpload, finishPublish, Steps, PublishSteps, EntitledAt, Checked
  <1>7. CASE joinGroup(r) \/ deleteCandidate(r) \/ Abort(r)
    BY <1>7, <1>a, EndStep DEF joinGroup, deleteCandidate, Abort, Idle, EntitledAt, Checked
  <1>8. CASE uploadPackage(r) \/ uploadCandidate(r) \/ doDeleteCandidate(r) \/ publishCandidate(r)
    <2>1. req'[r].at \in {"processUpload", "processCandidate", "delete", "lookup"}
      BY <1>8, <1>a DEF uploadPackage, uploadCandidate, doDeleteCandidate, publishCandidate
    <2> QED BY <2>1 DEF EntitledAt, Checked
  <1>9. CASE lookupCandidateId(r)
    <2>1. req'[r].at \in {"checkPublish", "idle"}
      BY <1>9, <1>a, EndStep DEF lookupCandidateId, Idle
    <2> QED BY <2>1 DEF EntitledAt, Checked
  <1> QED BY <1>1, <1>2, <1>3, <1>4, <1>5, <1>6, <1>7, <1>8, <1>9
          DEF Acts, Upload, Candidate, Publish

LEMMA EntitledStep ==
    ASSUME TypeOK, Entitled, [Next]_vars
    PROVE  Entitled'
  <1>1. CASE UNCHANGED vars
    BY <1>1 DEF vars, Entitled, WasEntitled, WasMember, packageExists, searchByName, packageNames
  <1>2. ASSUME NEW q \in Request, req'[q] = req[q], Record
        PROVE  EntitledAt(q)'
    <2>1. CASE req[q].at \in Checked \cup {"publish"}
      <3>1. req[q].at \notin {"idle", "done"} /\ req'[q].at \notin {"idle", "done", "delete"}
        BY <1>2, <2>1 DEF Checked
      <3> QED BY <1>2, <3>1, StaysEntitled DEF Entitled, EntitledAt
    <2>2. CASE req[q].at \notin Checked \cup {"publish"}
      BY <1>2, <2>2 DEF EntitledAt, Checked
    <2> QED BY <2>1, <2>2
  <1>3. CASE groupAddUser \/ groupDeleteUser
    <2>1. \A q \in Request : EntitledAt(q)'
      BY <1>2, <1>3, GroupEditTyped
    <2> QED BY <2>1 DEF Entitled, EntitledAt
  <1>4. ASSUME NEW r \in Request, Acts(r)
        PROVE  Entitled'
    <2>1. Record /\ Others(r)
      BY <1>4, ActsTyped DEF Typed
    <2>2. \A q \in Request : EntitledAt(q)'
      BY <1>2, <1>4, <2>1, ActsEntitled DEF Others
    <2> QED BY <2>2 DEF Entitled, EntitledAt
  <1> QED BY <1>1, <1>3, <1>4 DEF Next, Acts

(* Groups grow by a request only at the end of an upload or a candidate.   *)
LEMMA GroupsGrow ==
    ASSUME TypeOK, NEW r \in Request, Acts(r)
    PROVE  \/ UNCHANGED maintainers
           \/ /\ req[r].at \in {"uploaded", "joinGroup"}
              /\ \A n \in Name : n # req[r].id.name => maintainers'[n] = maintainers[n]
  <1>1. CASE finishUpload(r) \/ joinGroup(r)
    <2>1. req[r].at \in {"uploaded", "joinGroup"}
      BY <1>1 DEF finishUpload, joinGroup
    <2>2. UNCHANGED maintainers \/ addUserToGroup(req[r].id.name, req[r].uid)
      BY <1>1 DEF finishUpload, joinGroup
    <2> QED BY <2>1, <2>2 DEF addUserToGroup, TypeOK
  <1>2. CASE ~(finishUpload(r) \/ joinGroup(r))
    BY <1>2 DEF Acts, Upload, Candidate, Publish, Abort, uploadPackage, processUpload,
        updateAddPackage, uploadCandidate, processCandidate, checkCandidate, addCandidate,
        doDeleteCandidate, deleteCandidate, publishCandidate, lookupCandidateId, checkPublish,
        publish, finishPublish, state
  <1> QED BY <1>1, <1>2

LEMMA EntitledActs ==
    ASSUME TypeOK, ReleasesHold, Entitled, NEW r \in Request, Acts(r)
    PROVE  /\ released' # released => WasEntitled(r)
           /\ ~UNCHANGED maintainers => WasMember(r)
  <1>1. released' # released => WasEntitled(r)
    <2>1. CASE updateAddPackage(r) \/ publish(r)
      BY <2>1 DEF Entitled, updateAddPackage, publish
    <2>2. CASE ~(updateAddPackage(r) \/ publish(r))
      BY <2>2, OthersKeep DEF Acts
    <2> QED BY <2>1, <2>2
  <1>2. ~UNCHANGED maintainers => WasMember(r)
    BY GroupsGrow DEF Entitled, Checked
  <1> QED BY <1>1, <1>2

(* Whoever releases a package was entitled to during the request, however  *)
(* the index and the groups change while it is at work.                    *)
THEOREM ReleasesAreEntitled == Spec => EntitledReleases
  <1> DEFINE Right(r) ==
        LET id    == req[r].id
            index == req[r].seen
            mine  == during[r].mine
            clash == searchByName(index, id.name)
        IN  /\ (packageExists(index, id) \/ id.name \in during[r].held) => id.name \in mine
            /\ (~packageExists(index, id) /\ clash # {}) => clash \cap mine # {}
  <1>1. Init => ReleasesHold /\ Entitled
    BY DEF Init, ReleasesHold, Entitled, Idle, Checked
  <1>2. TypeOK /\ ReleasesHold /\ Entitled /\ [Next]_vars => ReleasesHold' /\ Entitled'
    BY ReleasesHoldStep, EntitledStep
  <1>3. TypeOK /\ ReleasesHold /\ Entitled /\ [Next]_vars =>
          [\A r \in Request : (released' # released /\ req'[r] # req[r]) => Right(r)]_vars
    <2> SUFFICES ASSUME TypeOK, ReleasesHold, Entitled, Next,
                        NEW r \in Request, released' # released, req'[r] # req[r]
                 PROVE  Right(r)
      OBVIOUS
    <2>1. ~(groupAddUser \/ groupDeleteUser)
      BY DEF groupAddUser, groupDeleteUser
    <2>2. PICK q \in Request : Acts(q)
      BY <2>1 DEF Next, Acts
    <2>3. q = r
      BY <2>2, ActsTyped DEF Typed, Others
    <2>4. WasEntitled(r)
      BY <2>2, <2>3, EntitledActs
    <2> QED BY <2>4 DEF WasEntitled
  <1> QED BY <1>1, <1>2, <1>3, TypeCorrect, PTL DEF Spec, EntitledReleases

(* Nobody takes over a name by uploading.                                  *)
THEOREM NoTakeoverHolds == Spec => NoTakeover
  <1>1. Init => ReleasesHold /\ Entitled
    BY DEF Init, ReleasesHold, Entitled, Idle, Checked
  <1>2. TypeOK /\ ReleasesHold /\ Entitled /\ [Next]_vars => ReleasesHold' /\ Entitled'
    BY ReleasesHoldStep, EntitledStep
  <1>3. TypeOK /\ ReleasesHold /\ Entitled /\ [Next]_vars =>
          [\A r \in Request, n \in Name :
              (req'[r] # req[r] /\ ~(maintainers'[n] \subseteq maintainers[n])) =>
                  (n \in during[r].held => n \in during[r].mine)]_vars
    <2> SUFFICES ASSUME TypeOK, ReleasesHold, Entitled, Next,
                        NEW r \in Request, NEW n \in Name, req'[r] # req[r],
                        ~(maintainers'[n] \subseteq maintainers[n]), n \in during[r].held
                 PROVE  n \in during[r].mine
      OBVIOUS
    <2>1. ~(groupAddUser \/ groupDeleteUser)
      BY DEF groupAddUser, groupDeleteUser
    <2>2. PICK q \in Request : Acts(q)
      BY <2>1 DEF Next, Acts
    <2>3. q = r
      BY <2>2, ActsTyped DEF Typed, Others
    <2>4. n = req[r].id.name
      BY <2>2, <2>3, GroupsGrow
    <2>5. WasMember(r)
      BY <2>2, <2>3, EntitledActs
    <2> QED BY <2>4, <2>5 DEF WasMember
  <1> QED BY <1>1, <1>2, <1>3, TypeCorrect, PTL DEF Spec, NoTakeover

-----------------------------------------------------------------------------
(* Owners.                                                                 *)

OwnedName(n) ==
    \/ maintainers[n] # {}
    \/ \E r \in Request : Joining(r, n)
    \/ n \in unowned

(* What a request saw is still there, and the name of a candidate about to *)
(* be released has an owner or lost the last one.                          *)
Owned ==
    /\ PackagesAreOwned
    /\ \A r \in Request :
          req[r].at \in Steps \cup PublishSteps \cup {"lookup"} =>
              req[r].seen \subseteq DOMAIN released
    /\ \A r \in Request : req[r].at = "publish" => OwnedName(req[r].id.name)

(* A name keeps its owner, or is noted as unowned, in every step in which  *)
(* the requests that join its group wait, end or have joined.              *)
LEMMA StaysOwned ==
    ASSUME TypeOK, Record, NEW n \in Name, OwnedName(n),
           \A q \in Request : Joining(q, n) =>
               req'[q] = req[q] \/ req'[q] = Idle \/ maintainers'[n] # {}
    PROVE  OwnedName(n)'
  <1>1. CASE maintainers'[n] # {}
    BY <1>1 DEF OwnedName
  <1>2. CASE maintainers'[n] = {}
    <2>1. n \in Name \ Maintained(maintainers')
      BY <1>2 DEF Maintained
    <2>2. CASE maintainers[n] # {} \/ n \in unowned
      <3>1. n \in unowned \cup Maintained(maintainers)
        BY <2>2 DEF Maintained
      <3>2. n \in unowned'
        BY <2>1, <3>1 DEF Record
      <3> QED BY <3>2 DEF OwnedName
    <2>3. ASSUME NEW q \in Request, Joining(q, n)
          PROVE  OwnedName(n)'
      <3>1. CASE req'[q] = Idle
        <4>1. n \in unowned'
          BY <2>1, <2>3, <3>1 DEF Record
        <4> QED BY <4>1 DEF OwnedName
      <3>2. CASE req'[q] = req[q]
        <4>1. Joining(q, n)'
          BY <2>3, <3>2 DEF Joining, packageExists, packageNames
        <4> QED BY <4>1 DEF OwnedName
      <3> QED BY <1>2, <2>3, <3>1, <3>2
    <2> QED BY <2>2, <2>3 DEF OwnedName
  <1> QED BY <1>1, <1>2

(* What the step of a request does to the request itself.                  *)
LEMMA SeenStays ==
    ASSUME TypeOK, Owned, NEW r \in Request, Acts(r),
           req'[r].at \in Steps \cup PublishSteps \cup {"lookup"}
    PROVE  req'[r].seen \subseteq DOMAIN released
  <1>a. req \in [Request -> Thread]
    BY DEF TypeOK
  <1>1. CASE uploadPackage(r) \/ uploadCandidate(r) \/ publishCandidate(r)
    BY <1>1, <1>a DEF uploadPackage, uploadCandidate, publishCandidate
  <1>2. CASE \/ processUpload(r) \/ updateAddPackage(r)
             \/ processCandidate(r) \/ checkCandidate(r) \/ addCandidate(r)
    <2>1. req[r].at \in Steps
      BY <1>2 DEF processUpload, updateAddPackage, processCandidate, checkCandidate,
                  addCandidate, Steps
    <2>2. End(r) \/ \E a \in Steps : Go(r, a)
      BY <1>2 DEF processUpload, updateAddPackage, processCandidate, checkCandidate,
                  addCandidate, Steps
    <2>3. req'[r] = Idle \/ req'[r].seen = req[r].seen
      BY <1>a, <2>1, <2>2, GoOnUpload, EndStep
    <2> QED BY <2>1, <2>3 DEF Owned, Idle, Steps, PublishSteps
  <1>3. CASE checkPublish(r) \/ publish(r)
    <2>1. req[r].at \in PublishSteps
      BY <1>3 DEF checkPublish, publish, PublishSteps
    <2>2. End(r) \/ \E a \in PublishSteps : Go(r, a)
      BY <1>3 DEF checkPublish, publish, PublishSteps
    <2>3. req'[r] = Idle \/ req'[r].seen = req[r].seen
      BY <1>a, <2>1, <2>2, GoOnPublish, EndStep
    <2> QED BY <2>1, <2>3 DEF Owned, Idle, Steps, PublishSteps
  <1>4. CASE lookupCandidateId(r)
    <2>1. req[r].at = "lookup"
      BY <1>4 DEF lookupCandidateId
    <2>2. req'[r] = Idle \/ req'[r].seen = req[r].seen
      BY <1>4, <1>a, EndStep DEF lookupCandidateId
    <2> QED BY <2>1, <2>2 DEF Owned, Idle, Steps, PublishSteps
  <1>5. CASE finishUpload(r) \/ finishPublish(r)
    BY <1>5, <1>a, ReportStep DEF finishUpload, finishPublish, Steps, PublishSteps
  <1>6. CASE joinGroup(r) \/ deleteCandidate(r) \/ Abort(r)
    BY <1>6, <1>a, EndStep DEF joinGroup, deleteCandidate, Abort, Idle, Steps, PublishSteps
  <1>7. CASE doDeleteCandidate(r)
    BY <1>7, <1>a DEF doDeleteCandidate, Steps, PublishSteps
  <1> QED BY <1>1, <1>2, <1>3, <1>4, <1>5, <1>6, <1>7 DEF Acts, Upload, Candidate, Publish

LEMMA LeavesUploaded ==
    ASSUME TypeOK, NEW r \in Request, Acts(r), NEW n \in Name, Joining(r, n)
    PROVE  req'[r] = Idle \/ maintainers'[n] # {}
  <1>1. finishUpload(r) \/ Abort(r)
    BY DEF Joining, Acts, Upload, Candidate, Publish, Abort, Resting, uploadPackage, processUpload,
        updateAddPackage, uploadCandidate, processCandidate, checkCandidate, addCandidate,
        joinGroup, doDeleteCandidate, deleteCandidate, publishCandidate, lookupCandidateId,
        checkPublish, publish, finishPublish
  <1>2. CASE finishUpload(r)
    <2>1. addUserToGroup(n, req[r].uid)
      BY <1>2 DEF Joining, finishUpload
    <2>2. maintainers' = [maintainers EXCEPT ![n] = maintainers[n] \cup {req[r].uid}]
      BY <2>1 DEF addUserToGroup
    <2>3. req[r].uid \in maintainers'[n]
      BY <2>2 DEF TypeOK
    <2> QED BY <2>3
  <1>3. CASE Abort(r)
    BY <1>3, EndStep DEF TypeOK, Abort
  <1> QED BY <1>1, <1>2, <1>3

LEMMA ReachesPublish ==
    ASSUME TypeOK, NEW r \in Request, Acts(r), req'[r].at = "publish"
    PROVE  /\ checkPublish(r) /\ req'[r].id = req[r].id
           /\ Maintains(req[r].uid, req[r].id) /\ UNCHANGED maintainers
  <1>a. req \in [Request -> Thread]
    BY DEF TypeOK
  <1>1. CASE uploadPackage(r) \/ uploadCandidate(r) \/ publishCandidate(r) \/ doDeleteCandidate(r)
    BY <1>1, <1>a DEF uploadPackage, uploadCandidate, publishCandidate, doDeleteCandidate
  <1>2. CASE \/ processUpload(r) \/ updateAddPackage(r)
             \/ processCandidate(r) \/ checkCandidate(r) \/ addCandidate(r)
    <2>1. req[r].at \in Steps
      BY <1>2 DEF processUpload, updateAddPackage, processCandidate, checkCandidate,
                  addCandidate, Steps
    <2>2. End(r) \/ \E a \in Steps : Go(r, a)
      BY <1>2 DEF processUpload, updateAddPackage, processCandidate, checkCandidate,
                  addCandidate, Steps
    <2> QED BY <1>a, <2>1, <2>2, GoOnUpload, EndStep DEF Steps, Idle
  <1>3. CASE publish(r)
    BY <1>3, <1>a, GoOnPublish, EndStep DEF publish, PublishSteps, Idle
  <1>4. CASE lookupCandidateId(r)
    BY <1>4, <1>a, EndStep DEF lookupCandidateId, Idle
  <1>5. CASE finishUpload(r) \/ finishPublish(r)
    BY <1>5, <1>a, ReportStep DEF finishUpload, finishPublish, Steps, PublishSteps
  <1>6. CASE joinGroup(r) \/ deleteCandidate(r) \/ Abort(r)
    BY <1>6, <1>a, EndStep DEF joinGroup, deleteCandidate, Abort, Idle
  <1>7. CASE checkPublish(r)
    <2>1. CASE End(r)
      BY <1>a, <2>1, EndStep DEF Idle
    <2>2. CASE ~End(r)
      BY <1>7, <1>a, <2>2, GoOnPublish DEF checkPublish, PublishSteps, state
    <2> QED BY <2>1, <2>2
  <1> QED BY <1>1, <1>2, <1>3, <1>4, <1>5, <1>6, <1>7 DEF Acts, Upload, Candidate, Publish

(* A name that is new is that of an upload that will join its group, or of *)
(* a candidate, whose name has an owner.                                   *)
LEMMA NewNameOwned ==
    ASSUME TypeOK, Owned, ReleasesHold, NEW r \in Request, Acts(r),
           NEW n \in packageNames(DOMAIN released'), n \notin packageNames(DOMAIN released)
    PROVE  OwnedName(n)' \/ (req[r].at = "publish" /\ n = req[r].id.name)
  <1>1. updateAddPackage(r) \/ publish(r)
    BY OthersKeep DEF Acts
  <1>2. req[r] \in OnUpload \cup OnPublish
    BY <1>1 DEF TypeOK, updateAddPackage, publish, Thread, Idle, Released, PublishSteps, Steps,
           OnUpload, OnPublish
  <1>3. StateTypeOK /\ AddPackage(r) /\ UNCHANGED <<candidates, maintainers>>
    BY <1>1 DEF TypeOK, StateTypeOK, updateAddPackage, publish
  <1>4. DOMAIN released' = DOMAIN released \cup {req[r].id}
    BY <1>2, <1>3, AddPackageTypeOK
  <1>5. n = req[r].id.name /\ req[r].id \notin DOMAIN released
    BY <1>4 DEF packageNames
  <1>6. CASE publish(r)
    BY <1>5, <1>6 DEF publish
  <1>7. CASE updateAddPackage(r)
    <2>1. /\ req'[r].at = "uploaded"
          /\ req'[r].id = req[r].id /\ req'[r].seen = req[r].seen
      BY <1>5, <1>7, GoOnUpload DEF TypeOK, updateAddPackage, Steps
    <2>2. req[r].seen \subseteq DOMAIN released
      BY <1>7 DEF Owned, updateAddPackage, Steps
    <2>3. ~packageExists(req'[r].seen, req'[r].id)
      BY <1>5, <2>1, <2>2 DEF packageExists, packageNames
    <2>4. Joining(r, n)'
      BY <1>5, <2>1, <2>3 DEF Joining, packageExists, packageNames
    <2> QED BY <2>4 DEF OwnedName
  <1> QED BY <1>1, <1>6, <1>7

LEMMA OwnedActs ==
    ASSUME TypeOK, Owned, ReleasesHold, NEW r \in Request, Acts(r)
    PROVE  Owned'
  <1>a. Record /\ Others(r) /\ req \in [Request -> Thread] /\ req' \in [Request -> Thread]
    BY ActsTyped DEF Typed, TypeOK
  <1>b. Kept
    BY TransactionKeeps, OthersKeep DEF Acts, Kept
  <1>c. ASSUME NEW n \in Name, OwnedName(n)
        PROVE  OwnedName(n)'
    <2>1. \A q \in Request : Joining(q, n) =>
              req'[q] = req[q] \/ req'[q] = Idle \/ maintainers'[n] # {}
      BY <1>a, LeavesUploaded DEF Others
    <2> QED BY <1>a, <1>c, <2>1, StaysOwned
  <1>1. ASSUME NEW q \in Request, req'[q].at \in Steps \cup PublishSteps \cup {"lookup"}
        PROVE  req'[q].seen \subseteq DOMAIN released'
    <2>1. DOMAIN released \subseteq DOMAIN released'
      BY <1>b DEF Kept
    <2>2. CASE q = r
      BY <1>1, <2>1, <2>2, SeenStays
    <2>3. CASE q # r
      BY <1>a, <1>1, <2>1, <2>3 DEF Others, Owned
    <2> QED BY <2>2, <2>3
  <1>2. ASSUME NEW q \in Request, req'[q].at = "publish",
               NEW n \in Name, n = req'[q].id.name
        PROVE  OwnedName(n)'
    <2>1. CASE q # r
      <3>1. OwnedName(n)
        BY <1>a, <1>2, <2>1 DEF Others, Owned
      <3> QED BY <1>c, <3>1
    <2>2. CASE q = r
      <3>1. maintainers'[n] # {}
        BY <1>2, <2>2, ReachesPublish DEF Maintains
      <3> QED BY <3>1 DEF OwnedName
    <2> QED BY <2>1, <2>2
  <1>3. ASSUME NEW n \in packageNames(DOMAIN released')
        PROVE  OwnedName(n)'
    <2>1. n \in Name
      BY <1>3, ActsTyped, UploadsAssumption DEF packageNames, Typed, StateTypeOK
    <2>2. CASE n \in packageNames(DOMAIN released)
      <3>1. OwnedName(n)
        BY <2>2 DEF Owned, PackagesAreOwned, OwnedName
      <3> QED BY <1>c, <2>1, <3>1
    <2>3. CASE n \notin packageNames(DOMAIN released)
      <3>1. OwnedName(n)' \/ (req[r].at = "publish" /\ n = req[r].id.name)
        BY <1>3, <2>3, NewNameOwned
      <3>2. (req[r].at = "publish" /\ n = req[r].id.name) => OwnedName(n)
        BY DEF Owned
      <3> QED BY <1>c, <2>1, <3>1, <3>2
    <2> QED BY <2>2, <2>3
  <1>4. PackagesAreOwned'
    BY <1>3 DEF PackagesAreOwned, OwnedName, packageNames
  <1>5. \A q \in Request : req'[q].at = "publish" => req'[q].id.name \in Name
    BY <1>a, UploadsAssumption DEF Thread, Idle, Released, Steps, PublishSteps
  <1>6. \A q \in Request : (req[q].at = "publish" => OwnedName(req[q].id.name))'
    BY <1>2, <1>5 DEF OwnedName
  <1>7. \A q \in Request : (req[q].at \in Steps \cup PublishSteps \cup {"lookup"} =>
                                req[q].seen \subseteq DOMAIN released)'
    BY <1>1
  <1> QED BY <1>4, <1>6, <1>7 DEF Owned

LEMMA OwnedStep ==
    ASSUME TypeOK, Owned, ReleasesHold, [Next]_vars
    PROVE  Owned'
  <1>1. CASE UNCHANGED vars
    BY <1>1 DEF vars, state, Owned, PackagesAreOwned, OwnedName, Joining, packageExists, packageNames
  <1>2. CASE groupAddUser \/ groupDeleteUser
    <2>1. Record /\ req' = req /\ released' = released
      BY <1>2, GroupEditTyped DEF groupAddUser, groupDeleteUser
    <2>2. \A n \in Name : OwnedName(n) => OwnedName(n)'
      BY <2>1, StaysOwned
    <2>a. DOMAIN released \subseteq PackageId
      BY DEF TypeOK
    <2>b. \A n \in packageNames(DOMAIN released) : n \in Name
      BY <2>a, UploadsAssumption DEF packageNames
    <2>c. \A n \in packageNames(DOMAIN released) : OwnedName(n)
      BY DEF Owned, PackagesAreOwned, OwnedName
    <2>3. \A n \in packageNames(DOMAIN released) : n \in Name /\ OwnedName(n)
      BY <2>b, <2>c
    <2>4. PackagesAreOwned'
      BY <2>1, <2>2, <2>3 DEF PackagesAreOwned, OwnedName, packageNames
    <2>5. ASSUME NEW q \in Request, req[q].at = "publish",
                 NEW n \in Name, n = req[q].id.name
          PROVE  OwnedName(n)'
      BY <2>2, <2>5 DEF Owned
    <2>6. \A q \in Request : req[q].at = "publish" => req[q].id.name \in Name
      BY UploadsAssumption DEF TypeOK, Thread, Idle, Released, Steps, PublishSteps
    <2>7. \A q \in Request : (req[q].at = "publish" => OwnedName(req[q].id.name))'
      BY <2>1, <2>5, <2>6 DEF OwnedName
    <2>8. \A q \in Request : (req[q].at \in Steps \cup PublishSteps \cup {"lookup"} =>
                                  req[q].seen \subseteq DOMAIN released)'
      BY <2>1 DEF Owned
    <2> QED BY <2>4, <2>7, <2>8 DEF Owned
  <1>3. ASSUME NEW r \in Request, Acts(r)
        PROVE  Owned'
    BY <1>3, OwnedActs
  <1> QED BY <1>1, <1>2, <1>3 DEF Next, Acts

(* Every package has an owner, one about to join, or lost the last one.    *)
THEOREM OwnersHold == Spec => []PackagesAreOwned
  <1>1. Init => ReleasesHold /\ Owned
    BY DEF Init, ReleasesHold, Owned, PackagesAreOwned, packageNames, Idle, Steps, PublishSteps
  <1>2. TypeOK /\ ReleasesHold /\ Owned /\ [Next]_vars => ReleasesHold' /\ Owned'
    BY ReleasesHoldStep, OwnedStep
  <1>3. Owned => PackagesAreOwned
    BY DEF Owned
  <1> QED BY <1>1, <1>2, <1>3, TypeCorrect, PTL DEF Spec

-----------------------------------------------------------------------------
(* Trailing zeros.  An upload past its check knows that no version it saw  *)
(* equals its own; a twin it did not see excuses it.                       *)

Zeros ==
    /\ TrailingZerosExplained
    /\ \A r \in Request : req[r].at = "addPackage" =>
           \A id \in req[r].seen : ~SameNormalised(id, req[r].id)

LEMMA ZerosActs ==
    ASSUME TypeOK, Zeros, ReleasesHold, NEW r \in Request, Acts(r)
    PROVE  TrailingZerosExplained'
  <1>a. Record /\ excused \subseteq excused'
    BY ActsTyped DEF Record
  <1>1. CASE released' = released
    BY <1>a, <1>1 DEF Zeros, TrailingZerosExplained
  <1>2. CASE released' # released
    <2>1. updateAddPackage(r) \/ publish(r)
      BY <1>2, OthersKeep DEF Acts
    <2>2. req[r] \in OnUpload \cup OnPublish
      BY <2>1 DEF TypeOK, updateAddPackage, publish, Thread, Idle, Released, PublishSteps, Steps,
             OnUpload, OnPublish
    <2>3. StateTypeOK /\ AddPackage(r) /\ UNCHANGED <<candidates, maintainers>>
      BY <2>1 DEF TypeOK, StateTypeOK, updateAddPackage, publish
    <2>4. DOMAIN released' = DOMAIN released \cup {req[r].id} /\ req[r].id \notin DOMAIN released
      BY <1>2, <2>2, <2>3, AddPackageTypeOK DEF AddPackage
    <2>5. req'[r].at \in {"uploaded", "published"}
      <3>1. CASE updateAddPackage(r)
        BY <2>4, <3>1, GoOnUpload DEF TypeOK, updateAddPackage, Steps
      <3>2. CASE publish(r)
        BY <2>4, <3>2, GoOnPublish DEF TypeOK, publish, PublishSteps
      <3> QED BY <2>1, <3>1, <3>2
    <2>6. req'[r] # req[r]
      BY <2>1, <2>5 DEF updateAddPackage, publish
    <2>7. Excused(r) => req[r].id \in excused'
      BY <1>a, <2>4, <2>6 DEF Record
    <2>8. ASSUME NEW b \in DOMAIN released, SameNormalised(b, req[r].id)
          PROVE  req[r].id \in excused'
      <3>1. CASE publish(r)
        BY <2>7, <3>1 DEF Excused, publish
      <3>2. CASE updateAddPackage(r)
        <4>1. b \notin req[r].seen
          BY <2>8, <3>2 DEF Zeros, updateAddPackage
        <4> QED BY <2>7, <2>8, <4>1 DEF Excused
      <3> QED BY <2>1, <3>1, <3>2
    <2>9. \A b \in DOMAIN released : SameNormalised(req[r].id, b) => SameNormalised(b, req[r].id)
      BY DEF SameNormalised
    <2> SUFFICES ASSUME NEW a \in DOMAIN released', NEW b \in DOMAIN released',
                        SameNormalised(a, b)
                 PROVE  a = b \/ a \in excused' \/ b \in excused'
      BY DEF TrailingZerosExplained
    <2>10. CASE a \in DOMAIN released /\ b \in DOMAIN released
      BY <1>a, <2>10 DEF Zeros, TrailingZerosExplained
    <2>11. CASE a = req[r].id /\ b \in DOMAIN released
      BY <2>8, <2>9, <2>11
    <2>12. CASE b = req[r].id /\ a \in DOMAIN released
      BY <2>8, <2>12
    <2> QED BY <2>4, <2>10, <2>11, <2>12
  <1> QED BY <1>1, <1>2

(* Only processUpload leads to the transaction of an upload.               *)
LEMMA ReachesAddPackage ==
    ASSUME TypeOK, NEW r \in Request, Acts(r), req'[r].at = "addPackage"
    PROVE  /\ req'[r].id = req[r].id /\ req'[r].seen = req[r].seen
           /\ MayUpload(req[r].seen, req[r].id, req[r].uid)
  <1>a. req \in [Request -> Thread]
    BY DEF TypeOK
  <1>1. CASE uploadPackage(r) \/ uploadCandidate(r) \/ publishCandidate(r) \/ doDeleteCandidate(r)
    BY <1>1, <1>a DEF uploadPackage, uploadCandidate, publishCandidate, doDeleteCandidate
  <1>2. CASE updateAddPackage(r) \/ processCandidate(r) \/ checkCandidate(r) \/ addCandidate(r)
    <2>1. req[r].at \in Steps
      BY <1>2 DEF updateAddPackage, processCandidate, checkCandidate, addCandidate, Steps
    <2>2. End(r) \/ \E a \in Steps \ {"addPackage"} : Go(r, a)
      BY <1>2 DEF updateAddPackage, processCandidate, checkCandidate, addCandidate, Steps
    <2> QED BY <1>a, <2>1, <2>2, GoOnUpload, EndStep DEF Idle
  <1>3. CASE checkPublish(r) \/ publish(r)
    <2>1. req[r].at \in PublishSteps
      BY <1>3 DEF checkPublish, publish, PublishSteps
    <2>2. End(r) \/ \E a \in PublishSteps : Go(r, a)
      BY <1>3 DEF checkPublish, publish, PublishSteps
    <2> QED BY <1>a, <2>1, <2>2, GoOnPublish, EndStep DEF Idle, PublishSteps
  <1>4. CASE lookupCandidateId(r)
    BY <1>4, <1>a, EndStep DEF lookupCandidateId, Idle
  <1>5. CASE finishUpload(r) \/ finishPublish(r)
    BY <1>5, <1>a, ReportStep DEF finishUpload, finishPublish, Steps, PublishSteps
  <1>6. CASE joinGroup(r) \/ deleteCandidate(r) \/ Abort(r)
    BY <1>6, <1>a, EndStep DEF joinGroup, deleteCandidate, Abort, Idle
  <1>7. CASE processUpload(r)
    <2>1. CASE MayUpload(req[r].seen, req[r].id, req[r].uid)
      BY <1>7, <1>a, <2>1, GoOnUpload DEF processUpload, Steps
    <2>2. CASE ~MayUpload(req[r].seen, req[r].id, req[r].uid)
      BY <1>7, <1>a, <2>2, EndStep DEF processUpload, Idle
    <2> QED BY <2>1, <2>2
  <1> QED BY <1>1, <1>2, <1>3, <1>4, <1>5, <1>6, <1>7 DEF Acts, Upload, Candidate, Publish

LEMMA ZerosStep ==
    ASSUME TypeOK, Zeros, ReleasesHold, [Next]_vars
    PROVE  Zeros'
  <1>1. CASE UNCHANGED vars
    BY <1>1 DEF vars, state, Zeros, TrailingZerosExplained
  <1>2. CASE groupAddUser \/ groupDeleteUser
    <2>1. Record /\ req' = req /\ released' = released
      BY <1>2, GroupEditTyped DEF groupAddUser, groupDeleteUser
    <2>2. excused \subseteq excused'
      BY <2>1 DEF Record
    <2> QED BY <2>1, <2>2 DEF Zeros, TrailingZerosExplained
  <1>3. ASSUME NEW r \in Request, Acts(r)
        PROVE  Zeros'
    <2>1. Others(r)
      BY <1>3, ActsTyped DEF Typed
    <2>2. ASSUME NEW q \in Request, req'[q].at = "addPackage", NEW id \in req'[q].seen
          PROVE  ~SameNormalised(id, req'[q].id)
      <3>1. CASE q # r
        BY <2>1, <2>2, <3>1 DEF Others, Zeros
      <3>2. CASE q = r
        <4>1. /\ req'[r].id = req[r].id /\ req'[r].seen = req[r].seen
              /\ ~packageIdExistsModuloNormalisedVersion(req[r].seen, req[r].id)
          BY <1>3, <2>2, <3>2, ReachesAddPackage DEF MayUpload
        <4> QED BY <2>2, <3>2, <4>1 DEF packageIdExistsModuloNormalisedVersion
      <3> QED BY <3>1, <3>2
    <2> QED BY <1>3, <2>2, ZerosActs DEF Zeros
  <1> QED BY <1>1, <1>2, <1>3 DEF Next, Acts

(* Versions that differ only in trailing zeros were published, or uploaded *)
(* at the same time.                                                       *)
THEOREM ZerosExplained == Spec => []TrailingZerosExplained
  <1>1. Init => ReleasesHold /\ Zeros
    BY DEF Init, ReleasesHold, Zeros, TrailingZerosExplained, Idle
  <1>2. TypeOK /\ ReleasesHold /\ Zeros /\ [Next]_vars => ReleasesHold' /\ Zeros'
    BY ReleasesHoldStep, ZerosStep
  <1>3. Zeros => TrailingZerosExplained
    BY DEF Zeros
  <1> QED BY <1>1, <1>2, <1>3, TypeCorrect, PTL DEF Spec

-----------------------------------------------------------------------------
(* Candidates.                                                             *)

LEMMA CandidatesLeave ==
    ASSUME TypeOK, NEW r \in Request, Acts(r),
           NEW id \in DOMAIN candidates, id \notin DOMAIN candidates'
    PROVE  \/ req[r].at = "delete" /\ id \in req[r].ids
           \/ req[r].at = "published" /\ id = req[r].id
  <1>1. CASE deleteCandidate(r)
    BY <1>1 DEF deleteCandidate, Without, Restrict
  <1>2. CASE finishPublish(r)
    BY <1>2 DEF finishPublish, Without, Restrict
  <1>3. CASE addCandidate(r)
    BY <1>3 DEF addCandidate
  <1>4. CASE ~(deleteCandidate(r) \/ finishPublish(r) \/ addCandidate(r))
    BY <1>4 DEF Acts, Upload, Candidate, Publish, Abort, uploadPackage, processUpload,
        updateAddPackage, finishUpload, uploadCandidate, processCandidate, checkCandidate,
        joinGroup, doDeleteCandidate, publishCandidate, lookupCandidateId, checkPublish,
        publish, state
  <1> QED BY <1>1, <1>2, <1>3, <1>4

(* A candidate is not lost before it is released.                          *)
THEOREM CandidatesAreKept == Spec => CandidatesKept
  <1>1. Init => ReleasesHold
    BY DEF Init, ReleasesHold, Idle
  <1>2. TypeOK /\ ReleasesHold /\ [Next]_vars => ReleasesHold'
    BY ReleasesHoldStep
  <1>3. TypeOK /\ ReleasesHold /\ [Next]_vars =>
          [\A id \in DOMAIN candidates :
              id \in DOMAIN candidates' \/ id \in DOMAIN released
              \/ \E r \in Request : req[r].at = "delete" /\ id \in req[r].ids]_vars
    <2> SUFFICES ASSUME TypeOK, ReleasesHold, Next,
                        NEW id \in DOMAIN candidates, id \notin DOMAIN candidates'
                 PROVE  id \in DOMAIN released
                        \/ \E r \in Request : req[r].at = "delete" /\ id \in req[r].ids
      OBVIOUS
    <2>1. ~(groupAddUser \/ groupDeleteUser)
      BY DEF groupAddUser, groupDeleteUser
    <2>2. PICK r \in Request : Acts(r)
      BY <2>1 DEF Next, Acts
    <2>3. CASE req[r].at = "delete" /\ id \in req[r].ids
      BY <2>3
    <2>4. CASE req[r].at = "published" /\ id = req[r].id
      BY <2>4 DEF ReleasesHold, HasReleased
    <2> QED BY <2>2, <2>3, <2>4, CandidatesLeave
  <1> QED BY <1>1, <1>2, <1>3, TypeCorrect, PTL DEF Spec, CandidatesKept
=============================================================================
