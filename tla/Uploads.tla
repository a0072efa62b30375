------------------------------ MODULE Uploads ------------------------------
(***************************************************************************)
(* Releasing packages: the upload, candidate and publish routes            *)
(* (Features/Upload.hs, Features/PackageCandidates.hs).  A route reads the *)
(* package index once, when it starts, then the maintainer groups, and     *)
(* only then runs the transactions that release the package, store the     *)
(* candidate and change the group; other requests come in between.  A      *)
(* request may end anywhere.                                               *)
(*                                                                         *)
(* Released packages are never deleted (no route does).  The uploaders     *)
(* group is constant; what the release does to the log and the index is in *)
(* CoreFeature, the index of the groups in UserFeature.  Mirror clients,   *)
(* which are bound by none of the rules here, are left out.                *)
(***************************************************************************)
EXTENDS Integers, FiniteSets, SequencesExt

CONSTANTS Name,        \* package names
          PackageId,   \* pairs of a name and a version, a sequence of numbers
          CandidateId, \* bound: those of which candidates are uploaded
          EditName,    \* bound: the names whose groups are edited by hand
          lowercase,   \* the name in small letters
          User,
          Uploaders,   \* the members of the uploaders group
          Tarball,     \* what can be uploaded
          MaxReleases, \* bound: once so many are released no more are uploaded
          Request      \* request threads

ASSUME UploadsAssumption ==
    /\ PackageId \subseteq [name : Name, version : Seq(Nat)]
    /\ CandidateId \subseteq PackageId
    /\ EditName \subseteq Name
    /\ DOMAIN lowercase = Name
    /\ Uploaders \subseteq User

VARIABLES released,     \* the package index: what was released, and by whom
          candidates,   \* the candidate index
          maintainers,  \* for every name its group
          req,          \* per request: what it does next, and what it holds
          during,       \* history, per request: see Record
          unowned,      \* history: names left without a maintainer
          excused       \* history: ids that the rule on zeros did not stop

state  == <<released, candidates, maintainers>>
vars   == <<state, req, during, unowned, excused>>

(* A request at work knows its user, the package and the index as it was   *)
(* when it started; at rest it may remember the release it reported.       *)
Idle     == [at |-> "idle"]
Released == [at : {"done"}, id : PackageId, uid : User, tarball : Tarball]
Steps    == {"processUpload", "addPackage", "uploaded",
             "processCandidate", "checkCandidate", "addCandidate", "joinGroup"}
PublishSteps == {"checkPublish", "publish", "published"}

Thread ==
    {Idle} \cup Released
    \cup [at : Steps, id : PackageId, uid : User, tarball : Tarball,
          seen : SUBSET PackageId]
    \cup [at : {"lookup"}, id : PackageId, uid : User, seen : SUBSET PackageId,
          doDelete : BOOLEAN]
    \cup [at : PublishSteps, id : PackageId, uid : User, tarball : Tarball,
          seen : SUBSET PackageId, doDelete : BOOLEAN]
    \cup [at : {"delete"}, ids : SUBSET PackageId]

Resting(r) == req[r].at \in {"idle", "done"}

Go(r, at)  == req' = [req EXCEPT ![r].at = at]
End(r)     == req' = [req EXCEPT ![r] = Idle]
Report(r)  == req' = [req EXCEPT ![r] =
                  [at |-> "done", id |-> req[r].id, uid |-> req[r].uid,
                   tarball |-> req[r].tarball]]

-----------------------------------------------------------------------------
(* The rules.                                                              *)

packageNames(index) == {id.name : id \in index}
packageExists(index, id) == id.name \in packageNames(index)

(* The version without its trailing zeros; at least one number is left.    *)
normaliseVersion(v) ==
    LET last == {i \in DOMAIN v : v[i] # 0}
    IN  IF last = {} THEN <<0>>
        ELSE SubSeq(v, 1, CHOOSE i \in last : \A j \in last : j <= i)

SameNormalised(a, b) ==
    a.name = b.name /\ normaliseVersion(a.version) = normaliseVersion(b.version)

(* Mutant: versions are compared as they are.                              *)
packageIdExistsModuloNormalisedVersion_Exact(index, id) == id \in index

packageIdExistsModuloNormalisedVersion(index, id) ==
    \E other \in index : SameNormalised(other, id)

(* The packages that case-clash with a new one: searchByName finds names   *)
(* that are equal in small letters.                                        *)
searchByName(index, name) ==
    {n \in packageNames(index) : lowercase[n] = lowercase[name]}

CaseClash(index, id, uid) ==
    LET clashing == searchByName(index, id.name)
    IN  /\ ~packageExists(index, id)
        /\ clashing # {}
        /\ \A n \in clashing : uid \notin maintainers[n]

Maintains(uid, id) == uid \in maintainers[id.name]
GroupNull(id) == maintainers[id.name] = {}

(* Mutant: a package whose group is empty is taken for a new one.          *)
MayUpload_ByGroup(seen, id, uid) ==
    /\ uid \in Uploaders
    /\ ~GroupNull(id) => Maintains(uid, id)
    /\ id \notin seen
    /\ ~packageIdExistsModuloNormalisedVersion(seen, id)
    /\ ~CaseClash(seen, id, uid)

(* The groups are read one after the other, the package's own first; no    *)
(* property tells these reads apart.                                       *)
MayUpload(seen, id, uid) ==
    /\ uid \in Uploaders
    /\ packageExists(seen, id) => Maintains(uid, id)
    /\ ~GroupNull(id) => Maintains(uid, id)
    /\ id \notin seen
    /\ ~packageIdExistsModuloNormalisedVersion(seen, id)
    /\ ~CaseClash(seen, id, uid)

(* Mutant: only packages that were released have maintainers.              *)
MayUploadCandidate_Released(seen, id, uid) ==
    packageExists(seen, id) => Maintains(uid, id)

MayUploadCandidate(seen, id, uid) ==
    (~GroupNull(id) \/ packageExists(seen, id)) => Maintains(uid, id)

SafeToInsert(seen, id, uid) ==
    /\ id \notin seen
    /\ ~CaseClash(seen, id, uid)

-----------------------------------------------------------------------------
(* History.  While request r is at work, during[r].mine has the names that *)
(* its user has maintained at some time since it started, and              *)
(* during[r].held those whose group was never empty since.  unowned has    *)
(* the names whose last maintainer was removed, or whose first release's   *)
(* request died before its user joined the group; excused has the ids that *)
(* were published, or uploaded while an equal version was on its way in.   *)

Maintained(m)  == {n \in Name : m[n] # {}}
MineIn(m, uid) == {n \in Name : uid \in m[n]}

Followed(r) ==
    IF req'[r].at \in {"idle", "done", "delete"} THEN [mine |-> {}, held |-> {}]
    ELSE LET mine == MineIn(maintainers', req'[r].uid)
             held == Maintained(maintainers')
         IN  IF Resting(r) THEN [mine |-> mine, held |-> held]
             ELSE [mine |-> during[r].mine \cup mine, held |-> during[r].held \cap held]

Joining(r, n) ==
    req[r].at = "uploaded" /\ req[r].id.name = n /\ ~packageExists(req[r].seen, req[r].id)

Excused(r) ==
    \/ req[r].at = "publish"
    \/ \E id \in DOMAIN released \ req[r].seen : SameNormalised(id, req[r].id)

Record ==
    /\ during' = [r \in Request |-> Followed(r)]
    /\ unowned' = {n \in Name \ Maintained(maintainers') :
           \/ n \in unowned \cup Maintained(maintainers)
           \/ \E r \in Request : Joining(r, n) /\ req'[r] = Idle}
    /\ excused' = excused \cup
           {id \in DOMAIN released' \ DOMAIN released :
                \E r \in Request : req'[r] # req[r] /\ req[r].id = id /\ Excused(r)}

-----------------------------------------------------------------------------
(* Uploading a release.                                                    *)

uploadPackage(r) ==
    /\ Resting(r) /\ Cardinality(DOMAIN released) < MaxReleases
    /\ \E id \in PackageId, uid \in User, t \in Tarball :
           req' = [req EXCEPT ![r] = [at |-> "processUpload", id |-> id, uid |-> uid,
                                      tarball |-> t, seen |-> DOMAIN released]]
    /\ UNCHANGED state /\ Record

processUpload(r) ==
    /\ req[r].at = "processUpload"
    /\ IF MayUpload(req[r].seen, req[r].id, req[r].uid) THEN Go(r, "addPackage")
                                                        ELSE End(r)
    /\ UNCHANGED state /\ Record

(* Mutant: a release replaces the one that is there.                       *)
AddPackage_Overwrites(r) ==
    released' = [id \in DOMAIN released \cup {req[r].id} |->
                    IF id = req[r].id
                    THEN [by |-> req[r].uid, tarball |-> req[r].tarball]
                    ELSE released[id]]

(* The transaction refuses an id that is there (Core/State.hs).            *)
AddPackage(r) ==
    IF req[r].id \in DOMAIN released
    THEN UNCHANGED released
    ELSE released' = [id \in DOMAIN released \cup {req[r].id} |->
                         IF id = req[r].id
                         THEN [by |-> req[r].uid, tarball |-> req[r].tarball]
                         ELSE released[id]]

updateAddPackage(r) ==
    /\ req[r].at = "addPackage"
    /\ AddPackage(r)
    /\ IF req[r].id \in DOMAIN released THEN End(r) ELSE Go(r, "uploaded")
    /\ UNCHANGED <<candidates, maintainers>> /\ Record

addUserToGroup(name, uid) ==
    maintainers' = [maintainers EXCEPT ![name] = @ \cup {uid}]

(* Mutant: existedBefore is asked of the index as it is now.               *)
finishUpload_Fresh(r) ==
    /\ req[r].at = "uploaded"
    /\ IF packageExists(DOMAIN released, req[r].id)
       THEN UNCHANGED maintainers
       ELSE addUserToGroup(req[r].id.name, req[r].uid)
    /\ Report(r)
    /\ UNCHANGED <<released, candidates>> /\ Record

(* existedBefore is asked of the index read at the start.                  *)
finishUpload(r) ==
    /\ req[r].at = "uploaded"
    /\ IF packageExists(req[r].seen, req[r].id)
       THEN UNCHANGED maintainers
       ELSE addUserToGroup(req[r].id.name, req[r].uid)
    /\ Report(r)
    /\ UNCHANGED <<released, candidates>> /\ Record

-----------------------------------------------------------------------------
(* Candidates: uploading one replaces the one that is there.               *)

uploadCandidate(r) ==
    /\ Resting(r)
    /\ \E id \in CandidateId, uid \in Uploaders, t \in Tarball :
           req' = [req EXCEPT ![r] = [at |-> "processCandidate", id |-> id, uid |-> uid,
                                      tarball |-> t, seen |-> DOMAIN released]]
    /\ UNCHANGED state /\ Record

processCandidate(r) ==
    /\ req[r].at = "processCandidate"
    /\ IF MayUploadCandidate(req[r].seen, req[r].id, req[r].uid)
       THEN Go(r, "checkCandidate") ELSE End(r)
    /\ UNCHANGED state /\ Record

checkCandidate(r) ==
    /\ req[r].at = "checkCandidate"
    /\ IF SafeToInsert(req[r].seen, req[r].id, req[r].uid)
       THEN Go(r, "addCandidate") ELSE End(r)
    /\ UNCHANGED state /\ Record

addCandidate(r) ==
    /\ req[r].at = "addCandidate"
    /\ candidates' = [id \in DOMAIN candidates \cup {req[r].id} |->
                         IF id = req[r].id THEN req[r].tarball ELSE candidates[id]]
    /\ Go(r, "joinGroup")
    /\ UNCHANGED <<released, maintainers>> /\ Record

joinGroup(r) ==
    /\ req[r].at = "joinGroup"
    /\ addUserToGroup(req[r].id.name, req[r].uid)
    /\ End(r)
    /\ UNCHANGED <<released, candidates>> /\ Record

-----------------------------------------------------------------------------
(* Publishing a candidate: it is read once, released, and then deleted by  *)
(* its id if that was asked for.                                           *)

publishCandidate(r) ==
    /\ Resting(r) /\ Cardinality(DOMAIN released) < MaxReleases
    /\ \E id \in CandidateId, uid \in User, doDelete \in BOOLEAN :
           req' = [req EXCEPT ![r] = [at |-> "lookup", id |-> id, uid |-> uid,
                                      seen |-> DOMAIN released, doDelete |-> doDelete]]
    /\ UNCHANGED state /\ Record

Without(f, S) == Restrict(f, DOMAIN f \ S)

lookupCandidateId(r) ==
    /\ req[r].at = "lookup"
    /\ IF req[r].id \in DOMAIN candidates
       THEN req' = [req EXCEPT ![r] =
                [at |-> "checkPublish", id |-> req[r].id, uid |-> req[r].uid,
                 tarball |-> candidates[req[r].id], seen |-> req[r].seen,
                 doDelete |-> req[r].doDelete]]
       ELSE End(r)
    /\ UNCHANGED state /\ Record

checkPublish(r) ==
    /\ req[r].at = "checkPublish"
    /\ IF Maintains(req[r].uid, req[r].id) /\ SafeToInsert(req[r].seen, req[r].id, req[r].uid)
       THEN Go(r, "publish") ELSE End(r)
    /\ UNCHANGED state /\ Record

publish(r) ==
    /\ req[r].at = "publish"
    /\ AddPackage(r)
    /\ IF req[r].id \in DOMAIN released THEN End(r) ELSE Go(r, "published")
    /\ UNCHANGED <<candidates, maintainers>> /\ Record

finishPublish(r) ==
    /\ req[r].at = "published"
    /\ IF req[r].doDelete THEN candidates' = Without(candidates, {req[r].id})
                          ELSE UNCHANGED candidates
    /\ Report(r)
    /\ UNCHANGED <<released, maintainers>> /\ Record

-----------------------------------------------------------------------------
(* Deleting candidates, one that is there or all of a name; trustees may.  *)

doDeleteCandidate(r) ==
    /\ Resting(r)
    /\ \E ids \in {{id} : id \in DOMAIN candidates}
               \cup {{id \in CandidateId : id.name = n} : n \in packageNames(CandidateId)} :
           req' = [req EXCEPT ![r] = [at |-> "delete", ids |-> ids]]
    /\ UNCHANGED state /\ Record

deleteCandidate(r) ==
    /\ req[r].at = "delete"
    /\ candidates' = Without(candidates, req[r].ids)
    /\ End(r)
    /\ UNCHANGED <<released, maintainers>> /\ Record

-----------------------------------------------------------------------------
(* Group edits by maintainers and admins; threads that die.                *)

groupAddUser ==
    /\ \E n \in EditName, u \in User : addUserToGroup(n, u)
    /\ UNCHANGED <<released, candidates, req>> /\ Record

groupDeleteUser ==
    /\ \E n \in EditName, u \in User :
           maintainers' = [maintainers EXCEPT ![n] = @ \ {u}]
    /\ UNCHANGED <<released, candidates, req>> /\ Record

Abort(r) ==
    /\ ~Resting(r)
    /\ End(r)
    /\ UNCHANGED state /\ Record

Init ==
    /\ released = <<>> /\ candidates = <<>>
    /\ maintainers = [n \in Name |-> {}]
    /\ req = [r \in Request |-> Idle]
    /\ during = [r \in Request |-> [mine |-> {}, held |-> {}]]
    /\ unowned = {} /\ excused = {}

Upload(r) ==
    uploadPackage(r) \/ processUpload(r) \/ updateAddPackage(r) \/ finishUpload(r)

Candidate(r) ==
    \/ uploadCandidate(r) \/ processCandidate(r) \/ checkCandidate(r)
    \/ addCandidate(r) \/ joinGroup(r)
    \/ doDeleteCandidate(r) \/ deleteCandidate(r)

Publish(r) ==
    \/ publishCandidate(r) \/ lookupCandidateId(r) \/ checkPublish(r)
    \/ publish(r) \/ finishPublish(r)

Next ==
    \/ \E r \in Request : Upload(r) \/ Candidate(r) \/ Publish(r) \/ Abort(r)
    \/ groupAddUser
    \/ groupDeleteUser

Spec == Init /\ [][Next]_vars

-----------------------------------------------------------------------------
(* Properties.                                                             *)

(* The indexes, groups and requests are well formed.                       *)
TypeOK ==
    /\ DOMAIN released \subseteq PackageId
    /\ released \in [DOMAIN released -> [by : User, tarball : Tarball]]
    /\ DOMAIN candidates \subseteq PackageId
    /\ candidates \in [DOMAIN candidates -> Tarball]
    /\ maintainers \in [Name -> SUBSET User]
    /\ req \in [Request -> Thread]
    /\ during \in [Request -> [mine : SUBSET Name, held : SUBSET Name]]
    /\ unowned \subseteq Name /\ excused \subseteq PackageId

(* A request that reported a release is the one that made it: what is in   *)
(* the index under the id is the tarball it was sent (or the candidate it  *)
(* read), of its user, however many requests raced for the id.             *)
ReportsAreTrue ==
    \A r \in Request : req[r].at = "done" =>
        /\ req[r].id \in DOMAIN released
        /\ released[req[r].id] = [by |-> req[r].uid, tarball |-> req[r].tarball]

(* The policy of processUpload: no two releases differ only in trailing    *)
(* zeros.                                                                  *)
NoTrailingZeros ==
    \A a, b \in DOMAIN released : SameNormalised(a, b) => a = b

(* What is left of the policy: versions that differ only in trailing zeros *)
(* are there only if one was published from a candidate, or uploaded while *)
(* the other was being uploaded.                                           *)
TrailingZerosExplained ==
    \A a, b \in DOMAIN released :
        SameNormalised(a, b) => a = b \/ a \in excused \/ b \in excused

(* Whoever releases a package was entitled to at some time during the      *)
(* request: a maintainer of a package that existed or whose group was not  *)
(* empty, and for a name new but for its case a maintainer of another      *)
(* package of that name.                                                   *)
EntitledReleases ==
    [][\A r \in Request : (released' # released /\ req'[r] # req[r]) =>
           LET id    == req[r].id
               index == req[r].seen
               mine  == during[r].mine
               clash == searchByName(index, id.name)
           IN  /\ (packageExists(index, id) \/ id.name \in during[r].held) => id.name \in mine
               /\ (~packageExists(index, id) /\ clash # {}) => clash \cap mine # {}]_vars

(* Nobody becomes a maintainer by uploading a release or a candidate of a  *)
(* name that had maintainers all the while, unless he was one of them.     *)
NoTakeover ==
    [][\A r \in Request, n \in Name :
           (req'[r] # req[r] /\ ~(maintainers'[n] \subseteq maintainers[n])) =>
               (n \in during[r].held => n \in during[r].mine)]_vars

(* Every package that was released has a maintainer, or one that is about  *)
(* to join, unless the last was removed or the one about to join died.     *)
PackagesAreOwned ==
    \A n \in packageNames(DOMAIN released) :
        \/ maintainers[n] # {}
        \/ \E r \in Request : Joining(r, n)
        \/ n \in unowned

(* A candidate stays until it is replaced, deleted on request or released: *)
(* publishing that fails or dies does not lose it.                         *)
CandidatesKept ==
    [][\A id \in DOMAIN candidates :
           id \in DOMAIN candidates' \/ id \in DOMAIN released
           \/ \E r \in Request : req[r].at = "delete" /\ id \in req[r].ids]_vars
=============================================================================
