------------------------- MODULE UserFeature_proofs -------------------------
(***************************************************************************)
(* Theorems about accounts, for any number of names, tokens, accounts and  *)
(* requests.  The transactions of the user database come first, on their   *)
(* own; then each step of a route is shown to be one of them.              *)
(***************************************************************************)
EXTENDS UserFeature, TLAPS

(* What the routes may do to the user database, deleting ids of D only.    *)
UserUpdate(D) ==
    \/ UNCHANGED users
    \/ \E name \in UserName, s \in {"new", "enabled"} : addUser(name, s)
    \/ \E u \in D : deleteUser(u)
    \/ \E u \in UserId, b \in BOOLEAN : setUserEnabledStatus(u, b)
    \/ \E u \in UserId : setUserAuth(u)
    \/ \E u \in userIds, t \in AuthToken : addAuthToken(u, t) \/ revokeAuthToken(u, t)

(* A status that is changed stays a status, and only "deleted" stays so.   *)
LEMMA StatusChanges ==
    ASSUME NEW s \in UserStatus, NEW b \in BOOLEAN
    PROVE  /\ changeStatus(s, b) \in UserStatus /\ changeAuth(s) \in UserStatus
           /\ changeStatus(s, b) = "deleted" <=> s = "deleted"
           /\ changeAuth(s) = "deleted" <=> s = "deleted"
BY DEF UserStatus, changeStatus, changeAuth

LEMMA PutFunction ==
    ASSUME NEW T, NEW f, f \in [DOMAIN f -> T], NEW k, NEW v \in T
    PROVE  /\ Put(f, k, v) \in [DOMAIN f \cup {k} -> T]
           /\ DOMAIN Put(f, k, v) = DOMAIN f \cup {k}
           /\ Put(f, k, v)[k] = v
           /\ \A x \in DOMAIN f \ {k} : Put(f, k, v)[x] = f[x]
BY DEF Put

LEMMA RemoveFunction ==
    ASSUME NEW T, NEW f, f \in [DOMAIN f -> T], NEW k
    PROVE  /\ Remove(f, k) \in [DOMAIN f \ {k} -> T]
           /\ DOMAIN Remove(f, k) = DOMAIN f \ {k}
           /\ \A x \in DOMAIN f \ {k} : Remove(f, k)[x] = f[x]
BY DEF Remove

-----------------------------------------------------------------------------
(* Transactions keep the types.                                            *)

LEMMA AddKeepsType ==
    ASSUME UsersTypeOK, NEW name \in UserName, NEW s \in UserStatus, addUser(name, s)
    PROVE  UsersTypeOK' /\ nextId \in UserId /\ userIds' = userIds \cup {nextId}
<1>1. nextId \in UserId /\ nextId' \in 0 .. MaxUsers
    BY UsersAssumption DEF UsersTypeOK, addUser, UserId
<1>2. userStatus' \in [userIds \cup {nextId} -> UserStatus] /\ userIds' = userIds \cup {nextId}
  <2>1. userStatus \in [DOMAIN userStatus -> UserStatus] /\ userStatus' = Put(userStatus, nextId, s)
      BY DEF UsersTypeOK, addUser, userIds
  <2>2. /\ userStatus' \in [DOMAIN userStatus \cup {nextId} -> UserStatus]
        /\ DOMAIN userStatus' = DOMAIN userStatus \cup {nextId}
      BY <2>1 DEF Put
  <2> QED
      BY <2>2 DEF userIds
<1>3. userName' \in [userIds \cup {nextId} -> UserName]
  <2>1. DOMAIN userName = userIds
      BY DEF UsersTypeOK
  <2> QED
      BY <2>1, PutFunction DEF UsersTypeOK, addUser
<1>4. userTokens' \in [userIds \cup {nextId} -> SUBSET AuthToken]
  <2>1. DOMAIN userTokens = userIds /\ {} \in SUBSET AuthToken
      BY DEF UsersTypeOK
  <2> QED
      BY <2>1, PutFunction DEF UsersTypeOK, addUser
<1>5. /\ DOMAIN userNameMap' \subseteq UserName
      /\ userNameMap' \in [DOMAIN userNameMap' -> UserId]
  <2>0. userNameMap \in [DOMAIN userNameMap -> UserId] /\ userNameMap' = Put(userNameMap, name, nextId)
      BY DEF UsersTypeOK, addUser
  <2>1. /\ userNameMap' \in [DOMAIN userNameMap \cup {name} -> UserId]
        /\ DOMAIN userNameMap' = DOMAIN userNameMap \cup {name}
      BY <1>1, <2>0 DEF Put
  <2> QED
      BY <2>1 DEF UsersTypeOK
<1> QED
    BY <1>1, <1>2, <1>3, <1>4, <1>5 DEF UsersTypeOK, addUser

LEMMA DeleteKeepsType ==
    ASSUME UsersTypeOK, NEW u, deleteUser(u)
    PROVE  UsersTypeOK' /\ userIds' = userIds
<1>1. userStatus' \in [userIds -> UserStatus] /\ userIds' = userIds
    BY DEF UsersTypeOK, deleteUser, userIds, UserStatus
<1>2. /\ DOMAIN userNameMap' \subseteq UserName
      /\ userNameMap' \in [DOMAIN userNameMap' -> UserId]
  <2>1. /\ userNameMap' \in [DOMAIN userNameMap \ {userName[u]} -> UserId]
        /\ DOMAIN userNameMap' = DOMAIN userNameMap \ {userName[u]}
    <3>1. /\ userNameMap \in [DOMAIN userNameMap -> UserId]
          /\ userNameMap' = Remove(userNameMap, userName[u])
        BY DEF UsersTypeOK, deleteUser
    <3> QED
        BY <3>1 DEF Remove
  <2> QED
      BY <2>1 DEF UsersTypeOK
<1> QED
    BY <1>1, <1>2 DEF UsersTypeOK, deleteUser

LEMMA StatusKeepsType ==
    ASSUME UsersTypeOK, NEW u, NEW b \in BOOLEAN,
           setUserEnabledStatus(u, b) \/ setUserAuth(u)
    PROVE  UsersTypeOK' /\ userIds' = userIds
<1>1. userStatus' \in [userIds -> UserStatus] /\ userIds' = userIds
    BY StatusChanges DEF UsersTypeOK, setUserEnabledStatus, setUserAuth, userIds
<1> QED
    BY <1>1 DEF UsersTypeOK, setUserEnabledStatus, setUserAuth

LEMMA TokenKeepsType ==
    ASSUME UsersTypeOK, NEW u \in userIds, NEW t \in AuthToken,
           addAuthToken(u, t) \/ revokeAuthToken(u, t)
    PROVE  UsersTypeOK' /\ userIds' = userIds
<1>1. userIds' = userIds /\ u \in UserId
    BY DEF UsersTypeOK, addAuthToken, revokeAuthToken, userIds
<1>2. userTokens' \in [userIds -> SUBSET AuthToken]
    BY DEF UsersTypeOK, addAuthToken, revokeAuthToken
<1>3. CASE addAuthToken(u, t)
  <2>1. /\ authTokenMap' \in [DOMAIN authTokenMap \cup {t} -> UserId]
        /\ DOMAIN authTokenMap' = DOMAIN authTokenMap \cup {t}
    <3>1. authTokenMap \in [DOMAIN authTokenMap -> UserId] /\ authTokenMap' = Put(authTokenMap, t, u)
        BY <1>3 DEF UsersTypeOK, addAuthToken
    <3> QED
        BY <1>1, <3>1 DEF Put
  <2> QED
      BY <1>1, <1>2, <1>3, <2>1 DEF UsersTypeOK, addAuthToken
<1>4. CASE revokeAuthToken(u, t)
  <2>1. /\ authTokenMap' \in [DOMAIN authTokenMap \ {t} -> UserId]
        /\ DOMAIN authTokenMap' = DOMAIN authTokenMap \ {t}
    <3>1. authTokenMap \in [DOMAIN authTokenMap -> UserId] /\ authTokenMap' = Remove(authTokenMap, t)
        BY <1>4 DEF UsersTypeOK, revokeAuthToken
    <3> QED
        BY <3>1 DEF Remove
  <2> QED
      BY <1>1, <1>2, <1>4, <2>1 DEF UsersTypeOK, revokeAuthToken
<1> QED
    BY <1>3, <1>4

LEMMA UpdateKeepsType ==
    ASSUME UsersTypeOK, NEW D, UserUpdate(D)
    PROVE  UsersTypeOK' /\ userIds \subseteq userIds'
<1>1. CASE UNCHANGED users
    BY <1>1 DEF UsersTypeOK, users, userIds
<1>2. ASSUME NEW name \in UserName, NEW s \in {"new", "enabled"}, addUser(name, s)
      PROVE  UsersTypeOK' /\ userIds \subseteq userIds'
    BY <1>2, AddKeepsType DEF UserStatus
<1>3. ASSUME NEW u \in D, deleteUser(u) PROVE UsersTypeOK' /\ userIds \subseteq userIds'
    BY <1>3, DeleteKeepsType
<1>4. ASSUME NEW u \in UserId, NEW b \in BOOLEAN, setUserEnabledStatus(u, b) \/ setUserAuth(u)
      PROVE  UsersTypeOK' /\ userIds \subseteq userIds'
    BY <1>4, StatusKeepsType
<1>5. ASSUME NEW u \in userIds, NEW t \in AuthToken, addAuthToken(u, t) \/ revokeAuthToken(u, t)
      PROVE  UsersTypeOK' /\ userIds \subseteq userIds'
    BY <1>5, TokenKeepsType
<1> QED
    BY <1>1, <1>2, <1>3, <1>4, <1>5 DEF UserUpdate

-----------------------------------------------------------------------------
(* What no transaction undoes: accounts stay, with their names, and those  *)
(* that are deleted stay deleted.                                          *)

LEMMA UpdateKeepsAccounts ==
    ASSUME UsersTypeOK, nextId \notin userIds, NEW D, UserUpdate(D), NEW u \in userIds
    PROVE  /\ u \in userIds' /\ userName'[u] = userName[u]
           /\ userStatus[u] = "deleted" => userStatus'[u] = "deleted"
           /\ userStatus[u] # "deleted" => u \in D \/ userStatus'[u] # "deleted"
<1>1. u \in userIds'
    BY UpdateKeepsType
<1> DEFINE Kept == /\ userName'[u] = userName[u]
                   /\ userStatus[u] = "deleted" => userStatus'[u] = "deleted"
                   /\ userStatus[u] # "deleted" => u \in D \/ userStatus'[u] # "deleted"
<1>2. CASE UNCHANGED users
  <2>1. userName' = userName /\ userStatus' = userStatus
      BY <1>2 DEF users
  <2> QED
      BY <1>1, <2>1
<1>3. ASSUME NEW name \in UserName, NEW s \in {"new", "enabled"}, addUser(name, s) PROVE Kept
  <2>1. u # nextId /\ u \in DOMAIN userName /\ u \in DOMAIN userStatus
      BY DEF UsersTypeOK, userIds
  <2>2. userName' = Put(userName, nextId, name) /\ userStatus' = Put(userStatus, nextId, s)
      BY <1>3 DEF addUser
  <2>3. userName'[u] = userName[u] /\ userStatus'[u] = userStatus[u]
      BY <2>1, <2>2 DEF Put
  <2> QED
      BY <2>3
<1>4. ASSUME NEW v \in D, deleteUser(v) PROVE Kept
    BY <1>4 DEF deleteUser, UsersTypeOK, userIds
<1>5. ASSUME NEW v \in UserId, NEW b \in BOOLEAN, setUserEnabledStatus(v, b) \/ setUserAuth(v)
      PROVE  Kept
  <2>1. userName' = userName /\ userStatus[u] \in UserStatus
      BY <1>5 DEF setUserEnabledStatus, setUserAuth, UsersTypeOK
  <2>2. \/ userStatus'[u] = userStatus[u]
        \/ userStatus'[u] = changeStatus(userStatus[u], b)
        \/ userStatus'[u] = changeAuth(userStatus[u])
      BY <1>5 DEF setUserEnabledStatus, setUserAuth, UsersTypeOK
  <2> QED
      BY <2>1, <2>2, StatusChanges
<1>6. ASSUME NEW v \in userIds, NEW t \in AuthToken, addAuthToken(v, t) \/ revokeAuthToken(v, t)
      PROVE  Kept
    BY <1>6 DEF addAuthToken, revokeAuthToken
<1> QED
    BY <1>1, <1>2, <1>3, <1>4, <1>5, <1>6 DEF UserUpdate

-----------------------------------------------------------------------------
(* The agreement of the maps, in the form that transactions keep: a name   *)
(* leads to an active account, and an active account is led to by its own. *)

NamesLead ==
    \A n \in DOMAIN userNameMap :
        userNameMap[n] \in Active /\ userName[userNameMap[n]] = n
ActiveAreLedTo ==
    \A u \in Active :
        userName[u] \in DOMAIN userNameMap /\ userNameMap[userName[u]] = u
Agreement == nextIdIsRight /\ NamesLead /\ ActiveAreLedTo /\ authTokenMapConsistent

LEMMA AgreementIsInvariant ==
    ASSUME UsersTypeOK, Agreement
    PROVE  UsersInvariant
<1>1. noUserNameOverlap
    BY DEF Agreement, ActiveAreLedTo, noUserNameOverlap
<1>2. userNameMapComplete
    BY DEF Agreement, ActiveAreLedTo, NamesLead, userNameMapComplete
<1>3. userNameMapConsistent
    BY DEF Agreement, NamesLead, userNameMapConsistent, Active
<1> QED
    BY <1>1, <1>2, <1>3 DEF Agreement, UsersInvariant

LEMMA AddAgrees ==
    ASSUME UsersTypeOK, Agreement, NEW name \in UserName, NEW s \in {"new", "enabled"},
           addUser(name, s)
    PROVE  Agreement'
<1>1. /\ nextId \in Nat /\ nextId' = nextId + 1 /\ userIds' = userIds \cup {nextId}
      /\ \A u \in userIds : u \in Nat /\ u < nextId
    BY AddKeepsType DEF UsersTypeOK, addUser, Agreement, nextIdIsRight, UserStatus, UserId
<1>2. nextId \notin userIds
    BY <1>1
<1>3. /\ \A u \in userIds : /\ userName'[u] = userName[u] /\ userStatus'[u] = userStatus[u]
                             /\ userTokens'[u] = userTokens[u]
      /\ userName'[nextId] = name /\ userStatus'[nextId] = s /\ userTokens'[nextId] = {}
    BY <1>2 DEF addUser, Put, UsersTypeOK, userIds
<1>4. /\ DOMAIN userNameMap' = DOMAIN userNameMap \cup {name} /\ userNameMap'[name] = nextId
      /\ name \notin DOMAIN userNameMap
      /\ \A n \in DOMAIN userNameMap : userNameMap'[n] = userNameMap[n]
    BY DEF addUser, Put
<1>5. Active' = Active \cup {nextId}
    BY <1>1, <1>3 DEF Active
<1>6. nextIdIsRight'
    BY <1>1 DEF nextIdIsRight
<1>7. NamesLead'
    BY <1>3, <1>4, <1>5 DEF NamesLead, Agreement, Active
<1>8. ActiveAreLedTo'
    BY <1>3, <1>4, <1>5 DEF ActiveAreLedTo, Agreement, Active
<1>9. authTokenMapConsistent'
  <2>1. authTokenMap' = authTokenMap
      BY DEF addUser
  <2> QED
      BY <1>1, <1>3, <2>1 DEF authTokenMapConsistent, Agreement
<1> QED
    BY <1>6, <1>7, <1>8, <1>9 DEF Agreement

(* Deleting an account that is active; of one already deleted the name may *)
(* be another's by now, which is what AccountsRecycled shows.              *)
LEMMA DeleteAgrees ==
    ASSUME UsersTypeOK, Agreement, NEW v \in Active, deleteUser(v)
    PROVE  Agreement'
<1>1. userIds' = userIds /\ userName' = userName /\ nextId' = nextId
    BY DEF deleteUser, userIds, UsersTypeOK
<1>2. /\ userStatus'[v] = "deleted"
      /\ \A u \in userIds \ {v} : userStatus'[u] = userStatus[u]
    BY DEF deleteUser, userIds, UsersTypeOK, Active
<1>3. Active' = Active \ {v}
    BY <1>1, <1>2 DEF Active
<1>4. /\ DOMAIN userNameMap' = DOMAIN userNameMap \ {userName[v]}
      /\ \A n \in DOMAIN userNameMap' : userNameMap'[n] = userNameMap[n]
    BY DEF deleteUser, Remove
<1>5. nextIdIsRight'
    BY <1>1 DEF nextIdIsRight, Agreement
<1>6. NamesLead'
    BY <1>1, <1>3, <1>4 DEF NamesLead, ActiveAreLedTo, Agreement
<1>7. ActiveAreLedTo'
  <2> SUFFICES ASSUME NEW u \in Active'
               PROVE  userName'[u] \in DOMAIN userNameMap' /\ userNameMap'[userName'[u]] = u
      BY DEF ActiveAreLedTo
  <2>1. u \in Active /\ u # v
      BY <1>3
  <2>2. userName[u] # userName[v]
      BY <2>1 DEF Agreement, ActiveAreLedTo
  <2> QED
      BY <1>1, <1>4, <2>1, <2>2 DEF Agreement, ActiveAreLedTo
<1>8. authTokenMapConsistent'
  <2>1. authTokenMap' = authTokenMap /\ userTokens' = userTokens
      BY DEF deleteUser
  <2> QED
      BY <1>1, <2>1 DEF authTokenMapConsistent, Agreement
<1> QED
    BY <1>5, <1>6, <1>7, <1>8 DEF Agreement

LEMMA StatusAgrees ==
    ASSUME UsersTypeOK, Agreement, NEW v, NEW b \in BOOLEAN,
           setUserEnabledStatus(v, b) \/ setUserAuth(v)
    PROVE  Agreement'
<1>1. /\ userName' = userName /\ userTokens' = userTokens /\ userNameMap' = userNameMap
      /\ nextId' = nextId /\ authTokenMap' = authTokenMap /\ userIds' = userIds
    BY DEF setUserEnabledStatus, setUserAuth, userIds, UsersTypeOK
<1>2. ASSUME NEW u \in userIds
      PROVE  userStatus'[u] = "deleted" <=> userStatus[u] = "deleted"
  <2>1. userStatus[u] \in UserStatus
      BY DEF UsersTypeOK
  <2>2. \/ userStatus'[u] = userStatus[u]
        \/ userStatus'[u] = changeStatus(userStatus[u], b)
        \/ userStatus'[u] = changeAuth(userStatus[u])
      BY DEF setUserEnabledStatus, setUserAuth, UsersTypeOK
  <2> QED
      BY <2>1, <2>2, StatusChanges
<1>3. Active' = Active
    BY <1>1, <1>2 DEF Active
<1> QED
    BY <1>1, <1>3 DEF Agreement, nextIdIsRight, NamesLead, ActiveAreLedTo, authTokenMapConsistent

LEMMA TokenAgrees ==
    ASSUME UsersTypeOK, Agreement, NEW v \in userIds, NEW t \in AuthToken,
           addAuthToken(v, t) \/ revokeAuthToken(v, t)
    PROVE  Agreement'
<1>1. /\ userName' = userName /\ userStatus' = userStatus /\ userNameMap' = userNameMap
      /\ nextId' = nextId /\ userIds' = userIds /\ Active' = Active
    BY DEF addAuthToken, revokeAuthToken, userIds, Active
<1>2. nextIdIsRight' /\ NamesLead' /\ ActiveAreLedTo'
    BY <1>1 DEF Agreement, nextIdIsRight, NamesLead, ActiveAreLedTo
<1>3. /\ \A x \in DOMAIN authTokenMap :
             authTokenMap[x] \in userIds /\ x \in userTokens[authTokenMap[x]]
      /\ \A u \in userIds : \A x \in userTokens[u] : x \in DOMAIN authTokenMap /\ authTokenMap[x] = u
    BY DEF Agreement, authTokenMapConsistent
<1>4. /\ DOMAIN userTokens = userIds
      /\ \A u \in userIds \ {v} : userTokens'[u] = userTokens[u]
    BY DEF addAuthToken, revokeAuthToken, UsersTypeOK
<1>5. CASE addAuthToken(v, t)
  <2>1. /\ t \notin DOMAIN authTokenMap
        /\ userTokens'[v] = userTokens[v] \cup {t}
        /\ DOMAIN authTokenMap' = DOMAIN authTokenMap \cup {t} /\ authTokenMap'[t] = v
        /\ \A x \in DOMAIN authTokenMap : authTokenMap'[x] = authTokenMap[x]
      BY <1>4, <1>5 DEF addAuthToken, Put
  <2> QED
      BY <1>1, <1>2, <1>3, <1>4, <2>1 DEF Agreement, authTokenMapConsistent
<1>6. CASE revokeAuthToken(v, t)
  <2>1. /\ t \in userTokens[v] /\ userTokens'[v] = userTokens[v] \ {t}
        /\ DOMAIN authTokenMap' = DOMAIN authTokenMap \ {t}
        /\ \A x \in DOMAIN authTokenMap \ {t} : authTokenMap'[x] = authTokenMap[x]
      BY <1>4, <1>6 DEF revokeAuthToken, Remove
  <2>2. authTokenMap[t] = v
      BY <1>3, <2>1
  <2> QED
      BY <1>1, <1>2, <1>3, <1>4, <2>1, <2>2 DEF Agreement, authTokenMapConsistent
<1> QED
    BY <1>5, <1>6

LEMMA UpdateAgrees ==
    ASSUME UsersTypeOK, Agreement, NEW D \in SUBSET Active, UserUpdate(D)
    PROVE  Agreement'
<1>1. CASE UNCHANGED users
    BY <1>1 DEF users, Agreement, nextIdIsRight, NamesLead, ActiveAreLedTo,
                authTokenMapConsistent, Active, userIds
<1>2. ASSUME NEW name \in UserName, NEW s \in {"new", "enabled"}, addUser(name, s) PROVE Agreement'
    BY <1>2, AddAgrees
<1>3. ASSUME NEW u \in D, deleteUser(u) PROVE Agreement'
    BY <1>3, DeleteAgrees
<1>4. ASSUME NEW u \in UserId, NEW b \in BOOLEAN, setUserEnabledStatus(u, b) \/ setUserAuth(u)
      PROVE  Agreement'
    BY <1>4, StatusAgrees
<1>5. ASSUME NEW u \in userIds, NEW t \in AuthToken, addAuthToken(u, t) \/ revokeAuthToken(u, t)
      PROVE  Agreement'
    BY <1>5, TokenAgrees
<1> QED
    BY <1>1, <1>2, <1>3, <1>4, <1>5 DEF UserUpdate

-----------------------------------------------------------------------------
(* The requests: what a step holds, and that each step of a route does to  *)
(* the user database what UserUpdate allows.                               *)

LEMMA ThreadFields ==
    ASSUME NEW t \in Thread
    PROVE  /\ t.at \in OnUser \cup OnLink => t.uid \in UserId
           /\ t.at \in {"confirm", "register"} => t.nonce \in Nonce /\ t.name \in UserName
           /\ t.at \in OnLink => t.nonce \in Nonce
<1>1. CASE t = Idle
    BY <1>1 DEF Idle, OnUser, OnLink, Errand
<1>2. CASE t \in [at : OnUser, uid : UserId]
    BY <1>2 DEF OnUser, OnLink, Errand
<1>3. CASE t \in [at : {"confirm", "register"}, nonce : Nonce, name : UserName]
    BY <1>3 DEF OnUser, OnLink, Errand
<1>4. CASE t \in [at : OnLink, nonce : Nonce, uid : UserId]
    BY <1>4 DEF OnUser, OnLink, Errand
<1> QED
    BY <1>1, <1>2, <1>3, <1>4 DEF Thread

LEMMA Threads ==
    /\ Idle \in Thread
    /\ \A s \in OnUser, u \in UserId : At(s, u) \in Thread
    /\ \A s \in {"confirm", "register"}, n \in Nonce, m \in UserName :
           [at |-> s, nonce |-> n, name |-> m] \in Thread
    /\ \A s \in OnLink, n \in Nonce, u \in UserId :
           [at |-> s, nonce |-> n, uid |-> u] \in Thread
BY DEF Thread, Idle, At

(* What names an account names one that was made.                          *)
Made ==
    /\ \A u \in userIds : u < nextId
    /\ realUsers \subseteq userIds /\ uploaders \subseteq userIds /\ groupIndex \subseteq userIds
    /\ \A t \in DOMAIN authTokenMap : authTokenMap[t] \in userIds
    /\ \A n \in DOMAIN userNameMap : userNameMap[n] \in userIds
    /\ \A n \in DOMAIN signupReset :
           signupReset[n].kind = "reset" => signupReset[n].uid \in userIds
    /\ \A r \in Request : req[r].at \in OnUser \cup OnLink => req[r].uid \in userIds

DeletingBy(r) == {u \in UserId : req[r].at = "delete" /\ u = req[r].uid}
Deleting      == UNION {DeletingBy(r) : r \in Request}

LEMMA RouteUpdates ==
    ASSUME TypeOK, Made, NEW r \in Request, userRoutes(r) \/ signupRoutes(r) \/ Abort(r)
    PROVE  UserUpdate(DeletingBy(r))
<1> USE DEF UserUpdate
<1>1. CASE serveUserPut(r)
    BY <1>1 DEF serveUserPut
<1>2. CASE adminAddUser(r)
    BY <1>2 DEF adminAddUser
<1>3. CASE finishOnUser(r)
  <2>1. req[r].uid \in userIds /\ req[r].uid \in UserId
      BY <1>3, ThreadFields DEF finishOnUser, Made, OnUser, Errand, TypeOK
  <2>2. req[r].at = "delete" => req[r].uid \in DeletingBy(r)
      BY <2>1 DEF DeletingBy
  <2> QED
      BY <1>3, <2>1, <2>2 DEF finishOnUser, Transaction
<1>4. CASE register(r)
  <2>1. req[r].name \in UserName
      BY <1>4, ThreadFields DEF register, TypeOK
  <2> QED
      BY <1>4, <2>1 DEF register
<1>5. CASE lookupUserName(r) \/ handlerPutAdminInfo(r) \/ addGroupIndex(r)
           \/ removeGroupIndex(r) \/ changeGroup(r) \/ Abort(r)
    BY <1>5 DEF lookupUserName, handlerPutAdminInfo, addGroupIndex, removeGroupIndex,
                changeGroup, Abort
<1>6. CASE handlerPostSignupRequestNew(r) \/ lookupSignupInfo(r) \/ deleteSignupInfo(r)
           \/ updateUserDetails(r) \/ handlerPostResetRequestNew(r) \/ lookupResetInfo(r)
           \/ guardSuitableAccountType(r) \/ deleteResetInfo(r)
    BY <1>6 DEF handlerPostSignupRequestNew, lookupSignupInfo, deleteSignupInfo,
                updateUserDetails, handlerPostResetRequestNew, lookupResetInfo,
                guardSuitableAccountType, deleteResetInfo
<1> QED
    BY <1>1, <1>2, <1>3, <1>4, <1>5, <1>6 DEF userRoutes, signupRoutes

LEMMA StepUpdates ==
    ASSUME TypeOK, Made, [Next]_vars
    PROVE  UserUpdate(Deleting)
<1>1. CASE deleteAllExpired \/ Crash
    BY <1>1 DEF deleteAllExpired, Crash, UserUpdate
<1>2. CASE UNCHANGED vars
    BY <1>2 DEF vars, users, UserUpdate
<1>3. ASSUME NEW r \in Request, userRoutes(r) \/ signupRoutes(r) \/ Abort(r)
      PROVE  UserUpdate(Deleting)
  <2>1. UserUpdate(DeletingBy(r)) /\ DeletingBy(r) \subseteq Deleting
      BY <1>3, RouteUpdates DEF Deleting
  <2> QED
      BY <2>1 DEF UserUpdate
<1> QED
    BY <1>1, <1>2, <1>3 DEF Next

-----------------------------------------------------------------------------
(* Types and Made, kept by every step.  First the user database.           *)

LEMMA UpdateMade ==
    ASSUME UsersTypeOK, Made, NEW D, UserUpdate(D)
    PROVE  /\ \A u \in userIds' : u < nextId'
           /\ \A t \in DOMAIN authTokenMap' : authTokenMap'[t] \in userIds'
           /\ \A n \in DOMAIN userNameMap' : userNameMap'[n] \in userIds'
<1> DEFINE Goal == /\ \A u \in userIds' : u < nextId'
                   /\ \A t \in DOMAIN authTokenMap' : authTokenMap'[t] \in userIds'
                   /\ \A n \in DOMAIN userNameMap' : userNameMap'[n] \in userIds'
<1>1. CASE UNCHANGED users
    BY <1>1 DEF users, Made, userIds
<1>2. ASSUME NEW name \in UserName, NEW s \in {"new", "enabled"}, addUser(name, s) PROVE Goal
  <2>1. userIds' = userIds \cup {nextId} /\ nextId' = nextId + 1 /\ nextId \in Nat
        /\ userIds \subseteq Nat
      BY <1>2, AddKeepsType DEF addUser, UserStatus, UsersTypeOK, UserId
  <2>2. authTokenMap' = authTokenMap /\ userNameMap' = Put(userNameMap, name, nextId)
      BY <1>2 DEF addUser
  <2>3. \A u \in userIds' : u < nextId'
      BY <2>1 DEF Made
  <2> QED
      BY <2>1, <2>2, <2>3 DEF Made, Put
<1>3. ASSUME NEW u \in D, deleteUser(u) PROVE Goal
  <2>1. userIds' = userIds /\ userNameMap' = Remove(userNameMap, userName[u])
        /\ nextId' = nextId /\ authTokenMap' = authTokenMap
      BY <1>3, DeleteKeepsType DEF deleteUser
  <2> QED
      BY <2>1 DEF Made, Remove
<1>4. ASSUME NEW u \in UserId, NEW b \in BOOLEAN, setUserEnabledStatus(u, b) \/ setUserAuth(u)
      PROVE  Goal
    BY <1>4, StatusKeepsType DEF Made, setUserEnabledStatus, setUserAuth
<1>5. ASSUME NEW u \in userIds, NEW t \in AuthToken, addAuthToken(u, t) \/ revokeAuthToken(u, t)
      PROVE  Goal
  <2>1. userIds' = userIds /\ nextId' = nextId /\ userNameMap' = userNameMap
      BY <1>5, TokenKeepsType DEF addAuthToken, revokeAuthToken
  <2>2. authTokenMap' = Put(authTokenMap, t, u) \/ authTokenMap' = Remove(authTokenMap, t)
      BY <1>5 DEF addAuthToken, revokeAuthToken
  <2> QED
      BY <2>1, <2>2 DEF Made, Put, Remove
<1> QED
    BY <1>1, <1>2, <1>3, <1>4, <1>5 DEF UserUpdate

(* A request goes on with an id that was made, or is idle.                 *)
LEMMA GoKeeps ==
    ASSUME TypeOK, Made, userIds \subseteq userIds', NEW r \in Request,
           NEW step \in Thread, Go(r, step),
           step.at \in OnUser \cup OnLink => step.uid \in userIds'
    PROVE  /\ req' \in [Request -> Thread]
           /\ \A q \in Request : req'[q].at \in OnUser \cup OnLink => req'[q].uid \in userIds'
<1>1. req \in [Request -> Thread] /\ req' = [req EXCEPT ![r] = step]
    BY DEF TypeOK, Go
<1>2. req'[r] = step /\ \A q \in Request \ {r} : req'[q] = req[q]
    BY <1>1
<1> QED
    BY <1>1, <1>2 DEF Made

LEMMA GoOn ==
    ASSUME TypeOK, Made, userIds \subseteq userIds', NEW r \in Request,
           NEW s \in OnUser, NEW u \in userIds', u \in UserId,
           Go(r, Idle) \/ Go(r, At(s, u))
    PROVE  /\ req' \in [Request -> Thread]
           /\ \A q \in Request : req'[q].at \in OnUser \cup OnLink => req'[q].uid \in userIds'
<1>1. Idle.at \notin OnUser \cup OnLink /\ At(s, u).uid = u
    BY DEF Idle, At, OnUser, OnLink, Errand
<1> QED
    BY <1>1, GoKeeps, Threads

-----------------------------------------------------------------------------
(* Then the rest of the state, as four parts that a step changes apart.    *)

SetsOK  == /\ realUsers \subseteq userIds /\ uploaders \subseteq userIds
           /\ groupIndex \subseteq userIds /\ tangled \subseteq UserId
LinksOK == /\ issued \subseteq Nonce /\ DOMAIN signupReset \subseteq issued
           /\ signupReset \in [DOMAIN signupReset -> SignupResetInfo]
           /\ \A n \in DOMAIN signupReset :
                  signupReset[n].kind = "reset" => signupReset[n].uid \in userIds
MadeByOK == DOMAIN madeBy \subseteq UserId /\ madeBy \in [DOMAIN madeBy -> Nonce]
ReqOK   == /\ req \in [Request -> Thread]
           /\ \A q \in Request : req[q].at \in OnUser \cup OnLink => req[q].uid \in userIds

LEMMA Parts ==
    ASSUME TypeOK, Made
    PROVE  SetsOK /\ LinksOK /\ MadeByOK /\ ReqOK
BY DEF TypeOK, Made, SetsOK, LinksOK, MadeByOK, ReqOK

LEMMA InfoFields ==
    ASSUME NEW i \in SignupResetInfo
    PROVE  /\ i.kind = "signup" => i.name \in UserName
           /\ i.kind = "reset" => i.uid \in UserId
BY DEF SignupResetInfo

LEMMA NewLink ==
    ASSUME LinksOK, userIds \subseteq userIds', NEW n \in Nonce, NEW info \in SignupResetInfo,
           info.kind = "reset" => info.uid \in userIds,
           signupReset' = Put(signupReset, n, info), issued' = issued \cup {n}
    PROVE  LinksOK'
<1>1. DOMAIN signupReset' = DOMAIN signupReset \cup {n}
    BY DEF Put
<1>2. signupReset' \in [DOMAIN signupReset' -> SignupResetInfo]
    BY DEF LinksOK, Put
<1>3. \A m \in DOMAIN signupReset' :
           signupReset'[m].kind = "reset" => signupReset'[m].uid \in userIds'
    BY DEF LinksOK, Put
<1> QED
    BY <1>1, <1>2, <1>3 DEF LinksOK

LEMMA FewerLinks ==
    ASSUME LinksOK, userIds \subseteq userIds', NEW S,
           signupReset' = [m \in DOMAIN signupReset \ S |-> signupReset[m]], UNCHANGED issued
    PROVE  LinksOK'
<1>1. DOMAIN signupReset' = DOMAIN signupReset \ S
    OBVIOUS
<1>2. signupReset' \in [DOMAIN signupReset' -> SignupResetInfo]
    BY DEF LinksOK
<1>3. \A m \in DOMAIN signupReset' :
           signupReset'[m].kind = "reset" => signupReset'[m].uid \in userIds'
    BY DEF LinksOK
<1> QED
    BY <1>1, <1>2, <1>3 DEF LinksOK

LEMMA UserRoutesKeep ==
    ASSUME TypeOK, Made, userIds \subseteq userIds', UsersTypeOK',
           NEW r \in Request, userRoutes(r) \/ Abort(r)
    PROVE  SetsOK' /\ LinksOK' /\ MadeByOK' /\ ReqOK'
<1> USE Parts
<1>1. UNCHANGED links /\ UNCHANGED madeBy
    BY DEF userRoutes, serveUserPut, adminAddUser, lookupUserName, finishOnUser,
           handlerPutAdminInfo, addGroupIndex, removeGroupIndex, changeGroup, Abort
<1>2. LinksOK' /\ MadeByOK'
    BY <1>1 DEF LinksOK, MadeByOK, links
<1>3. userIds \subseteq UserId
    BY DEF TypeOK, UsersTypeOK
<1>4. req[r].at \in OnUser => req[r].uid \in userIds
    BY DEF ReqOK
<1>5. CASE serveUserPut(r) \/ adminAddUser(r)
    BY <1>2, <1>5 DEF serveUserPut, adminAddUser, SetsOK, ReqOK, group
<1>6. CASE lookupUserName(r)
  <2>1. PICK n \in DOMAIN userNameMap, s \in Errand : Go(r, At(s, userNameMap[n]))
      BY <1>6 DEF lookupUserName
  <2>2. userNameMap[n] \in userIds /\ s \in OnUser
      BY DEF Made, OnUser
  <2>3. ReqOK'
      BY <1>3, <2>1, <2>2, GoOn DEF ReqOK
  <2> QED
      BY <1>2, <1>6, <2>3 DEF lookupUserName, SetsOK, group
<1>7. CASE finishOnUser(r) \/ handlerPutAdminInfo(r) \/ changeGroup(r) \/ Abort(r)
  <2>1. Go(r, Idle) /\ Idle.at \notin OnUser \cup OnLink
      BY <1>7 DEF finishOnUser, handlerPutAdminInfo, changeGroup, Abort,
                  Idle, OnUser, OnLink, Errand
  <2>2. ReqOK'
      BY <2>1, GoKeeps, Threads DEF ReqOK
  <2>3. ASSUME finishOnUser(r) PROVE SetsOK'
      BY <2>3 DEF finishOnUser, SetsOK, group
  <2>4. ASSUME handlerPutAdminInfo(r) PROVE SetsOK'
      BY <1>4, <2>4 DEF handlerPutAdminInfo, SetsOK, group, OnUser, Errand
  <2>5. ASSUME changeGroup(r) PROVE SetsOK'
      BY <1>4, <2>5 DEF changeGroup, setMembership, SetsOK, OnUser
  <2>6. ASSUME Abort(r) PROVE SetsOK'
      BY <1>3, <1>4, <2>6 DEF Abort, SetsOK, OnUser
  <2>7. SetsOK'
      BY <1>7, <2>3, <2>4, <2>5, <2>6
  <2> QED
      BY <1>2, <2>2, <2>7
<1>8. CASE addGroupIndex(r) \/ removeGroupIndex(r)
  <2>1. req[r].uid \in userIds /\ req[r].uid \in userIds' /\ req[r].uid \in UserId
      BY <1>3, <1>4, <1>8 DEF addGroupIndex, removeGroupIndex, OnUser, Errand
  <2>2. \E s \in OnUser : Go(r, At(s, req[r].uid))
      BY <1>8 DEF addGroupIndex, removeGroupIndex, OnUser
  <2>3. ReqOK'
      BY <2>1, <2>2, GoOn DEF ReqOK
  <2>4. SetsOK'
      BY <1>8, <2>1 DEF addGroupIndex, removeGroupIndex, Tangle, SetsOK
  <2> QED
      BY <1>2, <2>3, <2>4
<1> QED
    BY <1>5, <1>6, <1>7, <1>8 DEF userRoutes

LEMMA SignupRoutesKeep ==
    ASSUME TypeOK, Made, userIds \subseteq userIds', UsersTypeOK',
           NEW r \in Request, signupRoutes(r)
    PROVE  SetsOK' /\ LinksOK' /\ MadeByOK' /\ ReqOK'
<1> USE Parts
<1>1. UNCHANGED group
    BY DEF signupRoutes, handlerPostSignupRequestNew, lookupSignupInfo, deleteSignupInfo,
           register, updateUserDetails, handlerPostResetRequestNew, lookupResetInfo,
           guardSuitableAccountType, deleteResetInfo
<1>2. userIds \subseteq UserId /\ userIds' \subseteq UserId
    BY DEF TypeOK, UsersTypeOK
<1>3. /\ req[r].at \in OnUser \cup OnLink => req[r].uid \in userIds
      /\ req[r].at \in {"confirm", "register"} => req[r].nonce \in Nonce /\ req[r].name \in UserName
      /\ req[r].at \in OnLink => req[r].nonce \in Nonce
    BY ThreadFields DEF ReqOK
<1>4. ASSUME UNCHANGED realUsers PROVE SetsOK'
    BY <1>1, <1>4 DEF SetsOK, group
<1>5. ASSUME UNCHANGED links PROVE LinksOK'
    BY <1>5 DEF LinksOK, links
<1>6. ASSUME UNCHANGED madeBy PROVE MadeByOK'
    BY <1>6 DEF MadeByOK
<1>7. Idle.at \notin OnUser \cup OnLink
    BY DEF Idle, OnUser, OnLink, Errand
<1>8. ASSUME Go(r, Idle) PROVE ReqOK'
    BY <1>7, <1>8, GoKeeps, Threads DEF ReqOK
<1>9. CASE handlerPostSignupRequestNew(r)
  <2>1. PICK n \in Nonce \ issued, name \in UserName :
            /\ signupReset' = Put(signupReset, n, [kind |-> "signup", name |-> name])
            /\ issued' = issued \cup {n}
      BY <1>9 DEF handlerPostSignupRequestNew
  <2>2. [kind |-> "signup", name |-> name] \in SignupResetInfo
      BY DEF SignupResetInfo
  <2>3. LinksOK'
      BY <2>1, <2>2, NewLink
  <2>4. ReqOK'
      BY <1>9 DEF handlerPostSignupRequestNew, ReqOK
  <2> QED
      BY <1>4, <1>6, <1>9, <2>3, <2>4 DEF handlerPostSignupRequestNew
<1>10. CASE lookupSignupInfo(r)
  <2>1. PICK n \in DOMAIN signupReset :
            /\ signupReset[n].kind = "signup"
            /\ Go(r, [at |-> "confirm", nonce |-> n, name |-> signupReset[n].name])
      BY <1>10 DEF lookupSignupInfo
  <2>2. n \in Nonce /\ signupReset[n].name \in UserName
      BY <2>1, InfoFields DEF LinksOK
  <2>3. [at |-> "confirm", nonce |-> n, name |-> signupReset[n].name] \in Thread
      BY <2>2, Threads
  <2>4. ReqOK'
      BY <2>1, <2>3, GoKeeps DEF ReqOK, OnUser, OnLink, Errand
  <2> QED
      BY <1>4, <1>5, <1>6, <1>10, <2>4 DEF lookupSignupInfo
<1>11. CASE deleteSignupInfo(r)
  <2>1. [at |-> "register", nonce |-> req[r].nonce, name |-> req[r].name] \in Thread
      BY <1>3, <1>11, Threads DEF deleteSignupInfo
  <2>2. ReqOK'
      BY <1>11, <2>1, GoKeeps DEF deleteSignupInfo, ReqOK, OnUser, OnLink, Errand
  <2>3. LinksOK'
      BY <1>11, FewerLinks DEF deleteSignupInfo, Remove
  <2> QED
      BY <1>4, <1>6, <1>11, <2>2, <2>3 DEF deleteSignupInfo
<1>12. CASE register(r)
  <2>1. ASSUME addUser(req[r].name, "enabled"), madeBy' = Put(madeBy, newUserId, req[r].nonce),
               Go(r, At("details", newUserId))
        PROVE  MadeByOK' /\ ReqOK'
    <3>1. req[r].name \in UserName /\ req[r].nonce \in Nonce
        BY <1>3, <1>12 DEF register
    <3>2. newUserId \in UserId /\ newUserId \in userIds'
        BY <2>1, <3>1, AddKeepsType DEF TypeOK, newUserId, UserStatus
    <3>3. MadeByOK'
        BY <2>1, <3>1, <3>2 DEF MadeByOK, Put
    <3>4. ReqOK'
        BY <2>1, <3>2, GoOn DEF ReqOK, OnUser
    <3> QED
        BY <3>3, <3>4
  <2>2. UNCHANGED <<realUsers, links>>
      BY <1>12 DEF register
  <2>3. MadeByOK' /\ ReqOK'
      BY <1>6, <1>8, <1>12, <2>1 DEF register
  <2> QED
      BY <1>4, <1>5, <2>2, <2>3
<1>13. CASE updateUserDetails(r)
  <2>1. req[r].uid \in userIds /\ req[r].uid \in userIds' /\ req[r].uid \in UserId
      BY <1>2, <1>3, <1>13 DEF updateUserDetails, OnUser
  <2>2. Go(r, At("addIndex", req[r].uid)) /\ "addIndex" \in OnUser
      BY <1>13 DEF updateUserDetails, OnUser, Errand
  <2>3. ReqOK'
      BY <2>1, <2>2, GoOn DEF ReqOK
  <2>4. SetsOK'
      BY <1>1, <1>13, <2>1 DEF updateUserDetails, SetsOK, group
  <2> QED
      BY <1>5, <1>6, <1>13, <2>3, <2>4 DEF updateUserDetails
<1>14. CASE handlerPostResetRequestNew(r)
  <2>1. req[r].uid \in userIds
      BY <1>3, <1>14 DEF handlerPostResetRequestNew, OnUser, Errand
  <2>2. [kind |-> "reset", uid |-> req[r].uid] \in SignupResetInfo
      BY <1>2, <2>1 DEF SignupResetInfo
  <2>3. ASSUME NEW n \in Nonce \ issued, issued' = issued \cup {n},
               signupReset' = Put(signupReset, n, [kind |-> "reset", uid |-> req[r].uid])
        PROVE  LinksOK'
      BY <2>1, <2>2, <2>3, NewLink
  <2>4. LinksOK'
      BY <1>5, <1>14, <2>3 DEF handlerPostResetRequestNew
  <2> QED
      BY <1>4, <1>6, <1>8, <1>14, <2>4 DEF handlerPostResetRequestNew
<1>15. CASE lookupResetInfo(r)
  <2>1. PICK n \in DOMAIN signupReset :
            /\ signupReset[n].kind = "reset"
            /\ Go(r, [at |-> "resetLink", nonce |-> n, uid |-> signupReset[n].uid])
      BY <1>15 DEF lookupResetInfo
  <2>2. n \in Nonce /\ signupReset[n].uid \in userIds
      BY <2>1 DEF LinksOK
  <2>3. [at |-> "resetLink", nonce |-> n, uid |-> signupReset[n].uid] \in Thread
      BY <1>2, <2>2, Threads DEF OnLink
  <2>4. ReqOK'
      BY <2>1, <2>2, <2>3, GoKeeps DEF ReqOK
  <2> QED
      BY <1>4, <1>5, <1>6, <1>15, <2>4 DEF lookupResetInfo
<1>16. CASE guardSuitableAccountType(r)
  <2>1. req[r].uid \in userIds /\ req[r].nonce \in Nonce
      BY <1>3, <1>16 DEF guardSuitableAccountType, OnLink
  <2>2. [at |-> "resetNonce", nonce |-> req[r].nonce, uid |-> req[r].uid] \in Thread
      BY <1>2, <2>1, Threads DEF OnLink
  <2>3. \/ Go(r, Idle)
        \/ Go(r, [at |-> "resetNonce", nonce |-> req[r].nonce, uid |-> req[r].uid])
      BY <1>16 DEF guardSuitableAccountType
  <2>4. ReqOK'
      BY <1>8, <2>1, <2>2, <2>3, GoKeeps DEF ReqOK
  <2> QED
      BY <1>4, <1>5, <1>6, <1>16, <2>4 DEF guardSuitableAccountType
<1>17. CASE deleteResetInfo(r)
  <2>1. req[r].uid \in userIds /\ req[r].uid \in userIds' /\ req[r].uid \in UserId
      BY <1>2, <1>3, <1>17 DEF deleteResetInfo, OnLink
  <2>2. Go(r, At("auth", req[r].uid)) /\ "auth" \in OnUser
      BY <1>17 DEF deleteResetInfo, OnUser, Errand
  <2>3. ReqOK'
      BY <2>1, <2>2, GoOn DEF ReqOK
  <2>4. LinksOK'
      BY <1>17, FewerLinks DEF deleteResetInfo, Remove
  <2> QED
      BY <1>4, <1>6, <1>17, <2>3, <2>4 DEF deleteResetInfo
<1> QED
    BY <1>9, <1>10, <1>11, <1>12, <1>13, <1>14, <1>15, <1>16, <1>17 DEF signupRoutes

LEMMA Init_Keeps == Init => TypeOK /\ Made
<1> SUFFICES ASSUME Init PROVE TypeOK /\ Made
    OBVIOUS
<1>1. empty \in [{} -> UserStatus] /\ DOMAIN empty = {}
    BY DEF empty
<1>2. \A T : empty \in [{} -> T]
    BY DEF empty
<1>3. req \in [Request -> Thread] /\ \A r \in Request : req[r] = Idle
    BY Threads DEF Init
<1>4. Idle.at \notin OnUser \cup OnLink
    BY DEF Idle, OnUser, OnLink, Errand
<1>5. UsersTypeOK
    BY <1>1, <1>2, UsersAssumption DEF Init, emptyUsers, UsersTypeOK, userIds
<1> QED
    BY <1>1, <1>2, <1>3, <1>4, <1>5 DEF Init, emptyUsers, TypeOK, Made, userIds

LEMMA Step_Keeps == TypeOK /\ Made /\ [Next]_vars => TypeOK' /\ Made'
<1> SUFFICES ASSUME TypeOK, Made, [Next]_vars PROVE TypeOK' /\ Made'
    OBVIOUS
<1>1. UsersTypeOK
    BY DEF TypeOK
<1>2. UsersTypeOK' /\ userIds \subseteq userIds'
    BY <1>1, StepUpdates, UpdateKeepsType
<1>3. /\ \A u \in userIds' : u < nextId'
      /\ \A t \in DOMAIN authTokenMap' : authTokenMap'[t] \in userIds'
      /\ \A n \in DOMAIN userNameMap' : userNameMap'[n] \in userIds'
    BY <1>1, StepUpdates, UpdateMade
<1>4. CASE deleteAllExpired
  <2>1. LinksOK'
      BY <1>2, <1>4, Parts, FewerLinks DEF deleteAllExpired
  <2>2. SetsOK' /\ MadeByOK' /\ ReqOK'
      BY <1>2, <1>4, Parts DEF deleteAllExpired, SetsOK, MadeByOK, ReqOK, group
  <2> QED
      BY <1>2, <1>3, <2>1, <2>2 DEF SetsOK, LinksOK, MadeByOK, ReqOK, TypeOK, Made, UsersTypeOK
<1>5. CASE Crash
  <2>1. LinksOK' /\ MadeByOK' /\ SetsOK'
      BY <1>2, <1>5, Parts DEF Crash, initGroupIndex, links, LinksOK, MadeByOK, SetsOK
  <2>2. ReqOK'
      BY <1>5, Threads DEF Crash, ReqOK, Idle, OnUser, OnLink, Errand
  <2> QED
      BY <1>2, <1>3, <2>1, <2>2 DEF SetsOK, LinksOK, MadeByOK, ReqOK, TypeOK, Made, UsersTypeOK
<1>6. CASE UNCHANGED vars
  <2>1. SetsOK' /\ LinksOK' /\ MadeByOK' /\ ReqOK'
      BY <1>2, <1>6, Parts DEF vars, links, group, SetsOK, LinksOK, MadeByOK, ReqOK
  <2> QED
      BY <1>2, <1>3, <2>1 DEF SetsOK, LinksOK, MadeByOK, ReqOK, TypeOK, Made, UsersTypeOK
<1>7. ASSUME NEW r \in Request, userRoutes(r) \/ signupRoutes(r) \/ Abort(r)
      PROVE  TypeOK' /\ Made'
  <2>1. SetsOK' /\ LinksOK' /\ MadeByOK' /\ ReqOK'
      BY <1>2, <1>7, UserRoutesKeep, SignupRoutesKeep
  <2> QED
      BY <1>2, <1>3, <2>1 DEF SetsOK, LinksOK, MadeByOK, ReqOK, TypeOK, Made, UsersTypeOK
<1> QED
    BY <1>4, <1>5, <1>6, <1>7 DEF Next

LEMMA AlwaysMade == Spec => [](TypeOK /\ Made)
BY Init_Keeps, Step_Keeps, PTL DEF Spec

(* Type correctness: the database, the links, the group and the requests   *)
(* of UserFeature stay well formed.                                        *)
THEOREM TypeCorrect == Spec => []TypeOK
BY AlwaysMade, PTL

(* Ids are never used twice: whatever names an account by its id names one *)
(* already made.                                                           *)
THEOREM IdsAreNotInherited == Spec => []NoInheritance
<1>1. TypeOK /\ Made => NoInheritance
    BY DEF Made, NoInheritance, Held
<1> QED
    BY <1>1, AlwaysMade, PTL

(* Deleting an account is for good, whatever requests were under way.      *)
THEOREM DeletionIsFinal == Spec => DeletedForGood
<1>1. TypeOK /\ Made /\ [Next]_vars =>
          [\A u \in userIds \ Active :
               u \in userIds' \ Active' /\ userName'[u] = userName[u]]_vars
  <2> SUFFICES ASSUME TypeOK, Made, [Next]_vars, NEW u \in userIds \ Active
               PROVE  u \in userIds' \ Active' /\ userName'[u] = userName[u]
      OBVIOUS
  <2>1. UsersTypeOK /\ UserUpdate(Deleting) /\ nextId \notin userIds
    <3>1. nextId \in Nat /\ \A v \in userIds : v < nextId
        BY DEF TypeOK, UsersTypeOK, Made
    <3> QED
        BY <3>1, StepUpdates DEF TypeOK
  <2>2. userStatus[u] = "deleted"
      BY DEF Active
  <2> QED
      BY <2>1, <2>2, UpdateKeepsAccounts DEF Active
<1> QED
    BY <1>1, AlwaysMade, PTL DEF Spec, DeletedForGood

-----------------------------------------------------------------------------
(* A status becomes enabled in the transaction of a request to enable.     *)

LEMMA AddKeepsStatus ==
    ASSUME UsersTypeOK, nextId \notin userIds, NEW u \in userIds, NEW name, NEW s,
           addUser(name, s)
    PROVE  userStatus'[u] = userStatus[u]
<1>1. u # nextId /\ u \in DOMAIN userStatus
    BY DEF UsersTypeOK, userIds
<1>2. userStatus' = Put(userStatus, nextId, s)
    BY DEF addUser
<1> QED
    BY <1>1, <1>2 DEF Put

LEMMA StatusEnables ==
    ASSUME NEW s \in UserStatus, s # "enabled"
    PROVE  /\ changeStatus(s, TRUE) = "enabled" => s = "disabled"
           /\ changeStatus(s, FALSE) # "enabled"
           /\ changeAuth(s) # "enabled"
BY DEF UserStatus, changeStatus, changeAuth

LEMMA TransactionEnables ==
    ASSUME UsersTypeOK, NEW u \in userIds, NEW r \in Request, NEW v, Transaction(r, v),
           userStatus[u] # "enabled", userStatus'[u] = "enabled"
    PROVE  u = v /\ req[r].at = "enable" /\ userStatus[u] = "disabled"
<1>1. userStatus \in [userIds -> UserStatus]
    BY DEF UsersTypeOK
<1>2. CASE req[r].at = "delete" /\ deleteUser(v)
    BY <1>1, <1>2 DEF deleteUser
<1>3. CASE req[r].at = "enable" /\ setUserEnabledStatus(v, TRUE)
  <2>1. u = v /\ userStatus'[u] = changeStatus(userStatus[u], TRUE)
      BY <1>1, <1>3 DEF setUserEnabledStatus
  <2> QED
      BY <1>1, <1>3, <2>1, StatusEnables
<1>4. CASE req[r].at = "disable" /\ setUserEnabledStatus(v, FALSE)
  <2>1. u = v /\ userStatus'[u] = changeStatus(userStatus[u], FALSE)
      BY <1>1, <1>4 DEF setUserEnabledStatus
  <2> QED
      BY <1>1, <2>1, StatusEnables
<1>5. CASE req[r].at = "auth" /\ setUserAuth(v)
  <2>1. u = v /\ userStatus'[u] = changeAuth(userStatus[u])
      BY <1>1, <1>5 DEF setUserAuth
  <2> QED
      BY <1>1, <2>1, StatusEnables
<1>6. CASE (\E t \in AuthToken : addAuthToken(v, t)) \/ (\E t \in AuthToken : revokeAuthToken(v, t))
    BY <1>6 DEF addAuthToken, revokeAuthToken
<1> QED
    BY <1>2, <1>3, <1>4, <1>5, <1>6 DEF Transaction

(* Only a request to enable enables what an admin has disabled, for any    *)
(* number of requests that set passwords, by links or not.                 *)
THEOREM EnabledByEnabling == Spec => OnlyEnablingEnables
<1>1. TypeOK /\ Made /\ [Next]_vars =>
          [\A u \in userIds :
               (userStatus[u] # "enabled" /\ u \in userIds' /\ userStatus'[u] = "enabled") =>
                   /\ userStatus[u] = "disabled"
                   /\ \E r \in Request : req[r] = At("enable", u) /\ req'[r] = Idle]_vars
  <2> SUFFICES ASSUME TypeOK, Made, [Next]_vars, NEW u \in userIds,
                      userStatus[u] # "enabled", userStatus'[u] = "enabled"
               PROVE  /\ userStatus[u] = "disabled"
                      /\ \E r \in Request : req[r] = At("enable", u) /\ req'[r] = Idle
      OBVIOUS
  <2>1. UsersTypeOK /\ nextId \notin userIds /\ req \in [Request -> Thread]
    <3>1. nextId \in Nat /\ \A v \in userIds : v < nextId
        BY DEF TypeOK, UsersTypeOK, Made
    <3> QED
        BY <3>1 DEF TypeOK
  <2>2. userStatus' # userStatus
      OBVIOUS
  <2>3. PICK r \in Request : userRoutes(r) \/ signupRoutes(r) \/ Abort(r)
      BY <2>2 DEF Next, vars, users, deleteAllExpired, Crash
  <2>4. CASE finishOnUser(r)
    <3>1. u = req[r].uid /\ req[r].at = "enable" /\ userStatus[u] = "disabled"
        BY <2>1, <2>4, TransactionEnables DEF finishOnUser
    <3>2. req[r] = At("enable", u)
      <4>1. req[r] \in Thread /\ req[r].at \notin {"idle", "confirm", "register"} \cup OnLink
          BY <2>1, <3>1 DEF OnLink
      <4>2. req[r] \in [at : OnUser, uid : UserId]
          BY <4>1 DEF Thread, Idle
      <4> QED
          BY <3>1, <4>2 DEF At
    <3>3. req'[r] = Idle
        BY <2>1, <2>4 DEF finishOnUser, Go
    <3> QED
        BY <3>1, <3>2, <3>3
  <2>5. CASE serveUserPut(r) \/ adminAddUser(r)
      BY <2>1, <2>5, AddKeepsStatus DEF serveUserPut, adminAddUser
  <2>6. CASE register(r)
      BY <2>1, <2>2, <2>6, AddKeepsStatus DEF register, users
  <2>7. ~(lookupUserName(r) \/ handlerPutAdminInfo(r) \/ addGroupIndex(r)
           \/ removeGroupIndex(r) \/ changeGroup(r) \/ Abort(r))
      BY <2>2 DEF lookupUserName, handlerPutAdminInfo, addGroupIndex, removeGroupIndex,
                  changeGroup, Abort, users
  <2>8. ~(handlerPostSignupRequestNew(r) \/ lookupSignupInfo(r) \/ deleteSignupInfo(r)
           \/ updateUserDetails(r) \/ handlerPostResetRequestNew(r) \/ lookupResetInfo(r)
           \/ guardSuitableAccountType(r) \/ deleteResetInfo(r))
      BY <2>2 DEF handlerPostSignupRequestNew, lookupSignupInfo, deleteSignupInfo,
                  updateUserDetails, handlerPostResetRequestNew, lookupResetInfo,
                  guardSuitableAccountType, deleteResetInfo, users
  <2> QED
      BY <2>3, <2>4, <2>5, <2>6, <2>7, <2>8 DEF userRoutes, signupRoutes
<1> QED
    BY <1>1, AlwaysMade, PTL DEF Spec, OnlyEnablingEnables

-----------------------------------------------------------------------------
(* The invariant of the user database, if one request at a time deletes:   *)
(* then an account that a request is about to delete is still active.      *)

DeletingActive ==
    \A r \in Request : req[r].at = "delete" => r \in Admin /\ req[r].uid \in Active

LEMMA OthersWait ==
    ASSUME TypeOK, NEW r \in Request, userRoutes(r) \/ signupRoutes(r) \/ Abort(r),
           NEW q \in Request, q # r
    PROVE  req'[q] = req[q]
<1>1. req \in [Request -> Thread]
    BY DEF TypeOK
<1>2. CASE userRoutes(r) \/ Abort(r)
    BY <1>1, <1>2 DEF userRoutes, serveUserPut, adminAddUser, lookupUserName, finishOnUser,
           handlerPutAdminInfo, addGroupIndex, removeGroupIndex, changeGroup, Abort, Go
<1>3. CASE signupRoutes(r)
    BY <1>1, <1>3 DEF signupRoutes, handlerPostSignupRequestNew, lookupSignupInfo,
           deleteSignupInfo, register, updateUserDetails, handlerPostResetRequestNew,
           lookupResetInfo, guardSuitableAccountType, deleteResetInfo, Go
<1> QED
    BY <1>2, <1>3

(* Only looking the user up leads to a deletion.                           *)
LEMMA OnlyLookupLeads ==
    ASSUME TypeOK, NEW r \in Request, userRoutes(r) \/ signupRoutes(r) \/ Abort(r),
           req'[r].at = "delete"
    PROVE  lookupUserName(r)
<1>1. req \in [Request -> Thread] /\ Idle.at # "delete"
    BY DEF TypeOK, Idle
<1>2. ASSUME NEW step, Go(r, step) PROVE req'[r] = step
    BY <1>1, <1>2 DEF Go
<1>3. CASE (userRoutes(r) \/ Abort(r)) /\ ~lookupUserName(r)
  <2>1. CASE serveUserPut(r) \/ adminAddUser(r)
      BY <1>1, <2>1 DEF serveUserPut, adminAddUser
  <2>2. CASE finishOnUser(r) \/ handlerPutAdminInfo(r) \/ changeGroup(r) \/ Abort(r)
      BY <1>1, <1>2, <2>2 DEF finishOnUser, handlerPutAdminInfo, changeGroup, Abort
  <2>3. CASE addGroupIndex(r) \/ removeGroupIndex(r)
      BY <1>2, <2>3 DEF addGroupIndex, removeGroupIndex, At
  <2> QED
      BY <1>3, <2>1, <2>2, <2>3 DEF userRoutes
<1>4. CASE signupRoutes(r)
  <2>1. CASE handlerPostSignupRequestNew(r)
      BY <1>1, <2>1 DEF handlerPostSignupRequestNew
  <2>2. CASE lookupSignupInfo(r)
    <3>1. PICK n : Go(r, [at |-> "confirm", nonce |-> n, name |-> signupReset[n].name])
        BY <2>2 DEF lookupSignupInfo
    <3> QED
        BY <1>2, <3>1
  <2>6. CASE lookupResetInfo(r)
    <3>1. PICK n : Go(r, [at |-> "resetLink", nonce |-> n, uid |-> signupReset[n].uid])
        BY <2>6 DEF lookupResetInfo
    <3> QED
        BY <1>2, <3>1
  <2>3. CASE deleteSignupInfo(r) \/ guardSuitableAccountType(r)
      BY <1>1, <1>2, <2>3 DEF deleteSignupInfo, guardSuitableAccountType
  <2>4. CASE register(r) \/ handlerPostResetRequestNew(r)
      BY <1>1, <1>2, <2>4 DEF register, handlerPostResetRequestNew, At
  <2>5. CASE updateUserDetails(r) \/ deleteResetInfo(r)
      BY <1>2, <2>5 DEF updateUserDetails, deleteResetInfo, At
  <2> QED
      BY <1>4, <2>1, <2>2, <2>3, <2>4, <2>5, <2>6 DEF signupRoutes
<1> QED
    BY <1>3, <1>4

LEMMA AgreementStep ==
    ASSUME \A a, b \in Admin : a = b,
           TypeOK, Made, Agreement, DeletingActive, [Next]_vars
    PROVE  Agreement' /\ DeletingActive'
<1>1. UsersTypeOK /\ nextId \notin userIds
  <2>1. nextId \in Nat /\ \A v \in userIds : v < nextId
      BY DEF TypeOK, UsersTypeOK, Made
  <2> QED
      BY <2>1 DEF TypeOK
<1>2. Agreement'
  <2>1. Deleting \in SUBSET Active
      BY DEF Deleting, DeletingBy, DeletingActive
  <2> QED
      BY <1>1, <2>1, StepUpdates, UpdateAgrees
<1>3. CASE deleteAllExpired \/ UNCHANGED vars
    BY <1>3 DEF deleteAllExpired, vars, users, DeletingActive, Active, userIds, Agreement,
                nextIdIsRight, NamesLead, ActiveAreLedTo, authTokenMapConsistent
<1>4. CASE Crash
    BY <1>2, <1>4 DEF Crash, DeletingActive, Idle
<1>5. ASSUME NEW r \in Request, userRoutes(r) \/ signupRoutes(r) \/ Abort(r),
             NEW q \in Request, req'[q].at = "delete"
      PROVE  q \in Admin /\ req'[q].uid \in Active'
  <2>1. CASE q = r
    <3>1. lookupUserName(r)
        BY <1>5, <2>1, OnlyLookupLeads
    <3>2. PICK n \in DOMAIN userNameMap, s \in Errand :
              (s = "delete" => r \in Admin) /\ Go(r, At(s, userNameMap[n]))
        BY <3>1 DEF lookupUserName
    <3>3. req'[r] = At(s, userNameMap[n])
        BY <3>2 DEF Go, TypeOK
    <3>4. s = "delete" /\ req'[r].uid = userNameMap[n] /\ userNameMap[n] \in Active
        BY <1>5, <2>1, <3>3 DEF At, Agreement, NamesLead
    <3>5. Active' = Active
        BY <3>1 DEF lookupUserName, users, Active, userIds
    <3> QED
        BY <2>1, <3>2, <3>4, <3>5
  <2>2. CASE q # r
    <3>1. req'[q] = req[q]
        BY <1>5, <2>2, OthersWait
    <3>2. q \in Admin /\ req[q].uid \in Active
        BY <1>5, <3>1 DEF DeletingActive
    <3>3. DeletingBy(r) = {}
        BY <2>2, <3>2 DEF DeletingBy, DeletingActive
    <3>4. UserUpdate({})
        BY <1>5, <3>3, RouteUpdates
    <3>5. req[q].uid \in Active'
        BY <1>1, <3>2, <3>4, UpdateKeepsAccounts DEF Active
    <3> QED
        BY <3>1, <3>2, <3>5
  <2> QED
      BY <2>1, <2>2
<1> QED
    BY <1>2, <1>3, <1>4, <1>5 DEF Next, DeletingActive

(* The invariant that Users.hs spells out, if one request at a time        *)
(* deletes accounts.                                                       *)
THEOREM UsersInvariantHolds ==
    ASSUME \A a, b \in Admin : a = b
    PROVE  Spec => []UsersInvariant
<1>1. Init => Agreement /\ DeletingActive
    BY DEF Init, emptyUsers, empty, Agreement, nextIdIsRight, NamesLead, ActiveAreLedTo,
           authTokenMapConsistent, Active, userIds, DeletingActive, Idle
<1>2. TypeOK /\ Made /\ Agreement /\ DeletingActive /\ [Next]_vars => Agreement' /\ DeletingActive'
    BY AgreementStep
<1>3. TypeOK /\ Agreement => UsersInvariant
    BY AgreementIsInvariant DEF TypeOK
<1> QED
    BY <1>1, <1>2, <1>3, AlwaysMade, PTL DEF Spec
-----------------------------------------------------------------------------
(* The group index.  Unless updates of a user met or died, at most one is  *)
(* under way, and the index already says what it will do to the group.     *)

Membership == {"addMember", "removeMember"}

GroupUpdates ==
    \A u \in UserId \ tangled :
        /\ \A r, s \in Updating(u) : r = s
        /\ \A r \in Updating(u) : u \in groupIndex <=> req[r].at = "addMember"
        /\ Updating(u) = {} => (u \in groupIndex <=> u \in uploaders)

(* A step that leaves the group alone and neither begins nor ends one of   *)
(* its updates.                                                            *)
LEMMA ElsewhereKeepsUpdates ==
    ASSUME TypeOK, GroupUpdates, NEW r \in Request, UNCHANGED group,
           \A q \in Request \ {r} : req'[q] = req[q],
           req[r].at \notin Membership, req'[r].at \notin Membership
    PROVE  GroupUpdates'
<1>1. \A u : Updating(u)' = Updating(u)
    BY DEF Updating, Membership
<1>2. \A u : \A q \in Updating(u) : req'[q] = req[q]
    BY DEF Updating, Membership
<1> QED
    BY <1>1, <1>2 DEF GroupUpdates, group

LEMMA RouteElsewhere ==
    ASSUME TypeOK, NEW r \in Request, userRoutes(r) \/ signupRoutes(r),
           ~addGroupIndex(r), ~removeGroupIndex(r), ~changeGroup(r)
    PROVE  /\ UNCHANGED group
           /\ req[r].at \notin Membership /\ req'[r].at \notin Membership
<1>1. req \in [Request -> Thread] /\ Idle.at = "idle"
    BY DEF TypeOK, Idle
<1>2. ASSUME NEW step, Go(r, step) PROVE req'[r] = step
    BY <1>1, <1>2 DEF Go
<1> USE DEF Membership
<1>3. CASE serveUserPut(r) \/ adminAddUser(r) \/ handlerPostSignupRequestNew(r)
    BY <1>1, <1>3 DEF serveUserPut, adminAddUser, handlerPostSignupRequestNew
<1>4. CASE lookupUserName(r)
    BY <1>1, <1>2, <1>4 DEF lookupUserName, At, Errand
<1>5. CASE finishOnUser(r) \/ handlerPutAdminInfo(r) \/ handlerPostResetRequestNew(r)
    BY <1>1, <1>2, <1>5 DEF finishOnUser, handlerPutAdminInfo, handlerPostResetRequestNew
<1>6. CASE lookupSignupInfo(r)
  <2>1. PICK n : Go(r, [at |-> "confirm", nonce |-> n, name |-> signupReset[n].name])
      BY <1>6 DEF lookupSignupInfo
  <2> QED
      BY <1>1, <1>2, <1>6, <2>1 DEF lookupSignupInfo
<1>7. CASE lookupResetInfo(r)
  <2>1. PICK n : Go(r, [at |-> "resetLink", nonce |-> n, uid |-> signupReset[n].uid])
      BY <1>7 DEF lookupResetInfo
  <2> QED
      BY <1>1, <1>2, <1>7, <2>1 DEF lookupResetInfo
<1>8. CASE deleteSignupInfo(r) \/ guardSuitableAccountType(r)
    BY <1>1, <1>2, <1>8 DEF deleteSignupInfo, guardSuitableAccountType
<1>9. CASE register(r) \/ updateUserDetails(r) \/ deleteResetInfo(r)
    BY <1>1, <1>2, <1>9 DEF register, updateUserDetails, deleteResetInfo, At
<1> QED
    BY <1>3, <1>4, <1>5, <1>6, <1>7, <1>8, <1>9 DEF userRoutes, signupRoutes

(* The index is written when an update begins.                             *)
LEMMA IndexStepKeepsUpdates ==
    ASSUME TypeOK, Made, GroupUpdates, NEW r \in Request, addGroupIndex(r) \/ removeGroupIndex(r)
    PROVE  GroupUpdates'
<1>0. PICK v : v = req[r].uid
    OBVIOUS
<1>1. req \in [Request -> Thread] /\ req[r].at \notin Membership
    BY DEF TypeOK, addGroupIndex, removeGroupIndex, Membership
<1>2. PICK s \in Membership : /\ Go(r, At(s, v))
                              /\ groupIndex' = IF s = "addMember" THEN groupIndex \cup {v}
                                               ELSE groupIndex \ {v}
    BY <1>0 DEF addGroupIndex, removeGroupIndex, Membership
<1>3. req'[r] = At(s, v) /\ \A q \in Request \ {r} : req'[q] = req[q]
    BY <1>1, <1>2 DEF Go
<1>4. Tangle(v) /\ uploaders' = uploaders
    BY <1>0 DEF addGroupIndex, removeGroupIndex
<1>5. Updating(v)' = Updating(v) \cup {r}
    BY <1>3 DEF Updating, At, Membership
<1>6. \A u : u # v => Updating(u)' = Updating(u)
    BY <1>0, <1>1, <1>3 DEF Updating, At, Membership
<1>7. ASSUME NEW u \in UserId \ tangled', u # v
      PROVE  /\ \A q, p \in Updating(u)' : q = p
             /\ \A q \in Updating(u)' : u \in groupIndex' <=> req'[q].at = "addMember"
             /\ Updating(u)' = {} => (u \in groupIndex' <=> u \in uploaders')
  <2>1. u \notin tangled /\ (u \in groupIndex' <=> u \in groupIndex)
      BY <1>2, <1>4, <1>7 DEF Tangle
  <2>2. \A q \in Updating(u) : req'[q] = req[q]
      BY <1>1, <1>3 DEF Updating, Membership
  <2> QED
      BY <1>4, <1>6, <1>7, <2>1, <2>2 DEF GroupUpdates
<1>8. ASSUME v \notin tangled'
      PROVE  /\ \A q, p \in Updating(v)' : q = p
             /\ \A q \in Updating(v)' : v \in groupIndex' <=> req'[q].at = "addMember"
             /\ Updating(v)' = {} => (v \in groupIndex' <=> v \in uploaders')
  <2>1. Updating(v)' = {r}
      BY <1>4, <1>5, <1>8 DEF Tangle
  <2>2. req'[r].at = s
      BY <1>3 DEF At
  <2> QED
      BY <1>2, <2>1, <2>2
<1> QED
    BY <1>7, <1>8 DEF GroupUpdates

(* The group is written, or the thread dies before it is.                  *)
LEMMA EndStepKeepsUpdates ==
    ASSUME TypeOK, GroupUpdates, NEW r \in Request, changeGroup(r) \/ Abort(r),
           req[r].at \in Membership
    PROVE  GroupUpdates'
<1>0. PICK v : v = req[r].uid
    OBVIOUS
<1>1. req \in [Request -> Thread] /\ Idle.at \notin Membership /\ Go(r, Idle)
    BY DEF TypeOK, Idle, Membership, changeGroup, Abort
<1>2. req'[r] = Idle /\ \A q \in Request \ {r} : req'[q] = req[q]
    BY <1>1 DEF Go
<1>3. \A u : Updating(u)' = Updating(u) \ {r}
    BY <1>1, <1>2 DEF Updating, Membership
<1>4. r \in Updating(v) /\ \A u : u # v => r \notin Updating(u)
    BY <1>0 DEF Updating, Membership
<1>5. /\ groupIndex' = groupIndex /\ tangled \subseteq tangled'
      /\ \A u : u # v => (u \in uploaders' <=> u \in uploaders)
      /\ v \notin tangled' => uploaders' = setMembership(v, req[r].at = "addMember")
    BY <1>0 DEF changeGroup, Abort, setMembership, Membership
<1>6. ASSUME NEW u \in UserId \ tangled', u # v
      PROVE  /\ \A q, p \in Updating(u)' : q = p
             /\ \A q \in Updating(u)' : u \in groupIndex' <=> req'[q].at = "addMember"
             /\ Updating(u)' = {} => (u \in groupIndex' <=> u \in uploaders')
  <2>1. Updating(u)' = Updating(u) /\ u \in UserId \ tangled
      BY <1>3, <1>4, <1>5, <1>6
  <2>2. \A q \in Updating(u) : req'[q] = req[q]
      BY <1>2, <1>4, <1>6 DEF Updating
  <2> QED
      BY <1>5, <1>6, <2>1, <2>2 DEF GroupUpdates
<1>7. ASSUME v \in UserId \ tangled'
      PROVE  /\ Updating(v)' = {}
             /\ v \in groupIndex' <=> v \in uploaders'
  <2>1. v \in UserId \ tangled
      BY <1>5, <1>7
  <2>2. \A q \in Updating(v) : q = r
      BY <1>4, <2>1 DEF GroupUpdates
  <2>3. v \in groupIndex <=> req[r].at = "addMember"
      BY <1>4, <2>1 DEF GroupUpdates
  <2> QED
      BY <1>3, <1>5, <1>7, <2>2, <2>3 DEF setMembership
<1> QED
    BY <1>6, <1>7 DEF GroupUpdates

LEMMA GroupUpdatesStep == TypeOK /\ Made /\ GroupUpdates /\ [Next]_vars => GroupUpdates'
<1> SUFFICES ASSUME TypeOK, Made, GroupUpdates, [Next]_vars PROVE GroupUpdates'
    OBVIOUS
<1>1. CASE deleteAllExpired \/ UNCHANGED vars
  <2>1. UNCHANGED <<group, req>>
      BY <1>1 DEF deleteAllExpired, vars
  <2> QED
      BY <2>1 DEF GroupUpdates, Updating, group
<1>2. CASE Crash
    BY <1>2 DEF Crash, initGroupIndex, GroupUpdates, Updating, Idle
<1>3. ASSUME NEW r \in Request, userRoutes(r) \/ signupRoutes(r) \/ Abort(r)
      PROVE  GroupUpdates'
  <2>1. \A q \in Request \ {r} : req'[q] = req[q]
      BY <1>3, OthersWait
  <2>2. CASE addGroupIndex(r) \/ removeGroupIndex(r)
      BY <2>2, IndexStepKeepsUpdates
  <2>3. CASE changeGroup(r) \/ (Abort(r) /\ req[r].at \in Membership)
      BY <2>3, EndStepKeepsUpdates DEF changeGroup, Membership
  <2>4. CASE Abort(r) /\ req[r].at \notin Membership
    <3>1. req'[r] = Idle /\ Idle.at \notin Membership /\ UNCHANGED group
        BY <2>4 DEF Abort, Go, TypeOK, Idle, Membership, group
    <3> QED
        BY <2>1, <2>4, <3>1, ElsewhereKeepsUpdates
  <2> QED
      BY <1>3, <2>1, <2>2, <2>3, <2>4, RouteElsewhere, ElsewhereKeepsUpdates
<1> QED
    BY <1>1, <1>2, <1>3 DEF Next

(* The group index agrees with the group, for any number of requests that  *)
(* edit it, die or are cut off by a crash.                                 *)
THEOREM GroupIndexHolds == Spec => []GroupIndexAgrees
<1>1. Init => GroupUpdates
    BY DEF Init, GroupUpdates, Updating, Idle
<1>2. GroupUpdates => GroupIndexAgrees
    BY DEF GroupUpdates, GroupIndexAgrees
<1> QED
    BY <1>1, <1>2, GroupUpdatesStep, AlwaysMade, PTL DEF Spec

-----------------------------------------------------------------------------
(* Registration links.  All that a link leads to, outstanding, followed or *)
(* used, bears the name it was mailed for; active accounts have different  *)
(* names.                                                                  *)

Named(n, x) ==
    \/ n \in DOMAIN signupReset /\ signupReset[n].kind = "signup" /\ signupReset[n].name = x
    \/ \E r \in Request :
           req[r].at \in {"confirm", "register"} /\ req[r].nonce = n /\ req[r].name = x
    \/ \E u \in DOMAIN madeBy : madeBy[u] = n /\ userName[u] = x

LinksNamed ==
    /\ DOMAIN madeBy \subseteq userIds
    /\ \A n, x, y : Named(n, x) /\ Named(n, y) => n \in issued /\ x = y

(* A step that makes links of the other kind only, goes on from what a     *)
(* link is named, and makes accounts with that name.                       *)
LEMMA NamedBefore ==
    ASSUME LinksNamed, \A u \in userIds : userName'[u] = userName[u],
           DOMAIN madeBy' \subseteq userIds', issued \subseteq issued',
           \A n \in DOMAIN signupReset' : signupReset'[n].kind = "signup" =>
               n \in DOMAIN signupReset /\ signupReset'[n] = signupReset[n],
           \A q \in Request : req'[q] = req[q] \/
               (req'[q].at \in {"confirm", "register"} => Named(req'[q].nonce, req'[q].name)),
           \A u \in DOMAIN madeBy' : \/ u \in DOMAIN madeBy /\ madeBy'[u] = madeBy[u]
                                     \/ Named(madeBy'[u], userName'[u])
    PROVE  LinksNamed'
<1>1. ASSUME NEW n, NEW x, Named(n, x)' PROVE Named(n, x)
  <2>1. CASE /\ n \in DOMAIN signupReset' /\ signupReset'[n].kind = "signup"
             /\ signupReset'[n].name = x
      BY <2>1 DEF Named
  <2>2. ASSUME NEW q \in Request, req'[q].at \in {"confirm", "register"},
               req'[q].nonce = n, req'[q].name = x
        PROVE  Named(n, x)
      BY <2>2 DEF Named
  <2>3. ASSUME NEW u \in DOMAIN madeBy', madeBy'[u] = n, userName'[u] = x
        PROVE  Named(n, x)
      BY <2>3 DEF Named, LinksNamed
  <2> QED
      BY <1>1, <2>1, <2>2, <2>3 DEF Named
<1> QED
    BY <1>1 DEF LinksNamed

LEMMA LinksRoute ==
    ASSUME TypeOK, Made, LinksNamed, userIds \subseteq userIds',
           \A u \in userIds : userName'[u] = userName[u],
           NEW r \in Request, userRoutes(r) \/ signupRoutes(r) \/ Abort(r)
    PROVE  LinksNamed'
<1>1. req \in [Request -> Thread] /\ \A q \in Request \ {r} : req'[q] = req[q]
    BY OthersWait DEF TypeOK
<1>2. ASSUME NEW step, Go(r, step) PROVE req'[r] = step
    BY <1>1, <1>2 DEF Go
<1>3. DOMAIN madeBy \subseteq userIds /\ Idle.at = "idle"
    BY DEF LinksNamed, Idle
<1>4. ASSUME UNCHANGED <<links, madeBy>>,
             req'[r] = req[r] \/
               (req'[r].at \in {"confirm", "register"} => Named(req'[r].nonce, req'[r].name))
      PROVE  LinksNamed'
    BY <1>1, <1>3, <1>4, NamedBefore DEF links
<1>5. CASE serveUserPut(r) \/ adminAddUser(r)
    BY <1>4, <1>5 DEF serveUserPut, adminAddUser
<1>6. CASE lookupUserName(r) \/ addGroupIndex(r) \/ removeGroupIndex(r) \/ updateUserDetails(r)
  <2>1. UNCHANGED <<links, madeBy>> /\ \E s \in Errand \cup OnUser : \E u : Go(r, At(s, u))
      BY <1>6 DEF lookupUserName, addGroupIndex, removeGroupIndex, updateUserDetails,
                  OnUser, Errand
  <2>2. req'[r].at \notin {"confirm", "register"}
      BY <1>2, <2>1 DEF At, OnUser, Errand
  <2> QED
      BY <1>4, <2>1, <2>2
<1>7. CASE finishOnUser(r) \/ handlerPutAdminInfo(r) \/ changeGroup(r) \/ Abort(r)
  <2>1. UNCHANGED <<links, madeBy>> /\ req'[r] = Idle
      BY <1>2, <1>7 DEF finishOnUser, handlerPutAdminInfo, changeGroup, Abort
  <2> QED
      BY <1>3, <1>4, <2>1
<1>8. CASE lookupResetInfo(r) \/ guardSuitableAccountType(r)
  <2>1. UNCHANGED <<links, madeBy>>
      BY <1>8 DEF lookupResetInfo, guardSuitableAccountType
  <2>2. ASSUME lookupResetInfo(r) PROVE req'[r].at \notin {"confirm", "register"}
    <3>1. PICK n : Go(r, [at |-> "resetLink", nonce |-> n, uid |-> signupReset[n].uid])
        BY <2>2 DEF lookupResetInfo
    <3> QED
        BY <1>2, <3>1
  <2>3. ASSUME guardSuitableAccountType(r) PROVE req'[r].at \notin {"confirm", "register"}
      BY <1>2, <1>3, <2>3 DEF guardSuitableAccountType
  <2> QED
      BY <1>4, <1>8, <2>1, <2>2, <2>3
<1>9. CASE lookupSignupInfo(r)
  <2>1. PICK n \in DOMAIN signupReset :
            /\ signupReset[n].kind = "signup"
            /\ Go(r, [at |-> "confirm", nonce |-> n, name |-> signupReset[n].name])
      BY <1>9 DEF lookupSignupInfo
  <2>2. Named(n, signupReset[n].name) /\ req'[r].nonce = n /\ req'[r].name = signupReset[n].name
      BY <1>2, <2>1 DEF Named
  <2> QED
      BY <1>4, <1>9, <2>2 DEF lookupSignupInfo
<1>10. CASE deleteSignupInfo(r)
  <2>1. /\ req'[r].nonce = req[r].nonce /\ req'[r].name = req[r].name
        /\ Named(req[r].nonce, req[r].name)
      BY <1>2, <1>10 DEF deleteSignupInfo, Named
  <2>2. \A n \in DOMAIN signupReset' : n \in DOMAIN signupReset /\ signupReset'[n] = signupReset[n]
      BY <1>10 DEF deleteSignupInfo, Remove
  <2> QED
      BY <1>1, <1>3, <1>10, <2>1, <2>2, NamedBefore DEF deleteSignupInfo
<1>11. CASE deleteResetInfo(r)
  <2>1. req'[r].at \notin {"confirm", "register"}
      BY <1>2, <1>11 DEF deleteResetInfo, At
  <2>2. \A n \in DOMAIN signupReset' : n \in DOMAIN signupReset /\ signupReset'[n] = signupReset[n]
      BY <1>11 DEF deleteResetInfo, Remove
  <2> QED
      BY <1>1, <1>3, <1>11, <2>1, <2>2, NamedBefore DEF deleteResetInfo
<1>12. CASE handlerPostResetRequestNew(r)
  <2>1. req'[r].at \notin {"confirm", "register"}
      BY <1>2, <1>3, <1>12 DEF handlerPostResetRequestNew
  <2>2. /\ issued \subseteq issued'
        /\ \A n \in DOMAIN signupReset' : signupReset'[n].kind = "signup" =>
               n \in DOMAIN signupReset /\ signupReset'[n] = signupReset[n]
    <3>1. CASE UNCHANGED links
        BY <3>1 DEF links
    <3>2. ASSUME NEW m \in Nonce \ issued, issued' = issued \cup {m},
                 signupReset' = Put(signupReset, m, [kind |-> "reset", uid |-> req[r].uid])
          PROVE  /\ issued \subseteq issued'
                 /\ \A n \in DOMAIN signupReset' : signupReset'[n].kind = "signup" =>
                        n \in DOMAIN signupReset /\ signupReset'[n] = signupReset[n]
        BY <3>2 DEF Put
    <3> QED
        BY <1>12, <3>1, <3>2 DEF handlerPostResetRequestNew
  <2> QED
      BY <1>1, <1>3, <1>12, <2>1, <2>2, NamedBefore DEF handlerPostResetRequestNew
<1>13. CASE register(r)
  <2>1. CASE UNCHANGED madeBy /\ req'[r] = Idle
      BY <1>3, <1>4, <1>13, <2>1 DEF register
  <2>2. CASE /\ addUser(req[r].name, "enabled") /\ madeBy' = Put(madeBy, nextId, req[r].nonce)
             /\ req'[r] = At("details", nextId)
    <3>1. /\ DOMAIN madeBy' = DOMAIN madeBy \cup {nextId} /\ madeBy'[nextId] = req[r].nonce
          /\ \A u \in DOMAIN madeBy \ {nextId} : madeBy'[u] = madeBy[u]
        BY <2>2 DEF Put
    <3>2. userName'[nextId] = req[r].name /\ nextId \in userIds'
      <4>1. req[r].name \in UserName /\ "enabled" \in UserStatus
          BY <1>13, ThreadFields DEF TypeOK, register, UserStatus
      <4>2. userIds' = userIds \cup {nextId}
          BY <2>2, <4>1, AddKeepsType DEF TypeOK
      <4> QED
          BY <2>2, <4>2 DEF addUser, Put
    <3>3. Named(req[r].nonce, req[r].name)
        BY <1>13 DEF register, Named
    <3>4. req'[r].at \notin {"confirm", "register"}
        BY <2>2 DEF At
    <3>5. UNCHANGED links
        BY <1>13 DEF register
    <3> QED
        BY <1>1, <1>3, <3>1, <3>2, <3>3, <3>4, <3>5, NamedBefore DEF links
  <2> QED
      BY <1>2, <1>13, <2>1, <2>2 DEF register, newUserId
<1>14. CASE handlerPostSignupRequestNew(r)
  <2>1. PICK m \in Nonce \ issued, name \in UserName :
            /\ signupReset' = Put(signupReset, m, [kind |-> "signup", name |-> name])
            /\ issued' = issued \cup {m}
      BY <1>14 DEF handlerPostSignupRequestNew
  <2>2. \A x : ~Named(m, x)
      BY <2>1 DEF LinksNamed
  <2>3. UNCHANGED <<req, madeBy>>
      BY <1>14 DEF handlerPostSignupRequestNew
  <2>4. ASSUME NEW n, NEW x, Named(n, x)' PROVE Named(n, x) \/ (n = m /\ x = name)
    <3>1. CASE /\ n \in DOMAIN signupReset' /\ signupReset'[n].kind = "signup"
               /\ signupReset'[n].name = x
        BY <2>1, <3>1 DEF Named, Put
    <3>2. CASE ~(/\ n \in DOMAIN signupReset' /\ signupReset'[n].kind = "signup"
                 /\ signupReset'[n].name = x)
        BY <1>3, <2>3, <2>4, <3>2 DEF Named
    <3> QED
        BY <3>1, <3>2
  <2> QED
      BY <1>3, <2>1, <2>2, <2>3, <2>4 DEF LinksNamed
<1> QED
    BY <1>5, <1>6, <1>7, <1>8, <1>9, <1>10, <1>11, <1>12, <1>13, <1>14
    DEF userRoutes, signupRoutes

LEMMA LinksNamedStep == TypeOK /\ Made /\ LinksNamed /\ [Next]_vars => LinksNamed'
<1> SUFFICES ASSUME TypeOK, Made, LinksNamed, [Next]_vars PROVE LinksNamed'
    OBVIOUS
<1>1. userIds \subseteq userIds' /\ \A u \in userIds : userName'[u] = userName[u]
  <2>1. UsersTypeOK /\ nextId \notin userIds
    <3>1. nextId \in Nat /\ \A v \in userIds : v < nextId
        BY DEF TypeOK, UsersTypeOK, Made
    <3> QED
        BY <3>1 DEF TypeOK
  <2> QED
      BY <2>1, StepUpdates, UpdateKeepsAccounts, UpdateKeepsType
<1>2. CASE UNCHANGED vars \/ Crash
    BY <1>1, <1>2, NamedBefore DEF vars, links, LinksNamed, Crash, Idle
<1>3. CASE deleteAllExpired
    BY <1>1, <1>3, NamedBefore DEF deleteAllExpired, LinksNamed
<1> QED
    BY <1>1, <1>2, <1>3, LinksRoute DEF Next

(* A registration link makes at most one account that is there, for any    *)
(* number of requests that follow it, if one request at a time deletes.    *)
THEOREM OneAccountPerLinkHolds ==
    ASSUME \A a, b \in Admin : a = b
    PROVE  Spec => []OneAccountPerLink
<1>1. Init => LinksNamed
    BY DEF Init, empty, LinksNamed, Named, Idle
<1>2. LinksNamed /\ UsersInvariant => OneAccountPerLink
  <2> SUFFICES ASSUME LinksNamed, noUserNameOverlap,
                      NEW u \in DOMAIN madeBy, NEW v \in DOMAIN madeBy,
                      u \in Active, v \in Active, madeBy[u] = madeBy[v]
               PROVE  u = v
      BY DEF UsersInvariant, OneAccountPerLink
  <2>1. Named(madeBy[u], userName[u]) /\ Named(madeBy[u], userName[v])
      BY DEF Named
  <2>2. userName[u] = userName[v]
      BY <2>1 DEF LinksNamed
  <2> QED
      BY <2>2 DEF noUserNameOverlap
<1> QED
    BY <1>1, <1>2, LinksNamedStep, UsersInvariantHolds, AlwaysMade, PTL DEF Spec
=============================================================================
