------------------------------- MODULE Users -------------------------------
(***************************************************************************)
(* The user database (Users/Users.hs): accounts by id, the map from the    *)
(* names of active accounts to ids, the next id and the map from auth      *)
(* tokens to ids.  One operator per acid-state transaction that a route    *)
(* calls (Users/State.hs); a transaction that fails leaves everything as   *)
(* it was.  The records of userIdMap are kept field by field, and of a     *)
(* password it is only kept whether there is one.                          *)
(***************************************************************************)
EXTENDS Integers

CONSTANTS UserName, AuthToken,
          MaxUsers     \* bound: accounts ever made

ASSUME UsersAssumption == MaxUsers \in Nat

VARIABLES userName,     \* userIdMap: the name of each account
          userStatus,   \* userIdMap: its status
          userTokens,   \* userIdMap: its auth tokens
          userNameMap,  \* from active user names to ids
          nextId,       \* the next available id
          authTokenMap  \* from tokens to ids

users == <<userName, userStatus, userTokens, userNameMap, nextId, authTokenMap>>

(* "new" is a disabled account that never had a password.                  *)
UserStatus == {"enabled", "disabled", "new", "deleted"}

UserId  == 0 .. MaxUsers - 1
userIds == DOMAIN userStatus
Active  == {u \in userIds : userStatus[u] # "deleted"}

empty         == [x \in {} |-> x]
Put(f, k, v)  == [x \in DOMAIN f \cup {k} |-> IF x = k THEN v ELSE f[x]]
Remove(f, k)  == [x \in DOMAIN f \ {k} |-> f[x]]

-----------------------------------------------------------------------------
(* The transactions.                                                       *)

emptyUsers ==
    /\ userName = empty /\ userStatus = empty /\ userTokens = empty
    /\ userNameMap = empty /\ authTokenMap = empty
    /\ nextId = 0

(* Mutant: a name in use is accepted.                                      *)
addUser_Clash(name, status) ==
    /\ nextId < MaxUsers
    /\ userName'    = Put(userName, nextId, name)
    /\ userStatus'  = Put(userStatus, nextId, status)
    /\ userTokens'  = Put(userTokens, nextId, {})
    /\ userNameMap' = Put(userNameMap, name, nextId)
    /\ nextId'      = nextId + 1
    /\ UNCHANGED authTokenMap

(* A new account with the next id, unless an active one has the name.      *)
addUser(name, status) ==
    /\ name \notin DOMAIN userNameMap
    /\ nextId < MaxUsers
    /\ userName'    = Put(userName, nextId, name)
    /\ userStatus'  = Put(userStatus, nextId, status)
    /\ userTokens'  = Put(userTokens, nextId, {})
    /\ userNameMap' = Put(userNameMap, name, nextId)
    /\ nextId'      = nextId + 1
    /\ UNCHANGED authTokenMap

(* Deletes by id, and forgets the name of that account whoever has it now. *)
deleteUser(uid) ==
    /\ userStatus'  = [userStatus EXCEPT ![uid] = "deleted"]
    /\ userNameMap' = Remove(userNameMap, userName[uid])
    /\ UNCHANGED <<userName, userTokens, nextId, authTokenMap>>

(* Mutant: the status before is not looked at.                             *)
changeStatus_Any(status, enable) == IF enable THEN "enabled" ELSE "disabled"

changeStatus(status, enable) ==
    CASE enable /\ status = "disabled" -> "enabled"
      [] ~enable /\ status = "enabled" -> "disabled"
      [] OTHER                         -> status

setUserEnabledStatus(uid, enable) ==
    /\ userStatus' = [userStatus EXCEPT ![uid] = changeStatus(@, enable)]
    /\ UNCHANGED <<userName, userTokens, userNameMap, nextId, authTokenMap>>

changeAuth(status) == IF status = "new" THEN "disabled" ELSE status

setUserAuth(uid) ==
    /\ userStatus' = [userStatus EXCEPT ![uid] = changeAuth(@)]
    /\ UNCHANGED <<userName, userTokens, userNameMap, nextId, authTokenMap>>

(* A token is drawn at random: it is none of those in use.                 *)
addAuthToken(uid, token) ==
    /\ token \notin DOMAIN authTokenMap
    /\ \A u \in userIds : token \notin userTokens[u]
    /\ userTokens'   = [userTokens EXCEPT ![uid] = @ \cup {token}]
    /\ authTokenMap' = Put(authTokenMap, token, uid)
    /\ UNCHANGED <<userName, userStatus, userNameMap, nextId>>

revokeAuthToken(uid, token) ==
    /\ token \in userTokens[uid]
    /\ userTokens'   = [userTokens EXCEPT ![uid] = @ \ {token}]
    /\ authTokenMap' = Remove(authTokenMap, token)
    /\ UNCHANGED <<userName, userStatus, userNameMap, nextId>>

-----------------------------------------------------------------------------
(* The invariant that the code writes down, part by part.                  *)

(* The next id is one more than the largest id, or 0.                      *)
nextIdIsRight ==
    /\ \A u \in userIds : u < nextId
    /\ nextId # 0 => nextId - 1 \in userIds

(* Active accounts have different names.                                   *)
noUserNameOverlap ==
    \A u, v \in Active : userName[u] = userName[v] => u = v

(* The map has exactly the names of the active accounts.                   *)
userNameMapComplete ==
    DOMAIN userNameMap = {userName[u] : u \in Active}

(* A name leads to an account of that name.                                *)
userNameMapConsistent ==
    \A n \in DOMAIN userNameMap :
        userNameMap[n] \in userIds /\ userName[userNameMap[n]] = n

(* Tokens lead to the accounts that have them, and the other way round.    *)
authTokenMapConsistent ==
    /\ \A t \in DOMAIN authTokenMap :
           authTokenMap[t] \in userIds /\ t \in userTokens[authTokenMap[t]]
    /\ \A u \in userIds : \A t \in userTokens[u] :
           t \in DOMAIN authTokenMap /\ authTokenMap[t] = u

UsersTypeOK ==
    /\ nextId \in 0 .. MaxUsers
    /\ userIds \subseteq UserId
    /\ userStatus \in [userIds -> UserStatus]
    /\ userName \in [userIds -> UserName]
    /\ userTokens \in [userIds -> SUBSET AuthToken]
    /\ DOMAIN userNameMap \subseteq UserName /\ DOMAIN authTokenMap \subseteq AuthToken
    /\ userNameMap \in [DOMAIN userNameMap -> UserId]
    /\ authTokenMap \in [DOMAIN authTokenMap -> UserId]
=============================================================================
