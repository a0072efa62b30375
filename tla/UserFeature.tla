---------------------------- MODULE UserFeature ----------------------------
(***************************************************************************)
(* Accounts and groups: the routes of the user, user-details and sign-up   *)
(* features (Features/Users.hs, UserDetails.hs, UserSignup.hs) over the    *)
(* user database.  A route looks its user up by name and then changes      *)
(* something by id, in a transaction of its own, so what it read may be    *)
(* old; registration and password reset are several transactions.  A       *)
(* request may end anywhere (its thread dies), and the server may crash:   *)
(* acid-state keeps every transaction, the group index is in memory.       *)
(*                                                                         *)
(* Every request here has passed its authorisation checks.  Of the groups  *)
(* it has the uploaders, the one that registration writes; the others go   *)
(* through the same code.                                                  *)
(***************************************************************************)
EXTENDS Users, FiniteSets

CONSTANTS Request,     \* request threads
          Admin,       \* those of them that may delete accounts
          Nonce        \* the random numbers in the mailed links

ASSUME RequestAssumption == Admin \subseteq Request

VARIABLES realUsers,   \* durable: ids whose details are of kind RealUser
          signupReset, \* durable: the outstanding sign-up and reset links
          uploaders,   \* durable: the members of the uploaders group
          groupIndex,  \* in memory: ids under which the group is indexed
          req,         \* per request: what it does next, and what it holds
          issued,      \* history: the nonces that were ever drawn
          madeBy,      \* history: the link by which an account was made
          tangled      \* history: ids whose group updates met, or died

links   == <<signupReset, issued>>
group   == <<uploaders, groupIndex, tangled>>
vars    == <<users, realUsers, links, group, req, madeBy>>

Idle       == [at |-> "idle"]
At(s, uid) == [at |-> s, uid |-> uid]

(* What is left to do with the id that a request looked up, or holds.      *)
Errand == {"delete", "enable", "disable", "auth", "token", "revoke",
           "adminInfo", "addIndex", "removeIndex", "reset"}
OnUser == Errand \cup {"details", "addMember", "removeMember"}
OnLink == {"resetLink", "resetNonce"}

Thread ==
    {Idle}
    \cup [at : OnUser, uid : UserId]
    \cup [at : {"confirm", "register"}, nonce : Nonce, name : UserName]
    \cup [at : OnLink, nonce : Nonce, uid : UserId]

SignupResetInfo ==
    [kind : {"signup"}, name : UserName] \cup [kind : {"reset"}, uid : UserId]

Go(r, step) == req' = [req EXCEPT ![r] = step]

-----------------------------------------------------------------------------
(* Routes that are one transaction: an admin makes an account, without a   *)
(* password or with one.                                                   *)

serveUserPut(r) ==
    /\ req[r] = Idle
    /\ \E name \in UserName : addUser(name, "new")
    /\ UNCHANGED <<realUsers, links, group, req, madeBy>>

adminAddUser(r) ==
    /\ req[r] = Idle
    /\ \E name \in UserName : addUser(name, "enabled")
    /\ UNCHANGED <<realUsers, links, group, req, madeBy>>

-----------------------------------------------------------------------------
(* Routes on /user/:username.  lookupUserName finds the id and the route   *)
(* goes on with it; a name that is not there is a 404.                     *)

lookupUserName(r) ==
    /\ req[r] = Idle
    /\ \E name \in DOMAIN userNameMap, s \in Errand :
           /\ s = "delete" => r \in Admin
           /\ s = "reset" => userStatus[userNameMap[name]] = "enabled"
           /\ Go(r, At(s, userNameMap[name]))
    /\ UNCHANGED <<users, realUsers, links, group, madeBy>>

(* The transaction with which most routes end.                             *)
Transaction(r, uid) ==
    \/ req[r].at = "delete"  /\ deleteUser(uid)
    \/ req[r].at = "enable"  /\ setUserEnabledStatus(uid, TRUE)
    \/ req[r].at = "disable" /\ setUserEnabledStatus(uid, FALSE)
    \/ req[r].at = "auth"    /\ setUserAuth(uid)
    \/ req[r].at = "token"   /\ \E t \in AuthToken : addAuthToken(uid, t)
    \/ req[r].at = "revoke"  /\ \E t \in AuthToken : revokeAuthToken(uid, t)

finishOnUser(r) ==
    /\ req[r].at \in {"delete", "enable", "disable", "auth", "token", "revoke"}
    /\ Transaction(r, req[r].uid)
    /\ Go(r, Idle)
    /\ UNCHANGED <<realUsers, links, group, madeBy>>

(* The kind of the account is among what an admin may edit.                *)
handlerPutAdminInfo(r) ==
    /\ req[r].at = "adminInfo"
    /\ realUsers' \in {realUsers \cup {req[r].uid}, realUsers \ {req[r].uid}}
    /\ Go(r, Idle)
    /\ UNCHANGED <<users, links, group, madeBy>>

-----------------------------------------------------------------------------
(* Group membership: first the index, then the group.                      *)

Updating(uid) ==
    {r \in Request : req[r].at \in {"addMember", "removeMember"} /\ req[r].uid = uid}

Tangle(uid) ==
    tangled' = IF Updating(uid) = {} THEN tangled \ {uid} ELSE tangled \cup {uid}

addGroupIndex(r) ==
    /\ req[r].at = "addIndex"
    /\ groupIndex' = groupIndex \cup {req[r].uid}
    /\ Tangle(req[r].uid)
    /\ Go(r, At("addMember", req[r].uid))
    /\ UNCHANGED <<users, realUsers, links, uploaders, madeBy>>

removeGroupIndex(r) ==
    /\ req[r].at = "removeIndex"
    /\ groupIndex' = groupIndex \ {req[r].uid}
    /\ Tangle(req[r].uid)
    /\ Go(r, At("removeMember", req[r].uid))
    /\ UNCHANGED <<users, realUsers, links, uploaders, madeBy>>

(* Mutant: nobody is ever removed from the group itself.                   *)
setMembership_OnlyAdds(uid, member) == uploaders \cup {uid}

setMembership(uid, member) ==
    IF member THEN uploaders \cup {uid} ELSE uploaders \ {uid}

changeGroup(r) ==
    /\ req[r].at \in {"addMember", "removeMember"}
    /\ uploaders' = setMembership(req[r].uid, req[r].at = "addMember")
    /\ Go(r, Idle)
    /\ UNCHANGED <<users, realUsers, links, groupIndex, tangled, madeBy>>

-----------------------------------------------------------------------------
(* Registration: a link is mailed; who follows it deletes the link, makes  *)
(* the account, adds its details and becomes an uploader.                  *)

handlerPostSignupRequestNew(r) ==
    /\ req[r] = Idle
    /\ \E n \in Nonce \ issued, name \in UserName :
           /\ signupReset' = Put(signupReset, n, [kind |-> "signup", name |-> name])
           /\ issued' = issued \cup {n}
    /\ UNCHANGED <<users, realUsers, group, req, madeBy>>

lookupSignupInfo(r) ==
    /\ req[r] = Idle
    /\ \E n \in DOMAIN signupReset :
           /\ signupReset[n].kind = "signup"
           /\ Go(r, [at |-> "confirm", nonce |-> n, name |-> signupReset[n].name])
    /\ UNCHANGED <<users, realUsers, links, group, madeBy>>

deleteSignupInfo(r) ==
    /\ req[r].at = "confirm"
    /\ signupReset' = Remove(signupReset, req[r].nonce)
    /\ Go(r, [at |-> "register", nonce |-> req[r].nonce, name |-> req[r].name])
    /\ UNCHANGED <<users, realUsers, issued, group, madeBy>>

(* The id that addUser returns.                                            *)
newUserId == nextId

register(r) ==
    /\ req[r].at = "register"
    /\ \/ /\ addUser(req[r].name, "enabled")
          /\ madeBy' = Put(madeBy, newUserId, req[r].nonce)
          /\ Go(r, At("details", newUserId))
       \/ /\ req[r].name \in DOMAIN userNameMap
          /\ Go(r, Idle)
          /\ UNCHANGED <<users, madeBy>>
    /\ UNCHANGED <<realUsers, links, group>>

updateUserDetails(r) ==
    /\ req[r].at = "details"
    /\ realUsers' = realUsers \cup {req[r].uid}
    /\ Go(r, At("addIndex", req[r].uid))
    /\ UNCHANGED <<users, links, group, madeBy>>

-----------------------------------------------------------------------------
(* Password reset: a link is mailed for an enabled account of a real user; *)
(* who follows it, while it is still one, sets the password.               *)

handlerPostResetRequestNew(r) ==
    /\ req[r].at = "reset"
    /\ \/ /\ req[r].uid \in realUsers
          /\ \E n \in Nonce \ issued :
                 /\ signupReset' = Put(signupReset, n, [kind |-> "reset", uid |-> req[r].uid])
                 /\ issued' = issued \cup {n}
       \/ /\ req[r].uid \notin realUsers
          /\ UNCHANGED links
    /\ Go(r, Idle)
    /\ UNCHANGED <<users, realUsers, group, madeBy>>

lookupResetInfo(r) ==
    /\ req[r] = Idle
    /\ \E n \in DOMAIN signupReset :
           /\ signupReset[n].kind = "reset"
           /\ Go(r, [at |-> "resetLink", nonce |-> n, uid |-> signupReset[n].uid])
    /\ UNCHANGED <<users, realUsers, links, group, madeBy>>

accountSuitableForPasswordReset(uid) ==
    userStatus[uid] = "enabled" /\ uid \in realUsers

guardSuitableAccountType(r) ==
    /\ req[r].at = "resetLink"
    /\ Go(r, IF accountSuitableForPasswordReset(req[r].uid)
             THEN [at |-> "resetNonce", nonce |-> req[r].nonce, uid |-> req[r].uid]
             ELSE Idle)
    /\ UNCHANGED <<users, realUsers, links, group, madeBy>>

deleteResetInfo(r) ==
    /\ req[r].at = "resetNonce"
    /\ signupReset' = Remove(signupReset, req[r].nonce)
    /\ Go(r, At("auth", req[r].uid))
    /\ UNCHANGED <<users, realUsers, issued, group, madeBy>>

-----------------------------------------------------------------------------
(* The daily cron job drops the links of some days ago, a request thread   *)
(* dies, the server crashes and starts again.                              *)

deleteAllExpired ==
    /\ \E expired \in (SUBSET DOMAIN signupReset) \ {{}} :
           signupReset' = [n \in DOMAIN signupReset \ expired |-> signupReset[n]]
    /\ UNCHANGED <<users, realUsers, issued, group, req, madeBy>>

Abort(r) ==
    /\ req[r] # Idle
    /\ tangled' = IF req[r].at \in {"addMember", "removeMember"}
                  THEN tangled \cup {req[r].uid} ELSE tangled
    /\ Go(r, Idle)
    /\ UNCHANGED <<users, realUsers, links, uploaders, groupIndex, madeBy>>

initGroupIndex == groupIndex' = uploaders

Crash ==
    /\ initGroupIndex
    /\ tangled' = {}
    /\ req' = [r \in Request |-> Idle]
    /\ UNCHANGED <<users, realUsers, links, uploaders, madeBy>>

Init ==
    /\ emptyUsers
    /\ realUsers = {} /\ uploaders = {} /\ groupIndex = {} /\ tangled = {}
    /\ signupReset = empty /\ issued = {} /\ madeBy = empty
    /\ req = [r \in Request |-> Idle]

userRoutes(r) ==
    \/ serveUserPut(r) \/ adminAddUser(r)
    \/ lookupUserName(r) \/ finishOnUser(r) \/ handlerPutAdminInfo(r)
    \/ addGroupIndex(r) \/ removeGroupIndex(r) \/ changeGroup(r)

signupRoutes(r) ==
    \/ handlerPostSignupRequestNew(r) \/ lookupSignupInfo(r) \/ deleteSignupInfo(r)
    \/ register(r) \/ updateUserDetails(r)
    \/ handlerPostResetRequestNew(r) \/ lookupResetInfo(r)
    \/ guardSuitableAccountType(r) \/ deleteResetInfo(r)

Next ==
    \/ \E r \in Request : userRoutes(r) \/ signupRoutes(r) \/ Abort(r)
    \/ deleteAllExpired
    \/ Crash

Spec == Init /\ [][Next]_vars

-----------------------------------------------------------------------------
(* Properties.                                                             *)

(* The databases, the links and the requests are well formed.              *)
TypeOK ==
    /\ UsersTypeOK
    /\ realUsers \subseteq UserId /\ uploaders \subseteq UserId
    /\ groupIndex \subseteq UserId /\ tangled \subseteq UserId
    /\ issued \subseteq Nonce /\ DOMAIN signupReset \subseteq issued
    /\ signupReset \in [DOMAIN signupReset -> SignupResetInfo]
    /\ DOMAIN madeBy \subseteq UserId /\ madeBy \in [DOMAIN madeBy -> Nonce]
    /\ req \in [Request -> Thread]

(* The invariant of the user database, which the code spells out and only  *)
(* checks in builds with assertions (Users.hs, invariant): whatever the    *)
(* routes do with ids they looked up earlier, names, ids and tokens stay   *)
(* in agreement.                                                           *)
UsersInvariant ==
    /\ nextIdIsRight
    /\ noUserNameOverlap
    /\ userNameMapComplete
    /\ userNameMapConsistent
    /\ authTokenMapConsistent

(* Ids are never used twice (Users.hs, "user names can be recycled but     *)
(* user ids never are"): whatever names an account by its id, a right, a   *)
(* token, details, a link or a request at work, names one already made, so *)
(* a new account inherits nothing from an old one of the same name.        *)
Held ==
    realUsers \cup uploaders \cup groupIndex
    \cup {authTokenMap[t] : t \in DOMAIN authTokenMap}
    \cup {signupReset[n].uid : n \in {m \in DOMAIN signupReset : signupReset[m].kind = "reset"}}
    \cup {req[r].uid : r \in {s \in Request : req[s].at \in OnUser \cup OnLink}}

NoInheritance == \A u \in Held : u \in userIds /\ u < nextId

(* Deleting an account is for good (Users.hs, deleteUser): no enabling, no *)
(* password change and no reset that was under way revives it, and its id  *)
(* keeps its name.                                                         *)
DeletedForGood ==
    [][\A u \in userIds \ Active :
           u \in userIds' \ Active' /\ userName'[u] = userName[u]]_vars

(* An account that an admin has disabled is enabled again by a request to  *)
(* enable it and by nothing else: not by a password that is set, by its    *)
(* user or through a link followed before it was disabled.                 *)
OnlyEnablingEnables ==
    [][\A u \in userIds :
           (userStatus[u] # "enabled" /\ u \in userIds' /\ userStatus'[u] = "enabled") =>
               /\ userStatus[u] = "disabled"
               /\ \E r \in Request : req[r] = At("enable", u) /\ req'[r] = Idle]_vars

(* A registration link makes at most one account that is there, however    *)
(* often and by how many requests at once it is followed.                  *)
OneAccountPerLink ==
    \A u, v \in DOMAIN madeBy :
        (u \in Active /\ v \in Active /\ madeBy[u] = madeBy[v]) => u = v

(* The group index agrees with the group for every user with no update     *)
(* under way, unless updates of that user met or died since the last one   *)
(* that ran alone (Users.hs, groupResourceAt, "keep the index updated").   *)
GroupIndexAgrees ==
    \A u \in UserId \ tangled :
        Updating(u) = {} => (u \in groupIndex <=> u \in uploaders)
=============================================================================
