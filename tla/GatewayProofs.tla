---------------------------- MODULE GatewayProofs ----------------------------
(***************************************************************************)
(* What the gateway and its client guarantee for every value of their      *)
(* constants: the rights that are cached, the groups of a user, what the   *)
(* requests that write a job leave behind and answer, the work that runs   *)
(* in a child process, and the waits of the client library.                *)
(***************************************************************************)
EXTENDS Authentication, JobRequests, IsolatedWork, Client, TLAPS

-----------------------------------------------------------------------------
(* The rights that are cached, and the groups of a user. *)

\* What is cached for a user was given for that user.
RightsInv ==
    /\ AccessTypeOK
    /\ DOMAIN given = Users
    /\ \A u \in Users : cached[u] # None => cached[u] \in given[u]

\* What is given only grows while nothing new is cached.
LEMMA CachedWasGiven ==
    ASSUME RightsInv
    PROVE  OutageIsNotADenial
  BY ZenonT(60) DEF RightsInv, OutageIsNotADenial, get_accessible_functions

\* A request fills the cache with what the Runtime API gave, or leaves it alone.
LEMMA AuthorizeRights ==
    ASSUME RightsInv, NEW u \in Users, Authorize(u)
    PROVE  RightsInv'
<1>1. /\ UNCHANGED <<functions, shares, admins, enabled, platform>>
      /\ cached' = [cached EXCEPT ![u] = get_accessible_functions(u).keep]
      /\ given' = IF enabled /\ cached[u] = None /\ platform[u].code \in {200, 204}
                  THEN [given EXCEPT ![u] = @ \cup {IF platform[u].code = 204 THEN LegacyResult ELSE platform[u].result}]
                  ELSE given
  BY ZenonT(60) DEF Authorize
<1>2. platform[u] \in PlatformAnswers
  BY DEF RightsInv, AccessTypeOK
<1>3. /\ platform[u].code \in {200, 204, 401, 503}
      /\ platform[u].code = 200 => platform[u].result \in Entitlements
  BY <1>2 DEF PlatformAnswers, Answer
<1> DEFINE fresh == enabled /\ cached[u] = None /\ platform[u].code \in {200, 204}
           r == IF platform[u].code = 204 THEN LegacyResult ELSE platform[u].result
<1>4. get_accessible_functions(u).keep = IF fresh THEN r ELSE cached[u]
  <2>1. CASE ~enabled \/ cached[u] # None
    BY <2>1 DEF get_accessible_functions
  <2>2. CASE enabled /\ cached[u] = None /\ platform[u].code \in {401, 503}
    BY <2>2 DEF get_accessible_functions
  <2>3. CASE fresh
    BY <2>3 DEF get_accessible_functions
  <2> QED
    BY <1>3, <2>1, <2>2, <2>3
<1>5. r \in Results \/ ~fresh
  BY <1>3 DEF Results
<1>6. cached \in [Users -> Results \cup {None}] /\ DOMAIN given = Users
  BY DEF RightsInv, AccessTypeOK
<1> HIDE DEF fresh, r
<1>7. cached' = IF fresh THEN [cached EXCEPT ![u] = r] ELSE cached
  <2>1. [cached EXCEPT ![u] = cached[u]] = cached
    BY <1>6
  <2> QED
    BY ZenonT(60), <1>1, <1>4, <2>1
<1>8. given' = IF fresh THEN [given EXCEPT ![u] = @ \cup {r}] ELSE given
  BY ZenonT(60), <1>1 DEF fresh, r
<1>9. AccessTypeOK'
  <2>1. cached' \in [Users -> Results \cup {None}]
    BY <1>5, <1>7 DEF RightsInv, AccessTypeOK
  <2> QED
    BY <1>1, <2>1 DEF RightsInv, AccessTypeOK, Stored
<1>10. \A v \in Users : cached'[v] # None => cached'[v] \in given'[v]
  BY <1>6, <1>7, <1>8 DEF RightsInv
<1>11. DOMAIN given' = Users
  BY <1>6, <1>8
<1> QED
  BY <1>9, <1>10, <1>11 DEF RightsInv

\* The rights change without the cache, and an entry is forgotten.
LEMMA ChangesRights ==
    ASSUME RightsInv, AccessNext, \A u \in Users : ~Authorize(u)
    PROVE  RightsInv'
<1>1. ASSUME NEW u \in Users, CacheExpires(u) PROVE RightsInv'
  <2>1. /\ UNCHANGED <<functions, shares, admins, platform, given>>
        /\ cached' = [cached EXCEPT ![u] = None]
    BY ZenonT(60), <1>1 DEF CacheExpires
  <2>2. cached' \in [Users -> Results \cup {None}]
    BY <2>1 DEF RightsInv, AccessTypeOK
  <2>3. AccessTypeOK'
    BY <2>1, <2>2 DEF RightsInv, AccessTypeOK, Stored
  <2>4. \A v \in Users : cached'[v] # None => cached'[v] \in given'[v]
    BY <2>1 DEF RightsInv, AccessTypeOK
  <2> QED
    BY <2>1, <2>3, <2>4 DEF RightsInv
<1>2. ASSUME UNCHANGED <<functions, cached, given>>, shares' \subseteq GroupGrants, admins' \subseteq Providers \X Users,
             platform' \in [Users -> PlatformAnswers]
      PROVE  RightsInv'
  <2>1. AccessTypeOK'
    BY <1>2 DEF RightsInv, AccessTypeOK, Stored
  <2> QED
    BY <1>2, <2>1 DEF RightsInv
<1>3. /\ shares \subseteq GroupGrants /\ admins \subseteq Providers \X Users
      /\ platform \in [Users -> PlatformAnswers]
  BY DEF RightsInv, AccessTypeOK
<1>4. ASSUME NEW u \in Users, NEW a \in PlatformAnswers, PlatformChanges(u, a) PROVE RightsInv'
  BY <1>2, <1>3, <1>4 DEF PlatformChanges
<1>5. ASSUME NEW g \in GroupGrants, GroupsChange(g) PROVE RightsInv'
  BY <1>2, <1>3, <1>5 DEF GroupsChange
<1>6. ASSUME NEW p \in Providers, NEW u \in Users, AdminsChange(p, u) PROVE RightsInv'
  BY <1>2, <1>3, <1>6 DEF AdminsChange
<1>7. CASE SwitchRuntimeApi
  BY <1>2, <1>3, <1>7 DEF SwitchRuntimeApi
<1> QED
  BY ZenonT(60), <1>1, <1>4, <1>5, <1>6, <1>7 DEF AccessNext

\* A step that leaves the rights alone.
LEMMA SameRights ==
    ASSUME RightsInv, UNCHANGED accessVars
    PROVE  RightsInv'
<1>1. UNCHANGED <<functions, shares, admins, platform, cached, given>>
  BY DEF accessVars
<1> QED
  BY <1>1 DEF RightsInv, AccessTypeOK, Stored

\* A user is served with rights the Runtime API has given, or told to retry: an outage
\* of the API is never taken for an absence of rights (FunctionAccessClient), from any
\* table of functions and any groups, while the rights change and entries expire.
THEOREM AccessKeepsRights ==
    ASSUME NEW CONSTANT table, NEW CONSTANT grants, NEW CONSTANT admin,
           \A f \in FunctionIds : table[f] # None => table[f].author \in Users /\ table[f].provider \in Providers \cup {None},
           grants \subseteq GroupGrants, admin \subseteq Providers \X Users
    PROVE  AccessInit(table, grants, admin) /\ [][AccessNext]_accessVars => []RightsAreKept
<1>1. AccessInit(table, grants, admin) => RightsInv
  <2> SUFFICES ASSUME AccessInit(table, grants, admin) PROVE RightsInv
    OBVIOUS
  <2>1. /\ functions = table /\ shares = grants /\ admins = admin
        /\ platform = [u \in Users |-> Answer(204, None)] /\ cached = [u \in Users |-> None] /\ given = [u \in Users |-> {}]
    BY ZenonT(60) DEF AccessInit
  <2>2. Answer(204, None) \in PlatformAnswers
    BY DEF PlatformAnswers
  <2>3. platform \in [Users -> PlatformAnswers] /\ cached \in [Users -> Results \cup {None}]
    BY <2>1, <2>2
  <2>4. AccessTypeOK
    BY <2>1, <2>3 DEF AccessTypeOK, Stored
  <2> QED
    BY <2>1, <2>4 DEF RightsInv
<1>2. RightsInv /\ [AccessNext]_accessVars => RightsInv'
  BY ZenonT(60), AuthorizeRights, ChangesRights, SameRights
<1>3. RightsInv => RightsAreKept
  BY CachedWasGiven DEF RightsInv, RightsAreKept
<1> QED
  BY <1>1, <1>2, <1>3, PTL

\* The fields of the entry of the request.
EntryShape == entry = [jwt |-> entry.jwt, plan |-> entry.plan, groups |-> entry.groups]

\* What a request is about to write was answered.
GroupsInv ==
    /\ EntryShape
    /\ DOMAIN login = Logins /\ \A l \in Logins : "at" \in DOMAIN login[l]
    /\ \A l \in Logins : login[l].at \in {"user", "sync"} => Given(login[l].target) \subseteq answered
    /\ GroupsWereAnswered

\* A step that writes no groups and asks for none.
LEMMA QuietLogin ==
    ASSUME GroupsInv, UNCHANGED <<answered, userGroups>>,
           EntryShape', entry'.groups = entry.groups \/ entry'.groups = None,
           NEW l \in Logins, NEW r, "at" \in DOMAIN r, login' = [login EXCEPT ![l] = r],
           r.at \in {"user", "sync"} => Given(r.target) \subseteq answered
    PROVE  GroupsInv'
<1>1. \A k \in Logins : login'[k] = IF k = l THEN r ELSE login[k]
  BY DEF GroupsInv
<1>2. DOMAIN login' = Logins /\ \A k \in Logins : "at" \in DOMAIN login'[k]
  BY <1>1 DEF GroupsInv
<1>3. \A k \in Logins : login'[k].at \in {"user", "sync"} => Given(login'[k].target) \subseteq answered'
  BY ZenonT(60), <1>1 DEF GroupsInv
<1>4. GroupsWereAnswered'
  BY ZenonT(60) DEF GroupsInv, GroupsWereAnswered
<1> QED
  BY ZenonT(60), <1>2, <1>3, <1>4 DEF GroupsInv

\* A step around the requests.
LEMMA NoLoginStep ==
    ASSUME GroupsInv, UNCHANGED <<answered, userGroups, login>>,
           EntryShape', entry'.groups = entry.groups \/ entry'.groups = None
    PROVE  GroupsInv'
<1>1. GroupsWereAnswered'
  BY ZenonT(60) DEF GroupsInv, GroupsWereAnswered
<1> QED
  BY ZenonT(60), <1>1 DEF GroupsInv

\* The record of a request that ended, and of one that goes on.
LEMMA LoginRecords ==
    /\ "at" \in DOMAIN NoLogin /\ NoLogin.at \notin {"user", "sync"}
    /\ "at" \in DOMAIN [at |-> "access"] /\ [at |-> "access"].at \notin {"user", "sync"}
    /\ \A p : "at" \in DOMAIN [at |-> "jwt", public |-> p] /\ [at |-> "jwt", public |-> p].at \notin {"user", "sync"}
  BY DEF NoLogin

\* A request goes on to a call, or fails: nothing was answered about its groups.
LEMMA GoOnStep ==
    ASSUME GroupsInv, UNCHANGED <<answered, userGroups>>, NEW l \in Logins, NEW at, at \in {"plan", "groups"},
           EntryShape', entry'.groups = entry.groups, GoOn(l, at)
    PROVE  GroupsInv'
<1> DEFINE r == [login[l] EXCEPT !.at = at]
<1>1. login' = [login EXCEPT ![l] = r]
  BY ZenonT(60) DEF GoOn
<1>2. "at" \in DOMAIN login[l]
  BY DEF GroupsInv
<1>3. "at" \in DOMAIN r /\ r.at \notin {"user", "sync"}
  BY <1>2
<1> HIDE DEF r
<1> QED
  BY ZenonT(60), <1>1, <1>3, QuietLogin

\* Likewise when the request ends.
LEMMA EndStep ==
    ASSUME GroupsInv, UNCHANGED <<answered, userGroups>>, NEW l \in Logins,
           EntryShape', entry'.groups = entry.groups, login' = [login EXCEPT ![l] = NoLogin]
    PROVE  GroupsInv'
  BY ZenonT(60), LoginRecords, QuietLogin

\* The calls before the groups.
LEMMA CallSteps ==
    ASSUME GroupsInv, NEW l \in Logins, LoginJwt(l) \/ LoginPlan(l)
    PROVE  GroupsInv'
<1>1. EntryShape /\ userGroups' = userGroups
  BY DEF GroupsInv, LoginJwt, LoginPlan
<1>2. CASE LoginJwt(l)
  <2>1. \/ /\ GoOn(l, "groups") \/ GoOn(l, "plan")
           /\ entry' = [entry EXCEPT !.jwt = TRUE] /\ answered' = answered
        \/ Fail(l)
    BY ZenonT(60), <1>2 DEF LoginJwt
  <2>2. entry' = [entry EXCEPT !.jwt = TRUE] => EntryShape' /\ entry'.groups = entry.groups
    BY ZenonT(60), <1>1 DEF EntryShape
  <2>3. Fail(l) => /\ EntryShape' /\ entry'.groups = entry.groups /\ answered' = answered
                   /\ login' = [login EXCEPT ![l] = NoLogin]
    BY ZenonT(60), <1>1 DEF EntryShape, Fail
  <2> QED
    BY ZenonT(60), <1>1, <2>1, <2>2, <2>3, GoOnStep, EndStep
<1>3. CASE LoginPlan(l)
  <2>1. \/ /\ GoOn(l, "groups") \/ login' = [login EXCEPT ![l] = NoLogin]
           /\ \E plan : entry' = [entry EXCEPT !.plan = plan]
           /\ answered' = answered
        \/ Fail(l)
    BY ZenonT(60), <1>3 DEF LoginPlan
  <2>2. (\E plan : entry' = [entry EXCEPT !.plan = plan]) => EntryShape' /\ entry'.groups = entry.groups
    BY <1>1 DEF EntryShape
  <2>3. Fail(l) => /\ EntryShape' /\ entry'.groups = entry.groups /\ answered' = answered
                   /\ login' = [login EXCEPT ![l] = NoLogin]
    BY ZenonT(60), <1>1 DEF EntryShape, Fail
  <2> QED
    BY ZenonT(60), <1>1, <2>1, <2>2, <2>3, GoOnStep, EndStep
<1> QED
  BY <1>2, <1>3

\* The groups are asked for, or found in the cache.
LEMMA GroupsStep ==
    ASSUME GroupsInv, NEW l \in Logins, LoginGroups(l)
    PROVE  GroupsInv'
<1> DEFINE found == IF entry.groups # None THEN entry.groups ELSE IF groupsNow = {"refused"} THEN {} ELSE groupsNow
           r == [at |-> "user", target |-> found]
<1>1. EntryShape /\ userGroups' = userGroups
  BY DEF GroupsInv, LoginGroups
<1>2. CASE found = {"down"}
  <2>1. Fail(l)
    BY ZenonT(60), <1>2 DEF LoginGroups
  <2>2. /\ EntryShape' /\ entry'.groups = entry.groups /\ answered' = answered
        /\ login' = [login EXCEPT ![l] = NoLogin]
    BY ZenonT(60), <1>1, <2>1 DEF EntryShape, Fail
  <2> QED
    BY ZenonT(60), <1>1, <2>2, EndStep
<1>3. CASE found # {"down"}
  <2>1. /\ login' = [login EXCEPT ![l] = r]
        /\ entry' = IF groupsNow = {"refused"} THEN entry ELSE [entry EXCEPT !.groups = found]
        /\ answered' = IF entry.groups # None THEN answered ELSE answered \cup Given(found)
    BY ZenonT(60), <1>3 DEF LoginGroups
  <2>2. Given(found) \subseteq answered' /\ answered \subseteq answered'
    <3>1. CASE entry.groups # None
      BY ZenonT(60), <2>1, <3>1 DEF GroupsInv, GroupsWereAnswered
    <3>2. CASE entry.groups = None
      BY ZenonT(60), <2>1, <3>2
    <3> QED
      BY <3>1, <3>2
  <2>3. r.at = "user" /\ r.target = found /\ "at" \in DOMAIN r
    OBVIOUS
  <2> HIDE DEF found, r
  <2>4. EntryShape' /\ (entry'.groups = entry.groups \/ entry'.groups = found)
    BY <1>1, <2>1 DEF EntryShape
  <2>5. \A k \in Logins : login'[k] = IF k = l THEN r ELSE login[k]
    BY <2>1 DEF GroupsInv
  <2>6. DOMAIN login' = Logins /\ \A k \in Logins : "at" \in DOMAIN login'[k]
    BY <2>1, <2>3, <2>5 DEF GroupsInv
  <2>7. \A k \in Logins : login'[k].at \in {"user", "sync"} => Given(login'[k].target) \subseteq answered'
    BY ZenonT(60), <2>2, <2>3, <2>5 DEF GroupsInv
  <2>8. GroupsWereAnswered'
    BY ZenonT(60), <1>1, <2>2, <2>4 DEF GroupsInv, GroupsWereAnswered
  <2> QED
    BY ZenonT(60), <2>4, <2>6, <2>7, <2>8 DEF GroupsInv
<1> QED
  BY <1>2, <1>3

\* The user is read, with the groups it has at this moment.
LEMMA ReadStep ==
    ASSUME GroupsInv, NEW l \in Logins, LoginRead(l)
    PROVE  GroupsInv'
<1>1. /\ login[l].at = "user" /\ UNCHANGED <<entry, answered, userGroups>>
      /\ \/ login' = [login EXCEPT ![l] = NoLogin]
         \/ login' = [login EXCEPT ![l] = [at |-> "access"]]
         \/ login' = [login EXCEPT ![l] = [at |-> "sync", target |-> login[l].target, current |-> userGroups]]
  BY ZenonT(60) DEF LoginRead
<1>2. EntryShape' /\ entry'.groups = entry.groups
  BY <1>1 DEF GroupsInv, EntryShape
<1> DEFINE r == [at |-> "sync", target |-> login[l].target, current |-> userGroups]
<1>3. "at" \in DOMAIN r /\ r.target = login[l].target
  OBVIOUS
<1>4. Given(r.target) \subseteq answered
  BY ZenonT(60), <1>1, <1>3 DEF GroupsInv
<1> HIDE DEF r
<1>5. login' = [login EXCEPT ![l] = r] \/ login' = [login EXCEPT ![l] = NoLogin]
      \/ login' = [login EXCEPT ![l] = [at |-> "access"]]
  BY ZenonT(60), <1>1 DEF r
<1> QED
  BY ZenonT(60), <1>1, <1>2, <1>3, <1>4, <1>5, LoginRecords, QuietLogin

\* The difference is written.  Each group of the user is afterwards as the answer said or
\* as it was in the database, whatever other requests wrote in between.
LEMMA SyncStep ==
    ASSUME GroupsInv, NEW l \in Logins, LoginSync(l)
    PROVE  GroupsInv'
<1> DEFINE target == login[l].target
           current == login[l].current
           r == [at |-> "access"]
<1>1. /\ login[l].at = "sync" /\ UNCHANGED <<entry, answered>>
      /\ userGroups' = (userGroups \ (current \ target)) \cup (target \ current)
      /\ login' = [login EXCEPT ![l] = r]
  BY ZenonT(60) DEF LoginSync
<1>2. Given(target) \subseteq answered
  BY ZenonT(60), <1>1 DEF GroupsInv
<1>3. \A g \in AccessGroups : <<g, g \in target>> \in answered /\ <<g, g \in userGroups>> \in answered
  BY ZenonT(60), <1>2 DEF Given, GroupsInv, GroupsWereAnswered
<1> HIDE DEF target, current
<1>4. ASSUME NEW g \in AccessGroups PROVE <<g, g \in userGroups'>> \in answered'
  <2>0. (g \in userGroups' <=> g \in target) \/ (g \in userGroups' <=> g \in userGroups)
    BY <1>1
  <2>1. (g \in userGroups') = (g \in target) \/ (g \in userGroups') = (g \in userGroups)
    BY <2>0
  <2> QED
    BY ZenonT(60), <1>1, <1>3, <2>1
<1>5. EntryShape' /\ GroupsWereAnswered'
  BY ZenonT(60), <1>1, <1>4 DEF GroupsInv, EntryShape, GroupsWereAnswered
<1>6. "at" \in DOMAIN r /\ r.at \notin {"user", "sync"}
  BY LoginRecords
<1> HIDE DEF r
<1>7. \A k \in Logins : login'[k] = IF k = l THEN r ELSE login[k]
  BY <1>1 DEF GroupsInv
<1>8. DOMAIN login' = Logins /\ \A k \in Logins : "at" \in DOMAIN login'[k]
  BY <1>1, <1>6, <1>7 DEF GroupsInv
<1>9. \A k \in Logins : login'[k].at \in {"user", "sync"} => Given(login'[k].target) \subseteq answered'
  BY ZenonT(60), <1>1, <1>6, <1>7 DEF GroupsInv
<1> QED
  BY ZenonT(60), <1>5, <1>8, <1>9 DEF GroupsInv

\* Every step of authentication keeps the invariant.
LEMMA LoginsKept ==
    ASSUME GroupsInv, [AuthNext]_<<accessVars, authVars>>
    PROVE  GroupsInv'
<1>0. EntryShape
  BY DEF GroupsInv
<1>1. ASSUME NEW l \in Logins, NEW h \in Headers, LoginBegin(l, h) PROVE GroupsInv'
  <2>1. /\ UNCHANGED <<entry, answered, userGroups>>
        /\ login' = [login EXCEPT ![l] = [at |-> "jwt", public |-> h.public]]
    BY ZenonT(60), <1>1 DEF LoginBegin
  <2>2. EntryShape' /\ entry'.groups = entry.groups
    BY <1>0, <2>1 DEF EntryShape
  <2> QED
    BY ZenonT(60), <2>1, <2>2, LoginRecords, QuietLogin
<1>2. ASSUME NEW l \in Logins, LoginAccess(l) PROVE GroupsInv'
  <2>1. UNCHANGED <<entry, answered, userGroups>> /\ login' = [login EXCEPT ![l] = NoLogin]
    BY ZenonT(60), <1>2 DEF LoginAccess
  <2>2. EntryShape' /\ entry'.groups = entry.groups
    BY <1>0, <2>1 DEF EntryShape
  <2> QED
    BY ZenonT(60), <2>1, <2>2, EndStep
<1>3. ASSUME NEW part \in DOMAIN NoEntry, EntryExpires(part) PROVE GroupsInv'
  <2>1. UNCHANGED <<answered, userGroups, login>> /\ entry' = [entry EXCEPT ![part] = NoEntry[part]]
    BY ZenonT(60), <1>3 DEF EntryExpires
  <2>2. part \in {"jwt", "plan", "groups"} /\ NoEntry["groups"] = None
    BY DEF NoEntry
  <2>3. EntryShape' /\ (entry'.groups = entry.groups \/ entry'.groups = None)
    BY ZenonT(60), <1>0, <2>1, <2>2 DEF EntryShape
  <2> QED
    BY ZenonT(60), <2>1, <2>3, NoLoginStep
<1>4. ASSUME UNCHANGED <<entry, answered, userGroups, login>> PROVE GroupsInv'
  <2>1. EntryShape' /\ entry'.groups = entry.groups
    BY <1>0, <1>4 DEF EntryShape
  <2> QED
    BY ZenonT(60), <1>4, <2>1, NoLoginStep
<1>5. CASE AccessGroupsChange \/ SetActive \/ UNCHANGED <<accessVars, authVars>>
  <2>1. UNCHANGED <<entry, answered, userGroups, login>>
    BY ZenonT(60), <1>5 DEF AccessGroupsChange, SetActive, authVars
  <2> QED
    BY <1>4, <2>1
<1> QED
  BY ZenonT(60), <1>1, <1>2, <1>3, <1>5, CallSteps, GroupsStep, ReadStep, SyncStep DEF AuthNext

\* The groups of a user in the database come from answers of Access Groups, for any
\* number of requests that are authenticated at the same time and write differences to
\* what they have read (_sync_user_groups).
THEOREM LoginsKeepGroups ==
    ASSUME NEW CONSTANT held
    PROVE  AuthInit(held) /\ [][AuthNext]_<<accessVars, authVars>> => []GroupsWereAnswered
<1>1. AuthInit(held) => GroupsInv
  <2> SUFFICES ASSUME AuthInit(held) PROVE GroupsInv
    OBVIOUS
  <2>1. entry = NoEntry /\ answered = Given(userGroups) /\ login = [l \in Logins |-> NoLogin]
    BY ZenonT(60) DEF AuthInit
  <2>2. EntryShape /\ entry.groups = None
    BY <2>1 DEF EntryShape, NoEntry
  <2>3. GroupsWereAnswered
    BY ZenonT(60), <2>1, <2>2 DEF GroupsWereAnswered, Given
  <2>4. \A l \in Logins : login[l] = NoLogin
    BY <2>1
  <2> QED
    BY ZenonT(60), <2>1, <2>2, <2>3, <2>4, LoginRecords DEF GroupsInv
<1>2. GroupsInv /\ [AuthNext]_<<accessVars, authVars>> => GroupsInv'
  BY LoginsKept
<1>3. GroupsInv => GroupsWereAnswered
  BY DEF GroupsInv
<1> QED
  BY <1>1, <1>2, <1>3, PTL

-----------------------------------------------------------------------------
(* The requests that write a job. *)

\* A request that sets a sub_status.
SubStatusRequests == [kind : {"sub_status"}, job : Created, value : SubStatuses, read : SubStatuses \cup {None},
                      at : {"update", "event"}]

\* A request that records an error.
ErrorRequests == [kind : {"error"}, job : Created, at : {"insert"}]

\* A request that stops a job.
StopRequests == [kind : {"stop"}, job : Created, service : BOOLEAN, queried : SUBSET RuntimeJobs, todo : SUBSET RuntimeJobs,
                 sessions : SUBSET {SessionOf[x] : x \in RuntimeJobs}, reported : SUBSET RuntimeJobs,
                 at : {"move", "query", "cancel"}]

\* What the tables and the requests in flight hold.
TablesInv ==
    /\ \A f \in FunctionIds : functions[f] # None => functions[f].runner \in {"ray", "fleets"}
    /\ jobs \in [JobIds -> JobRows \cup {None}]
    /\ stored \in [JobIds -> SUBSET {"result", "log", "private"}]
    /\ events \in [JobIds -> SUBSET (SubStatuses \cup {"ERROR"})]
    /\ runtimeOf \in [RuntimeJobs -> Created \cup {None}]

\* What the slots of the requests hold.
RequestsInv == DOMAIN req = Reqs /\ \A r \in Reqs : req[r] \in {Idle} \cup SubStatusRequests \cup ErrorRequests \cup StopRequests

\* The request r is about to record the value v for the job j.
Announcing(r, j, v) == req[r].kind = "sub_status" /\ req[r].at = "event" /\ req[r].job = j /\ req[r].value = v

\* The value v of job j is recorded, is about to be, or its request died before it could be.
Announced(j, v) == v \in events[j] \/ <<j, v>> \in silent \/ \E r \in Reqs : Announcing(r, j, v)

\* The value of the row has been announced, and so has the value that a request in flight has read.
AnnouncedInv ==
    /\ \A j \in Created : jobs[j].sub_status # None => Announced(j, jobs[j].sub_status)
    /\ \A r \in Reqs : req[r].kind = "sub_status" /\ req[r].read # None => Announced(req[r].job, req[r].read)

\* A job the scheduler has ended stays ended, without a sub_status.
EndedInv == \A j \in ended : j \in Created /\ jobs[j].status \in TERMINAL_STATUSES /\ jobs[j].sub_status = None

\* What a stop has found is still to do, cancelled or reported, and a session it has cancelled is cancelled.
StopInv ==
    \A r \in Reqs : req[r].kind = "stop" =>
        /\ req[r].queried \subseteq req[r].todo \cup cancelled \cup req[r].reported
        /\ \A y \in RuntimeJobs : SessionOf[y] \in req[r].sessions => y \in cancelled

\* The invariant from which the promises of the writing endpoints follow.
WritesInv == TablesInv /\ RequestsInv /\ AnnouncedInv /\ EndedInv /\ StopInv

\* The promises follow.
LEMMA WritesInvIsEnough == WritesInv => JobWritesAreTrue
<1> SUFFICES ASSUME WritesInv PROVE JobWritesAreTrue
  OBVIOUS
<1>1. JobTypeOK
  <2>1. \A j \in Created : /\ jobs[j].author \in Users /\ jobs[j].program \in FunctionIds \cup {None}
                           /\ jobs[j].status \in Statuses /\ jobs[j].sub_status \in SubStatuses \cup {None}
    BY DEF WritesInv, TablesInv, Created, JobRows
  <2>2. \A j \in JobIds : stored[j] \subseteq {"result", "log", "private"} /\ events[j] \subseteq SubStatuses \cup {"ERROR"}
    BY DEF WritesInv, TablesInv
  <2>3. \A x \in RuntimeJobs : runtimeOf[x] \in Created \cup {None}
    BY DEF WritesInv, TablesInv
  <2>4. \A r \in Reqs : req[r].kind \in {"idle", "sub_status", "error", "stop"}
    BY DEF WritesInv, RequestsInv, Idle, SubStatusRequests, ErrorRequests, StopRequests
  <2> QED BY <2>1, <2>2, <2>3, <2>4 DEF JobTypeOK
<1>2. EndedLeavesNoSubStatus
  BY DEF WritesInv, EndedInv, EndedLeavesNoSubStatus
<1>3. SubStatusIsAnnounced
  BY DEF WritesInv, AnnouncedInv, Announced, Announcing, SubStatusIsAnnounced
<1>4. StopAnswersForEveryRuntimeJob
  BY DEF WritesInv, StopInv, StopAnswersForEveryRuntimeJob
<1> QED BY <1>1, <1>2, <1>3, <1>4 DEF JobWritesAreTrue, SubStatusIsKept

\* The same in the next state.
AnnouncingNext(r, j, v) == req'[r].kind = "sub_status" /\ req'[r].at = "event" /\ req'[r].job = j /\ req'[r].value = v

\* The value is announced in the next state.
AnnouncedNext(j, v) == v \in events'[j] \/ <<j, v>> \in silent' \/ \E r \in Reqs : AnnouncingNext(r, j, v)

\* Whatever a slot may hold.
AllRequests == {Idle} \cup SubStatusRequests \cup ErrorRequests \cup StopRequests

\* Nobody announces a status in a request that is not under way.
LEMMA IdleKind == Idle.kind # "sub_status"
  BY DEF Idle

\* The kind of a request says what it holds.
LEMMA RequestKinds ==
    ASSUME NEW q \in AllRequests
    PROVE  /\ q.kind \in {"idle", "sub_status", "error", "stop"}
           /\ q.kind = "sub_status" => q \in SubStatusRequests /\ q.job \in Created /\ q.job \in JobIds /\ q.value \in SubStatuses
           /\ q.kind = "error" => q.job \in JobIds
           /\ q.kind = "stop" => q \in StopRequests /\ q.job \in Created
<1>1. Created \subseteq JobIds
  BY DEF Created
<1>2. q = Idle => q.kind = "idle"
  BY DEF Idle
<1>3. q \in SubStatusRequests => q.kind = "sub_status" /\ q.job \in Created /\ q.value \in SubStatuses
  BY DEF SubStatusRequests
<1>4. q \in ErrorRequests => q.kind = "error" /\ q.job \in Created
  BY DEF ErrorRequests
<1>5. q \in StopRequests => q.kind = "stop" /\ q.job \in Created
  BY DEF StopRequests
<1> QED
  BY <1>1, <1>2, <1>3, <1>4, <1>5 DEF AllRequests

\* A request stays a request while no job disappears.
LEMMA RequestsStay ==
    ASSUME Created \subseteq Created', NEW q \in AllRequests PROVE q \in AllRequests'
<1>1. CASE q = Idle
  BY <1>1 DEF AllRequests, Idle
<1>2. CASE q \in SubStatusRequests
  <2>1. q \in SubStatusRequests'
    BY <1>2 DEF SubStatusRequests
  <2> QED BY <2>1 DEF AllRequests
<1>3. CASE q \in ErrorRequests
  <2>1. q \in ErrorRequests'
    BY <1>3 DEF ErrorRequests
  <2> QED BY <2>1 DEF AllRequests
<1>4. CASE q \in StopRequests
  <2>1. q \in StopRequests'
    BY <1>4 DEF StopRequests
  <2> QED BY <2>1 DEF AllRequests
<1> QED BY <1>1, <1>2, <1>3, <1>4 DEF AllRequests

\* A step of the request in slot r, which becomes the request new: the tables are as they should be, no
\* job disappears, what r was about to record is recorded or given up, and the others are left alone.
LEMMA RequestStep ==
    ASSUME WritesInv, NEW r \in Reqs, NEW new \in AllRequests, req' = [req EXCEPT ![r] = new],
           TablesInv', EndedInv', Created' = Created,
           \A j \in JobIds : events[j] \subseteq events'[j],
           silent \subseteq silent', cancelled \subseteq cancelled',
           \A j, v : Announcing(r, j, v) => v \in events'[j] \/ <<j, v>> \in silent' \/ AnnouncingNext(r, j, v),
           \A j \in Created : jobs'[j].sub_status # None =>
               jobs'[j].sub_status = jobs[j].sub_status \/ Announced(j, jobs'[j].sub_status) \/ AnnouncedNext(j, jobs'[j].sub_status),
           new.kind = "sub_status" /\ new.read # None => Announced(new.job, new.read),
           new.kind = "stop" => /\ new.queried \subseteq new.todo \cup cancelled' \cup new.reported
                                /\ \A y \in RuntimeJobs : SessionOf[y] \in new.sessions => y \in cancelled'
    PROVE  WritesInv'
<1>1. /\ DOMAIN req' = Reqs /\ req'[r] = new /\ \A q \in Reqs : q # r => req'[q] = req[q]
      /\ \A q \in Reqs : req[q] \in AllRequests
  BY DEF WritesInv, RequestsInv, AllRequests
<1>2. RequestsInv'
  <2>1. \A q \in Reqs : req'[q] \in AllRequests'
    BY <1>1, RequestsStay
  <2> QED BY <1>1, <2>1 DEF RequestsInv, AllRequests
<1>3. \A q \in Reqs : req[q].kind = "sub_status" => req[q].job \in JobIds
  BY <1>1, RequestKinds
<1>4. ASSUME NEW j \in JobIds, NEW v, Announced(j, v) PROVE AnnouncedNext(j, v)
  <2>1. CASE v \in events[j] \/ <<j, v>> \in silent
    BY <2>1 DEF AnnouncedNext
  <2>2. CASE \E q \in Reqs : Announcing(q, j, v)
    <3>1. PICK q \in Reqs : Announcing(q, j, v)
      BY <2>2
    <3>2. CASE q # r
      <4>1. AnnouncingNext(q, j, v)
        BY <1>1, <3>1, <3>2 DEF Announcing, AnnouncingNext
      <4> QED BY <4>1 DEF AnnouncedNext
    <3>3. CASE q = r
      BY <3>1, <3>3 DEF AnnouncedNext
    <3> QED BY <3>2, <3>3
  <2> QED BY <1>4, <2>1, <2>2 DEF Announced
<1>5. AnnouncedInv'
  <2>1. \A j \in Created : jobs'[j].sub_status # None => AnnouncedNext(j, jobs'[j].sub_status)
    <3> SUFFICES ASSUME NEW j \in Created, jobs'[j].sub_status # None PROVE AnnouncedNext(j, jobs'[j].sub_status)
      OBVIOUS
    <3>1. j \in JobIds
      BY DEF Created
    <3>2. jobs'[j].sub_status = jobs[j].sub_status => Announced(j, jobs'[j].sub_status)
      BY DEF WritesInv, AnnouncedInv
    <3> QED BY <1>4, <3>1, <3>2
  <2>2. ASSUME NEW q \in Reqs, req'[q].kind = "sub_status", req'[q].read # None
        PROVE  AnnouncedNext(req'[q].job, req'[q].read)
    <3>1. Announced(req'[q].job, req'[q].read)
      BY <1>1, <2>2 DEF WritesInv, AnnouncedInv
    <3>2. req'[q].job \in JobIds
      BY <1>1, <1>3, <2>2, RequestKinds
    <3> QED BY <1>4, <3>1, <3>2
  <2> QED BY <2>1, <2>2 DEF AnnouncedInv, Announced, Announcing, AnnouncedNext, AnnouncingNext
<1>6. StopInv'
  BY <1>1 DEF WritesInv, StopInv
<1> QED BY <1>2, <1>5, <1>6 DEF WritesInv

\* A step of the scheduler, the back office or a new job: no request moves, and no row gets a sub_status.
LEMMA RowsStep ==
    ASSUME WritesInv, UNCHANGED <<req, events, silent, cancelled>>, TablesInv', EndedInv', Created \subseteq Created',
           \A j \in Created' : jobs'[j].sub_status # None => j \in Created /\ jobs'[j].sub_status = jobs[j].sub_status
    PROVE  WritesInv'
<1>1. RequestsInv'
  <2>1. DOMAIN req = Reqs /\ \A q \in Reqs : req[q] \in AllRequests'
    BY RequestsStay DEF WritesInv, RequestsInv, AllRequests
  <2> QED BY <2>1 DEF RequestsInv, AllRequests
<1>2. \A j, v : Announced(j, v)' <=> Announced(j, v)
  BY DEF Announced, Announcing
<1>3. AnnouncedInv'
  BY <1>2 DEF WritesInv, AnnouncedInv
<1>4. StopInv'
  BY DEF WritesInv, StopInv
<1> QED BY <1>1, <1>3, <1>4 DEF WritesInv

\* Tables that a step leaves alone, but for the events it may record.
LEMMA SameTables ==
    ASSUME WritesInv, UNCHANGED <<functions, jobs, stored, runtimeOf, ended>>,
           events' \in [JobIds -> SUBSET (SubStatuses \cup {"ERROR"})]
    PROVE  TablesInv' /\ EndedInv' /\ Created' = Created /\ \A j \in Created : jobs'[j].sub_status = jobs[j].sub_status
<1>1. Created' = Created
  BY DEF Created
<1>2. TablesInv'
  BY <1>1 DEF WritesInv, TablesInv
<1>3. EndedInv'
  BY <1>1 DEF WritesInv, EndedInv
<1> QED BY <1>1, <1>2, <1>3

\* A stop or a sub_status that is read, and an error that is about to be recorded: a request begins.
LEMMA BeginSteps ==
    ASSUME WritesInv, UNCHANGED functions, NEW r \in Reqs, NEW u \in Users, NEW j \in Created,
           \/ \E s \in SubStatuses : SubStatusRead(r, u, j, s)
           \/ EventRead(r, u, j)
           \/ \E service \in BOOLEAN : StopRead(r, u, j, service)
    PROVE  WritesInv'
<1>1. UNCHANGED rowVars /\ UNCHANGED <<ended, silent>> /\ req[r] = Idle
  BY DEF SubStatusRead, EventRead, StopRead, BeginRequest
<1>2. TablesInv' /\ EndedInv' /\ Created' = Created /\ \A i \in Created : jobs'[i].sub_status = jobs[i].sub_status
  BY <1>1, SameTables DEF rowVars, WritesInv, TablesInv
<1>3. \A i, v : ~Announcing(r, i, v)
  <2>1. req[r].kind # "sub_status"
    BY ZenonT(60), <1>1, IdleKind
  <2> QED BY ZenonT(60), <2>1 DEF Announcing
<1>4. events' = events /\ silent' = silent /\ cancelled' = cancelled
  BY <1>1 DEF rowVars
<1>5. ASSUME NEW s \in SubStatuses, SubStatusRead(r, u, j, s) PROVE WritesInv'
  <2> DEFINE new == [kind |-> "sub_status", job |-> j, value |-> s, read |-> jobs[j].sub_status, at |-> "update"]
  <2>1. req' = [req EXCEPT ![r] = new]
    BY <1>5 DEF SubStatusRead, BeginRequest
  <2>2. jobs[j].sub_status \in SubStatuses \cup {None}
    BY DEF WritesInv, TablesInv, Created, JobRows
  <2>3. new \in AllRequests
    BY <2>2 DEF AllRequests, SubStatusRequests
  <2>4. new.kind = "sub_status" /\ new.read # None => Announced(new.job, new.read)
    BY DEF WritesInv, AnnouncedInv
  <2>5. new.kind # "stop"
    OBVIOUS
  <2> HIDE DEF new
  <2> QED BY ZenonT(60), <1>2, <1>3, <1>4, <2>1, <2>3, <2>4, <2>5, RequestStep
<1>6. ASSUME EventRead(r, u, j) PROVE WritesInv'
  <2> DEFINE new == [kind |-> "error", job |-> j, at |-> "insert"]
  <2>1. req' = [req EXCEPT ![r] = new]
    BY <1>6 DEF EventRead, BeginRequest
  <2>3. new \in AllRequests
    BY DEF AllRequests, ErrorRequests
  <2>5. new.kind # "stop" /\ new.kind # "sub_status"
    OBVIOUS
  <2> HIDE DEF new
  <2> QED BY ZenonT(60), <1>2, <1>3, <1>4, <2>1, <2>3, <2>5, RequestStep
<1>7. ASSUME NEW service \in BOOLEAN, StopRead(r, u, j, service) PROVE WritesInv'
  <2> DEFINE new == [kind |-> "stop", job |-> j, service |-> service, queried |-> {}, todo |-> {}, sessions |-> {},
                     reported |-> {}, at |-> IF jobs[j].status = "STOPPING" THEN "query" ELSE "move"]
  <2>1. req' = [req EXCEPT ![r] = new]
    BY <1>7 DEF StopRead, BeginRequest
  <2>3. new \in AllRequests
    <3>1. new \in StopRequests
      BY DEF StopRequests
    <3> QED BY <3>1 DEF AllRequests
  <2>4. new.kind = "stop" => /\ new.queried \subseteq new.todo \cup cancelled' \cup new.reported
                             /\ \A y \in RuntimeJobs : SessionOf[y] \in new.sessions => y \in cancelled'
    OBVIOUS
  <2>5. new.kind # "sub_status"
    OBVIOUS
  <2> HIDE DEF new
  <2> QED BY ZenonT(60), <1>2, <1>3, <1>4, <2>1, <2>3, <2>4, <2>5, RequestStep
<1> QED BY <1>5, <1>6, <1>7

\* A request ends without a trace in the tables: the events it owes are recorded or given up.
LEMMA DoneStep ==
    ASSUME WritesInv, NEW r \in Reqs, Done(r), UNCHANGED <<functions, jobs, stored, runtimeOf, ended>>,
           events' \in [JobIds -> SUBSET (SubStatuses \cup {"ERROR"})],
           \A j \in JobIds : events[j] \subseteq events'[j],
           silent \subseteq silent', cancelled \subseteq cancelled',
           \A j, v : Announcing(r, j, v) => v \in events'[j] \/ <<j, v>> \in silent'
    PROVE  WritesInv'
<1>1. TablesInv' /\ EndedInv' /\ Created' = Created /\ \A i \in Created : jobs'[i].sub_status = jobs[i].sub_status
  BY SameTables
<1>2. req' = [req EXCEPT ![r] = Idle] /\ Idle \in AllRequests
  BY DEF Done, AllRequests
<1>3. Idle.kind # "sub_status" /\ Idle.kind # "stop"
  BY DEF Idle
<1> QED BY ZenonT(60), <1>1, <1>2, <1>3, RequestStep

\* The second and third queries of the sub_status and of the error, the last of a stop, and a request that dies.
LEMMA EndSteps ==
    ASSUME WritesInv, UNCHANGED functions, NEW r \in Reqs,
           SubStatusEvent(r) \/ EventInsert(r) \/ StopAnswer(r) \/ RequestDies(r)
    PROVE  WritesInv'
<1>0. req[r] \in AllRequests /\ events \in [JobIds -> SUBSET (SubStatuses \cup {"ERROR"})]
  BY DEF WritesInv, TablesInv, RequestsInv, AllRequests
<1>1. CASE SubStatusEvent(r)
  <2>1. /\ req[r].kind = "sub_status" /\ Done(r) /\ UNCHANGED <<jobs, stored, runtimeOf, cancelled, ended, silent>>
        /\ events' = [events EXCEPT ![req[r].job] = @ \cup {req[r].value}]
    BY <1>1 DEF SubStatusEvent
  <2>2. req[r].value \in SubStatuses /\ req[r].job \in JobIds
    BY <1>0, <2>1, RequestKinds
  <2>3. events' \in [JobIds -> SUBSET (SubStatuses \cup {"ERROR"})]
    BY <1>0, <2>1, <2>2
  <2>4. \A j \in JobIds : events[j] \subseteq events'[j]
    BY <1>0, <2>1, <2>2
  <2>5. \A j, v : Announcing(r, j, v) => v \in events'[j]
    BY <1>0, <2>1, <2>2 DEF Announcing
  <2> QED BY <2>1, <2>3, <2>4, <2>5, DoneStep
<1>2. CASE EventInsert(r)
  <2>1. /\ req[r].kind = "error" /\ Done(r) /\ UNCHANGED <<jobs, stored, runtimeOf, cancelled, ended, silent>>
        /\ events' = [events EXCEPT ![req[r].job] = @ \cup {"ERROR"}]
    BY <1>2 DEF EventInsert
  <2>2. req[r].job \in JobIds
    BY <1>0, <2>1, RequestKinds
  <2>3. events' \in [JobIds -> SUBSET (SubStatuses \cup {"ERROR"})]
    BY <1>0, <2>1, <2>2
  <2>4. \A j \in JobIds : events[j] \subseteq events'[j]
    BY <1>0, <2>1, <2>2
  <2>5. \A j, v : ~Announcing(r, j, v)
    BY <2>1 DEF Announcing
  <2> QED BY <2>1, <2>3, <2>4, <2>5, DoneStep
<1>3. CASE StopAnswer(r)
  <2>1. req[r].kind = "stop" /\ Done(r) /\ UNCHANGED <<jobs, stored, events, runtimeOf, cancelled, ended, silent>>
    BY <1>3 DEF StopAnswer, rowVars
  <2>2. \A j, v : ~Announcing(r, j, v)
    BY <2>1 DEF Announcing
  <2> QED BY <1>0, <2>1, <2>2, DoneStep
<1>4. CASE RequestDies(r)
  <2>1. /\ Done(r) /\ UNCHANGED <<jobs, stored, events, runtimeOf, cancelled, ended>>
        /\ silent' = IF req[r].kind = "sub_status" /\ req[r].at = "event"
                     THEN silent \cup {<<req[r].job, req[r].value>>} ELSE silent
    BY <1>4 DEF RequestDies, rowVars
  <2>2. silent \subseteq silent'
    BY <2>1
  <2>3. \A j, v : Announcing(r, j, v) => <<j, v>> \in silent'
    BY <2>1 DEF Announcing
  <2> QED BY <1>0, <2>1, <2>2, <2>3, DoneStep
<1> QED BY <1>1, <1>2, <1>3, <1>4

\* The conditional UPDATE of the sub_status.
LEMMA UpdateStep ==
    ASSUME WritesInv, UNCHANGED functions, NEW r \in Reqs, SubStatusUpdate(r) PROVE WritesInv'
<1> DEFINE q == req[r]
<1>1. /\ q.kind = "sub_status" /\ q.at = "update"
      /\ UNCHANGED <<stored, events, runtimeOf, cancelled, ended, silent>>
  BY DEF SubStatusUpdate
<1>2. q \in SubStatusRequests /\ q.job \in Created /\ q.job \in JobIds /\ q.value \in SubStatuses
  BY <1>1, RequestKinds DEF WritesInv, RequestsInv, AllRequests
<1>3. \A j, v : ~Announcing(r, j, v)
  BY <1>1 DEF Announcing
<1>4. events \in [JobIds -> SUBSET (SubStatuses \cup {"ERROR"})]
  BY DEF WritesInv, TablesInv
<1>5. CASE jobs[q.job].status \notin ACTIVE_STATUSES
  <2>1. Done(r) /\ jobs' = jobs
    BY <1>5 DEF SubStatusUpdate
  <2> QED BY <1>1, <1>3, <1>4, <2>1, DoneStep
<1>6. CASE jobs[q.job].status \in ACTIVE_STATUSES
  <2>1. jobs' = [jobs EXCEPT ![q.job].sub_status = q.value] /\ IF q.read = q.value THEN Done(r) ELSE Step(r, "event")
    BY <1>6 DEF SubStatusUpdate
  <2> DEFINE old == jobs[q.job]
  <2>2. jobs \in [JobIds -> JobRows \cup {None}] /\ old \in JobRows
    BY <1>2 DEF WritesInv, TablesInv, Created
  <2>3. [old EXCEPT !.sub_status = q.value] \in JobRows
    BY <1>2, <2>2 DEF JobRows
  <2>4. [old EXCEPT !.sub_status = q.value].status = old.status /\ [old EXCEPT !.sub_status = q.value].sub_status = q.value
    BY <2>2 DEF JobRows
  <2> DEFINE row == [old EXCEPT !.sub_status = q.value]
  <2>5. jobs' = [jobs EXCEPT ![q.job] = row]
    BY <2>1
  <2> HIDE DEF row
  <2>6. row \in JobRows /\ row # None /\ row.status = old.status /\ row.sub_status = q.value
    BY <2>3, <2>4, JobAssumption DEF row
  <2>7. jobs' \in [JobIds -> JobRows \cup {None}] /\ jobs'[q.job] = row /\ \A j \in JobIds : j # q.job => jobs'[j] = jobs[j]
    BY <1>2, <2>2, <2>5, <2>6
  <2>8. Created' = Created
    BY <1>2, <2>6, <2>7 DEF Created
  <2>9. TablesInv'
    BY <1>1, <2>7, <2>8 DEF WritesInv, TablesInv
  <2>10. EndedInv'
    <3>1. q.job \notin ended
      BY <1>6 DEF WritesInv, EndedInv, ACTIVE_STATUSES, TERMINAL_STATUSES
    <3>2. \A j \in ended : j \in JobIds /\ jobs'[j] = jobs[j]
      BY <2>7, <3>1 DEF WritesInv, EndedInv, Created
    <3> QED BY <1>1, <2>8, <3>2 DEF WritesInv, EndedInv
  <2>11. \A j \in Created : j # q.job => jobs'[j].sub_status = jobs[j].sub_status
    BY <2>7 DEF Created
  <2>12. CASE q.read = q.value
    <3>1. req' = [req EXCEPT ![r] = Idle] /\ Idle \in AllRequests
      BY <2>1, <2>12 DEF Done, AllRequests
    <3>2. Idle.kind # "sub_status" /\ Idle.kind # "stop"
      BY DEF Idle
    <3>3. Announced(q.job, q.value)
      <4>1. q.read # None
        BY <1>2, <2>12, JobAssumption
      <4> QED BY <1>1, <2>12, <4>1 DEF WritesInv, AnnouncedInv
    <3>4. \A j \in Created : jobs'[j].sub_status # None =>
             jobs'[j].sub_status = jobs[j].sub_status \/ Announced(j, jobs'[j].sub_status) \/ AnnouncedNext(j, jobs'[j].sub_status)
      BY <2>6, <2>7, <2>11, <3>3
    <3> HIDE DEF q
    <3> QED BY ZenonT(60), <1>1, <1>3, <2>8, <2>9, <2>10, <3>1, <3>2, <3>4, RequestStep
  <2>13. CASE q.read # q.value
    <3> DEFINE new == [q EXCEPT !.at = "event"]
    <3>1. req' = [req EXCEPT ![r] = new]
      BY <2>1, <2>13 DEF Step
    <3>2. new \in SubStatusRequests /\ new.kind = "sub_status" /\ new.at = "event" /\ new.job = q.job /\ new.value = q.value /\ new.read = q.read
      BY <1>2 DEF SubStatusRequests
    <3> HIDE DEF new
    <3>3. req'[r] = new
      BY <3>1 DEF WritesInv, RequestsInv
    <3>4. AnnouncedNext(q.job, q.value)
      BY <3>2, <3>3 DEF AnnouncedNext, AnnouncingNext
    <3>5. \A j \in Created : jobs'[j].sub_status # None =>
             jobs'[j].sub_status = jobs[j].sub_status \/ Announced(j, jobs'[j].sub_status) \/ AnnouncedNext(j, jobs'[j].sub_status)
      BY <2>6, <2>7, <2>11, <3>4
    <3>6. new.read # None => Announced(new.job, new.read)
      BY <1>1, <3>2 DEF WritesInv, AnnouncedInv
    <3>7. new \in AllRequests /\ new.kind # "stop"
      BY <3>2 DEF AllRequests
    <3> HIDE DEF q
    <3> QED BY ZenonT(60), <1>1, <1>3, <2>8, <2>9, <2>10, <3>1, <3>5, <3>6, <3>7, RequestStep
  <2> QED BY <2>12, <2>13
<1> QED BY <1>5, <1>6

\* A row that a step gives another status, and no sub_status.
LEMMA RowMoves ==
    ASSUME WritesInv, NEW j \in Created, NEW row \in JobRows, jobs' = [jobs EXCEPT ![j] = row],
           row.sub_status # None => row.sub_status = jobs[j].sub_status,
           ended \subseteq ended', ended' \subseteq ended \cup {j},
           j \in ended' => row.status \in TERMINAL_STATUSES /\ row.sub_status = None,
           UNCHANGED <<functions, stored, events, runtimeOf>>
    PROVE  /\ TablesInv' /\ EndedInv' /\ Created' = Created
           /\ \A i \in Created : jobs'[i].sub_status # None => jobs'[i].sub_status = jobs[i].sub_status
<1>1. j \in JobIds /\ jobs \in [JobIds -> JobRows \cup {None}] /\ row # None
  BY JobAssumption DEF WritesInv, TablesInv, Created
<1>2. jobs' \in [JobIds -> JobRows \cup {None}] /\ jobs'[j] = row /\ \A i \in JobIds : i # j => jobs'[i] = jobs[i]
  BY <1>1
<1>3. Created' = Created
  BY <1>1, <1>2 DEF Created
<1>4. TablesInv'
  BY <1>2, <1>3 DEF WritesInv, TablesInv
<1>5. EndedInv'
  BY <1>2, <1>3 DEF WritesInv, EndedInv, Created
<1> QED BY <1>2, <1>3, <1>4, <1>5 DEF Created

\* The move of a stop.
LEMMA MoveStep ==
    ASSUME WritesInv, UNCHANGED functions, NEW r \in Reqs, StopMove(r) PROVE WritesInv'
<1> DEFINE q == req[r]
<1>1. /\ q.kind = "stop" /\ q.at = "move"
      /\ UNCHANGED <<stored, events, runtimeOf, cancelled, ended, silent>>
  BY DEF StopMove
<1>2. q \in StopRequests /\ q.job \in Created
  BY <1>1, RequestKinds DEF WritesInv, RequestsInv, AllRequests
<1>3. \A j, v : ~Announcing(r, j, v)
  BY <1>1 DEF Announcing
<1>4. events \in [JobIds -> SUBSET (SubStatuses \cup {"ERROR"})]
  BY DEF WritesInv, TablesInv
<1> DEFINE new == [q EXCEPT !.at = "query"]
<1>5. new \in AllRequests /\ new.kind = "stop" /\ new.queried = q.queried /\ new.todo = q.todo /\ new.reported = q.reported /\ new.sessions = q.sessions
  <2>1. new \in StopRequests /\ new.kind = "stop" /\ new.queried = q.queried /\ new.todo = q.todo /\ new.reported = q.reported /\ new.sessions = q.sessions
    BY <1>2 DEF StopRequests
  <2> QED BY <2>1 DEF AllRequests
<1>6. /\ new.queried \subseteq new.todo \cup cancelled' \cup new.reported
      /\ \A y \in RuntimeJobs : SessionOf[y] \in new.sessions => y \in cancelled'
  BY <1>1, <1>5 DEF WritesInv, StopInv
<1>7. \/ /\ jobs[q.job].status \in {"QUEUED", "PENDING", "RUNNING"}
         /\ \E s \in {"STOPPED", "STOPPING"} : jobs' = [jobs EXCEPT ![q.job].status = s]
         /\ Step(r, "query")
      \/ Step(r, "query") /\ jobs' = jobs
      \/ Done(r) /\ jobs' = jobs
  BY ZenonT(60) DEF StopMove
<1>8. Step(r, "query") => req' = [req EXCEPT ![r] = new]
  BY DEF Step
<1> HIDE DEF new
<1>9. CASE Done(r) /\ jobs' = jobs
  BY <1>1, <1>3, <1>4, <1>9, DoneStep
<1>10. CASE Step(r, "query") /\ jobs' = jobs
  <2>1. TablesInv' /\ EndedInv' /\ Created' = Created /\ \A i \in Created : jobs'[i].sub_status = jobs[i].sub_status
    BY <1>1, <1>4, <1>10, SameTables
  <2> HIDE DEF q
  <2> QED BY <1>1, <1>3, <1>5, <1>6, <1>8, <1>10, <2>1, RequestStep
<1>11. ASSUME jobs[q.job].status \in {"QUEUED", "PENDING", "RUNNING"}, Step(r, "query"),
              NEW s \in {"STOPPED", "STOPPING"}, jobs' = [jobs EXCEPT ![q.job].status = s]
       PROVE  WritesInv'
  <2> DEFINE old == jobs[q.job]
  <2> DEFINE row == [old EXCEPT !.status = s]
  <2>1. old \in JobRows
    BY <1>2 DEF WritesInv, TablesInv, Created
  <2>2. row \in JobRows /\ row.sub_status = old.sub_status
    BY <2>1 DEF JobRows, Statuses
  <2>3. jobs' = [jobs EXCEPT ![q.job] = row]
    BY <1>11
  <2>4. q.job \notin ended
    BY <1>11 DEF WritesInv, EndedInv, TERMINAL_STATUSES
  <2> HIDE DEF row
  <2>5. /\ TablesInv' /\ EndedInv' /\ Created' = Created
        /\ \A i \in Created : jobs'[i].sub_status # None => jobs'[i].sub_status = jobs[i].sub_status
    <3> HIDE DEF q
    <3> QED BY ZenonT(60), <1>1, <1>2, <2>2, <2>3, <2>4, RowMoves
  <2> HIDE DEF q
  <2> QED BY <1>1, <1>3, <1>5, <1>6, <1>8, <1>11, <2>5, RequestStep
<1> QED BY <1>7, <1>9, <1>10, <1>11

\* The query for the runtime jobs of a stop, and the cancelling of one of them.
LEMMA CancelSteps ==
    ASSUME WritesInv, UNCHANGED functions, NEW r \in Reqs, StopQuery(r) \/ \E x \in RuntimeJobs : StopCancel(r, x)
    PROVE  WritesInv'
<1> DEFINE q == req[r]
<1>1. q.kind = "stop" /\ UNCHANGED <<jobs, stored, events, runtimeOf, ended, silent>>
  BY ZenonT(60) DEF StopQuery, StopCancel, rowVars
<1>2. q \in StopRequests
  BY <1>1, RequestKinds DEF WritesInv, RequestsInv, AllRequests
<1>3. \A j, v : ~Announcing(r, j, v)
  BY <1>1 DEF Announcing
<1>4. events \in [JobIds -> SUBSET (SubStatuses \cup {"ERROR"})]
  BY DEF WritesInv, TablesInv
<1>5. TablesInv' /\ EndedInv' /\ Created' = Created /\ \A i \in Created : jobs'[i].sub_status = jobs[i].sub_status
  BY <1>1, <1>4, SameTables
<1>6. /\ q.queried \subseteq q.todo \cup cancelled \cup q.reported
      /\ \A y \in RuntimeJobs : SessionOf[y] \in q.sessions => y \in cancelled
  BY <1>1 DEF WritesInv, StopInv
<1>7. ASSUME NEW new \in StopRequests, req' = [req EXCEPT ![r] = new], cancelled \subseteq cancelled',
             new.queried \subseteq new.todo \cup cancelled' \cup new.reported,
             \A y \in RuntimeJobs : SessionOf[y] \in new.sessions => y \in cancelled'
      PROVE  WritesInv'
  <2>1. new \in AllRequests /\ new.kind # "sub_status"
    BY DEF AllRequests, StopRequests
  <2> HIDE DEF q
  <2> QED BY ZenonT(60), <1>1, <1>3, <1>5, <1>7, <2>1, RequestStep
<1>8. ASSUME Done(r), cancelled' = cancelled PROVE WritesInv'
  BY <1>1, <1>3, <1>4, <1>8, DoneStep
<1>9. ASSUME StopQuery(r) PROVE WritesInv'
  <2> DEFINE rows == {x \in RuntimeJobs : runtimeOf[x] = q.job}
  <2> DEFINE new == [q EXCEPT !.queried = rows, !.todo = rows, !.at = "cancel"]
  <2>1. cancelled' = cancelled /\ (Done(r) \/ req' = [req EXCEPT ![r] = new])
    BY ZenonT(60), <1>9 DEF StopQuery, rowVars
  <2>2. new \in StopRequests /\ new.queried = rows /\ new.todo = rows /\ new.sessions = q.sessions
    BY ZenonT(60), <1>2 DEF StopRequests
  <2> HIDE DEF new
  <2> QED BY <1>6, <1>7, <1>8, <2>1, <2>2
<1>10. ASSUME NEW x \in RuntimeJobs, StopCancel(r, x) PROVE WritesInv'
  <2> DEFINE Left == [q EXCEPT !.todo = @ \ {x}]
             s == SessionOf[x]
             Later == [Left EXCEPT !.sessions = @ \cup {s}]
             Told == [Left EXCEPT !.reported = @ \cup {x}]
  <2>1. \/ s \in q.sessions /\ req' = [req EXCEPT ![r] = Left] /\ cancelled' = cancelled
        \/ req' = [req EXCEPT ![r] = Later] /\ cancelled' = cancelled \cup {y \in RuntimeJobs : SessionOf[y] = s}
        \/ req' = [req EXCEPT ![r] = Left] /\ cancelled' = cancelled \cup {x}
        \/ req' = [req EXCEPT ![r] = Told] /\ cancelled' = cancelled
        \/ Done(r) /\ cancelled' = cancelled
    BY ZenonT(60), <1>10 DEF StopCancel
  <2>2. /\ Left \in StopRequests /\ Left.queried = q.queried /\ Left.todo = q.todo \ {x} /\ Left.sessions = q.sessions
        /\ Left.reported = q.reported
    BY <1>2 DEF StopRequests
  <2>3. /\ Later \in StopRequests /\ Later.queried = q.queried /\ Later.todo = q.todo \ {x}
        /\ Later.sessions = q.sessions \cup {s} /\ Later.reported = q.reported
    <3> HIDE DEF Left
    <3> QED BY <2>2 DEF StopRequests
  <2>4. /\ Told \in StopRequests /\ Told.queried = q.queried /\ Told.todo = q.todo \ {x} /\ Told.sessions = q.sessions
        /\ Told.reported = q.reported \cup {x}
    <3> HIDE DEF Left
    <3> QED BY <2>2 DEF StopRequests
  <2> HIDE DEF Left, Later, Told
  <2>5. CASE s \in q.sessions /\ req' = [req EXCEPT ![r] = Left] /\ cancelled' = cancelled
    BY ZenonT(60), <1>6, <1>7, <2>2, <2>5
  <2>6. CASE req' = [req EXCEPT ![r] = Later] /\ cancelled' = cancelled \cup {y \in RuntimeJobs : SessionOf[y] = s}
    BY ZenonT(60), <1>6, <1>7, <2>3, <2>6
  <2>7. CASE req' = [req EXCEPT ![r] = Left] /\ cancelled' = cancelled \cup {x}
    BY ZenonT(60), <1>6, <1>7, <2>2, <2>7
  <2>8. CASE req' = [req EXCEPT ![r] = Told] /\ cancelled' = cancelled
    BY ZenonT(60), <1>6, <1>7, <2>4, <2>8
  <2>9. CASE Done(r) /\ cancelled' = cancelled
    BY <1>8, <2>9
  <2> QED BY <2>1, <2>5, <2>6, <2>7, <2>8, <2>9
<1> QED BY <1>9, <1>10

\* What goes on around the requests: new jobs, the scheduler, and the back office.
LEMMA AroundSteps ==
    ASSUME WritesInv,
           \/ UNCHANGED functions /\ \E j \in JobIds : NewJob(j) \/ \E s \in Statuses : SchedulerMoves(j, s)
           \/ \E f \in FunctionIds : DeleteFunction(f)
    PROVE  WritesInv'
<1>0. jobs \in [JobIds -> JobRows \cup {None}]
  BY DEF WritesInv, TablesInv
<1>1. ASSUME NEW j \in JobIds, NewJob(j), UNCHANGED functions PROVE WritesInv'
  <2> DEFINE row == [author |-> JobKind[j].author, program |-> JobKind[j].program, status |-> "QUEUED",
                     sub_status |-> None, runner |-> functions[JobKind[j].program].runner]
  <2>1. /\ jobs[j] = None /\ functions[JobKind[j].program] # None /\ jobs' = [jobs EXCEPT ![j] = row]
        /\ UNCHANGED <<stored, events, runtimeOf, cancelled, req, ended, silent>>
    BY <1>1 DEF NewJob
  <2>2. row \in JobRows /\ row.sub_status = None
    BY <2>1, JobAssumption DEF WritesInv, TablesInv, JobRows, Statuses
  <2> HIDE DEF row
  <2>3. jobs' \in [JobIds -> JobRows \cup {None}] /\ jobs'[j] = row /\ \A i \in JobIds : i # j => jobs'[i] = jobs[i]
    BY <1>0, <2>1, <2>2
  <2>4. Created \subseteq Created' /\ j \notin Created /\ \A i \in Created' : i = j \/ i \in Created
    BY <2>1, <2>3 DEF Created
  <2>5. TablesInv'
    <3>1. runtimeOf \in [RuntimeJobs -> Created' \cup {None}]
      BY <2>4 DEF WritesInv, TablesInv
    <3> QED BY <1>1, <2>1, <2>3, <3>1 DEF WritesInv, TablesInv
  <2>6. EndedInv'
    BY <2>1, <2>3, <2>4 DEF WritesInv, EndedInv, Created
  <2>7. \A i \in Created' : jobs'[i].sub_status # None => i \in Created /\ jobs'[i].sub_status = jobs[i].sub_status
    BY <2>2, <2>3, <2>4 DEF Created
  <2> QED BY <2>1, <2>4, <2>5, <2>6, <2>7, RowsStep
<1>2. ASSUME NEW j \in JobIds, NEW s \in Statuses, SchedulerMoves(j, s), UNCHANGED functions PROVE WritesInv'
  <2> DEFINE old == jobs[j]
             row == [old EXCEPT !.status = s, !.sub_status = IF s \in TERMINAL_STATUSES THEN None ELSE @]
  <2>1. /\ jobs[j] # None /\ s \in VALID_TRANSITIONS[old.status] /\ jobs' = [jobs EXCEPT ![j] = row]
        /\ ended' = IF s \in TERMINAL_STATUSES THEN ended \cup {j} ELSE ended
        /\ UNCHANGED <<stored, events, runtimeOf, cancelled, req, silent>>
    BY ZenonT(60), <1>2 DEF SchedulerMoves
  <2>2. j \in Created /\ old \in JobRows
    BY <1>0, <2>1 DEF Created
  <2>3. /\ row \in JobRows /\ row.status = s
        /\ row.sub_status = IF s \in TERMINAL_STATUSES THEN None ELSE old.sub_status
    BY ZenonT(60), <2>2 DEF JobRows
  <2>4. j \notin ended
    BY <2>1, <2>2 DEF WritesInv, EndedInv, VALID_TRANSITIONS, TERMINAL_STATUSES, Statuses
  <2> HIDE DEF row
  <2>5. /\ TablesInv' /\ EndedInv' /\ Created' = Created
        /\ \A i \in Created : jobs'[i].sub_status # None => jobs'[i].sub_status = jobs[i].sub_status
    BY ZenonT(60), <1>2, <2>1, <2>2, <2>3, <2>4, RowMoves
  <2> QED BY <2>1, <2>5, RowsStep
<1>3. ASSUME NEW f \in FunctionIds, DeleteFunction(f) PROVE WritesInv'
  <2>1. /\ functions' = [functions EXCEPT ![f] = None]
        /\ jobs' = [j \in JobIds |-> IF jobs[j] # None /\ jobs[j].program = f THEN [jobs[j] EXCEPT !.program = None] ELSE jobs[j]]
        /\ UNCHANGED <<stored, events, runtimeOf, cancelled, req, ended, silent>>
    BY <1>3 DEF DeleteFunction
  <2>2. ASSUME NEW row \in JobRows
        PROVE  LET new == [row EXCEPT !.program = None]
               IN  new \in JobRows /\ new # None /\ new.sub_status = row.sub_status /\ new.status = row.status
    BY JobAssumption DEF JobRows
  <2>3. \A j \in JobIds : \/ jobs[j] = None /\ jobs'[j] = None
                          \/ /\ jobs[j] # None /\ jobs'[j] \in JobRows /\ jobs'[j] # None
                             /\ jobs'[j].sub_status = jobs[j].sub_status /\ jobs'[j].status = jobs[j].status
    <3> SUFFICES ASSUME NEW j \in JobIds, jobs[j] # None
                 PROVE  /\ jobs'[j] \in JobRows /\ jobs'[j] # None
                        /\ jobs'[j].sub_status = jobs[j].sub_status /\ jobs'[j].status = jobs[j].status
      BY <2>1
    <3>1. jobs[j] \in JobRows
      BY <1>0
    <3> QED BY <2>1, <2>2, <3>1
  <2>4. jobs' \in [JobIds -> JobRows \cup {None}]
    BY <2>1, <2>3
  <2>5. Created' = Created
    BY <2>3 DEF Created
  <2>6. TablesInv'
    <3>1. \A g \in FunctionIds : functions'[g] # None => functions'[g].runner \in {"ray", "fleets"}
      BY <2>1 DEF WritesInv, TablesInv
    <3> QED BY <2>1, <2>4, <2>5, <3>1 DEF WritesInv, TablesInv
  <2>7. EndedInv'
    BY <2>1, <2>3, <2>5 DEF WritesInv, EndedInv, Created
  <2> QED BY <2>1, <2>3, <2>5, <2>6, <2>7, RowsStep DEF Created
<1> QED BY <1>1, <1>2, <1>3

\* Steps that leave the rows and the requests alone.
LEMMA QuietSteps ==
    ASSUME WritesInv, UNCHANGED functions,
           \/ Storage
           \/ \E u \in Users, j \in Created, x \in RuntimeJobs : AssociateRuntimeJob(u, j, x)
           \/ \E u \in Users : WalkPage(u)
           \/ UNCHANGED jobVars
    PROVE  WritesInv'
<1>1. UNCHANGED <<jobs, events, cancelled, req, ended, silent>>
  <2>1. CASE Storage
    BY <2>1 DEF Storage, SaveResult, ContainerWrites
  <2>2. CASE \E u \in Users, j \in Created, x \in RuntimeJobs : AssociateRuntimeJob(u, j, x)
    BY <2>2 DEF AssociateRuntimeJob
  <2>3. CASE \E u \in Users : WalkPage(u)
    BY <2>3 DEF WalkPage, rowVars
  <2>4. CASE UNCHANGED jobVars
    BY <2>4 DEF jobVars, rowVars
  <2> QED BY <2>1, <2>2, <2>3, <2>4
<1>2. Created' = Created
  BY <1>1 DEF Created
<1>3. stored \in [JobIds -> SUBSET {"result", "log", "private"}] /\ runtimeOf \in [RuntimeJobs -> Created \cup {None}]
  BY DEF WritesInv, TablesInv
<1>4. stored' \in [JobIds -> SUBSET {"result", "log", "private"}]
  <2>1. CASE Storage
    <3>1. \E j \in JobIds, x \in {"result", "log", "private"} : stored' = [stored EXCEPT ![j] = @ \cup {x}]
      BY <2>1 DEF Storage, SaveResult, ContainerWrites, Created
    <3> QED BY <1>3, <3>1
  <2>2. CASE stored' = stored
    BY <1>3, <2>2
  <2> QED BY <2>1, <2>2 DEF AssociateRuntimeJob, WalkPage, jobVars, rowVars
<1>5. runtimeOf' \in [RuntimeJobs -> Created \cup {None}]
  <2>1. CASE \E u \in Users, j \in Created, x \in RuntimeJobs : AssociateRuntimeJob(u, j, x)
    BY <1>3, <2>1 DEF AssociateRuntimeJob
  <2>2. CASE runtimeOf' = runtimeOf
    BY <1>3, <2>2
  <2> QED BY <2>1, <2>2 DEF Storage, SaveResult, ContainerWrites, WalkPage, jobVars, rowVars
<1>6. TablesInv' /\ EndedInv'
  BY <1>1, <1>2, <1>4, <1>5 DEF WritesInv, TablesInv, EndedInv
<1> QED BY <1>1, <1>2, <1>6, RowsStep

\* Whatever overlaps, the endpoints that write a job keep what they promise: the sub_status is announced and
\* gone with the end, and a stop that answers has accounted for every runtime job it found.
THEOREM JobRequestsWriteTruly ==
    ASSUME NEW table, \A f \in FunctionIds : table[f] # None => table[f].runner \in {"ray", "fleets"}
    PROVE  JobSpec(table) => []JobWritesAreTrue
<1>1. functions = table /\ JobInit => WritesInv
  <2> SUFFICES ASSUME functions = table, JobInit PROVE WritesInv
    OBVIOUS
  <2>1. Created = {} /\ \A r \in Reqs : req[r] = Idle
    BY DEF JobInit, Created
  <2>2. TablesInv
    BY DEF JobInit, TablesInv
  <2>3. RequestsInv
    BY <2>1 DEF JobInit, RequestsInv
  <2>4. AnnouncedInv /\ EndedInv /\ StopInv
    BY <2>1 DEF JobInit, AnnouncedInv, EndedInv, StopInv, Idle
  <2> QED BY <2>2, <2>3, <2>4 DEF WritesInv
<1>2. WritesInv /\ [JobNext]_<<functions, jobVars>> => WritesInv'
  <2> SUFFICES ASSUME WritesInv, [JobNext]_<<functions, jobVars>> PROVE WritesInv'
    OBVIOUS
  <2>1. CASE UNCHANGED <<functions, jobVars>>
    BY <2>1, QuietSteps
  <2>2. CASE SubStatusSteps /\ UNCHANGED functions
    BY <2>2, BeginSteps, UpdateStep, EndSteps DEF SubStatusSteps
  <2>3. CASE StopSteps(JobIds) /\ UNCHANGED functions
    BY <2>3, BeginSteps, MoveStep, CancelSteps, EndSteps, QuietSteps DEF StopSteps, Stopping
  <2>4. CASE Surroundings(JobIds, Statuses) /\ UNCHANGED functions
    BY <2>4, AroundSteps DEF Surroundings
  <2>5. CASE (Storage \/ \E u \in Users : WalkPage(u)) /\ UNCHANGED functions
    BY <2>5, QuietSteps
  <2>6. CASE \E f \in FunctionIds : DeleteFunction(f)
    BY <2>6, AroundSteps
  <2> QED BY <2>1, <2>2, <2>3, <2>4, <2>5, <2>6 DEF JobNext
<1>3. WritesInv => JobWritesAreTrue
  BY WritesInvIsEnough
<1> QED BY <1>1, <1>2, <1>3, PTL DEF JobSpec

-----------------------------------------------------------------------------
(* run_isolated: the caller, the child and the kernel. *)

\* Where the caller is, against what has become of the child and of the pipe.
CallerInv ==
    /\ call \in {"idle", "fork", "select", "read", "kill", "wait", "reap", "collect"}
    /\ call = "idle" => fds = {} /\ child \in {"none", "reaped"}
    /\ call = "fork" => child = "none" /\ received = 0
    /\ call \in {"select", "read", "kill"} => child \in {"works", "encodes", "writes", "zombie"}
    /\ call \in {"wait", "reap"} => child = "zombie"
    /\ call = "collect" => child = "reaped"

\* What the child has written, against where it is and how it died.
ChildInv ==
    /\ size \in Nat /\ written \in Nat /\ received \in Nat
    /\ received =< written /\ written =< size
    /\ payload \in {"none", "result", "memory", "raised", "unencodable"}
    /\ child \in {"none", "works", "encodes"} => size = 0 /\ written = 0
    /\ child \in {"none", "works", "encodes", "writes"} => death = "none"
    /\ child = "writes" => written < size
    /\ death = "exit" => written = size

\* The deadline only passes before the first byte is read, and a caller that waits for the child without
\* a deadline has read all there is.
ReadInv ==
    /\ timedOut \in BOOLEAN
    /\ call \in {"fork", "select", "read"} => ~timedOut
    /\ call = "kill" => timedOut
    /\ call \in {"select", "kill"} \/ timedOut => received = 0
    /\ call \in {"wait", "collect"} /\ ~timedOut => received = written

\* There is no verdict while a call is under way.
VerdictInv == call # "idle" => verdict = "none"

\* The invariant from which the promises of a call follow.
IsolationInv == CallerInv /\ ChildInv /\ ReadInv /\ VerdictInv /\ VerdictIsTrue /\ AnswersAreNotLost

\* A step of the child or of the kernel: the caller is left where it is, and only a child that lives moves.
LEMMA ChildStep ==
    ASSUME IsolationInv, ChildWorks \/ ChildEncodes \/ ChildWrites \/ SpendsItsBudget \/ OomKills
    PROVE  IsolationInv'
<1> USE DEF callerVars, alive, Chunks, Fails
<1>1. call # "idle"
  BY DEF IsolationInv, CallerInv, ChildWorks, ChildEncodes, ChildWrites, SpendsItsBudget, OomKills
<1>2. CallerInv'
  BY DEF IsolationInv, CallerInv, ChildWorks, ChildEncodes, ChildWrites, SpendsItsBudget, OomKills
<1>3. ChildInv'
  <2>1. CASE ChildWorks
    BY <2>1 DEF IsolationInv, CallerInv, ChildInv, ReadInv, ChildWorks
  <2>2. CASE ChildEncodes
    <3>1. size = 0 /\ written = 0 /\ received = 0 /\ payload \in {"none", "result", "memory", "raised", "unencodable"}
      BY <2>2 DEF IsolationInv, ChildInv, ChildEncodes
    <3>2. death = "none"
      BY <2>2 DEF IsolationInv, ChildInv, ChildEncodes
    <3>3. /\ UNCHANGED <<written, received>> /\ payload' \in {payload, "memory", "unencodable"}
          /\ \/ child' = "writes" /\ death' = death /\ size' \in Chunks \cup {1}
             \/ child' = "zombie" /\ death' = "exit" /\ size' = size
      BY ZenonT(60), <2>2 DEF ChildEncodes
    <3> QED BY <3>1, <3>2, <3>3 DEF ChildInv
  <2>3. CASE ChildWrites
    <3>1. /\ size \in Nat /\ written \in Nat /\ received = written /\ written < size /\ death = "none"
          /\ payload \in {"none", "result", "memory", "raised", "unencodable"} /\ child = "writes"
      BY <2>3 DEF IsolationInv, ChildInv, ChildWrites
    <3>2. /\ UNCHANGED <<size, received, payload>> /\ written' = written + 1
          /\ \/ written' = size /\ child' = "zombie" /\ death' = "exit"
             \/ written' # size /\ UNCHANGED <<child, death>>
      BY ZenonT(60), <2>3 DEF ChildWrites
    <3> QED BY <3>1, <3>2 DEF ChildInv
  <2>4. CASE SpendsItsBudget
    BY <2>4 DEF IsolationInv, CallerInv, ChildInv, ReadInv, SpendsItsBudget
  <2>5. CASE OomKills
    BY <2>5 DEF IsolationInv, CallerInv, ChildInv, ReadInv, OomKills
  <2> QED BY <2>1, <2>2, <2>3, <2>4, <2>5
<1>4. ReadInv'
  <2>1. /\ UNCHANGED <<call, received, timedOut>> /\ (call \in {"wait", "collect"} => written' = written)
    BY DEF IsolationInv, CallerInv, ChildWorks, ChildEncodes, ChildWrites, SpendsItsBudget, OomKills
  <2> QED BY <2>1 DEF IsolationInv, ReadInv
<1>5. call' = call /\ verdict' = verdict
  BY DEF ChildWorks, ChildEncodes, ChildWrites, SpendsItsBudget, OomKills
<1>6. VerdictInv' /\ VerdictIsTrue' /\ AnswersAreNotLost'
  BY <1>1, <1>5 DEF IsolationInv, VerdictInv, VerdictIsTrue, AnswersAreNotLost
<1> QED BY <1>2, <1>3, <1>4, <1>6 DEF IsolationInv

\* A step of the caller up to the verdict.
LEMMA CallerStep ==
    ASSUME IsolationInv, Pipe \/ Fork \/ Ready \/ DeadlinePasses \/ KillAtDeadline \/ Read \/ Wait4 \/ ReadFails \/ _kill_and_reap
    PROVE  IsolationInv'
<1> USE DEF childVars, alive, kill, Fails
<1>1. CallerInv'
  BY DEF IsolationInv, CallerInv, ChildInv, ReadInv, Pipe, Fork, Ready, DeadlinePasses, KillAtDeadline, Read, Wait4, ReadFails, _kill_and_reap
<1>2. ChildInv'
  <2>1. CASE Pipe \/ Fork
    <3>1. CASE Pipe
      BY <3>1 DEF ChildInv, Pipe
    <3>2. CASE Fork
      <4>1. child = "none" /\ ChildInv
        BY ZenonT(60), <3>2 DEF IsolationInv, CallerInv, Fork
      <4>2. UNCHANGED <<death, payload, size, written, received>> /\ child' \in {"works", child}
        BY ZenonT(60), <3>2 DEF Fork
      <4> QED BY <4>1, <4>2 DEF ChildInv
    <3> QED BY ZenonT(60), <2>1, <3>1, <3>2
  <2>2. CASE Ready \/ DeadlinePasses \/ Read
    <3>1. /\ UNCHANGED childVars
          /\ \/ received' = received
             \/ written > received /\ received' = received + 1
      BY <2>2 DEF Ready, DeadlinePasses, Read
    <3> QED BY <3>1 DEF IsolationInv, ChildInv
  <2>3. CASE KillAtDeadline \/ ReadFails
    BY <2>3 DEF IsolationInv, ChildInv, KillAtDeadline, ReadFails
  <2>4. CASE Wait4 \/ _kill_and_reap
    BY <2>4 DEF IsolationInv, ChildInv, Wait4, _kill_and_reap
  <2> QED BY <2>1, <2>2, <2>3, <2>4
<1>3. ReadInv'
  <2>1. timedOut' \in BOOLEAN
    BY ZenonT(60) DEF IsolationInv, ReadInv, Pipe, Fork, Ready, DeadlinePasses, KillAtDeadline, Read, Wait4, ReadFails, _kill_and_reap
  <2>4. call' \in {"fork", "select", "read"} => ~timedOut'
    BY DEF IsolationInv, ReadInv, Pipe, Fork, Ready, DeadlinePasses, KillAtDeadline, Read, Wait4, ReadFails, _kill_and_reap
  <2>5. call' = "kill" => timedOut'
    BY DEF IsolationInv, ReadInv, Pipe, Fork, Ready, DeadlinePasses, KillAtDeadline, Read, Wait4, ReadFails, _kill_and_reap
  <2>2. call' \in {"select", "kill"} \/ timedOut' => received' = 0
    BY DEF IsolationInv, CallerInv, ChildInv, ReadInv, Pipe, Fork, Ready, DeadlinePasses, KillAtDeadline, Read, Wait4, ReadFails, _kill_and_reap
  <2>3. call' \in {"wait", "collect"} /\ ~timedOut' => received' = written'
    BY DEF IsolationInv, CallerInv, ChildInv, ReadInv, Pipe, Fork, Ready, DeadlinePasses, KillAtDeadline, Read, Wait4, ReadFails, _kill_and_reap
  <2> QED BY <2>1, <2>2, <2>3, <2>4, <2>5 DEF ReadInv
<1>4. VerdictInv' /\ VerdictIsTrue'
  BY DEF IsolationInv, CallerInv, VerdictInv, VerdictIsTrue, Pipe, Fork, Ready, DeadlinePasses, KillAtDeadline, Read, Wait4, ReadFails, _kill_and_reap
<1>5. AnswersAreNotLost'
  BY DEF IsolationInv, CallerInv, ChildInv, AnswersAreNotLost, Pipe, Fork, Ready, DeadlinePasses, KillAtDeadline, Read, Wait4, ReadFails, _kill_and_reap
<1> QED BY <1>1, <1>2, <1>3, <1>4, <1>5 DEF IsolationInv

\* The verdict, from what was read and from how the child died.
LEMMA CollectStep ==
    ASSUME IsolationInv, _collect PROVE IsolationInv'
<1>1. /\ call = "collect" /\ call' = "idle" /\ fds' = {} /\ verdict' = answer_of_child
      /\ UNCHANGED <<childVars, received, timedOut>>
  BY DEF _collect
<1>2. CallerInv' /\ ChildInv' /\ ReadInv' /\ VerdictInv'
  BY <1>1 DEF IsolationInv, CallerInv, ChildInv, ReadInv, VerdictInv, childVars
<1>3. VerdictIsTrue'
  BY <1>1 DEF IsolationInv, ChildInv, ReadInv, VerdictIsTrue, answer_of_child, childVars
<1>4. AnswersAreNotLost'
  BY <1>1 DEF IsolationInv, ChildInv, ReadInv, AnswersAreNotLost, answer_of_child, childVars
<1> QED BY <1>2, <1>3, <1>4 DEF IsolationInv

\* Every call of run_isolated, whatever the child, the kernel and the deadline do between its system
\* calls, leaves no descriptor and no child behind, tells the caller what happened, and loses no answer
\* that came whole and in time.
THEOREM IsolatedCallsAreTrue == IsolationSpec => []IsolationIsKept
<1>1. IsolationInit => IsolationInv
  <2> SUFFICES ASSUME IsolationInit PROVE IsolationInv
    OBVIOUS
  <2>1. CallerInv /\ ChildInv /\ VerdictInv
    BY DEF IsolationInit, CallerInv, ChildInv, VerdictInv
  <2>2. ReadInv
    BY ZenonT(60) DEF IsolationInit, ReadInv
  <2>3. VerdictIsTrue /\ AnswersAreNotLost
    BY DEF IsolationInit, VerdictIsTrue, AnswersAreNotLost
  <2> QED BY <2>1, <2>2, <2>3 DEF IsolationInv
<1>2. IsolationInv /\ [IsolationNext]_isolationVars => IsolationInv'
  <2> SUFFICES ASSUME IsolationInv, [IsolationNext]_isolationVars PROVE IsolationInv'
    OBVIOUS
  <2>1. CASE UNCHANGED isolationVars
    <3>1. UNCHANGED <<call, fds, child, death, payload, size, written, received, timedOut, verdict>>
      BY <2>1 DEF isolationVars, callerVars, childVars
    <3>2. CallerInv' /\ ChildInv'
      BY <3>1 DEF IsolationInv, CallerInv, ChildInv
    <3>3. ReadInv' /\ VerdictInv'
      BY <3>1 DEF IsolationInv, ReadInv, VerdictInv
    <3>4. VerdictIsTrue' /\ AnswersAreNotLost'
      BY <3>1 DEF IsolationInv, VerdictIsTrue, AnswersAreNotLost
    <3> QED BY <3>2, <3>3, <3>4 DEF IsolationInv
  <2>2. CASE IsolationNext
    BY <2>2, ChildStep, CallerStep, CollectStep DEF IsolationNext, CallerSteps
  <2> QED BY <2>1, <2>2
<1>3. IsolationInv => IsolationIsKept
  BY DEF IsolationInv, IsolationIsKept, CallerInv, NothingIsLeft
<1> QED BY <1>1, <1>2, <1>3, PTL DEF IsolationSpec

-----------------------------------------------------------------------------
(* The waits of the client. *)

\* The data of the job as the gateway may send it, and what the client makes of it.
JobDatas == {JobData("QUEUED", Unset), JobData("RUNNING", Unset), JobData("RUNNING", "POST_PROCESSING"),
             JobData("SUCCEEDED", Unset), JobData("STOPPED", Unset)}

\* The name the client gives to each.
Shown == [d \in JobDatas |-> _fetch_status(d)]

\* The job is over.
Over == {JobData("SUCCEEDED", Unset), JobData("STOPPED", Unset)}

\* The job moves from a status that is not its last to one that it may have.
LEMMA MovesKeepOver == \A m \in Moves : m[1] \notin Over /\ m[2] \in JobDatas
  BY DEF Moves, Over, JobDatas, JobData

\* The locals of a wait.
WaitShape ==
    wait = [at |-> wait.at, left |-> wait.left, failing |-> wait.failing, step |-> wait.step, last |-> wait.last,
            sleep |-> wait.sleep, flight |-> wait.flight, using |-> wait.using, signed |-> wait.signed, reply |-> wait.reply]

\* What an answer on its way says is still true when it is the end of the job, or a refusal.
ReplyInv ==
    /\ wait.at = "back" /\ wait.reply.code = "none" =>
          wait.reply.data \in JobDatas /\ (wait.reply.data \in Over => jobStatus = wait.reply.data)
    /\ wait.at = "back" /\ wait.using # "token" /\ wait.reply.code = "401" => ~user_active

\* The failures have lasted no longer than the silence of the gateway.
TimeInv ==
    /\ unheard \in 0..RetryTime
    /\ wait.left \in Nat \cup {Unset}
    /\ wait.failing # Unset => wait.failing \in 0..unheard

\* How a wait ended, against the job, the time and the user.
EndInv ==
    /\ finalStatus # Unset => jobStatus \in Over /\ finalStatus = Shown[jobStatus]
    /\ wait.at # "idle" => outcome.kind = "none"
    /\ outcome.kind = "returned" => finalStatus # Unset /\ outcome.what = finalStatus
    /\ outcome.kind = "raised" /\ is_transient_error(outcome.what) =>
          IF outcome.left = Unset THEN unheard = RetryTime ELSE outcome.left = 0
    /\ outcome.kind = "timeout" => outcome.left = 0
    /\ outcome.kind = "raised" /\ outcome.what = "401" => ~user_active

\* The inductive invariant.
ClientInv == jobStatus \in JobDatas /\ WaitShape /\ ReplyInv /\ TimeInv /\ EndInv

\* A retry is for outages only.
LEMMA RetriesHold == RetriesAreForOutages
  BY DEF RetriesAreForOutages, Replies, is_transient_error, TRANSIENT_ERROR_CODES, safe_json_request, ok

\* The statuses of the job as the client shows them.
LEMMA ShownStatuses ==
    \A d \in JobDatas : /\ Shown[d] = _fetch_status(d) /\ Shown[d] # Unset
                        /\ Shown[d] \in _FINAL_STATUSES <=> d \in Over
<1>1. DOMAIN STATUS_MAP = {"PENDING", "RUNNING", "STOPPING", "STOPPED", "SUCCEEDED", "FAILED", "QUEUED", "MAPPING",
                           "OPTIMIZING_HARDWARE", "WAITING_QPU", "EXECUTING_QPU", "POST_PROCESSING"}
  BY DEF STATUS_MAP
<1>2. /\ STATUS_MAP["QUEUED"] = "QUEUED" /\ STATUS_MAP["RUNNING"] = "RUNNING" /\ STATUS_MAP["STOPPED"] = "CANCELED"
      /\ STATUS_MAP["SUCCEEDED"] = "DONE" /\ STATUS_MAP["POST_PROCESSING"] = "RUNNING: POST_PROCESSING"
  BY DEF STATUS_MAP
<1>3. "POST_PROCESSING" # Unset /\ \A m \in DOMAIN STATUS_MAP : STATUS_MAP[m] # Unset
  BY ZenonT(60), ClientAssumption DEF SubStatusNames
<1>4. _fetch_status(JobData("QUEUED", Unset)) = "QUEUED"
  BY ZenonT(60), <1>1, <1>2 DEF _fetch_status, JobData, _map_status_from_serveless
<1>5. _fetch_status(JobData("RUNNING", Unset)) = "RUNNING"
  BY ZenonT(60), <1>1, <1>2 DEF _fetch_status, JobData, _map_status_from_serveless
<1>6. _fetch_status(JobData("RUNNING", "POST_PROCESSING")) = "RUNNING: POST_PROCESSING"
  BY ZenonT(60), <1>1, <1>2, <1>3 DEF _fetch_status, JobData, _map_status_from_serveless
<1>7. _fetch_status(JobData("SUCCEEDED", Unset)) = "DONE"
  BY ZenonT(60), <1>1, <1>2 DEF _fetch_status, JobData, _map_status_from_serveless
<1>8. _fetch_status(JobData("STOPPED", Unset)) = "CANCELED"
  BY ZenonT(60), <1>1, <1>2 DEF _fetch_status, JobData, _map_status_from_serveless
<1>9. /\ JobData("QUEUED", Unset) \notin Over /\ JobData("RUNNING", Unset) \notin Over
      /\ JobData("RUNNING", "POST_PROCESSING") \notin Over
      /\ JobData("SUCCEEDED", Unset) \in Over /\ JobData("STOPPED", Unset) \in Over
  BY DEF Over, JobData
<1> SUFFICES ASSUME NEW d \in JobDatas
             PROVE  /\ Shown[d] = _fetch_status(d) /\ Shown[d] # Unset
                    /\ Shown[d] \in _FINAL_STATUSES <=> d \in Over
  OBVIOUS
<1>10. Shown[d] = _fetch_status(d)
  BY DEF Shown
<1>11. CASE d = JobData("QUEUED", Unset)
  BY ZenonT(60), <1>1, <1>2, <1>3, <1>4, <1>9, <1>10, <1>11 DEF _FINAL_STATUSES
<1>12. CASE d = JobData("RUNNING", Unset)
  BY ZenonT(60), <1>1, <1>2, <1>3, <1>5, <1>9, <1>10, <1>12 DEF _FINAL_STATUSES
<1>13. CASE d = JobData("RUNNING", "POST_PROCESSING")
  BY ZenonT(60), <1>1, <1>2, <1>3, <1>6, <1>9, <1>10, <1>13 DEF _FINAL_STATUSES
<1>14. CASE d = JobData("SUCCEEDED", Unset)
  BY ZenonT(60), <1>1, <1>2, <1>3, <1>7, <1>9, <1>10, <1>14 DEF _FINAL_STATUSES
<1>15. CASE d = JobData("STOPPED", Unset)
  BY ZenonT(60), <1>1, <1>2, <1>3, <1>8, <1>9, <1>10, <1>15 DEF _FINAL_STATUSES
<1> QED
  BY <1>11, <1>12, <1>13, <1>14, <1>15 DEF JobDatas

\* No two statuses of the gateway have the same name in the client.
LEMMA StatusesHold == StatusesMapBack
<1> DEFINE D == {"PENDING", "RUNNING", "STOPPING", "STOPPED", "SUCCEEDED", "FAILED", "QUEUED", "MAPPING",
                 "OPTIMIZING_HARDWARE", "WAITING_QPU", "EXECUTING_QPU", "POST_PROCESSING"}
<1>1. DOMAIN STATUS_MAP = D
  BY DEF STATUS_MAP
<1>2. \A s, t \in D : STATUS_MAP[s] = STATUS_MAP[t] => s = t
  <2>1. /\ STATUS_MAP["PENDING"] = "INITIALIZING" /\ STATUS_MAP["RUNNING"] = "RUNNING"
        /\ STATUS_MAP["STOPPING"] = "CANCELING" /\ STATUS_MAP["STOPPED"] = "CANCELED"
        /\ STATUS_MAP["SUCCEEDED"] = "DONE" /\ STATUS_MAP["FAILED"] = "ERROR" /\ STATUS_MAP["QUEUED"] = "QUEUED"
        /\ STATUS_MAP["MAPPING"] = "RUNNING: MAPPING"
        /\ STATUS_MAP["OPTIMIZING_HARDWARE"] = "RUNNING: OPTIMIZING_FOR_HARDWARE"
        /\ STATUS_MAP["WAITING_QPU"] = "RUNNING: WAITING_FOR_QPU"
        /\ STATUS_MAP["EXECUTING_QPU"] = "RUNNING: EXECUTING_QPU"
        /\ STATUS_MAP["POST_PROCESSING"] = "RUNNING: POST_PROCESSING"
    BY DEF STATUS_MAP
  <2>2. \A t \in D : STATUS_MAP["PENDING"] = STATUS_MAP[t] => t = "PENDING"
    BY ZenonT(60), <2>1
  <2>3. \A t \in D : STATUS_MAP["RUNNING"] = STATUS_MAP[t] => t = "RUNNING"
    BY ZenonT(60), <2>1
  <2>4. \A t \in D : STATUS_MAP["STOPPING"] = STATUS_MAP[t] => t = "STOPPING"
    BY ZenonT(60), <2>1
  <2>5. \A t \in D : STATUS_MAP["STOPPED"] = STATUS_MAP[t] => t = "STOPPED"
    BY ZenonT(60), <2>1
  <2>6. \A t \in D : STATUS_MAP["SUCCEEDED"] = STATUS_MAP[t] => t = "SUCCEEDED"
    BY ZenonT(60), <2>1
  <2>7. \A t \in D : STATUS_MAP["FAILED"] = STATUS_MAP[t] => t = "FAILED"
    BY ZenonT(60), <2>1
  <2>8. \A t \in D : STATUS_MAP["QUEUED"] = STATUS_MAP[t] => t = "QUEUED"
    BY ZenonT(60), <2>1
  <2>9. \A t \in D : STATUS_MAP["MAPPING"] = STATUS_MAP[t] => t = "MAPPING"
    BY ZenonT(60), <2>1
  <2>10. \A t \in D : STATUS_MAP["OPTIMIZING_HARDWARE"] = STATUS_MAP[t] => t = "OPTIMIZING_HARDWARE"
    BY ZenonT(60), <2>1
  <2>11. \A t \in D : STATUS_MAP["WAITING_QPU"] = STATUS_MAP[t] => t = "WAITING_QPU"
    BY ZenonT(60), <2>1
  <2>12. \A t \in D : STATUS_MAP["EXECUTING_QPU"] = STATUS_MAP[t] => t = "EXECUTING_QPU"
    BY ZenonT(60), <2>1
  <2>13. \A t \in D : STATUS_MAP["POST_PROCESSING"] = STATUS_MAP[t] => t = "POST_PROCESSING"
    BY ZenonT(60), <2>1
  <2>14. \A s \in D : \/ s \in {"PENDING", "RUNNING", "STOPPING", "STOPPED", "SUCCEEDED", "FAILED"}
                      \/ s \in {"QUEUED", "MAPPING", "OPTIMIZING_HARDWARE", "WAITING_QPU", "EXECUTING_QPU", "POST_PROCESSING"}
    OBVIOUS
  <2> HIDE DEF D
  <2>15. \A s \in {"PENDING", "RUNNING", "STOPPING", "STOPPED", "SUCCEEDED", "FAILED"}, t \in D : STATUS_MAP[s] = STATUS_MAP[t] => t = s
    BY ZenonT(60), <2>2, <2>3, <2>4, <2>5, <2>6, <2>7
  <2>16. \A s \in {"QUEUED", "MAPPING", "OPTIMIZING_HARDWARE", "WAITING_QPU", "EXECUTING_QPU", "POST_PROCESSING"}, t \in D :
            STATUS_MAP[s] = STATUS_MAP[t] => t = s
    BY ZenonT(60), <2>8, <2>9, <2>10, <2>11, <2>12, <2>13
  <2> QED
    BY ZenonT(60), <2>14, <2>15, <2>16
<1> SUFFICES ASSUME NEW s \in D
             PROVE  _map_status_to_serverless(STATUS_MAP[s]) = IF s \in SubStatusNames THEN <<"RUNNING", s>> ELSE <<s, Unset>>
  BY <1>1 DEF StatusesMapBack
<1>3. (CHOOSE t \in DOMAIN STATUS_MAP : STATUS_MAP[t] = STATUS_MAP[s]) = s
  <2> HIDE DEF D
  <2> QED
    BY <1>1, <1>2
<1>4. \E t \in DOMAIN STATUS_MAP : STATUS_MAP[t] = STATUS_MAP[s]
  BY <1>1
<1> QED
  BY ZenonT(60), <1>3, <1>4 DEF _map_status_to_serverless

\* The names of the statuses that end a wait.
FinalNames == {"CANCELED", "DONE", "ERROR"}

\* The loop with a status ends the wait, or goes to sleep with the failures forgotten.
LEMMA OnStatusDoes ==
    ASSUME NEW s, OnStatus(s)
    PROVE  /\ unheard' = 0
           /\ \/ /\ s \in FinalNames /\ finalStatus' = s /\ wait' = NoWait
                 /\ outcome' = [kind |-> "returned", what |-> s, left |-> wait.left]
              \/ /\ s \notin FinalNames /\ finalStatus' = finalStatus /\ wait' = NoWait
                 /\ wait.left # Unset /\ wait.left = 0
                 /\ outcome' = [kind |-> "timeout", what |-> s, left |-> wait.left]
              \/ /\ s \notin FinalNames /\ finalStatus' = finalStatus /\ outcome' = outcome
                 /\ \E n, z : wait' = [wait EXCEPT !.at = "sleep", !.failing = Unset, !.last = s, !.step = n, !.sleep = z]
<1> DEFINE step == IF wait.last # Unset /\ s # wait.last /\ _resets_backoff(wait.last, s) THEN 1 ELSE wait.step
<1>1. CASE s \in FinalNames
  BY ZenonT(60), <1>1 DEF OnStatus, FinalNames, _FINAL_STATUSES, Ended
<1>2. CASE s \notin FinalNames /\ wait.left # Unset /\ wait.left = 0
  BY ZenonT(60), <1>2 DEF OnStatus, FinalNames, _FINAL_STATUSES, Ended
<1>3. CASE s \notin FinalNames /\ ~(wait.left # Unset /\ wait.left = 0)
  <2>1. /\ unheard' = 0 /\ finalStatus' = finalStatus /\ outcome' = outcome
        /\ wait' = [wait EXCEPT !.at = "sleep", !.failing = Unset, !.last = s, !.step = NextStep(step),
                                !.sleep = _next_wait(step, wait.left)]
    BY ZenonT(60), <1>3 DEF OnStatus, FinalNames, _FINAL_STATUSES
  <2> QED
    BY ZenonT(60), <1>3, <2>1
<1> QED
  BY ZenonT(60), <1>1, <1>2, <1>3

\* The loop with an error ends the wait, or goes to sleep and remembers the first failure.
LEMMA OnErrorDoes ==
    ASSUME NEW code, OnError(code)
    PROVE  /\ finalStatus' = finalStatus /\ unheard' = unheard
           /\ \/ /\ wait' = NoWait /\ outcome' = [kind |-> "raised", what |-> code, left |-> wait.left]
                 /\ \/ ~is_transient_error(code)
                    \/ wait.left = Unset /\ wait.failing = Unset /\ RetryTime - 0 <= 0
                    \/ wait.left = Unset /\ wait.failing # Unset /\ RetryTime - wait.failing <= 0
                    \/ wait.left # Unset /\ wait.left <= 0
              \/ /\ outcome' = outcome
                 /\ \E n, z : wait' = [wait EXCEPT !.at = "sleep", !.failing = IF wait.failing = Unset THEN 0 ELSE wait.failing,
                                                   !.step = n, !.sleep = z]
<1> DEFINE failing == IF wait.failing = Unset THEN 0 ELSE wait.failing
           left == IF wait.left = Unset THEN RetryTime - failing ELSE wait.left
<1>1. finalStatus' = finalStatus /\ unheard' = unheard
  BY ZenonT(60) DEF OnError
<1>2. CASE ~is_transient_error(code) \/ left <= 0
  <2>1. wait' = NoWait /\ outcome' = [kind |-> "raised", what |-> code, left |-> wait.left]
    BY ZenonT(60), <1>2 DEF OnError, Ended
  <2> QED
    BY ZenonT(60), <1>1, <1>2, <2>1
<1>3. CASE ~(~is_transient_error(code) \/ left <= 0)
  <2>1. /\ outcome' = outcome
        /\ wait' = [wait EXCEPT !.at = "sleep", !.failing = failing, !.step = NextStep(wait.step),
                                !.sleep = _next_wait(wait.step, left)]
    BY ZenonT(60), <1>3 DEF OnError
  <2> QED
    BY ZenonT(60), <1>1, <2>1
<1> QED
  BY ZenonT(60), <1>2, <1>3

\* No wait is going on.
LEMMA NoWaitShape ==
    /\ NoWait.at = "idle" /\ NoWait.left = Unset /\ NoWait.failing = Unset
    /\ NoWait = [at |-> NoWait.at, left |-> NoWait.left, failing |-> NoWait.failing, step |-> NoWait.step, last |-> NoWait.last,
                 sleep |-> NoWait.sleep, flight |-> NoWait.flight, using |-> NoWait.using, signed |-> NoWait.signed,
                 reply |-> NoWait.reply]
  BY DEF NoWait

\* The loop with a status keeps the invariant: a final one is the one the job has.
LEMMA StatusStep ==
    ASSUME ClientInv, NEW s, OnStatus(s), jobStatus' = jobStatus, user_active' = user_active, wait.at # "idle",
           s \in FinalNames => jobStatus \in Over /\ s = Shown[jobStatus] /\ s # Unset
    PROVE  ClientInv'
<1>1. unheard' = 0
  BY ZenonT(60), OnStatusDoes
<1>2. outcome.kind = "none" /\ RetryTime \in Nat
  BY ClientAssumption DEF ClientInv, EndInv
<1>3. wait' = NoWait => WaitShape' /\ wait'.at = "idle" /\ ReplyInv' /\ TimeInv'
  <2> HAVE wait' = NoWait
  <2>1. WaitShape' /\ wait'.at = "idle" /\ wait'.left = Unset /\ wait'.failing = Unset
    BY NoWaitShape DEF WaitShape
  <2>2. ReplyInv'
    BY ZenonT(60), <2>1 DEF ReplyInv
  <2>3. unheard' \in 0..RetryTime
    BY <1>1, <1>2
  <2> QED
    BY ZenonT(60), <2>1, <2>2, <2>3 DEF TimeInv
<1>4. CASE s \in FinalNames /\ finalStatus' = s /\ wait' = NoWait
           /\ outcome' = [kind |-> "returned", what |-> s, left |-> wait.left]
  <2>1. EndInv'
    BY <1>3, <1>4 DEF EndInv
  <2> QED
    BY <1>3, <1>4, <2>1 DEF ClientInv
<1>5. CASE /\ finalStatus' = finalStatus /\ wait.left = 0 /\ wait' = NoWait
           /\ outcome' = [kind |-> "timeout", what |-> s, left |-> wait.left]
  <2>1. EndInv'
    BY <1>3, <1>5 DEF ClientInv, EndInv
  <2> QED
    BY <1>3, <1>5, <2>1 DEF ClientInv
<1>6. ASSUME finalStatus' = finalStatus, outcome' = outcome, NEW n, NEW z,
             wait' = [wait EXCEPT !.at = "sleep", !.failing = Unset, !.last = s, !.step = n, !.sleep = z]
      PROVE  ClientInv'
  <2>1. WaitShape' /\ wait'.at = "sleep" /\ wait'.left = wait.left /\ wait'.failing = Unset
    BY ZenonT(60), <1>6 DEF ClientInv, WaitShape
  <2>2. ReplyInv'
    BY <2>1 DEF ReplyInv
  <2>4. TimeInv'
    BY <1>1, <1>2, <2>1 DEF TimeInv, ClientInv
  <2>3. EndInv'
    BY <1>2, <1>6, <2>1 DEF EndInv, ClientInv
  <2> QED
    BY <2>1, <2>2, <2>3, <2>4 DEF ClientInv
<1> QED
  BY ZenonT(60), <1>4, <1>5, <1>6, OnStatusDoes

\* The loop with an error keeps it: the wait gives up for its reason.
LEMMA ErrorStep ==
    ASSUME ClientInv, NEW code, OnError(code), jobStatus' = jobStatus, user_active' = user_active, wait.at # "idle",
           code = "401" => ~user_active
    PROVE  ClientInv'
<1>1. finalStatus' = finalStatus /\ unheard' = unheard
  BY ZenonT(60), OnErrorDoes
<1>2. /\ outcome.kind = "none" /\ RetryTime \in Nat /\ unheard \in 0..RetryTime /\ Unset \notin Nat
      /\ wait.left \in Nat \cup {Unset} /\ (wait.failing # Unset => wait.failing \in 0..unheard)
  BY ClientAssumption DEF ClientInv, EndInv, TimeInv
<1>3. ASSUME wait' = NoWait, outcome' = [kind |-> "raised", what |-> code, left |-> wait.left],
             \/ ~is_transient_error(code)
             \/ wait.left = Unset /\ wait.failing = Unset /\ RetryTime - 0 <= 0
             \/ wait.left = Unset /\ wait.failing # Unset /\ RetryTime - wait.failing <= 0
             \/ wait.left # Unset /\ wait.left <= 0
      PROVE  ClientInv'
  <2>1. WaitShape' /\ wait'.at = "idle" /\ wait'.left = Unset /\ wait'.failing = Unset
    BY <1>3, NoWaitShape DEF WaitShape
  <2>2. ReplyInv' /\ TimeInv'
    BY <1>1, <1>2, <2>1 DEF ReplyInv, TimeInv
  <2>3. is_transient_error(code) => IF wait.left = Unset THEN unheard = RetryTime ELSE wait.left = 0
    BY <1>2, <1>3
  <2>4. /\ outcome'.kind = "raised" /\ outcome'.what = code /\ outcome'.left = wait.left
    BY <1>3
  <2>5. EndInv'
    BY <1>1, <2>1, <2>3, <2>4 DEF ClientInv, EndInv, is_transient_error
  <2> QED
    BY <2>1, <2>2, <2>5 DEF ClientInv
<1>4. ASSUME outcome' = outcome, NEW n, NEW z,
             wait' = [wait EXCEPT !.at = "sleep", !.failing = IF wait.failing = Unset THEN 0 ELSE wait.failing,
                                  !.step = n, !.sleep = z]
      PROVE  ClientInv'
  <2>1. /\ WaitShape' /\ wait'.at = "sleep" /\ wait'.left = wait.left
        /\ wait'.failing = IF wait.failing = Unset THEN 0 ELSE wait.failing
    BY ZenonT(60), <1>4 DEF ClientInv, WaitShape
  <2>2. ReplyInv'
    BY <2>1 DEF ReplyInv
  <2>4. TimeInv'
    BY <1>1, <1>2, <2>1 DEF TimeInv
  <2>3. EndInv'
    BY <1>1, <1>2, <1>4, <2>1 DEF EndInv, ClientInv
  <2> QED
    BY <2>1, <2>2, <2>3, <2>4 DEF ClientInv
<1> QED
  BY ZenonT(60), <1>3, <1>4, OnErrorDoes

\* A step of the wait that neither ends it nor hears of the job.
LEMMA GoesOnStep ==
    ASSUME ClientInv, UNCHANGED <<jobStatus, user_active, finalStatus, outcome, unheard>>, wait.at # "idle",
           WaitShape', ReplyInv', wait'.left = wait.left, wait'.failing = wait.failing
    PROVE  ClientInv'
<1>1. TimeInv'
  BY DEF ClientInv, TimeInv
<1>2. EndInv'
  BY DEF ClientInv, EndInv
<1> QED
  BY <1>1, <1>2 DEF ClientInv

\* A wait begins.
LEMMA BeginStep ==
    ASSUME ClientInv, NEW t \in WaitTimeouts, Begin(t)
    PROVE  ClientInv'
<1>1. /\ wait' = [NoWait EXCEPT !.at = "check", !.left = t] /\ outcome' = NoOutcome /\ unheard' = 0
      /\ UNCHANGED <<jobStatus, user_active, finalStatus>>
  BY ZenonT(60) DEF Begin
<1>2. t \in Nat \cup {Unset} /\ RetryTime \in Nat
  BY ClientAssumption
<1>3. WaitShape' /\ wait'.at = "check" /\ wait'.left = t /\ wait'.failing = Unset
  BY ZenonT(60), <1>1 DEF NoWait, WaitShape
<1>4. ReplyInv' /\ TimeInv'
  BY <1>1, <1>2, <1>3 DEF ReplyInv, TimeInv
<1>5. outcome'.kind = "none"
  BY <1>1 DEF NoOutcome
<1>6. EndInv'
  BY <1>1, <1>5 DEF ClientInv, EndInv
<1> QED
  BY <1>1, <1>3, <1>4, <1>6 DEF ClientInv

\* The status is asked for, or known to be final.
LEMMA CheckStep ==
    ASSUME ClientInv, Check
    PROVE  ClientInv'
<1>1. jobStatus' = jobStatus /\ user_active' = user_active /\ wait.at = "check"
  BY ZenonT(60) DEF Check
<1>2. CASE finalStatus # Unset
  <2>1. OnStatus(finalStatus)
    BY ZenonT(60), <1>2 DEF Check
  <2>2. jobStatus \in Over /\ finalStatus = Shown[jobStatus]
    BY <1>2 DEF ClientInv, EndInv
  <2> QED
    BY ZenonT(60), <1>1, <1>2, <2>1, <2>2, StatusStep
<1>3. CASE finalStatus = Unset
  <2>1. /\ UNCHANGED <<finalStatus, outcome, unheard>>
        /\ \E u : wait' = [wait EXCEPT !.at = "sent", !.flight = 0, !.using = u]
    BY ZenonT(60), <1>3 DEF Check, Send
  <2>2. WaitShape' /\ wait'.at = "sent" /\ wait'.left = wait.left /\ wait'.failing = wait.failing
    BY ZenonT(60), <2>1 DEF ClientInv, WaitShape
  <2>3. ReplyInv'
    BY <2>2 DEF ReplyInv
  <2> QED
    BY ZenonT(60), <1>1, <2>1, <2>2, <2>3, GoesOnStep
<1> QED
  BY <1>2, <1>3

\* The gateway answers: with the job as it is, or with a refusal of a user who is not active.
LEMMA ServeStep ==
    ASSUME ClientInv, Serve
    PROVE  ClientInv'
<1> DEFINE reply == IF net # "up" THEN Failure ELSE IF wait.using = "token" THEN job_status ELSE job_retrieve
<1>1. /\ wait.at = "sent" /\ UNCHANGED <<jobStatus, user_active, finalStatus, outcome, unheard>>
      /\ wait' = [wait EXCEPT !.at = "back", !.reply = reply, !.signed = 0]
  BY ZenonT(60) DEF Serve
<1>2. Failure.code \in {"500", "503"}
  BY DEF Failure, safe_json_request, ok
<1>3. /\ reply.code = "none" => reply.data = jobStatus
      /\ wait.using # "token" /\ reply.code = "401" => ~user_active
  BY <1>2 DEF job_status, job_retrieve
<1> HIDE DEF reply
<1>4. /\ WaitShape' /\ wait'.at = "back" /\ wait'.left = wait.left /\ wait'.failing = wait.failing
      /\ wait'.using = wait.using /\ wait'.reply = reply
  BY ZenonT(60), <1>1 DEF ClientInv, WaitShape
<1>5. ReplyInv'
  BY <1>1, <1>3, <1>4 DEF ReplyInv, ClientInv
<1> QED
  BY ZenonT(60), <1>1, <1>4, <1>5, GoesOnStep

\* The answer arrives.
LEMMA ArriveStep ==
    ASSUME ClientInv, Arrive
    PROVE  ClientInv'
<1> DEFINE refused == wait.using = "token" /\ wait.reply.code \in {"401", "403", "404"}
<1>1. jobStatus' = jobStatus /\ user_active' = user_active /\ wait.at = "back"
  BY ZenonT(60) DEF Arrive
<1>2. CASE refused
  <2>1. /\ UNCHANGED <<finalStatus, outcome, unheard>>
        /\ wait' = [wait EXCEPT !.at = "sent", !.flight = 0, !.using = "key"]
    BY ZenonT(60), <1>2 DEF Arrive, Send
  <2>2. WaitShape' /\ wait'.at = "sent" /\ wait'.left = wait.left /\ wait'.failing = wait.failing
    BY ZenonT(60), <2>1 DEF ClientInv, WaitShape
  <2>3. ReplyInv'
    BY <2>2 DEF ReplyInv
  <2> QED
    BY ZenonT(60), <1>1, <2>1, <2>2, <2>3, GoesOnStep
<1>3. CASE ~refused /\ wait.reply.code # "none"
  <2>1. OnError(wait.reply.code)
    BY ZenonT(60), <1>3 DEF Arrive
  <2>2. wait.reply.code = "401" => ~user_active
    BY <1>1, <1>3 DEF ClientInv, ReplyInv
  <2> QED
    BY ZenonT(60), <1>1, <2>1, <2>2, ErrorStep
<1>4. CASE ~refused /\ wait.reply.code = "none"
  <2> DEFINE d == wait.reply.data
  <2>1. OnStatus(_fetch_status(d))
    BY ZenonT(60), <1>4 DEF Arrive
  <2>2. d \in JobDatas /\ (d \in Over => jobStatus = d)
    BY <1>1, <1>4 DEF ClientInv, ReplyInv
  <2>3. /\ Shown[d] = _fetch_status(d) /\ Shown[d] # Unset
        /\ Shown[d] \in FinalNames <=> d \in Over
    BY ZenonT(60), <2>2, ShownStatuses DEF FinalNames, _FINAL_STATUSES
  <2>4. OnStatus(Shown[d])
    BY ZenonT(60), <2>1, <2>3
  <2>5. Shown[d] \in FinalNames => jobStatus \in Over /\ Shown[d] = Shown[jobStatus] /\ Shown[d] # Unset
    BY <2>2, <2>3
  <2> QED
    BY ZenonT(60), <1>1, <2>4, <2>5, StatusStep
<1> QED
  BY ZenonT(60), <1>2, <1>3, <1>4

\* A request that takes too long is a transient error.
LEMMA ExpireStep ==
    ASSUME ClientInv, Expire
    PROVE  ClientInv'
<1> DEFINE code == safe_json_request([way |-> "lost", code |-> "none", body |-> "none"])
<1>1. jobStatus' = jobStatus /\ user_active' = user_active /\ wait.at \in {"sent", "back"} /\ OnError(code)
  BY ZenonT(60) DEF Expire
<1>2. code = "CONN1001"
  BY DEF safe_json_request
<1> HIDE DEF code
<1>3. wait.at # "idle" /\ (code = "401" => ~user_active)
  BY <1>1, <1>2
<1> QED
  BY ZenonT(60), <1>1, <1>3, ErrorStep

\* A sleep ends.
LEMMA WakeStep ==
    ASSUME ClientInv, Wake
    PROVE  ClientInv'
<1>1. /\ UNCHANGED <<jobStatus, user_active, finalStatus, outcome, unheard>> /\ wait.at = "sleep"
      /\ wait' = [wait EXCEPT !.at = "check"]
  BY ZenonT(60) DEF Wake
<1>2. WaitShape' /\ wait'.at = "check" /\ wait'.left = wait.left /\ wait'.failing = wait.failing
  BY <1>1 DEF ClientInv, WaitShape
<1>3. ReplyInv'
  BY <1>2 DEF ReplyInv
<1> QED
  BY ZenonT(60), <1>1, <1>2, <1>3, GoesOnStep

\* A unit of time passes; the silence grows with the failures.
LEMMA TickStep ==
    ASSUME ClientInv, Tick
    PROVE  ClientInv'
<1>1. /\ unheard' = Older(unheard, RetryTime) /\ UNCHANGED <<jobStatus, user_active, finalStatus, outcome>>
      /\ \E z, g, f : wait' = [wait EXCEPT !.left = Shorter(@), !.sleep = z,
                                    !.failing = IF @ = Unset THEN @ ELSE Older(@, RetryTime),
                                    !.signed = g, !.flight = f]
  BY ZenonT(60) DEF Tick
<1>2. /\ WaitShape' /\ wait'.at = wait.at /\ wait'.left = Shorter(wait.left)
      /\ wait'.failing = IF wait.failing = Unset THEN Unset ELSE Older(wait.failing, RetryTime)
      /\ wait'.reply = wait.reply /\ wait'.using = wait.using
  BY ZenonT(60), <1>1 DEF ClientInv, WaitShape
<1>3. RetryTime \in Nat /\ Unset \notin Nat
  BY ClientAssumption
<1>4. TimeInv'
  BY <1>1, <1>2, <1>3 DEF ClientInv, TimeInv, Older, Shorter, Least
<1>5. ReplyInv'
  BY <1>1, <1>2 DEF ClientInv, ReplyInv
<1>6. unheard = RetryTime => unheard' = RetryTime
  BY <1>1, <1>3 DEF Older, Least
<1>7. EndInv'
  BY <1>1, <1>2, <1>6 DEF ClientInv, EndInv
<1> QED
  BY <1>1, <1>2, <1>4, <1>5, <1>7 DEF ClientInv

\* What happens in the meantime: a job that is over stays so, and a user who is not
\* active stays out.
LEMMA AroundStep ==
    ASSUME ClientInv, JobMoves \/ NetChanges \/ Deactivate
    PROVE  ClientInv'
<1>1. /\ UNCHANGED <<finalStatus, wait, outcome, unheard>> /\ (~user_active => ~user_active')
      /\ jobStatus' = jobStatus \/ (jobStatus \notin Over /\ jobStatus' \in JobDatas)
  <2>1. CASE JobMoves
    <3>1. \A m \in Moves : m[1] \notin Over /\ m[2] \in JobDatas
      BY MovesKeepOver
    <3> QED
      BY ZenonT(60), <2>1, <3>1 DEF JobMoves
  <2>2. CASE NetChanges \/ Deactivate
    BY <2>2 DEF NetChanges, Deactivate
  <2> QED
    BY <2>1, <2>2
<1>2. WaitShape' /\ TimeInv'
  BY <1>1 DEF ClientInv, WaitShape, TimeInv
<1>3. ReplyInv'
  BY <1>1 DEF ClientInv, ReplyInv
<1>4. EndInv'
  BY <1>1 DEF ClientInv, EndInv
<1> QED
  BY <1>1, <1>2, <1>3, <1>4 DEF ClientInv

\* The invariant says what ends a wait.
LEMMA ClientInvIsEnough == ClientInv => ClientIsTrue
<1> SUFFICES ASSUME ClientInv PROVE WaitsEndForAReason
  BY ZenonT(60), StatusesHold, RetriesHold DEF ClientIsTrue
<1>1. finalStatus # Unset => finalStatus = _fetch_status(jobStatus)
  BY ZenonT(60), ShownStatuses DEF ClientInv, EndInv
<1> QED
  BY ZenonT(60), <1>1 DEF ClientInv, EndInv, WaitsEndForAReason

\* A wait of the client library ends for one of the reasons its docstring gives, for
\* every timeout, backoff and lifetime of the token (wait_for_final_state).
THEOREM ClientWaitsAreTrue == ClientSpec => []ClientIsTrue
<1>1. ClientInit => ClientInv
  <2> SUFFICES ASSUME ClientInit PROVE ClientInv
    OBVIOUS
  <2>1. /\ jobStatus = JobData("QUEUED", Unset) /\ finalStatus = Unset /\ unheard = 0
        /\ wait = NoWait /\ outcome.kind = "none" /\ RetryTime \in Nat
    BY ClientAssumption DEF ClientInit, NoOutcome
  <2>2. WaitShape /\ wait.at = "idle" /\ wait.left = Unset /\ wait.failing = Unset
    BY <2>1, NoWaitShape DEF WaitShape
  <2>3. ReplyInv /\ EndInv
    BY <2>1, <2>2 DEF ReplyInv, EndInv
  <2>4. TimeInv
    BY <2>1, <2>2 DEF TimeInv
  <2> QED
    BY <2>1, <2>2, <2>3, <2>4 DEF ClientInv, JobDatas
<1>2. ClientInv /\ [ClientNext]_clientVars => ClientInv'
  <2> SUFFICES ASSUME ClientInv, [ClientNext]_clientVars PROVE ClientInv'
    OBVIOUS
  <2>1. CASE UNCHANGED clientVars
    <3>1. UNCHANGED <<jobStatus, user_active, finalStatus, wait, outcome, unheard>>
      BY <2>1 DEF clientVars
    <3>2. WaitShape' /\ TimeInv' /\ ReplyInv' /\ EndInv'
      BY <3>1 DEF ClientInv, WaitShape, TimeInv, ReplyInv, EndInv
    <3> QED
      BY <3>1, <3>2 DEF ClientInv
  <2> QED
    BY ZenonT(60), <2>1, BeginStep, CheckStep, ServeStep, ArriveStep, ExpireStep, WakeStep, TickStep, AroundStep
       DEF ClientNext, WaitSteps
<1> QED
  BY <1>1, <1>2, ClientInvIsEnough, PTL DEF ClientSpec
=============================================================================
