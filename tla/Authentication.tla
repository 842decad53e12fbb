--------------------------- MODULE Authentication ----------------------------
(***************************************************************************)
(* How a request is authenticated: CustomTokenBackend, its use case and    *)
(* the IBM Quantum Platform service, for the requests of one API key (the  *)
(* others have cache entries and rows of their own).  Three services of    *)
(* IBM Cloud are asked in turn, each behind a cache entry: IAM for the     *)
(* token, the Resource Controller for the plan of the instance, and Access *)
(* Groups for the groups.  The groups are then copied to the user's groups *)
(* in the database, which legacy authorization reads; the old groups are   *)
(* read before the transaction that writes the difference, so two requests *)
(* of the user may each write a difference to what both have read.         *)
(***************************************************************************)
EXTENDS Access

CONSTANTS AccessGroups,   \* ids of the access groups of the account
          Headers,        \* the headers of the requests: channel, token, crn and whether the path is public
          Logins          \* requests of the user that are authenticated at the same time, at most

\* What a call meets when it gets no answer: a refusal (4xx), or a connection error, 429 or 5xx.
Failures == {"refused", "down"}

VARIABLES
    groupsNow,  \* what Access Groups answers now, with Public Access left out; or a failure
    entry,      \* the cache entries of the API key: jwt, plan and groups
    answered,   \* <<g, b>>: Access Groups has given an answer with the group g (b) or without it
    userGroups, \* the user's groups in the database
    metadata,   \* groups whose GroupMetadata names the account
    is_active,  \* User.is_active
    login       \* the requests in flight

authVars == <<groupsNow, entry, answered, userGroups, metadata, is_active, login>>

NoLogin == [at |-> "idle"]
NoEntry == [jwt |-> FALSE, plan |-> None, groups |-> None]
Given(groups) == {<<g, g \in groups>> : g \in AccessGroups}

GoOn(l, at) == login' = [login EXCEPT ![l].at = at]
\* 401 or 503: nothing is written.
Fail(l) == login' = [login EXCEPT ![l] = NoLogin] /\ UNCHANGED <<entry, answered>>

\* CustomTokenBackend.authenticate up to the use case: the channel, the token and the CRN.
Admits(h) ==
    /\ h.channel \in {"ibm_cloud", "ibm_quantum_platform"}
    /\ h.token
    /\ h.crn \/ h.public

LoginBegin(l, h) ==
    /\ login[l] = NoLogin /\ \A k \in Logins : k < l => login[k] # NoLogin   \* slots are alike: take the first
    /\ Admits(h)
    /\ login' = [login EXCEPT ![l] = [at |-> "jwt", public |-> h.public]]
    /\ UNCHANGED <<accessVars, groupsNow, entry, answered, userGroups, metadata, is_active>>

\* _request_or_cache_jwt_data and authenticate; a public path needs no plan.
LoginJwt(l) ==
    /\ login[l].at = "jwt"
    /\ \/ GoOn(l, IF login[l].public THEN "groups" ELSE "plan") /\ entry' = [entry EXCEPT !.jwt = TRUE] /\ UNCHANGED answered
       \/ ~entry.jwt /\ Fail(l)
    /\ UNCHANGED <<accessVars, groupsNow, userGroups, metadata, is_active>>

\* _request_or_cache_instance_attributes and verify_access: what was answered is kept, also when the
\* plan is missing or is not one of RESOURCE_PLANS_ID_ALLOWED and the request fails.
LoginPlan(l) ==
    /\ login[l].at = "plan"
    /\ \/ \E plan \in IF entry.plan = None THEN {"allowed", "other"} ELSE {entry.plan} :
             /\ entry' = [entry EXCEPT !.plan = plan]
             /\ IF plan = "allowed" THEN GoOn(l, "groups") ELSE login' = [login EXCEPT ![l] = NoLogin]
             /\ UNCHANGED answered
       \/ entry.plan = None /\ Fail(l)
    /\ UNCHANGED <<accessVars, groupsNow, userGroups, metadata, is_active>>

\* Mutant: Access Groups that is down is taken as an answer without groups.
NoGroupsWhenDown(l) ==
    LET found == IF entry.groups # None THEN entry.groups ELSE IF groupsNow \in {{"refused"}, {"down"}} THEN {} ELSE groupsNow IN
    /\ login[l].at = "groups"
    /\ login' = [login EXCEPT ![l] = [at |-> "user", target |-> found]]
    /\ entry' = IF groupsNow \in {{"refused"}, {"down"}} THEN entry ELSE [entry EXCEPT !.groups = found]
    /\ answered' = IF entry.groups # None \/ groupsNow = {"down"} THEN answered ELSE answered \cup Given(found)
    /\ UNCHANGED <<accessVars, groupsNow, userGroups, metadata, is_active>>

\* _request_or_cache_group_ids: a refusal is an answer without groups that is not kept.
LoginGroups(l) ==
    LET found == IF entry.groups # None THEN entry.groups ELSE IF groupsNow = {"refused"} THEN {} ELSE groupsNow IN
    /\ login[l].at = "groups"
    /\ IF found = {"down"} THEN Fail(l)
       ELSE /\ login' = [login EXCEPT ![l] = [at |-> "user", target |-> found]]
            /\ entry' = IF groupsNow = {"refused"} THEN entry ELSE [entry EXCEPT !.groups = found]
            /\ answered' = IF entry.groups # None THEN answered ELSE answered \cup Given(found)
    /\ UNCHANGED <<accessVars, groupsNow, userGroups, metadata, is_active>>

\* UserAccessPolicies.can_access, and the read of _sync_user_groups with _has_account.
LoginRead(l) ==
    LET target == login[l].target IN
    /\ login[l].at = "user"
    /\ IF ~is_active THEN login' = [login EXCEPT ![l] = NoLogin]
       ELSE IF userGroups = target /\ target \subseteq metadata THEN login' = [login EXCEPT ![l] = [at |-> "access"]]
       ELSE login' = [login EXCEPT ![l] = [at |-> "sync", target |-> target, current |-> userGroups]]
    /\ UNCHANGED <<accessVars, groupsNow, entry, answered, userGroups, metadata, is_active>>

\* Mutant: groups the user has left are not removed.
AddsOnly(l) ==
    /\ login[l].at = "sync"
    /\ userGroups' = userGroups \cup (login[l].target \ login[l].current)
    /\ metadata' = metadata \cup login[l].target
    /\ login' = [login EXCEPT ![l] = [at |-> "access"]]
    /\ UNCHANGED <<accessVars, groupsNow, entry, answered, is_active>>

\* The transaction of _sync_user_groups.
LoginSync(l) ==
    LET target == login[l].target
        current == login[l].current
    IN /\ login[l].at = "sync"
       /\ userGroups' = (userGroups \ (current \ target)) \cup (target \ current)
       /\ metadata' = metadata \cup target
       /\ login' = [login EXCEPT ![l] = [at |-> "access"]]
       /\ UNCHANGED <<accessVars, groupsNow, entry, answered, is_active>>

\* FunctionAccessClient, and the request is let in or not.
LoginAccess(l) ==
    /\ login[l].at = "access"
    /\ login' = [login EXCEPT ![l] = NoLogin]
    /\ \E u \in Users : Authorize(u)
    /\ UNCHANGED <<groupsNow, entry, answered, userGroups, metadata, is_active>>

-----------------------------------------------------------------------------
(* Around the requests *)

\* One of the entries reaches its TTL; they were set by different requests.
EntryExpires(part) ==
    /\ entry[part] # NoEntry[part]
    /\ entry' = [entry EXCEPT ![part] = NoEntry[part]]
    /\ UNCHANGED <<accessVars, groupsNow, answered, userGroups, metadata, is_active, login>>

GroupAnswers == SUBSET AccessGroups \cup {{f} : f \in Failures}

AccessGroupsChange ==
    /\ groupsNow' \in GroupAnswers \ {groupsNow}
    /\ UNCHANGED <<accessVars, entry, answered, userGroups, metadata, is_active, login>>

SetActive ==
    /\ is_active' = ~is_active
    /\ UNCHANGED <<accessVars, groupsNow, entry, answered, userGroups, metadata, login>>

AuthInit(held) ==
    /\ groupsNow \in held
    /\ entry = NoEntry
    /\ userGroups \in held /\ answered = Given(userGroups)   \* as an earlier request left them
    /\ metadata = {}
    /\ is_active = TRUE
    /\ login = [l \in Logins |-> NoLogin]

AuthNext ==
    \/ \E l \in Logins, h \in Headers : LoginBegin(l, h)
    \/ \E l \in Logins : LoginJwt(l) \/ LoginPlan(l) \/ LoginGroups(l) \/ LoginRead(l) \/ LoginSync(l) \/ LoginAccess(l)
    \/ \E part \in DOMAIN NoEntry : EntryExpires(part)
    \/ AccessGroupsChange
    \/ SetActive

-----------------------------------------------------------------------------
(* Properties *)

\* The groups of a user in the database come from answers of Access Groups: nobody is in a group that
\* no answer contained or out of one that every answer contained, although answers are cached, calls
\* fail, and requests of the user write differences to groups that others have changed since.
GroupsWereAnswered ==
    /\ \A g \in AccessGroups : <<g, g \in userGroups>> \in answered
    /\ entry.groups # None => Given(entry.groups) \subseteq answered

\* Once Access Groups settles on the groups of a user, the database comes to have exactly these, with
\* their account, as long as the user keeps being authenticated.
GroupsFollow ==
    \A G \in SUBSET AccessGroups :
        <>[](groupsNow = G) /\ []<>(\E l \in Logins : login[l].at = "access") => <>[](userGroups = G /\ G \subseteq metadata)
=============================================================================
