-------------------------------- MODULE Rbac --------------------------------
(***************************************************************************)
(* Users, tokens, policies and bindings on a master.  What a token may do  *)
(* is what the bindings of its user's name grant, through policies.  Users *)
(* and tokens are made and deleted in several writes to different trees,   *)
(* by requests that run at the same time and that a kill or a failed write *)
(* cuts anywhere.                                                          *)
(* At its start the master rewrites the tokens of an older version, which  *)
(* carry a role or permissions, as policies and bindings.  It serves also  *)
(* when an error has ended that.                                           *)
(*                                                                         *)
(* policy-<suffix> and binding-<suffix> come in pairs with one suffix: the *)
(* id of a token, user-<name> or, for an older token, its <name>.  Tokens  *)
(* of agents, which join_handler makes, are in module NodeJoin.            *)
(***************************************************************************)
EXTENDS Naturals

CONSTANTS
    Subjects,        \* names of users and of the owners of tokens
    Admin,           \* the name "admin"
    Users,           \* bound: names that users are made with
    None,
    MaxTokens,       \* bound: token ids, in the order of their keys
    MaxLegacy,       \* bound: those of the older version
    Slots            \* bound: requests at the same time

ASSUME RbacAssumption ==
    /\ Admin \in Subjects /\ Users \subseteq Subjects /\ None \notin Subjects
    /\ MaxTokens \in Nat /\ MaxLegacy \in 0 .. MaxTokens

VARIABLES
    users,       \* tree users: what its creation asked for, with the password
    tokens,      \* tree tokens: the name of each
    legacy,      \* the role or permissions that a token carries, or did
                 \* when it was deleted
    policies, bindings,
    req,         \* requests in progress
    start,       \* the walk of migrate_rbac_v1_to_v2; failed, which stays
                 \* when it is over: a read or a write of it was not done
    up,
    made,        \* token ids that were generated
    asked,       \* history: the grant each token was made with
    before,      \* history: the tokens of the older version
    crossed,     \* history: users created or deleted by two requests at once
    cut          \* history: users whose creation or deletion a kill cut

vars == <<users, tokens, legacy, policies, bindings, req, start, up, made,
          asked, before, crossed, cut>>
requestVars == <<req, made, asked, crossed, cut>>

\* Rules: every verb on everything, Get on everything, less than that.
Grant == {"all", "get", "part"}
\* Legacy: role admin; another role, or permissions for all; for some.
Kind == {"admin", "wide", "narrow"}
ASSUME NoneAssumption == None \notin Grant \cup Kind

TokenId == 1 .. MaxTokens
Id == ({"token"} \X TokenId) \cup ({"user", "legacy"} \X Subjects)

Idle == [op |-> "idle"]
\* The writes a request has still to do.
Request ==
    [op : {"policy", "binding", "token"}, t : TokenId, subject : Subjects, grant : Grant]
    \cup [op : {"userPolicy", "userBinding", "user"}, u : Subjects, grant : Grant]
    \cup [op : {"dropPolicy", "dropBinding"}, u : Subjects]
Legacy == [subject : Subjects, kind : Kind]
NoLegacy == [subject |-> None, kind |-> "none"]

TypeOK ==
    /\ users \in [Subjects -> Grant \cup {None}]
    /\ tokens \in [TokenId -> Subjects \cup {None}]
    /\ legacy \in [TokenId -> Kind \cup {None}]
    /\ policies \in [Id -> Grant \cup {None}]
    /\ bindings \in [Id -> Subjects \cup {None}]
    /\ req \in [Slots -> Request \cup {Idle}]
    /\ start \in [at : 1 .. MaxTokens + 1, step : {"policy", "binding", "token"},
                  seen : SUBSET (Subjects \cup {None}), failed : BOOLEAN]
    /\ up \in BOOLEAN
    /\ made \subseteq TokenId
    /\ asked \in [TokenId -> Grant \cup {None}]
    /\ before \in [TokenId -> Legacy \cup {NoLegacy}]
    /\ crossed \subseteq Subjects /\ cut \subseteq Subjects

Started == [at |-> 1, step |-> "policy", seen |-> {}, failed |-> FALSE]

Init ==
    /\ \E n \in 0 .. MaxLegacy :
         /\ before \in {b \in [TokenId -> Legacy \cup {NoLegacy}] :
                           \A t \in TokenId : b[t] = NoLegacy <=> t > n}
         /\ made = 1 .. n
    /\ tokens = [t \in TokenId |-> before[t].subject]
    /\ legacy = [t \in TokenId |-> IF before[t] = NoLegacy THEN None ELSE before[t].kind]
    /\ users = [u \in Subjects |-> None]
    /\ policies = [i \in Id |-> None] /\ bindings = [i \in Id |-> None]
    /\ req = [s \in Slots |-> Idle]
    /\ start = Started /\ up = FALSE
    /\ asked = [t \in TokenId |-> None]
    /\ crossed = {} /\ cut = {}

Put(f, i, v) == [f EXCEPT ![i] = v]

\* Store::can for a rule: the bindings of a name and their policies.
Rights(subject) ==
    {policies[i] : i \in {j \in Id : bindings[j] = subject}} \ {None}
\* RequireToken, and can: whoever makes users and tokens may do everything.
Authorised ==
    \E t \in TokenId : tokens[t] # None /\ "all" \in Rights(tokens[t])

-----------------------------------------------------------------------------
(* migrate_rbac_v1_to_v2: the tokens in the order of their keys *)

Walking(t, step) == ~up /\ start.at = t /\ start.step = step
Walk(to) == start' = to
NextToken == [start EXCEPT !.at = @ + 1, !.step = "policy"]
Granted(kind) ==
    CASE kind = "admin" -> "all" [] kind = "wide" -> "get" [] kind = "narrow" -> "part"

Carries(t) == tokens[t] # None /\ legacy[t] # None
Again(t) == legacy[t] = "admin" /\ tokens[t] \in start.seen

Skip(t) ==
    /\ Walking(t, "policy") /\ ~Carries(t)
    /\ Walk(NextToken)
    /\ UNCHANGED <<users, tokens, legacy, policies, bindings, up, before, requestVars>>

\* A second admin token of a name is removed.
MigrateAgain(t) ==
    /\ Walking(t, "policy") /\ Carries(t) /\ Again(t)
    /\ tokens' = Put(tokens, t, None)
    /\ legacy' = Put(legacy, t, None)
    /\ Walk(NextToken)
    /\ UNCHANGED <<users, policies, bindings, up, before, requestVars>>

\* Mutant: the token is rewritten before its binding.
MigratePolicyLate(t) ==
    /\ Walking(t, "policy") /\ Carries(t) /\ ~Again(t)
    /\ policies' = Put(policies, <<"legacy", tokens[t]>>, Granted(legacy[t]))
    /\ legacy' = Put(legacy, t, None)
    /\ Walk([start EXCEPT !.step = "binding",
                          !.seen = IF legacy[t] = "admin" THEN @ \cup {tokens[t]} ELSE @])
    /\ UNCHANGED <<users, tokens, bindings, up, before, requestVars>>

MigratePolicy(t) ==
    /\ Walking(t, "policy") /\ Carries(t) /\ ~Again(t)
    /\ policies' = Put(policies, <<"legacy", tokens[t]>>, Granted(legacy[t]))
    /\ Walk([start EXCEPT !.step = "binding",
                          !.seen = IF legacy[t] = "admin" THEN @ \cup {tokens[t]} ELSE @])
    /\ UNCHANGED <<users, tokens, legacy, bindings, up, before, requestVars>>

MigrateBinding(t) ==
    /\ Walking(t, "binding")
    /\ bindings' = Put(bindings, <<"legacy", tokens[t]>>, tokens[t])
    /\ Walk([start EXCEPT !.step = "token"])
    /\ UNCHANGED <<users, tokens, legacy, policies, up, before, requestVars>>

\* The token is rewritten without what it carried.
MigrateToken(t) ==
    /\ Walking(t, "token")
    /\ legacy' = Put(legacy, t, None)
    /\ Walk(NextToken)
    /\ UNCHANGED <<users, tokens, policies, bindings, up, before, requestVars>>

\* A token that cannot be read, or a second one that cannot be removed, is
\* passed over.
PassOver(t) ==
    /\ Walking(t, "policy") /\ Carries(t)
    /\ Walk([NextToken EXCEPT !.failed = TRUE])
    /\ UNCHANGED <<users, tokens, legacy, policies, bindings, up, before, requestVars>>

\* A record that is no JSON, or a write that fails, ends the walk; start_server
\* ignores the error.
Abandon(t) ==
    /\ ~up /\ start.at = t
    /\ Walk([Started EXCEPT !.failed = TRUE])
    /\ up' = TRUE
    /\ UNCHANGED <<users, tokens, legacy, policies, bindings, before, requestVars>>

Serve ==
    /\ ~up /\ start.at > MaxTokens
    /\ Walk([Started EXCEPT !.failed = start.failed])
    /\ up' = TRUE
    /\ UNCHANGED <<users, tokens, legacy, policies, bindings, before, requestVars>>

-----------------------------------------------------------------------------
(* Tokens *)

At(s, op) == up /\ req[s].op = op
Becomes(s, r) == req' = [req EXCEPT ![s] = r]
treeVars == <<users, tokens, policies, bindings>>
startVars == <<legacy, start, up, before>>

BeginToken(s, subject, grant) ==
    \E t \in TokenId \ made :
        /\ made' = made \cup {t}
        /\ asked' = Put(asked, t, grant)
        /\ Becomes(s, [op |-> "policy", t |-> t, subject |-> subject, grant |-> grant])

\* token_create_handler.
CreateToken(s) ==
    /\ At(s, "idle") /\ Authorised
    /\ \E subject \in Subjects, grant \in Grant : BeginToken(s, subject, grant)
    /\ UNCHANGED <<treeVars, startVars, crossed, cut>>

\* token_exchange_handler, which asks for no token, makes one for "admin" if
\* it has none that may do everything.
Exchange(s) ==
    /\ At(s, "idle")
    /\ ~(\E t \in TokenId : tokens[t] = Admin /\ "all" \in Rights(Admin))
    /\ BeginToken(s, Admin, "all")
    /\ UNCHANGED <<treeVars, startVars, crossed, cut>>

\* put_policy, put_binding and put_token of both.
PutPolicy(s) ==
    /\ At(s, "policy")
    /\ policies' = Put(policies, <<"token", req[s].t>>, req[s].grant)
    /\ Becomes(s, [req[s] EXCEPT !.op = "binding"])
    /\ UNCHANGED <<users, tokens, bindings, startVars, made, asked, crossed, cut>>

\* Mutant: the token is stored before its binding.
PutBindingLast(s) ==
    /\ At(s, "binding")
    /\ tokens' = Put(tokens, req[s].t, req[s].subject)
    /\ Becomes(s, [req[s] EXCEPT !.op = "token"])
    /\ UNCHANGED <<users, policies, bindings, startVars, made, asked, crossed, cut>>

PutBinding(s) ==
    /\ At(s, "binding")
    /\ bindings' = Put(bindings, <<"token", req[s].t>>, req[s].subject)
    /\ Becomes(s, [req[s] EXCEPT !.op = "token"])
    /\ UNCHANGED <<users, tokens, policies, startVars, made, asked, crossed, cut>>

PutToken(s) ==
    /\ At(s, "token")
    /\ tokens' = Put(tokens, req[s].t, req[s].subject)
    /\ Becomes(s, Idle)
    /\ UNCHANGED <<users, policies, bindings, startVars, made, asked, crossed, cut>>

\* token_delete_handler: the policy and the binding stay.
DeleteToken(s) ==
    /\ At(s, "idle") /\ Authorised
    /\ \E t \in made : tokens' = Put(tokens, t, None)
    /\ UNCHANGED <<users, policies, bindings, startVars, requestVars>>

-----------------------------------------------------------------------------
(* Users *)

UserOps == {"userPolicy", "userBinding", "user", "dropPolicy", "dropBinding"}
Busy(u) == \E s \in Slots : req[s].op \in UserOps /\ req[s].u = u
Meet(u) == crossed' = IF Busy(u) THEN crossed \cup {u} ELSE crossed

\* user_create_handler: no user of the name is found; then a policy, ...
CreateUser(s) ==
    /\ At(s, "idle") /\ Authorised
    /\ \E u \in Users, grant \in Grant :
         /\ users[u] = None
         /\ Meet(u)
         /\ Becomes(s, [op |-> "userPolicy", u |-> u, grant |-> grant])
    /\ UNCHANGED <<treeVars, startVars, made, asked, cut>>

PutUserPolicy(s) ==
    /\ At(s, "userPolicy")
    /\ policies' = Put(policies, <<"user", req[s].u>>, req[s].grant)
    /\ Becomes(s, [req[s] EXCEPT !.op = "userBinding"])
    /\ UNCHANGED <<users, tokens, bindings, startVars, made, asked, crossed, cut>>

\* ... a binding and the user.
PutUserBinding(s) ==
    /\ At(s, "userBinding")
    /\ bindings' = Put(bindings, <<"user", req[s].u>>, req[s].u)
    /\ Becomes(s, [req[s] EXCEPT !.op = "user"])
    /\ UNCHANGED <<users, tokens, policies, startVars, made, asked, crossed, cut>>

PutUser(s) ==
    /\ At(s, "user")
    /\ users' = Put(users, req[s].u, req[s].grant)
    /\ Becomes(s, Idle)
    /\ UNCHANGED <<tokens, policies, bindings, startVars, made, asked, crossed, cut>>

\* Mutant: the record of the user stays.
DeleteUserKeepsRecord(s) ==
    /\ At(s, "idle") /\ Authorised
    /\ \E u \in Users :
         /\ users[u] # None
         /\ Meet(u)
         /\ Becomes(s, [op |-> "dropPolicy", u |-> u])
    /\ UNCHANGED <<treeVars, startVars, made, asked, cut>>

\* user_delete_handler: the user, ...
DeleteUser(s) ==
    /\ At(s, "idle") /\ Authorised
    /\ \E u \in Users :
         /\ users[u] # None
         /\ users' = Put(users, u, None)
         /\ Meet(u)
         /\ Becomes(s, [op |-> "dropPolicy", u |-> u])
    /\ UNCHANGED <<tokens, policies, bindings, startVars, made, asked, cut>>

\* ... its policy ...
DropUserPolicy(s) ==
    /\ At(s, "dropPolicy")
    /\ policies' = Put(policies, <<"user", req[s].u>>, None)
    /\ Becomes(s, [req[s] EXCEPT !.op = "dropBinding"])
    /\ UNCHANGED <<users, tokens, bindings, startVars, made, asked, crossed, cut>>

\* Mutant: the binding stays.
DropUserBindingNot(s) ==
    /\ At(s, "dropBinding")
    /\ Becomes(s, Idle)
    /\ UNCHANGED <<treeVars, startVars, made, asked, crossed, cut>>

\* ... and its binding.
DropUserBinding(s) ==
    /\ At(s, "dropBinding")
    /\ bindings' = Put(bindings, <<"user", req[s].u>>, None)
    /\ Becomes(s, Idle)
    /\ UNCHANGED <<users, tokens, policies, startVars, made, asked, crossed, cut>>

Cut(slots) == cut' = cut \cup {req[s].u : s \in {r \in slots : req[r].op \in UserOps}}

\* A write to the store fails and the request with it.
Fail(s) ==
    /\ up /\ req[s] # Idle
    /\ Becomes(s, Idle)
    /\ Cut({s})
    /\ UNCHANGED <<treeVars, startVars, made, asked, crossed>>

\* The master is killed and started.
Restart ==
    /\ up \/ start # Started
    /\ up' = FALSE /\ start' = Started
    /\ req' = [s \in Slots |-> Idle]
    /\ Cut(Slots)
    /\ UNCHANGED <<treeVars, legacy, before, made, asked, crossed>>

Step(s) ==
    \/ CreateToken(s) \/ Exchange(s)
    \/ PutPolicy(s) \/ PutBinding(s) \/ PutToken(s) \/ DeleteToken(s)
    \/ CreateUser(s) \/ PutUserPolicy(s) \/ PutUserBinding(s) \/ PutUser(s)
    \/ DeleteUser(s) \/ DropUserPolicy(s) \/ DropUserBinding(s)
    \/ Fail(s)

Migrate(t) ==
    \/ Skip(t) \/ MigrateAgain(t) \/ MigratePolicy(t) \/ MigrateBinding(t) \/ MigrateToken(t)
    \/ PassOver(t) \/ Abandon(t)

Next ==
    \/ \E t \in TokenId : Migrate(t)
    \/ Serve
    \/ \E s \in Slots : Step(s)
    \/ Restart

Spec == Init /\ [][Next]_vars

-----------------------------------------------------------------------------
\* What users_list_handler and tokens_list_handler show.
ListedUsers == {u \in Subjects : users[u] # None}
ListedTokens == {t \in TokenId : tokens[t] # None}

(* user_create_handler, user_delete_handler: a user that exists has the     *)
(* rights its creation asked for and no rest of another creation, also      *)
(* after kills and failed writes at any step, unless two requests for the   *)
(* name ran at once.                                                        *)
UserHasRights ==
    \A u \in ListedUsers \ crossed :
        policies[<<"user", u>>] = users[u] /\ bindings[<<"user", u>>] = u

(* user_delete_handler: a user that was deleted leaves neither policy nor   *)
(* binding, unless its deletion or a creation was cut by a kill or a failed *)
(* write (a user that is not found is not deleted again), or two requests   *)
(* ran at once.                                                             *)
RightsGoWithUser ==
    \A u \in Subjects \ (crossed \cup cut) :
        u \notin ListedUsers /\ ~Busy(u) =>
            policies[<<"user", u>>] = None /\ bindings[<<"user", u>>] = None

(* token_create_handler, token_exchange_handler: a token that can be used   *)
(* has what was asked for it.                                               *)
TokenHasGrant ==
    \A t \in ListedTokens : asked[t] # None => asked[t] \in Rights(tokens[t])

\* Names all of whose older tokens said the same.
Uniform(subject, kind) ==
    /\ \E t \in TokenId : before[t].subject = subject
    /\ \A t \in TokenId : before[t].subject = subject => before[t].kind = kind

\* Nothing has become of a name's older tokens: they were deleted by request,
\* or an error kept this start from them and the next one will find them.
Untouched(subject) ==
    \A t \in TokenId : before[t].subject = subject =>
        legacy[t] # None /\ (tokens[t] # None => start.failed)

(* migrate_rbac_v1_to_v2: when the master serves, the owner of tokens of    *)
(* the older version has the rights these gave, however often the migration *)
(* was cut by a kill or ended by an error and begun again; but for owners   *)
(* all of whose tokens still carry theirs, because of an error.             *)
MigrationKeepsRights ==
    up => \A subject \in Subjects, kind \in Kind :
              Uniform(subject, kind) =>
                  Granted(kind) \in Rights(subject) \/ Untouched(subject)

-----------------------------------------------------------------------------
(* The strengthening of these invariants.  Tokens: each is made by one      *)
(* request, which writes it last.                                           *)
TokenOps == {"policy", "binding", "token"}
TokensApart ==
    \A s, r \in Slots :
        req[s].op \in TokenOps /\ req[r].op \in TokenOps /\ req[s].t = req[r].t => s = r
TokensInMaking ==
    \A s \in Slots : req[s].op \in TokenOps =>
        /\ req[s].t \in made /\ tokens[req[s].t] = None
        /\ asked[req[s].t] = req[s].grant
        /\ req[s].op # "policy" => policies[<<"token", req[s].t>>] = req[s].grant
        /\ req[s].op = "token" => bindings[<<"token", req[s].t>>] = req[s].subject
TokensComplete ==
    \A t \in TokenId :
        /\ t \notin made => tokens[t] = None
        /\ tokens[t] # None /\ asked[t] # None =>
              policies[<<"token", t>>] = asked[t] /\ bindings[<<"token", t>>] = tokens[t]

TokenInv == TokensApart /\ TokensInMaking /\ TokensComplete

\* Users: of a name that is not crossed one request works on it, and its
\* record is written after its rights and removed before them.
UsersApart ==
    \A s, r \in Slots :
        /\ s # r /\ req[s].op \in UserOps /\ req[r].op \in UserOps
        /\ req[s].u = req[r].u
        => req[s].u \in crossed
UsersInMaking ==
    \A s \in Slots : req[s].op \in UserOps /\ req[s].u \notin crossed =>
        /\ users[req[s].u] = None
        /\ req[s].op \in {"userBinding", "user"} =>
              policies[<<"user", req[s].u>>] = req[s].grant
        /\ req[s].op = "user" => bindings[<<"user", req[s].u>>] = req[s].u
        /\ req[s].op = "dropBinding" => policies[<<"user", req[s].u>>] = None

UserInv == UsersApart /\ UsersInMaking /\ UserHasRights /\ RightsGoWithUser

\* The migration: the tokens before the one it is at are rewritten, unless
\* something failed, and what an owner's tokens gave is in place when one of
\* them is.
LegacyKept ==
    \A t \in TokenId : legacy[t] # None =>
        before[t].kind = legacy[t] /\ tokens[t] \in {before[t].subject, None}
LegacyMade ==
    \A t \in TokenId : legacy[t] # None =>
        t \in made /\ \A s \in Slots : req[s].op \in TokenOps => req[s].t # t
Walked ==
    start.failed \/ \A t \in TokenId : up \/ t < start.at => ~Carries(t)
WalkedSteps ==
    /\ up => start.step = "policy" /\ start.seen = {}
    /\ start.step # "policy" =>
        /\ start.at \in TokenId /\ Carries(start.at)
        /\ policies[<<"legacy", tokens[start.at]>>] = Granted(legacy[start.at])
        /\ start.step = "token" =>
              bindings[<<"legacy", tokens[start.at]>>] = tokens[start.at]
RightsMoved ==
    \A subject \in Subjects, kind \in Kind : Uniform(subject, kind) =>
        /\ \A t \in TokenId : before[t].subject = subject /\ legacy[t] = None =>
              /\ policies[<<"legacy", subject>>] = Granted(kind)
              /\ bindings[<<"legacy", subject>>] = subject
        /\ subject \in start.seen =>
              /\ policies[<<"legacy", subject>>] = Granted(kind)
              /\ \/ bindings[<<"legacy", subject>>] = subject
                 \/ start.step = "binding" /\ tokens[start.at] = subject

MigrationInv == LegacyKept /\ LegacyMade /\ Walked /\ WalkedSteps /\ RightsMoved
=============================================================================
