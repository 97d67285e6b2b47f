---------------------------- MODULE Rbac_proofs ----------------------------
(* Theorems about Rbac: types, what tokens and users have, what a deleted   *)
(* user leaves, and that the migration keeps rights.                        *)
EXTENDS Rbac, TLAPS

Requests == Request \cup {Idle}
GrantOps == {"userPolicy", "userBinding", "user"}
DropOps == {"dropPolicy", "dropBinding"}

(* What a request in progress has, by its stage.                            *)
LEMMA TokenRequest ==
  ASSUME TypeOK, NEW s \in Slots, req[s].op \in TokenOps
  PROVE  req[s] \in [op : TokenOps, t : TokenId, subject : Subjects, grant : Grant]
BY DEF TypeOK, Request, Idle, TokenOps

LEMMA GrantRequest ==
  ASSUME TypeOK, NEW s \in Slots, req[s].op \in GrantOps
  PROVE  req[s] \in [op : GrantOps, u : Subjects, grant : Grant]
BY DEF TypeOK, Request, Idle, GrantOps

LEMMA DropRequest ==
  ASSUME TypeOK, NEW s \in Slots, req[s].op \in DropOps
  PROVE  req[s] \in [op : DropOps, u : Subjects]
BY DEF TypeOK, Request, Idle, DropOps

LEMMA UserRequest ==
  ASSUME TypeOK, NEW s \in Slots, req[s].op \in UserOps
  PROVE  req[s].u \in Subjects
BY DEF TypeOK, Request, Idle, UserOps

(* A slot takes a request, the others keep theirs.                          *)
LEMMA BecomesSlots ==
  ASSUME TypeOK, NEW s \in Slots, NEW r, Becomes(s, r)
  PROVE  req'[s] = r /\ \A w \in Slots : w # s => req'[w] = req[w]
BY DEF TypeOK, Becomes

LEMMA BecomesType ==
  ASSUME TypeOK, NEW s \in Slots, NEW r \in Requests, Becomes(s, r)
  PROVE  req' \in [Slots -> Requests]
BY DEF TypeOK, Becomes, Requests

(* The ids of policies and bindings.                                        *)
LEMMA TokenIds == \A t \in TokenId : <<"token", t>> \in Id
BY DEF Id

LEMMA UserIds == \A u \in Subjects : <<"user", u>> \in Id /\ <<"legacy", u>> \in Id
BY DEF Id

-----------------------------------------------------------------------------
(* Types *)

TreeTypes ==
    /\ users' \in [Subjects -> Grant \cup {None}]
    /\ tokens' \in [TokenId -> Subjects \cup {None}]
    /\ policies' \in [Id -> Grant \cup {None}]
    /\ bindings' \in [Id -> Subjects \cup {None}]
HistoryTypes ==
    /\ made' \subseteq TokenId
    /\ asked' \in [TokenId -> Grant \cup {None}]
    /\ crossed' \subseteq Subjects /\ cut' \subseteq Subjects
StartTypes ==
    /\ legacy' \in [TokenId -> Kind \cup {None}]
    /\ start' \in [at : 1 .. MaxTokens + 1, step : {"policy", "binding", "token"},
                   seen : SUBSET (Subjects \cup {None}), failed : BOOLEAN]
    /\ up' \in BOOLEAN
    /\ before' \in [TokenId -> Legacy \cup {NoLegacy}]

LEMMA Types ==
  ASSUME TreeTypes, HistoryTypes, StartTypes, req' \in [Slots -> Requests]
  PROVE  TypeOK'
BY DEF TypeOK, TreeTypes, HistoryTypes, StartTypes, Requests

LEMMA TreeKept == TypeOK /\ UNCHANGED treeVars => TreeTypes
BY DEF TypeOK, TreeTypes, treeVars

LEMMA StartKept == TypeOK /\ UNCHANGED startVars => StartTypes
BY DEF TypeOK, StartTypes, startVars

LEMMA HistoryKept == TypeOK /\ UNCHANGED <<made, asked, crossed, cut>> => HistoryTypes
BY DEF TypeOK, HistoryTypes

LEMMA InitType == Init => TypeOK
<1> SUFFICES ASSUME Init PROVE TypeOK
  OBVIOUS
<1>1. PICK n \in 0 .. MaxLegacy :
        /\ before \in [TokenId -> Legacy \cup {NoLegacy}]
        /\ made = 1 .. n
  BY DEF Init
<1>2. made \subseteq TokenId
  BY <1>1, RbacAssumption DEF TokenId
<1>3. tokens \in [TokenId -> Subjects \cup {None}]
  BY <1>1 DEF Init, Legacy, NoLegacy
<1>4. legacy \in [TokenId -> Kind \cup {None}]
  <2>1. \A t \in TokenId : before[t] # NoLegacy => before[t].kind \in Kind
    BY <1>1 DEF Legacy
  <2>2. QED
    BY <2>1 DEF Init
<1>5. start \in [at : 1 .. MaxTokens + 1, step : {"policy", "binding", "token"},
                 seen : SUBSET (Subjects \cup {None}), failed : BOOLEAN]
  BY RbacAssumption DEF Init, Started
<1>6. QED
  BY <1>1, <1>2, <1>3, <1>4, <1>5 DEF Init, TypeOK

LEMMA StartedType ==
  Started \in [at : 1 .. MaxTokens + 1, step : {"policy", "binding", "token"},
               seen : SUBSET (Subjects \cup {None}), failed : BOOLEAN]
BY RbacAssumption DEF Started

LEMMA WalkType ==
  ASSUME TypeOK, NEW t \in TokenId, start.at = t
  PROVE  /\ start.at + 1 \in 1 .. MaxTokens + 1
         /\ NextToken \in [at : 1 .. MaxTokens + 1, step : {"policy", "binding", "token"},
                           seen : SUBSET (Subjects \cup {None}), failed : BOOLEAN]
<1>1. start \in [at : 1 .. MaxTokens + 1, step : {"policy", "binding", "token"},
                 seen : SUBSET (Subjects \cup {None}), failed : BOOLEAN]
  BY DEF TypeOK
<1>2. start.at = t /\ t \in Nat /\ t >= 1 /\ t <= MaxTokens
  BY RbacAssumption DEF TokenId
<1>3. start.at + 1 \in 1 .. MaxTokens + 1
  BY <1>2, RbacAssumption
<1>4. QED
  BY <1>1, <1>3 DEF NextToken

LEMMA GrantedType == \A kind \in Kind : Granted(kind) \in Grant
BY DEF Granted, Kind, Grant

LEMMA MigrateType ==
  ASSUME TypeOK, NEW t \in TokenId, Migrate(t)
  PROVE  TypeOK'
<1>1. HistoryTypes /\ req' \in [Slots -> Requests]
  <2>1. UNCHANGED requestVars
    BY DEF Migrate, Skip, MigrateAgain, MigratePolicy, MigrateBinding, MigrateToken, PassOver,
       Abandon
  <2>2. QED
    BY <2>1, HistoryKept DEF requestVars, TypeOK, Requests
<1>2. start.at = t
  BY DEF Migrate, Skip, MigrateAgain, MigratePolicy, MigrateBinding, MigrateToken, PassOver, Abandon, Walking
<1>3. NextToken \in [at : 1 .. MaxTokens + 1, step : {"policy", "binding", "token"},
                     seen : SUBSET (Subjects \cup {None}), failed : BOOLEAN]
  BY <1>2, WalkType
<1>4. /\ legacy \in [TokenId -> Kind \cup {None}]
      /\ start \in [at : 1 .. MaxTokens + 1, step : {"policy", "binding", "token"},
                    seen : SUBSET (Subjects \cup {None}), failed : BOOLEAN]
      /\ up \in BOOLEAN
      /\ before \in [TokenId -> Legacy \cup {NoLegacy}]
      /\ users \in [Subjects -> Grant \cup {None}]
      /\ tokens \in [TokenId -> Subjects \cup {None}]
      /\ policies \in [Id -> Grant \cup {None}]
      /\ bindings \in [Id -> Subjects \cup {None}]
  BY DEF TypeOK
<1>5. CASE Skip(t)
  BY <1>1, <1>3, <1>4, <1>5, Types DEF Skip, Walk, StartTypes, TreeTypes
<1>6. CASE MigrateAgain(t)
  BY <1>1, <1>3, <1>4, <1>6, Types DEF MigrateAgain, Walk, StartTypes, TreeTypes, Put
<1>7. CASE MigratePolicy(t)
  <2>1. legacy[t] \in Kind
    BY <1>4, <1>7 DEF MigratePolicy, Carries
  <2>2. Granted(legacy[t]) \in Grant
    BY <2>1, GrantedType
  <2>3. policies' \in [Id -> Grant \cup {None}]
    BY <1>4, <1>7, <2>2 DEF MigratePolicy, Put
  <2>4. start' \in [at : 1 .. MaxTokens + 1, step : {"policy", "binding", "token"},
                    seen : SUBSET (Subjects \cup {None}), failed : BOOLEAN]
    <3>1. \E seen \in {start.seen, start.seen \cup {tokens[t]}} :
            start' = [start EXCEPT !.step = "binding", !.seen = seen]
      BY <1>7 DEF MigratePolicy, Walk
    <3>2. tokens[t] \in Subjects \cup {None}
      BY <1>4
    <3>3. start.seen \cup {tokens[t]} \subseteq Subjects \cup {None}
      BY <1>4, <3>2
    <3>4. PICK seen \in SUBSET (Subjects \cup {None}) :
            start' = [start EXCEPT !.step = "binding", !.seen = seen]
      BY <1>4, <3>1, <3>3
    <3>5. start \in [at : 1 .. MaxTokens + 1, step : {"policy", "binding", "token"},
                     seen : SUBSET (Subjects \cup {None}), failed : BOOLEAN]
      BY <1>4
    <3>6. QED
      BY <3>4, <3>5
  <2>5. UNCHANGED <<users, tokens, legacy, bindings, up, before>>
    BY <1>7 DEF MigratePolicy
  <2>6. StartTypes /\ TreeTypes
    BY <1>4, <2>3, <2>4, <2>5 DEF StartTypes, TreeTypes
  <2>7. QED
    BY <1>1, <2>6, Types
<1>8. CASE MigrateBinding(t)
  BY <1>1, <1>4, <1>8, Types DEF MigrateBinding, Walk, StartTypes, TreeTypes, Put
<1>9. CASE MigrateToken(t)
  BY <1>1, <1>3, <1>4, <1>9, Types DEF MigrateToken, Walk, StartTypes, TreeTypes, Put
<1>10. CASE PassOver(t)
  BY <1>1, <1>3, <1>4, <1>10, Types DEF PassOver, Walk, StartTypes, TreeTypes
<1>11. CASE Abandon(t)
  BY <1>1, <1>4, <1>11, StartedType, Types DEF Abandon, Walk, StartTypes, TreeTypes
<1>12. QED
  BY <1>5, <1>6, <1>7, <1>8, <1>9, <1>10, <1>11 DEF Migrate

LEMMA BeginTokenType ==
  ASSUME TypeOK, NEW s \in Slots, NEW subject \in Subjects, NEW grant \in Grant,
         BeginToken(s, subject, grant), UNCHANGED <<treeVars, startVars, crossed, cut>>
  PROVE  TypeOK'
<1>1. PICK t \in TokenId \ made :
        /\ made' = made \cup {t}
        /\ asked' = Put(asked, t, grant)
        /\ Becomes(s, [op |-> "policy", t |-> t, subject |-> subject, grant |-> grant])
  BY DEF BeginToken
<1>2. [op |-> "policy", t |-> t, subject |-> subject, grant |-> grant] \in Requests
  BY DEF Requests, Request
<1>3. HistoryTypes
  BY <1>1 DEF TypeOK, HistoryTypes, Put
<1>4. QED
  BY <1>1, <1>2, <1>3, TreeKept, StartKept, BecomesType, Types

LEMMA StepType ==
  ASSUME TypeOK, NEW s \in Slots, Step(s)
  PROVE  TypeOK'
<1>1. /\ users \in [Subjects -> Grant \cup {None}]
      /\ tokens \in [TokenId -> Subjects \cup {None}]
      /\ policies \in [Id -> Grant \cup {None}]
      /\ bindings \in [Id -> Subjects \cup {None}]
      /\ made \subseteq TokenId
      /\ asked \in [TokenId -> Grant \cup {None}]
      /\ crossed \subseteq Subjects /\ cut \subseteq Subjects
      /\ req \in [Slots -> Requests]
  BY DEF TypeOK, Requests
<1>2. StartTypes
  <2>1. UNCHANGED startVars
    BY DEF Step, CreateToken, Exchange, PutPolicy, PutBinding, PutToken, DeleteToken,
       CreateUser, PutUserPolicy, PutUserBinding, PutUser, DeleteUser, DropUserPolicy,
       DropUserBinding, Fail
  <2>2. QED
    BY <2>1, StartKept
<1>3. Idle \in Requests
  BY DEF Requests
<1>4. CASE CreateToken(s)
  BY <1>4, BeginTokenType DEF CreateToken
<1>5. CASE Exchange(s)
  BY <1>5, BeginTokenType, RbacAssumption DEF Exchange, Grant
<1>6. CASE PutPolicy(s)
  <2>1. req[s] \in [op : TokenOps, t : TokenId, subject : Subjects, grant : Grant]
    BY <1>6, TokenRequest DEF PutPolicy, At, TokenOps
  <2>2. [req[s] EXCEPT !.op = "binding"]
           \in [op : {"policy", "binding", "token"}, t : TokenId, subject : Subjects,
               grant : Grant]
    BY <2>1 DEF TokenOps
  <2>3. [req[s] EXCEPT !.op = "binding"] \in Requests
    BY <2>2 DEF Requests, Request
  <2>4. TreeTypes
    BY <1>1, <1>6, <2>1 DEF PutPolicy, TreeTypes, Put
  <2>5. QED
    BY <1>2, <1>6, <2>3, <2>4, HistoryKept, BecomesType, Types DEF PutPolicy
<1>7. CASE PutBinding(s)
  <2>1. req[s] \in [op : TokenOps, t : TokenId, subject : Subjects, grant : Grant]
    BY <1>7, TokenRequest DEF PutBinding, At, TokenOps
  <2>2. [req[s] EXCEPT !.op = "token"]
           \in [op : {"policy", "binding", "token"}, t : TokenId, subject : Subjects,
               grant : Grant]
    BY <2>1 DEF TokenOps
  <2>3. [req[s] EXCEPT !.op = "token"] \in Requests
    BY <2>2 DEF Requests, Request
  <2>4. TreeTypes
    BY <1>1, <1>7, <2>1 DEF PutBinding, TreeTypes, Put
  <2>5. QED
    BY <1>2, <1>7, <2>3, <2>4, HistoryKept, BecomesType, Types DEF PutBinding
<1>8. CASE PutToken(s)
  <2>1. req[s] \in [op : TokenOps, t : TokenId, subject : Subjects, grant : Grant]
    BY <1>8, TokenRequest DEF PutToken, At, TokenOps
  <2>2. TreeTypes
    BY <1>1, <1>8, <2>1 DEF PutToken, TreeTypes, Put
  <2>3. QED
    BY <1>2, <1>3, <1>8, <2>2, HistoryKept, BecomesType, Types DEF PutToken
<1>9. CASE DeleteToken(s)
  <2>1. TreeTypes
    BY <1>1, <1>9 DEF DeleteToken, TreeTypes, Put
  <2>2. QED
    BY <1>1, <1>2, <1>9, <2>1, HistoryKept, Types DEF DeleteToken, requestVars
<1>10. CASE CreateUser(s)
  <2>1. PICK u \in Users, grant \in Grant :
          Meet(u) /\ Becomes(s, [op |-> "userPolicy", u |-> u, grant |-> grant])
    BY <1>10 DEF CreateUser
  <2>2. u \in Subjects
    BY RbacAssumption
  <2>3. [op |-> "userPolicy", u |-> u, grant |-> grant] \in Requests
    BY <2>2 DEF Requests, Request
  <2>4. HistoryTypes
    BY <1>1, <1>10, <2>1, <2>2 DEF CreateUser, HistoryTypes, Meet
  <2>5. TreeTypes
    BY <1>10, TreeKept DEF CreateUser
  <2>6. QED
    BY <1>2, <2>1, <2>3, <2>4, <2>5, BecomesType, Types
<1>11. CASE PutUserPolicy(s)
  <2>1. req[s] \in [op : GrantOps, u : Subjects, grant : Grant]
    BY <1>11, GrantRequest DEF PutUserPolicy, At, GrantOps
  <2>2. [req[s] EXCEPT !.op = "userBinding"]
           \in [op : {"userPolicy", "userBinding", "user"}, u : Subjects, grant : Grant]
    BY <2>1 DEF GrantOps
  <2>3. [req[s] EXCEPT !.op = "userBinding"] \in Requests
    BY <2>2 DEF Requests, Request
  <2>4. TreeTypes
    BY <1>1, <1>11, <2>1 DEF PutUserPolicy, TreeTypes, Put
  <2>5. QED
    BY <1>2, <1>11, <2>3, <2>4, HistoryKept, BecomesType, Types DEF PutUserPolicy
<1>12. CASE PutUserBinding(s)
  <2>1. req[s] \in [op : GrantOps, u : Subjects, grant : Grant]
    BY <1>12, GrantRequest DEF PutUserBinding, At, GrantOps
  <2>2. [req[s] EXCEPT !.op = "user"]
           \in [op : {"userPolicy", "userBinding", "user"}, u : Subjects, grant : Grant]
    BY <2>1 DEF GrantOps
  <2>3. [req[s] EXCEPT !.op = "user"] \in Requests
    BY <2>2 DEF Requests, Request
  <2>4. TreeTypes
    BY <1>1, <1>12, <2>1 DEF PutUserBinding, TreeTypes, Put
  <2>5. QED
    BY <1>2, <1>12, <2>3, <2>4, HistoryKept, BecomesType, Types DEF PutUserBinding
<1>13. CASE PutUser(s)
  <2>1. req[s] \in [op : GrantOps, u : Subjects, grant : Grant]
    BY <1>13, GrantRequest DEF PutUser, At, GrantOps
  <2>2. TreeTypes
    BY <1>1, <1>13, <2>1 DEF PutUser, TreeTypes, Put
  <2>3. QED
    BY <1>2, <1>3, <1>13, <2>2, HistoryKept, BecomesType, Types DEF PutUser
<1>14. CASE DeleteUser(s)
  <2>1. PICK u \in Users : /\ users' = Put(users, u, None) /\ Meet(u)
                           /\ Becomes(s, [op |-> "dropPolicy", u |-> u])
    BY <1>14 DEF DeleteUser
  <2>2. u \in Subjects
    BY RbacAssumption
  <2>3. [op |-> "dropPolicy", u |-> u] \in Requests
    BY <2>2 DEF Requests, Request
  <2>4. HistoryTypes /\ TreeTypes
    BY <1>1, <1>14, <2>1, <2>2 DEF DeleteUser, HistoryTypes, TreeTypes, Meet, Put
  <2>5. QED
    BY <1>2, <2>1, <2>3, <2>4, BecomesType, Types
<1>15. CASE DropUserPolicy(s)
  <2>1. req[s] \in [op : DropOps, u : Subjects]
    BY <1>15, DropRequest DEF DropUserPolicy, At, DropOps
  <2>2. [req[s] EXCEPT !.op = "dropBinding"]
           \in [op : {"dropPolicy", "dropBinding"}, u : Subjects]
    BY <2>1 DEF DropOps
  <2>3. [req[s] EXCEPT !.op = "dropBinding"] \in Requests
    BY <2>2 DEF Requests, Request
  <2>4. TreeTypes
    BY <1>1, <1>15, <2>1 DEF DropUserPolicy, TreeTypes, Put
  <2>5. QED
    BY <1>2, <1>15, <2>3, <2>4, HistoryKept, BecomesType, Types DEF DropUserPolicy
<1>16. CASE DropUserBinding(s)
  <2>1. TreeTypes
    BY <1>1, <1>16 DEF DropUserBinding, TreeTypes, Put
  <2>2. QED
    BY <1>2, <1>3, <1>16, <2>1, HistoryKept, BecomesType, Types DEF DropUserBinding
<1>17. CASE Fail(s)
  <2>1. cut' \subseteq Subjects
    BY <1>1, <1>17, UserRequest DEF Fail, Cut
  <2>2. HistoryTypes
    BY <1>1, <1>17, <2>1 DEF Fail, HistoryTypes
  <2>3. QED
    BY <1>2, <1>3, <1>17, <2>2, TreeKept, BecomesType, Types DEF Fail
<1>18. QED
  BY <1>4, <1>5, <1>6, <1>7, <1>8, <1>9, <1>10, <1>11, <1>12, <1>13, <1>14, <1>15, <1>16,
     <1>17 DEF Step

LEMMA RestartType ==
  ASSUME TypeOK, Restart
  PROVE  TypeOK'
<1>1. Started \in [at : 1 .. MaxTokens + 1, step : {"policy", "binding", "token"},
                   seen : SUBSET (Subjects \cup {None}), failed : BOOLEAN]
  BY RbacAssumption DEF Started
<1>2. cut' \subseteq Subjects
  BY UserRequest DEF Restart, Cut, TypeOK
<1>3. QED
  BY <1>1, <1>2 DEF Restart, TypeOK, treeVars

(* The state of Rbac has its types in every behaviour of the program.       *)
THEOREM TypeCorrect == Spec => []TypeOK
<1>1. TypeOK /\ [Next]_vars => TypeOK'
  <2> SUFFICES ASSUME TypeOK, [Next]_vars PROVE TypeOK'
    OBVIOUS
  <2>1. CASE UNCHANGED vars
    BY <2>1 DEF vars, TypeOK
  <2>2. CASE Serve
    BY <2>2, StartedType DEF Serve, Walk, TypeOK, requestVars
  <2>3. QED
    BY <2>1, <2>2, MigrateType, StepType, RestartType DEF Next
<1>2. QED
  BY InitType, <1>1, PTL DEF Spec

-----------------------------------------------------------------------------
(* Tokens: what leaves their writes alone.                                  *)
LEMMA TokenFrame ==
  ASSUME TypeOK, TokenInv, UNCHANGED <<made, asked>>,
         \A t \in TokenId :
            /\ tokens'[t] \in {tokens[t], None}
            /\ policies'[<<"token", t>>] = policies[<<"token", t>>]
            /\ bindings'[<<"token", t>>] = bindings[<<"token", t>>],
         \A s \in Slots : req'[s] = req[s] \/ req'[s].op \notin TokenOps
  PROVE  TokenInv'
<1>1. \A s \in Slots : req'[s].op \in TokenOps =>
                        req'[s] = req[s] /\ req[s].op \in TokenOps /\ req[s].t \in TokenId
  BY TokenRequest
<1>2. TokensApart'
  BY <1>1 DEF TokenInv, TokensApart
<1>3. TokensInMaking'
  BY <1>1 DEF TokenInv, TokensInMaking
<1>4. TokensComplete'
  BY DEF TokenInv, TokensComplete
<1>5. QED
  BY <1>2, <1>3, <1>4 DEF TokenInv

LEMMA BeginTokenTokens ==
  ASSUME TypeOK, TokenInv, NEW s \in Slots, NEW subject \in Subjects, NEW grant \in Grant,
         BeginToken(s, subject, grant), UNCHANGED treeVars
  PROVE  TokenInv'
<1>1. PICK t \in TokenId \ made :
        /\ made' = made \cup {t}
        /\ asked' = Put(asked, t, grant)
        /\ Becomes(s, [op |-> "policy", t |-> t, subject |-> subject, grant |-> grant])
  BY DEF BeginToken
<1> DEFINE new == [op |-> "policy", t |-> t, subject |-> subject, grant |-> grant]
<1>2. req'[s] = new /\ \A w \in Slots : w # s => req'[w] = req[w]
  BY <1>1, BecomesSlots
<1>3. new.op = "policy" /\ new.t = t /\ new.grant = grant
  OBVIOUS
<1> HIDE DEF new
<1>4. \A w \in Slots : req[w].op \in TokenOps => req[w].t \in made /\ req[w].t # t
  BY <1>1 DEF TokenInv, TokensInMaking
<1>5. tokens[t] = None
  BY <1>1 DEF TokenInv, TokensComplete
<1>6. asked'[t] = grant /\ \A v \in TokenId : v # t => asked'[v] = asked[v]
  BY <1>1 DEF TypeOK, Put
<1>7. TokensApart'
  BY <1>2, <1>3, <1>4 DEF TokenInv, TokensApart
<1>8. TokensInMaking'
  <2>1. SUFFICES ASSUME NEW w \in Slots, req'[w].op \in TokenOps
                 PROVE  /\ req'[w].t \in made' /\ tokens'[req'[w].t] = None
                        /\ asked'[req'[w].t] = req'[w].grant
                        /\ req'[w].op # "policy" =>
                              policies'[<<"token", req'[w].t>>] = req'[w].grant
                        /\ req'[w].op = "token" =>
                              bindings'[<<"token", req'[w].t>>] = req'[w].subject
    BY DEF TokensInMaking
  <2>2. CASE w = s
    BY <1>1, <1>2, <1>3, <1>5, <1>6, <2>2 DEF treeVars
  <2>3. CASE w # s
    <3>1. req'[w] = req[w] /\ req[w].t \in TokenId /\ req[w].t # t
      BY <1>2, <1>4, <2>1, <2>3, TokenRequest
    <3>2. QED
      BY <1>1, <1>6, <2>1, <3>1 DEF TokenInv, TokensInMaking, treeVars
  <2>4. QED
    BY <2>2, <2>3
<1>9. TokensComplete'
  BY <1>1, <1>5, <1>6 DEF TokenInv, TokensComplete, treeVars
<1>10. QED
  BY <1>7, <1>8, <1>9 DEF TokenInv

(* A write of a request that makes a token is the only one to that token.   *)
LEMMA TokenWrite ==
  ASSUME TypeOK, TokenInv, NEW s \in Slots, req[s].op \in TokenOps,
         UNCHANGED <<made, asked>>,
         NEW op, req'[s] = [req[s] EXCEPT !.op = op] \/ req'[s] = Idle,
         \A w \in Slots : w # s => req'[w] = req[w],
         \A t \in TokenId : t # req[s].t =>
            /\ tokens'[t] = tokens[t]
            /\ policies'[<<"token", t>>] = policies[<<"token", t>>]
            /\ bindings'[<<"token", t>>] = bindings[<<"token", t>>],
         req'[s].op \in TokenOps =>
            /\ tokens'[req[s].t] = None
            /\ req'[s].op # "policy" => policies'[<<"token", req[s].t>>] = req[s].grant
            /\ req'[s].op = "token" => bindings'[<<"token", req[s].t>>] = req[s].subject,
         tokens'[req[s].t] # None =>
            /\ policies'[<<"token", req[s].t>>] = req[s].grant
            /\ bindings'[<<"token", req[s].t>>] = tokens'[req[s].t]
  PROVE  TokenInv'
<1> DEFINE t == req[s].t
           g == req[s].grant
           sub == req[s].subject
<1>1. t \in TokenId /\ t \in made /\ asked[t] = g
  BY TokenRequest DEF TokenInv, TokensInMaking
<1>2. req'[s].op \in TokenOps => req'[s].t = t /\ req'[s].grant = g /\ req'[s].subject = sub
  BY TokenRequest DEF Idle, TokenOps
<1>3. \A w \in Slots : w # s /\ req[w].op \in TokenOps => req[w].t \in TokenId /\ req[w].t # t
  BY TokenRequest DEF TokenInv, TokensApart
<1>4. TokensApart'
  BY <1>2, <1>3 DEF TokenInv, TokensApart
<1>5. TokensInMaking'
  <2>1. SUFFICES ASSUME NEW w \in Slots, req'[w].op \in TokenOps
                 PROVE  /\ req'[w].t \in made' /\ tokens'[req'[w].t] = None
                        /\ asked'[req'[w].t] = req'[w].grant
                        /\ req'[w].op # "policy" =>
                              policies'[<<"token", req'[w].t>>] = req'[w].grant
                        /\ req'[w].op = "token" =>
                              bindings'[<<"token", req'[w].t>>] = req'[w].subject
    BY DEF TokensInMaking
  <2>2. CASE w = s
    BY <1>1, <1>2, <2>1, <2>2
  <2>3. CASE w # s
    <3>1. req'[w] = req[w] /\ req[w].t \in TokenId /\ req[w].t # t
      BY <1>3, <2>1, <2>3
    <3>2. QED
      BY <2>1, <3>1 DEF TokenInv, TokensInMaking
  <2>4. QED
    BY <2>2, <2>3
<1>6. TokensComplete'
  BY <1>1 DEF TokenInv, TokensComplete
<1>7. QED
  BY <1>4, <1>5, <1>6 DEF TokenInv

LEMMA PutPolicyTokens ==
  ASSUME TypeOK, TokenInv, NEW s \in Slots, PutPolicy(s)
  PROVE  TokenInv'
<1>1. req[s] \in [op : TokenOps, t : TokenId, subject : Subjects, grant : Grant]
      /\ req[s].op = "policy"
  BY TokenRequest DEF PutPolicy, At, TokenOps
<1>2. /\ req'[s] = [req[s] EXCEPT !.op = "binding"]
      /\ \A w \in Slots : w # s => req'[w] = req[w]
  BY BecomesSlots DEF PutPolicy
<1>3. req'[s].op = "binding"
  BY <1>1, <1>2
<1>4. tokens[req[s].t] = None
  BY <1>1 DEF TokenInv, TokensInMaking, TokenOps
<1>5. /\ policies'[<<"token", req[s].t>>] = req[s].grant
      /\ \A t \in TokenId : t # req[s].t =>
            policies'[<<"token", t>>] = policies[<<"token", t>>]
  BY <1>1, TokenIds DEF PutPolicy, Put, TypeOK
<1>6. UNCHANGED <<made, asked, tokens, bindings>>
  BY DEF PutPolicy
<1>7. QED
  BY <1>1, <1>2, <1>3, <1>4, <1>5, <1>6, TokenWrite

LEMMA PutBindingTokens ==
  ASSUME TypeOK, TokenInv, NEW s \in Slots, PutBinding(s)
  PROVE  TokenInv'
<1>1. req[s] \in [op : TokenOps, t : TokenId, subject : Subjects, grant : Grant]
      /\ req[s].op = "binding"
  BY TokenRequest DEF PutBinding, At, TokenOps
<1>2. /\ req'[s] = [req[s] EXCEPT !.op = "token"]
      /\ \A w \in Slots : w # s => req'[w] = req[w]
  BY BecomesSlots DEF PutBinding
<1>3. req'[s].op = "token"
  BY <1>1, <1>2
<1>4. tokens[req[s].t] = None /\ policies[<<"token", req[s].t>>] = req[s].grant
  BY <1>1 DEF TokenInv, TokensInMaking, TokenOps
<1>5. /\ bindings'[<<"token", req[s].t>>] = req[s].subject
      /\ \A t \in TokenId : t # req[s].t =>
            bindings'[<<"token", t>>] = bindings[<<"token", t>>]
  BY <1>1, TokenIds DEF PutBinding, Put, TypeOK
<1>6. UNCHANGED <<made, asked, tokens, policies>>
  BY DEF PutBinding
<1>7. QED
  BY <1>1, <1>2, <1>3, <1>4, <1>5, <1>6, TokenWrite

LEMMA PutTokenTokens ==
  ASSUME TypeOK, TokenInv, NEW s \in Slots, PutToken(s)
  PROVE  TokenInv'
<1>1. req[s] \in [op : TokenOps, t : TokenId, subject : Subjects, grant : Grant]
      /\ req[s].op = "token"
  BY TokenRequest DEF PutToken, At, TokenOps
<1>2. /\ req'[s] = Idle
      /\ \A w \in Slots : w # s => req'[w] = req[w]
  BY BecomesSlots DEF PutToken
<1>3. req'[s].op \notin TokenOps
  BY <1>2 DEF Idle, TokenOps
<1>4. /\ policies[<<"token", req[s].t>>] = req[s].grant
      /\ bindings[<<"token", req[s].t>>] = req[s].subject
  BY <1>1 DEF TokenInv, TokensInMaking, TokenOps
<1>5. /\ tokens'[req[s].t] = req[s].subject
      /\ \A t \in TokenId : t # req[s].t => tokens'[t] = tokens[t]
  BY <1>1 DEF PutToken, Put, TypeOK
<1>6. UNCHANGED <<made, asked, policies, bindings>>
  BY DEF PutToken
<1>7. QED
  BY <1>1, <1>2, <1>3, <1>4, <1>5, <1>6, TokenWrite

(* Writes of policies and bindings of users and of older tokens.            *)
LEMMA OtherIds ==
  ASSUME TypeOK, NEW u, NEW v, NEW kind \in {"user", "legacy"},
         policies' = Put(policies, <<kind, u>>, v) \/ policies' = policies,
         NEW w, bindings' = Put(bindings, <<kind, u>>, w) \/ bindings' = bindings
  PROVE  \A t \in TokenId :
            /\ policies'[<<"token", t>>] = policies[<<"token", t>>]
            /\ bindings'[<<"token", t>>] = bindings[<<"token", t>>]
BY TokenIds DEF TypeOK, Put

LEMMA UserStepSlots ==
  ASSUME TypeOK, NEW s \in Slots,
         \/ DeleteToken(s) \/ CreateUser(s) \/ PutUserPolicy(s) \/ PutUserBinding(s)
         \/ PutUser(s) \/ DeleteUser(s) \/ DropUserPolicy(s) \/ DropUserBinding(s)
         \/ Fail(s)
  PROVE  \A w \in Slots : req'[w] = req[w] \/ req'[w].op \notin TokenOps
<1>1. CASE DeleteToken(s)
  BY <1>1 DEF DeleteToken, requestVars
<1>2. CASE CreateUser(s) \/ DeleteUser(s)
  <2>1. \E u, grant : \/ Becomes(s, [op |-> "userPolicy", u |-> u, grant |-> grant])
                      \/ Becomes(s, [op |-> "dropPolicy", u |-> u])
    BY <1>2 DEF CreateUser, DeleteUser
  <2>2. QED
    BY <2>1, BecomesSlots DEF TokenOps
<1>3. CASE PutUser(s) \/ DropUserBinding(s) \/ Fail(s)
  BY <1>3, BecomesSlots DEF PutUser, DropUserBinding, Fail, Idle, TokenOps
<1>4. CASE PutUserPolicy(s)
  <2>1. req[s] \in [op : GrantOps, u : Subjects, grant : Grant]
    BY <1>4, GrantRequest DEF PutUserPolicy, At, GrantOps
  <2>2. [req[s] EXCEPT !.op = "userBinding"].op = "userBinding"
    BY <2>1
  <2>3. QED
    BY <1>4, <2>2, BecomesSlots DEF PutUserPolicy, TokenOps
<1>5. CASE PutUserBinding(s)
  <2>1. req[s] \in [op : GrantOps, u : Subjects, grant : Grant]
    BY <1>5, GrantRequest DEF PutUserBinding, At, GrantOps
  <2>2. [req[s] EXCEPT !.op = "user"].op = "user"
    BY <2>1
  <2>3. QED
    BY <1>5, <2>2, BecomesSlots DEF PutUserBinding, TokenOps
<1>6. CASE DropUserPolicy(s)
  <2>1. req[s] \in [op : DropOps, u : Subjects]
    BY <1>6, DropRequest DEF DropUserPolicy, At, DropOps
  <2>2. [req[s] EXCEPT !.op = "dropBinding"].op = "dropBinding"
    BY <2>1
  <2>3. QED
    BY <1>6, <2>2, BecomesSlots DEF DropUserPolicy, TokenOps
<1>7. QED
  BY <1>1, <1>2, <1>3, <1>4, <1>5, <1>6

LEMMA UserStepTokens ==
  ASSUME TypeOK, TokenInv, NEW s \in Slots,
         \/ DeleteToken(s) \/ CreateUser(s) \/ PutUserPolicy(s) \/ PutUserBinding(s)
         \/ PutUser(s) \/ DeleteUser(s) \/ DropUserPolicy(s) \/ DropUserBinding(s)
         \/ Fail(s)
  PROVE  TokenInv'
<1>1. UNCHANGED <<made, asked>>
  BY DEF DeleteToken, CreateUser, PutUserPolicy, PutUserBinding, PutUser, DeleteUser,
     DropUserPolicy, DropUserBinding, Fail, requestVars
<1>2. \A t \in TokenId : tokens'[t] \in {tokens[t], None}
  BY DEF DeleteToken, CreateUser, PutUserPolicy, PutUserBinding, PutUser, DeleteUser,
     DropUserPolicy, DropUserBinding, Fail, treeVars, Put, TypeOK
<1>3. \A t \in TokenId :
         /\ policies'[<<"token", t>>] = policies[<<"token", t>>]
         /\ bindings'[<<"token", t>>] = bindings[<<"token", t>>]
  <2>1. \/ UNCHANGED <<policies, bindings>>
        \/ policies' = Put(policies, <<"user", req[s].u>>, req[s].grant) /\ bindings' = bindings
        \/ policies' = Put(policies, <<"user", req[s].u>>, None) /\ bindings' = bindings
        \/ policies' = policies /\ bindings' = Put(bindings, <<"user", req[s].u>>, req[s].u)
        \/ policies' = policies /\ bindings' = Put(bindings, <<"user", req[s].u>>, None)
    BY DEF DeleteToken, CreateUser, PutUserPolicy, PutUserBinding, PutUser, DeleteUser,
       DropUserPolicy, DropUserBinding, Fail, treeVars
  <2>2. QED
    BY <2>1, OtherIds
<1>4. \A w \in Slots : req'[w] = req[w] \/ req'[w].op \notin TokenOps
  BY UserStepSlots
<1>5. QED
  BY <1>1, <1>2, <1>3, <1>4, TokenFrame

LEMMA MigrateTokens ==
  ASSUME TypeOK, TokenInv, NEW t \in TokenId, Migrate(t)
  PROVE  TokenInv'
<1>1. UNCHANGED <<made, asked, req>>
  BY DEF Migrate, Skip, MigrateAgain, MigratePolicy, MigrateBinding, MigrateToken, PassOver, Abandon,
     requestVars
<1>2. \A v \in TokenId : tokens'[v] \in {tokens[v], None}
  BY DEF Migrate, Skip, MigrateAgain, MigratePolicy, MigrateBinding, MigrateToken, PassOver, Abandon, Put,
     TypeOK
<1>3. \A v \in TokenId :
         /\ policies'[<<"token", v>>] = policies[<<"token", v>>]
         /\ bindings'[<<"token", v>>] = bindings[<<"token", v>>]
  <2>1. \/ UNCHANGED <<policies, bindings>>
        \/ /\ policies' = Put(policies, <<"legacy", tokens[t]>>, Granted(legacy[t]))
           /\ bindings' = bindings
        \/ /\ policies' = policies
           /\ bindings' = Put(bindings, <<"legacy", tokens[t]>>, tokens[t])
    BY DEF Migrate, Skip, MigrateAgain, MigratePolicy, MigrateBinding, MigrateToken, PassOver,
       Abandon
  <2>2. QED
    BY <2>1, OtherIds
<1>4. QED
  BY <1>1, <1>2, <1>3, TokenFrame

(* A token is made by one request and complete when it is stored: TokenInv  *)
(* is inductive.                                                            *)
THEOREM TokenInvariance == Spec => []TokenInv
<1>1. Init => TokenInv
  <2> SUFFICES ASSUME Init PROVE TokenInv
    OBVIOUS
  <2>1. \A s \in Slots : req[s].op \notin TokenOps
    BY DEF Init, Idle, TokenOps
  <2>2. \A t \in TokenId : asked[t] = None
    BY DEF Init
  <2>3. \A t \in TokenId : t \notin made => tokens[t] = None
    <3>1. PICK n \in 0 .. MaxLegacy :
            /\ before \in {b \in [TokenId -> Legacy \cup {NoLegacy}] :
                             \A t \in TokenId : b[t] = NoLegacy <=> t > n}
            /\ made = 1 .. n
      BY DEF Init
    <3>2. \A t \in TokenId : t \notin made => before[t] = NoLegacy
      BY <3>1, RbacAssumption DEF TokenId
    <3>3. QED
      BY <3>2 DEF Init, NoLegacy
  <2>4. QED
    BY <2>1, <2>2, <2>3 DEF TokenInv, TokensApart, TokensInMaking, TokensComplete
<1>2. TypeOK /\ TokenInv /\ [Next]_vars => TokenInv'
  <2> SUFFICES ASSUME TypeOK, TokenInv, [Next]_vars PROVE TokenInv'
    OBVIOUS
  <2>1. CASE UNCHANGED vars
    BY <2>1, TokenFrame DEF vars
  <2>2. CASE Serve
    BY <2>2, TokenFrame DEF Serve, requestVars
  <2>3. CASE Restart
    BY <2>3, TokenFrame DEF Restart, treeVars, Idle, TokenOps
  <2>4. ASSUME NEW s \in Slots, Step(s) PROVE TokenInv'
    <3>1. CASE CreateToken(s)
      BY <3>1, BeginTokenTokens DEF CreateToken
    <3>2. CASE Exchange(s)
      BY <3>2, BeginTokenTokens, RbacAssumption DEF Exchange, Grant
    <3>3. QED
      BY <2>4, <3>1, <3>2, PutPolicyTokens, PutBindingTokens, PutTokenTokens,
         UserStepTokens DEF Step
  <2>5. QED
    BY <2>1, <2>2, <2>3, <2>4, MigrateTokens DEF Next
<1>3. QED
  BY <1>1, <1>2, TypeCorrect, PTL DEF Spec

(* A token that is stored grants what was asked for it, for any number of   *)
(* tokens, users and requests, and after any kills and failed writes.       *)
THEOREM TokensHaveGrants == Spec => []TokenHasGrant
<1>1. TypeOK /\ TokenInv => TokenHasGrant
  <2> SUFFICES ASSUME TypeOK, TokenInv, NEW t \in ListedTokens, asked[t] # None
               PROVE  asked[t] \in Rights(tokens[t])
    BY DEF TokenHasGrant
  <2>1. /\ policies[<<"token", t>>] = asked[t] /\ bindings[<<"token", t>>] = tokens[t]
        /\ t \in TokenId
    BY DEF TokenInv, TokensComplete, ListedTokens
  <2>2. QED
    BY <2>1, TokenIds DEF Rights
<1>2. QED
  BY <1>1, TypeCorrect, TokenInvariance, PTL

-----------------------------------------------------------------------------
(* Users: what leaves their writes alone or gives one up.                   *)
LEMMA UserFrame ==
  ASSUME TypeOK, UserInv, UNCHANGED users, crossed \subseteq crossed', cut \subseteq cut',
         \A u \in Subjects :
            /\ policies'[<<"user", u>>] = policies[<<"user", u>>]
            /\ bindings'[<<"user", u>>] = bindings[<<"user", u>>],
         \A s \in Slots :
            \/ req'[s] = req[s]
            \/ /\ req'[s].op \notin UserOps
               /\ req[s].op \in UserOps => req[s].u \in cut'
  PROVE  UserInv'
<1>1. \A s \in Slots : req'[s].op \in UserOps =>
                        req'[s] = req[s] /\ req[s].op \in UserOps /\ req[s].u \in Subjects
  BY UserRequest
<1>2. UsersApart'
  BY <1>1 DEF UserInv, UsersApart
<1>3. UsersInMaking'
  BY <1>1 DEF UserInv, UsersInMaking
<1>4. UserHasRights'
  BY DEF UserInv, UserHasRights, ListedUsers
<1>5. RightsGoWithUser'
  <2>1. SUFFICES ASSUME NEW u \in Subjects, u \notin crossed', u \notin cut',
                        users[u] = None, ~Busy(u)'
                 PROVE  policies[<<"user", u>>] = None /\ bindings[<<"user", u>>] = None
    BY DEF RightsGoWithUser, ListedUsers
  <2>2. ~Busy(u)
    BY <2>1 DEF Busy
  <2>3. QED
    BY <2>1, <2>2 DEF UserInv, RightsGoWithUser, ListedUsers
<1>6. QED
  BY <1>2, <1>3, <1>4, <1>5 DEF UserInv

(* A step of a request that works on a user touches that user only, and     *)
(* keeps UserInv if it does for that user.                                  *)
LEMMA UserWrite ==
  ASSUME TypeOK, UserInv, NEW s \in Slots, NEW u \in Subjects,
         crossed \subseteq crossed', UNCHANGED cut,
         \A w \in Slots : w # s => req'[w] = req[w],
         req[s].op \in UserOps => req[s].u = u,
         req'[s].op \in UserOps => req'[s].u = u,
         req[s].op \notin UserOps /\ Busy(u) => u \in crossed',
         \A v \in Subjects : v # u =>
            /\ users'[v] = users[v]
            /\ policies'[<<"user", v>>] = policies[<<"user", v>>]
            /\ bindings'[<<"user", v>>] = bindings[<<"user", v>>],
         u \notin crossed' /\ req'[s].op \in UserOps =>
            /\ users'[u] = None
            /\ req'[s].op \in {"userBinding", "user"} =>
                  policies'[<<"user", u>>] = req'[s].grant
            /\ req'[s].op = "user" => bindings'[<<"user", u>>] = u
            /\ req'[s].op = "dropBinding" => policies'[<<"user", u>>] = None,
         u \notin crossed' /\ users'[u] # None =>
            policies'[<<"user", u>>] = users'[u] /\ bindings'[<<"user", u>>] = u,
         u \notin crossed' /\ users'[u] = None /\ req'[s].op \notin UserOps =>
            policies'[<<"user", u>>] = None /\ bindings'[<<"user", u>>] = None
  PROVE  UserInv'
<1>1. \A w \in Slots : w # s /\ req[w].op \in UserOps =>
                        req[w].u \in Subjects /\ (req[w].u = u => u \in crossed')
  BY UserRequest DEF UserInv, UsersApart, Busy
<1>2. UsersApart'
  BY <1>1 DEF UserInv, UsersApart
<1>3. UsersInMaking'
  <2>1. SUFFICES ASSUME NEW w \in Slots, req'[w].op \in UserOps, req'[w].u \notin crossed'
                 PROVE  /\ users'[req'[w].u] = None
                        /\ req'[w].op \in {"userBinding", "user"} =>
                              policies'[<<"user", req'[w].u>>] = req'[w].grant
                        /\ req'[w].op = "user" =>
                              bindings'[<<"user", req'[w].u>>] = req'[w].u
                        /\ req'[w].op = "dropBinding" =>
                              policies'[<<"user", req'[w].u>>] = None
    BY DEF UsersInMaking
  <2>2. CASE w = s
    BY <2>1, <2>2
  <2>3. CASE w # s
    <3>1. req'[w] = req[w] /\ req[w].u \in Subjects /\ req[w].u # u
      BY <1>1, <2>1, <2>3
    <3>2. QED
      BY <2>1, <3>1 DEF UserInv, UsersInMaking
  <2>4. QED
    BY <2>2, <2>3
<1>4. UserHasRights'
  <2>1. SUFFICES ASSUME NEW v \in Subjects, v \notin crossed', users'[v] # None
                 PROVE  policies'[<<"user", v>>] = users'[v] /\ bindings'[<<"user", v>>] = v
    BY DEF UserHasRights, ListedUsers
  <2>2. QED
    BY <2>1 DEF UserInv, UserHasRights, ListedUsers
<1>5. RightsGoWithUser'
  <2>1. SUFFICES ASSUME NEW v \in Subjects, v \notin crossed', v \notin cut',
                        users'[v] = None, ~Busy(v)'
                 PROVE  policies'[<<"user", v>>] = None /\ bindings'[<<"user", v>>] = None
    BY DEF RightsGoWithUser, ListedUsers
  <2>2. CASE v = u
    <3>1. req'[s].op \notin UserOps
      BY <2>1, <2>2 DEF Busy
    <3>2. QED
      BY <2>1, <2>2, <3>1
  <2>3. CASE v # u
    <3>1. ~Busy(v)
      BY <2>1, <2>3 DEF Busy
    <3>2. QED
      BY <2>1, <2>3, <3>1 DEF UserInv, RightsGoWithUser, ListedUsers
  <2>4. QED
    BY <2>2, <2>3
<1>6. QED
  BY <1>2, <1>3, <1>4, <1>5 DEF UserInv

LEMMA CreateUserUsers ==
  ASSUME TypeOK, UserInv, NEW s \in Slots, CreateUser(s)
  PROVE  UserInv'
<1>1. PICK u \in Users, grant \in Grant :
        /\ users[u] = None
        /\ Meet(u)
        /\ Becomes(s, [op |-> "userPolicy", u |-> u, grant |-> grant])
  BY DEF CreateUser
<1> DEFINE new == [op |-> "userPolicy", u |-> u, grant |-> grant]
<1>2. req'[s] = new /\ \A w \in Slots : w # s => req'[w] = req[w]
  BY <1>1, BecomesSlots
<1>3. new.op = "userPolicy" /\ new.u = u
  OBVIOUS
<1> HIDE DEF new
<1>4. u \in Subjects /\ req[s].op \notin UserOps /\ req'[s].op \in UserOps
  BY <1>2, <1>3, RbacAssumption DEF CreateUser, At, UserOps
<1>5. crossed \subseteq crossed' /\ (Busy(u) => u \in crossed')
  BY <1>1 DEF Meet
<1>6. UNCHANGED <<users, policies, bindings, cut>>
  BY DEF CreateUser, treeVars
<1>7. QED
  BY <1>1, <1>2, <1>3, <1>4, <1>5, <1>6, UserWrite

LEMMA PutUserPolicyUsers ==
  ASSUME TypeOK, UserInv, NEW s \in Slots, PutUserPolicy(s)
  PROVE  UserInv'
<1>1. req[s] \in [op : GrantOps, u : Subjects, grant : Grant] /\ req[s].op = "userPolicy"
  BY GrantRequest DEF PutUserPolicy, At, GrantOps
<1>2. /\ req'[s] = [req[s] EXCEPT !.op = "userBinding"]
      /\ \A w \in Slots : w # s => req'[w] = req[w]
  BY BecomesSlots DEF PutUserPolicy
<1>3. req'[s].op = "userBinding" /\ req'[s].u = req[s].u /\ req'[s].grant = req[s].grant
  BY <1>1, <1>2
<1>4. req[s].op \in UserOps /\ req'[s].op \in UserOps
  BY <1>1, <1>3 DEF UserOps
<1>5. req[s].u \notin crossed => users[req[s].u] = None
  BY <1>4 DEF UserInv, UsersInMaking
<1>6. /\ policies'[<<"user", req[s].u>>] = req[s].grant
      /\ \A v \in Subjects : v # req[s].u =>
            policies'[<<"user", v>>] = policies[<<"user", v>>]
  BY <1>1, UserIds DEF PutUserPolicy, Put, TypeOK
<1>7. UNCHANGED <<users, bindings, crossed, cut>>
  BY DEF PutUserPolicy
<1>8. QED
  BY <1>1, <1>2, <1>3, <1>4, <1>5, <1>6, <1>7, UserWrite

LEMMA PutUserBindingUsers ==
  ASSUME TypeOK, UserInv, NEW s \in Slots, PutUserBinding(s)
  PROVE  UserInv'
<1>1. req[s] \in [op : GrantOps, u : Subjects, grant : Grant] /\ req[s].op = "userBinding"
  BY GrantRequest DEF PutUserBinding, At, GrantOps
<1>2. /\ req'[s] = [req[s] EXCEPT !.op = "user"]
      /\ \A w \in Slots : w # s => req'[w] = req[w]
  BY BecomesSlots DEF PutUserBinding
<1>3. req'[s].op = "user" /\ req'[s].u = req[s].u /\ req'[s].grant = req[s].grant
  BY <1>1, <1>2
<1>4. req[s].op \in UserOps /\ req'[s].op \in UserOps
  BY <1>1, <1>3 DEF UserOps
<1>5. req[s].u \notin crossed =>
        users[req[s].u] = None /\ policies[<<"user", req[s].u>>] = req[s].grant
  BY <1>1, <1>4 DEF UserInv, UsersInMaking
<1>6. /\ bindings'[<<"user", req[s].u>>] = req[s].u
      /\ \A v \in Subjects : v # req[s].u =>
            bindings'[<<"user", v>>] = bindings[<<"user", v>>]
  BY <1>1, UserIds DEF PutUserBinding, Put, TypeOK
<1>7. UNCHANGED <<users, policies, crossed, cut>>
  BY DEF PutUserBinding
<1>8. QED
  BY <1>1, <1>2, <1>3, <1>4, <1>5, <1>6, <1>7, UserWrite

LEMMA PutUserUsers ==
  ASSUME TypeOK, UserInv, NEW s \in Slots, PutUser(s)
  PROVE  UserInv'
<1>1. req[s] \in [op : GrantOps, u : Subjects, grant : Grant] /\ req[s].op = "user"
  BY GrantRequest DEF PutUser, At, GrantOps
<1>2. req'[s] = Idle /\ \A w \in Slots : w # s => req'[w] = req[w]
  BY BecomesSlots DEF PutUser
<1>3. req[s].op \in UserOps /\ req'[s].op \notin UserOps
  BY <1>1, <1>2 DEF UserOps, Idle
<1>4. req[s].u \notin crossed =>
         /\ policies[<<"user", req[s].u>>] = req[s].grant
         /\ bindings[<<"user", req[s].u>>] = req[s].u
  BY <1>1, <1>3 DEF UserInv, UsersInMaking
<1>5. /\ users'[req[s].u] = req[s].grant /\ req[s].grant # None
      /\ \A v \in Subjects : v # req[s].u => users'[v] = users[v]
  BY <1>1, NoneAssumption DEF PutUser, Put, TypeOK
<1>6. UNCHANGED <<policies, bindings, crossed, cut>>
  BY DEF PutUser
<1>7. QED
  BY <1>1, <1>2, <1>3, <1>4, <1>5, <1>6, UserWrite

LEMMA DeleteUserUsers ==
  ASSUME TypeOK, UserInv, NEW s \in Slots, DeleteUser(s)
  PROVE  UserInv'
<1>1. PICK u \in Users : /\ users' = Put(users, u, None)
                         /\ Meet(u)
                         /\ Becomes(s, [op |-> "dropPolicy", u |-> u])
  BY DEF DeleteUser
<1> DEFINE new == [op |-> "dropPolicy", u |-> u]
<1>2. req'[s] = new /\ \A w \in Slots : w # s => req'[w] = req[w]
  BY <1>1, BecomesSlots
<1>3. new.op = "dropPolicy" /\ new.u = u
  OBVIOUS
<1> HIDE DEF new
<1>4. u \in Subjects /\ req[s].op \notin UserOps /\ req'[s].op \in UserOps
  BY <1>2, <1>3, RbacAssumption DEF DeleteUser, At, UserOps
<1>5. crossed \subseteq crossed' /\ (Busy(u) => u \in crossed')
  BY <1>1 DEF Meet
<1>6. users'[u] = None /\ \A v \in Subjects : v # u => users'[v] = users[v]
  BY <1>1, <1>4 DEF Put, TypeOK
<1>7. UNCHANGED <<policies, bindings, cut>>
  BY DEF DeleteUser
<1>8. QED
  BY <1>1, <1>2, <1>3, <1>4, <1>5, <1>6, <1>7, UserWrite

LEMMA DropUserPolicyUsers ==
  ASSUME TypeOK, UserInv, NEW s \in Slots, DropUserPolicy(s)
  PROVE  UserInv'
<1>1. req[s] \in [op : DropOps, u : Subjects] /\ req[s].op = "dropPolicy"
  BY DropRequest DEF DropUserPolicy, At, DropOps
<1>2. /\ req'[s] = [req[s] EXCEPT !.op = "dropBinding"]
      /\ \A w \in Slots : w # s => req'[w] = req[w]
  BY BecomesSlots DEF DropUserPolicy
<1>3. req'[s].op = "dropBinding" /\ req'[s].u = req[s].u
  BY <1>1, <1>2
<1>4. req[s].op \in UserOps /\ req'[s].op \in UserOps
  BY <1>1, <1>3 DEF UserOps
<1>5. req[s].u \notin crossed => users[req[s].u] = None
  BY <1>4 DEF UserInv, UsersInMaking
<1>6. /\ policies'[<<"user", req[s].u>>] = None
      /\ \A v \in Subjects : v # req[s].u =>
            policies'[<<"user", v>>] = policies[<<"user", v>>]
  BY <1>1, UserIds DEF DropUserPolicy, Put, TypeOK
<1>7. UNCHANGED <<users, bindings, crossed, cut>>
  BY DEF DropUserPolicy
<1>8. QED
  BY <1>1, <1>2, <1>3, <1>4, <1>5, <1>6, <1>7, UserWrite

LEMMA DropUserBindingUsers ==
  ASSUME TypeOK, UserInv, NEW s \in Slots, DropUserBinding(s)
  PROVE  UserInv'
<1>1. req[s] \in [op : DropOps, u : Subjects] /\ req[s].op = "dropBinding"
  BY DropRequest DEF DropUserBinding, At, DropOps
<1>2. req'[s] = Idle /\ \A w \in Slots : w # s => req'[w] = req[w]
  BY BecomesSlots DEF DropUserBinding
<1>3. req[s].op \in UserOps /\ req'[s].op \notin UserOps
  BY <1>1, <1>2 DEF UserOps, Idle
<1>4. req[s].u \notin crossed =>
        users[req[s].u] = None /\ policies[<<"user", req[s].u>>] = None
  BY <1>1, <1>3 DEF UserInv, UsersInMaking
<1>5. /\ bindings'[<<"user", req[s].u>>] = None
      /\ \A v \in Subjects : v # req[s].u =>
            bindings'[<<"user", v>>] = bindings[<<"user", v>>]
  BY <1>1, UserIds DEF DropUserBinding, Put, TypeOK
<1>6. UNCHANGED <<users, policies, crossed, cut>>
  BY DEF DropUserBinding
<1>7. QED
  BY <1>1, <1>2, <1>3, <1>4, <1>5, <1>6, UserWrite

(* Writes of policies and bindings of tokens.                               *)
LEMMA OtherUserIds ==
  ASSUME TypeOK, NEW u, NEW v, NEW kind \in {"token", "legacy"},
         policies' = Put(policies, <<kind, u>>, v) \/ policies' = policies,
         NEW w, bindings' = Put(bindings, <<kind, u>>, w) \/ bindings' = bindings
  PROVE  \A x \in Subjects :
            /\ policies'[<<"user", x>>] = policies[<<"user", x>>]
            /\ bindings'[<<"user", x>>] = bindings[<<"user", x>>]
BY UserIds DEF TypeOK, Put

LEMMA TokenStepUsers ==
  ASSUME TypeOK, UserInv, NEW s \in Slots,
         \/ CreateToken(s) \/ Exchange(s) \/ PutPolicy(s) \/ PutBinding(s)
         \/ PutToken(s) \/ DeleteToken(s)
  PROVE  UserInv'
<1>1. UNCHANGED <<users, crossed, cut>>
  BY DEF CreateToken, Exchange, PutPolicy, PutBinding, PutToken, DeleteToken, treeVars,
     requestVars
<1>2. \A x \in Subjects :
         /\ policies'[<<"user", x>>] = policies[<<"user", x>>]
         /\ bindings'[<<"user", x>>] = bindings[<<"user", x>>]
  <2>1. \/ UNCHANGED <<policies, bindings>>
        \/ policies' = Put(policies, <<"token", req[s].t>>, req[s].grant) /\ bindings' = bindings
        \/ /\ policies' = policies
           /\ bindings' = Put(bindings, <<"token", req[s].t>>, req[s].subject)
    BY DEF CreateToken, Exchange, PutPolicy, PutBinding, PutToken, DeleteToken, treeVars
  <2>2. QED
    BY <2>1, OtherUserIds
<1>3. \A w \in Slots :
         \/ req'[w] = req[w]
         \/ req'[w].op \notin UserOps /\ req[w].op \notin UserOps
  <2>1. CASE DeleteToken(s)
    BY <2>1 DEF DeleteToken, requestVars
  <2>2. CASE CreateToken(s) \/ Exchange(s)
    <3>1. \E t, subject, grant :
            Becomes(s, [op |-> "policy", t |-> t, subject |-> subject, grant |-> grant])
      BY <2>2 DEF CreateToken, Exchange, BeginToken
    <3>2. req[s].op = "idle"
      BY <2>2 DEF CreateToken, Exchange, At
    <3>3. QED
      BY <3>1, <3>2, BecomesSlots DEF UserOps
  <2>3. CASE PutPolicy(s) \/ PutBinding(s)
    <3>1. req[s] \in [op : TokenOps, t : TokenId, subject : Subjects, grant : Grant]
      BY <2>3, TokenRequest DEF PutPolicy, PutBinding, At, TokenOps
    <3>2. /\ [req[s] EXCEPT !.op = "binding"].op = "binding"
          /\ [req[s] EXCEPT !.op = "token"].op = "token"
          /\ req[s].op \in TokenOps
      BY <3>1
    <3>3. QED
      BY <2>3, <3>2, BecomesSlots DEF PutPolicy, PutBinding, UserOps, TokenOps
  <2>4. CASE PutToken(s)
    BY <2>4, BecomesSlots DEF PutToken, At, Idle, UserOps
  <2>5. QED
    BY <2>1, <2>2, <2>3, <2>4
<1>4. QED
  BY <1>1, <1>2, <1>3, UserFrame

LEMMA FailUsers ==
  ASSUME TypeOK, UserInv, NEW s \in Slots, Fail(s)
  PROVE  UserInv'
<1>1. req'[s] = Idle /\ \A w \in Slots : w # s => req'[w] = req[w]
  BY BecomesSlots DEF Fail
<1>2. Idle.op \notin UserOps
  BY DEF Idle, UserOps
<1>3. cut \subseteq cut' /\ (req[s].op \in UserOps => req[s].u \in cut')
  BY DEF Fail, Cut
<1>4. UNCHANGED <<users, policies, bindings, crossed>>
  BY DEF Fail, treeVars
<1>5. QED
  BY <1>1, <1>2, <1>3, <1>4, UserFrame

LEMMA RestartUsers ==
  ASSUME TypeOK, UserInv, Restart
  PROVE  UserInv'
<1>1. \A s \in Slots : req'[s] = Idle
  BY DEF Restart
<1>2. Idle.op \notin UserOps
  BY DEF Idle, UserOps
<1>3. cut \subseteq cut' /\ \A s \in Slots : req[s].op \in UserOps => req[s].u \in cut'
  BY DEF Restart, Cut
<1>4. UNCHANGED <<users, policies, bindings, crossed>>
  BY DEF Restart, treeVars
<1>5. QED
  BY <1>1, <1>2, <1>3, <1>4, UserFrame

LEMMA MigrateUsers ==
  ASSUME TypeOK, UserInv, NEW t \in TokenId, Migrate(t)
  PROVE  UserInv'
<1>1. UNCHANGED <<users, crossed, cut, req>>
  BY DEF Migrate, Skip, MigrateAgain, MigratePolicy, MigrateBinding, MigrateToken, PassOver, Abandon,
     requestVars
<1>2. \A x \in Subjects :
         /\ policies'[<<"user", x>>] = policies[<<"user", x>>]
         /\ bindings'[<<"user", x>>] = bindings[<<"user", x>>]
  <2>1. \/ UNCHANGED <<policies, bindings>>
        \/ /\ policies' = Put(policies, <<"legacy", tokens[t]>>, Granted(legacy[t]))
           /\ bindings' = bindings
        \/ /\ policies' = policies
           /\ bindings' = Put(bindings, <<"legacy", tokens[t]>>, tokens[t])
    BY DEF Migrate, Skip, MigrateAgain, MigratePolicy, MigrateBinding, MigrateToken, PassOver,
       Abandon
  <2>2. QED
    BY <2>1, OtherUserIds
<1>3. QED
  BY <1>1, <1>2, UserFrame

(* A user's record is written after its rights and removed before them:     *)
(* UserInv is inductive.                                                    *)
THEOREM UserInvariance == Spec => []UserInv
<1>1. Init => UserInv
  <2> SUFFICES ASSUME Init PROVE UserInv
    OBVIOUS
  <2>1. \A s \in Slots : req[s].op \notin UserOps
    BY DEF Init, Idle, UserOps
  <2>2. \A u \in Subjects : /\ users[u] = None
                           /\ policies[<<"user", u>>] = None
                           /\ bindings[<<"user", u>>] = None
    BY UserIds DEF Init
  <2>3. QED
    BY <2>1, <2>2 DEF UserInv, UsersApart, UsersInMaking, UserHasRights, RightsGoWithUser,
       ListedUsers
<1>2. TypeOK /\ UserInv /\ [Next]_vars => UserInv'
  <2> SUFFICES ASSUME TypeOK, UserInv, [Next]_vars PROVE UserInv'
    OBVIOUS
  <2>1. CASE UNCHANGED vars
    BY <2>1, UserFrame DEF vars
  <2>2. CASE Serve
    BY <2>2, UserFrame DEF Serve, requestVars
  <2>3. ASSUME NEW s \in Slots, Step(s) PROVE UserInv'
    BY <2>3, TokenStepUsers, CreateUserUsers, PutUserPolicyUsers, PutUserBindingUsers,
       PutUserUsers, DeleteUserUsers, DropUserPolicyUsers, DropUserBindingUsers,
       FailUsers DEF Step
  <2>4. QED
    BY <2>1, <2>2, <2>3, RestartUsers, MigrateUsers DEF Next
<1>3. QED
  BY <1>1, <1>2, TypeCorrect, PTL DEF Spec

(* A user that exists has the rights its creation asked for, unless two     *)
(* requests for its name ran at once.                                       *)
THEOREM UsersHaveRights == Spec => []UserHasRights
<1>1. UserInv => UserHasRights
  BY DEF UserInv
<1>2. QED
  BY <1>1, UserInvariance, PTL

(* A user that was deleted leaves no rights to the next of its name, unless *)
(* two requests ran at once or one was cut.                                 *)
THEOREM DeletedUsersLeaveNothing == Spec => []RightsGoWithUser
<1>1. UserInv => RightsGoWithUser
  BY DEF UserInv
<1>2. QED
  BY <1>1, UserInvariance, PTL

-----------------------------------------------------------------------------
(* The migration of older tokens: what happens while the master serves.     *)
LEMMA RightsFrame ==
  ASSUME RightsMoved, UNCHANGED <<legacy, before>>, start'.seen = {},
         \A u \in Subjects :
            /\ policies'[<<"legacy", u>>] = policies[<<"legacy", u>>]
            /\ bindings'[<<"legacy", u>>] = bindings[<<"legacy", u>>]
  PROVE  RightsMoved'
<1>1. SUFFICES ASSUME NEW subject \in Subjects, NEW kind \in Kind,
                      Uniform(subject, kind)', NEW t \in TokenId,
                      before'[t].subject = subject, legacy'[t] = None
               PROVE  /\ policies'[<<"legacy", subject>>] = Granted(kind)
                      /\ bindings'[<<"legacy", subject>>] = subject
  BY DEF RightsMoved
<1>2. Uniform(subject, kind)
  BY <1>1 DEF Uniform
<1>3. /\ policies[<<"legacy", subject>>] = Granted(kind)
      /\ bindings[<<"legacy", subject>>] = subject
  BY <1>1, <1>2 DEF RightsMoved
<1>4. QED
  BY <1>3

LEMMA ServingFrame ==
  ASSUME TypeOK, MigrationInv, up, UNCHANGED startVars, LegacyMade',
         \A t \in TokenId : legacy[t] # None => tokens'[t] \in {tokens[t], None},
         \A u \in Subjects :
            /\ policies'[<<"legacy", u>>] = policies[<<"legacy", u>>]
            /\ bindings'[<<"legacy", u>>] = bindings[<<"legacy", u>>]
  PROVE  MigrationInv'
<1>1. LegacyKept'
  BY DEF MigrationInv, LegacyKept, startVars
<1>2. Walked'
  BY DEF MigrationInv, Walked, Carries, startVars
<1>3. start.step = "policy" /\ start.seen = {} /\ WalkedSteps'
  BY DEF MigrationInv, WalkedSteps, startVars
<1>4. RightsMoved'
  BY <1>3, RightsFrame DEF MigrationInv, startVars
<1>5. QED
  BY <1>1, <1>2, <1>3, <1>4 DEF MigrationInv

(* Tokens of the older version are not those that requests make.            *)
LEMMA StepLegacy ==
  ASSUME TypeOK, MigrationInv, NEW s \in Slots, Step(s), UNCHANGED legacy
  PROVE  /\ LegacyMade'
         /\ \A t \in TokenId : legacy[t] # None => tokens'[t] \in {tokens[t], None}
<1> DEFINE Old(t) == t \in TokenId /\ legacy[t] # None
           Begins == \E subject \in Subjects, grant \in Grant : BeginToken(s, subject, grant)
<1>1. \A t : Old(t) => t \in made /\ \A r \in Slots : req[r].op \in TokenOps => req[r].t # t
  BY DEF MigrationInv, LegacyMade
<1>2. CASE Begins /\ UNCHANGED tokens
  <2>1. PICK u \in TokenId \ made, subject \in Subjects, grant \in Grant :
           /\ made' = made \cup {u}
           /\ Becomes(s, [op |-> "policy", t |-> u, subject |-> subject, grant |-> grant])
    BY <1>2 DEF BeginToken
  <2>2. \A r \in Slots : req'[r].op \in TokenOps =>
           req'[r].t = u \/ (req[r].op \in TokenOps /\ req'[r].t = req[r].t)
    <3>1. PICK new : new = [op |-> "policy", t |-> u, subject |-> subject, grant |-> grant]
      OBVIOUS
    <3>2. req'[s] = new /\ \A r \in Slots : r # s => req'[r] = req[r]
      BY <2>1, <3>1, BecomesSlots
    <3>3. QED
      BY <3>1, <3>2
  <2>3. QED
    BY <1>1, <1>2, <2>1, <2>2 DEF LegacyMade
<1>3. CASE /\ UNCHANGED made
           /\ \A r \in Slots : req'[r].op \in TokenOps =>
                 req[r].op \in TokenOps /\ req'[r].t = req[r].t
           /\ \A t \in TokenId :
                 \/ tokens'[t] \in {tokens[t], None}
                 \/ (req[s].op \in TokenOps /\ req[s].t = t)
  BY <1>1, <1>3 DEF LegacyMade
<1>4. CASE CreateToken(s) \/ Exchange(s)
  <2>1. Begins /\ UNCHANGED tokens
    BY <1>4, RbacAssumption DEF CreateToken, Exchange, treeVars, Grant
  <2>2. QED
    BY <1>2, <2>1
<1>5. CASE PutPolicy(s) \/ PutBinding(s)
  <2>1. PICK op \in TokenOps : Becomes(s, [req[s] EXCEPT !.op = op])
    BY <1>5 DEF PutPolicy, PutBinding, TokenOps
  <2>2. PICK new : new = [req[s] EXCEPT !.op = op]
    OBVIOUS
  <2>3. req'[s] = new /\ \A r \in Slots : r # s => req'[r] = req[r]
    BY <2>1, <2>2, BecomesSlots
  <2>4. req[s].op \in TokenOps /\ UNCHANGED <<tokens, made>>
    BY <1>5 DEF PutPolicy, PutBinding, At, TokenOps
  <2>5. new.t = req[s].t
    BY <2>2, <2>4, TokenRequest
  <2>6. QED
    BY <1>3, <2>3, <2>4, <2>5
<1>6. CASE PutToken(s)
  BY <1>3, <1>6, BecomesSlots DEF PutToken, At, TokenOps, Idle, Put, TypeOK
<1>7. CASE DeleteToken(s)
  BY <1>3, <1>7 DEF DeleteToken, requestVars, Put, TypeOK
<1>8. CASE \/ CreateUser(s) \/ PutUserPolicy(s) \/ PutUserBinding(s) \/ PutUser(s)
           \/ DeleteUser(s) \/ DropUserPolicy(s) \/ DropUserBinding(s) \/ Fail(s)
  <2>1. UNCHANGED <<tokens, made>>
    BY <1>8 DEF CreateUser, PutUserPolicy, PutUserBinding, PutUser, DeleteUser,
       DropUserPolicy, DropUserBinding, Fail, treeVars
  <2>2. \A r \in Slots : req'[r] = req[r] \/ req'[r].op \notin TokenOps
    BY <1>8, UserStepSlots
  <2>3. QED
    BY <1>3, <2>1, <2>2
<1>9. QED
  BY <1>4, <1>5, <1>6, <1>7, <1>8 DEF Step

LEMMA StepMigration ==
  ASSUME TypeOK, MigrationInv, NEW s \in Slots, Step(s)
  PROVE  MigrationInv'
<1>1. up /\ UNCHANGED startVars
  BY DEF Step, CreateToken, Exchange, PutPolicy, PutBinding, PutToken, DeleteToken,
     CreateUser, PutUserPolicy, PutUserBinding, PutUser, DeleteUser, DropUserPolicy,
     DropUserBinding, Fail, At
<1>2. \/ UNCHANGED <<policies, bindings>>
      \/ /\ bindings' = bindings
         /\ \E kind \in {"token", "user"} : \E i, v : policies' = Put(policies, <<kind, i>>, v)
      \/ /\ policies' = policies
         /\ \E kind \in {"token", "user"} : \E i, v : bindings' = Put(bindings, <<kind, i>>, v)
  <2>1. CASE PutPolicy(s)
    BY <2>1 DEF PutPolicy
  <2>2. CASE PutBinding(s)
    BY <2>2 DEF PutBinding
  <2>3. CASE PutUserPolicy(s)
    BY <2>3 DEF PutUserPolicy
  <2>4. CASE PutUserBinding(s)
    BY <2>4 DEF PutUserBinding
  <2>5. CASE DropUserPolicy(s)
    BY <2>5 DEF DropUserPolicy
  <2>6. CASE DropUserBinding(s)
    BY <2>6 DEF DropUserBinding
  <2>7. CASE \/ CreateToken(s) \/ Exchange(s) \/ PutToken(s) \/ DeleteToken(s)
             \/ CreateUser(s) \/ PutUser(s) \/ DeleteUser(s) \/ Fail(s)
    BY <2>7 DEF CreateToken, Exchange, PutToken, DeleteToken, CreateUser, PutUser,
       DeleteUser, Fail, treeVars
  <2>8. QED
    BY <2>1, <2>2, <2>3, <2>4, <2>5, <2>6, <2>7 DEF Step
<1>3. \A u \in Subjects :
         /\ policies'[<<"legacy", u>>] = policies[<<"legacy", u>>]
         /\ bindings'[<<"legacy", u>>] = bindings[<<"legacy", u>>]
  BY <1>2, UserIds DEF TypeOK, Put
<1>4. QED
  BY <1>1, <1>3, StepLegacy, ServingFrame DEF startVars

(* The walk: a token that still carries something is of one owner and kind. *)
LEMMA WalkedToken ==
  ASSUME TypeOK, MigrationInv, NEW t \in TokenId, Carries(t)
  PROVE  /\ tokens[t] \in Subjects /\ legacy[t] \in Kind
         /\ before[t].subject = tokens[t] /\ before[t].kind = legacy[t]
<1>1. before[t].subject = tokens[t] /\ before[t].kind = legacy[t] /\ legacy[t] \in Kind
  BY DEF MigrationInv, LegacyKept, Carries, TypeOK
<1>2. before[t] # NoLegacy
  BY <1>1 DEF NoLegacy, Kind
<1>3. QED
  BY <1>1, <1>2 DEF TypeOK, Legacy

LEMMA WalkOrder ==
  ASSUME TypeOK, NEW t \in TokenId, start.at = t
  PROVE  /\ NextToken.at = t + 1 /\ NextToken.step = "policy" /\ NextToken.seen = start.seen
         /\ NextToken.failed = start.failed
         /\ \A v \in TokenId : v < t + 1 => v < t \/ v = t
BY RbacAssumption DEF TypeOK, NextToken, TokenId

LEMMA WalkMade ==
  ASSUME TypeOK, MigrationInv, UNCHANGED <<made, req>>,
         \A t \in TokenId : legacy'[t] \in {legacy[t], None}
  PROVE  LegacyMade'
BY DEF MigrationInv, LegacyMade

LEMMA SkipMigration ==
  ASSUME TypeOK, MigrationInv, NEW t \in TokenId, Skip(t)
  PROVE  MigrationInv'
<1>1. /\ start' = NextToken /\ start.at = t /\ ~up /\ ~Carries(t)
      /\ start.step = "policy"
      /\ UNCHANGED <<tokens, legacy, policies, bindings, up, before, made, req>>
  BY DEF Skip, Walking, Walk, requestVars
<1>2. LegacyKept' /\ LegacyMade'
  BY <1>1, WalkMade DEF MigrationInv, LegacyKept
<1>3. Walked' /\ WalkedSteps'
  BY <1>1, WalkOrder DEF MigrationInv, Walked, WalkedSteps, Carries
<1>4. RightsMoved'
  <2>1. \A subject \in Subjects, kind \in Kind :
           Uniform(subject, kind)' <=> Uniform(subject, kind)
    BY <1>1 DEF Uniform
  <2>2. QED
    BY <1>1, <2>1, WalkOrder DEF MigrationInv, RightsMoved
<1>5. QED
  BY <1>2, <1>3, <1>4 DEF MigrationInv

LEMMA MigrateAgainMigration ==
  ASSUME TypeOK, MigrationInv, NEW t \in TokenId, MigrateAgain(t)
  PROVE  MigrationInv'
<1>1. /\ start' = NextToken /\ start.at = t /\ ~up /\ Carries(t)
      /\ start.step = "policy" /\ tokens[t] \in start.seen
      /\ UNCHANGED <<policies, bindings, up, before, made, req>>
      /\ legacy'[t] = None /\ \A v \in TokenId : v # t => legacy'[v] = legacy[v]
      /\ \A v \in TokenId : v # t => tokens'[v] = tokens[v]
  BY DEF MigrateAgain, Again, Walking, Walk, Put, TypeOK, requestVars
<1>2. LegacyKept' /\ LegacyMade'
  BY <1>1, WalkMade DEF MigrationInv, LegacyKept
<1>3. Walked' /\ WalkedSteps'
  BY <1>1, WalkOrder DEF MigrationInv, Walked, WalkedSteps, Carries
<1>5. before[t].subject = tokens[t]
  BY <1>1, WalkedToken
<1>6. RightsMoved'
  <2>1. \A subject \in Subjects, kind \in Kind :
           Uniform(subject, kind)' <=> Uniform(subject, kind)
    BY <1>1 DEF Uniform
  <2>3. SUFFICES ASSUME NEW subject \in Subjects, NEW kind \in Kind,
                        Uniform(subject, kind)
                 PROVE  /\ \A v \in TokenId :
                              before[v].subject = subject /\ legacy'[v] = None =>
                                /\ policies[<<"legacy", subject>>] = Granted(kind)
                                /\ bindings[<<"legacy", subject>>] = subject
                        /\ subject \in start.seen =>
                              /\ policies[<<"legacy", subject>>] = Granted(kind)
                              /\ bindings[<<"legacy", subject>>] = subject
    BY <1>1, <2>1, WalkOrder DEF RightsMoved
  <2>4. /\ \A v \in TokenId :
              before[v].subject = subject /\ legacy[v] = None =>
                /\ policies[<<"legacy", subject>>] = Granted(kind)
                /\ bindings[<<"legacy", subject>>] = subject
        /\ subject \in start.seen =>
              /\ policies[<<"legacy", subject>>] = Granted(kind)
              /\ bindings[<<"legacy", subject>>] = subject
    BY <1>1, <2>3 DEF MigrationInv, RightsMoved
  <2>5. QED
    BY <1>1, <1>5, <2>3, <2>4
<1>7. QED
  BY <1>2, <1>3, <1>6 DEF MigrationInv

LEMMA MigratePolicyMigration ==
  ASSUME TypeOK, MigrationInv, NEW t \in TokenId, MigratePolicy(t)
  PROVE  MigrationInv'
<1>1. /\ start.at = t /\ ~up /\ Carries(t) /\ start.step = "policy"
      /\ UNCHANGED <<tokens, legacy, bindings, up, before, made, req>>
      /\ start'.at = t /\ start'.step = "binding" /\ start'.failed = start.failed
      /\ start'.seen \subseteq start.seen \cup {tokens[t]}
  BY DEF MigratePolicy, Walking, Walk, TypeOK, requestVars
<1>2. /\ tokens[t] \in Subjects /\ legacy[t] \in Kind
      /\ before[t].subject = tokens[t] /\ before[t].kind = legacy[t]
  BY <1>1, WalkedToken
<1>3. /\ policies'[<<"legacy", tokens[t]>>] = Granted(legacy[t])
      /\ \A u \in Subjects : u # tokens[t] =>
            policies'[<<"legacy", u>>] = policies[<<"legacy", u>>]
  BY <1>2, UserIds DEF MigratePolicy, Put, TypeOK
<1>4. LegacyKept' /\ LegacyMade' /\ Walked'
  BY <1>1, WalkMade DEF MigrationInv, LegacyKept, Walked, Carries
<1>5. WalkedSteps'
  BY <1>1, <1>3 DEF WalkedSteps, Carries
<1>6. RightsMoved'
  <2>1. SUFFICES ASSUME NEW subject \in Subjects, NEW kind \in Kind,
                        Uniform(subject, kind)'
                 PROVE  /\ \A v \in TokenId :
                              before'[v].subject = subject /\ legacy'[v] = None =>
                                /\ policies'[<<"legacy", subject>>] = Granted(kind)
                                /\ bindings'[<<"legacy", subject>>] = subject
                        /\ subject \in start'.seen =>
                              /\ policies'[<<"legacy", subject>>] = Granted(kind)
                              /\ \/ bindings'[<<"legacy", subject>>] = subject
                                 \/ start'.step = "binding" /\ tokens'[start'.at] = subject
    BY DEF RightsMoved
  <2>2. Uniform(subject, kind)
    BY <1>1, <2>1 DEF Uniform
  <2>3. subject = tokens[t] => kind = legacy[t]
    BY <1>2, <2>2 DEF Uniform
  <2>4. QED
    BY <1>1, <1>2, <1>3, <2>2, <2>3 DEF MigrationInv, RightsMoved
<1>7. QED
  BY <1>4, <1>5, <1>6 DEF MigrationInv

LEMMA MigrateBindingMigration ==
  ASSUME TypeOK, MigrationInv, NEW t \in TokenId, MigrateBinding(t)
  PROVE  MigrationInv'
<1>1. /\ start.at = t /\ ~up /\ start.step = "binding"
      /\ UNCHANGED <<tokens, legacy, policies, up, before, made, req>>
      /\ start'.at = t /\ start'.step = "token" /\ start'.seen = start.seen
      /\ start'.failed = start.failed
  BY DEF MigrateBinding, Walking, Walk, TypeOK, requestVars
<1>2. Carries(t) /\ policies[<<"legacy", tokens[t]>>] = Granted(legacy[t])
  BY <1>1 DEF MigrationInv, WalkedSteps
<1>3. tokens[t] \in Subjects
  BY <1>2, WalkedToken
<1>4. /\ bindings'[<<"legacy", tokens[t]>>] = tokens[t]
      /\ \A u \in Subjects : u # tokens[t] =>
            bindings'[<<"legacy", u>>] = bindings[<<"legacy", u>>]
  BY <1>3, UserIds DEF MigrateBinding, Put, TypeOK
<1>5. LegacyKept' /\ LegacyMade' /\ Walked'
  BY <1>1, WalkMade DEF MigrationInv, LegacyKept, Walked, Carries
<1>6. WalkedSteps'
  BY <1>1, <1>2, <1>4 DEF WalkedSteps, Carries
<1>7. RightsMoved'
  <2>1. \A subject \in Subjects, kind \in Kind :
           Uniform(subject, kind)' <=> Uniform(subject, kind)
    BY <1>1 DEF Uniform
  <2>2. SUFFICES ASSUME NEW subject \in Subjects, NEW kind \in Kind,
                        Uniform(subject, kind)
                 PROVE  /\ \A v \in TokenId :
                              before[v].subject = subject /\ legacy[v] = None =>
                                /\ policies[<<"legacy", subject>>] = Granted(kind)
                                /\ bindings'[<<"legacy", subject>>] = subject
                        /\ subject \in start.seen =>
                              /\ policies[<<"legacy", subject>>] = Granted(kind)
                              /\ bindings'[<<"legacy", subject>>] = subject
    BY <1>1, <2>1 DEF RightsMoved
  <2>3. /\ \A v \in TokenId :
              before[v].subject = subject /\ legacy[v] = None =>
                /\ policies[<<"legacy", subject>>] = Granted(kind)
                /\ bindings[<<"legacy", subject>>] = subject
        /\ subject \in start.seen =>
              /\ policies[<<"legacy", subject>>] = Granted(kind)
              /\ bindings[<<"legacy", subject>>] = subject \/ tokens[t] = subject
    BY <1>1, <2>2 DEF MigrationInv, RightsMoved
  <2>4. QED
    BY <1>4, <2>2, <2>3
<1>8. QED
  BY <1>5, <1>6, <1>7 DEF MigrationInv

LEMMA MigrateTokenMigration ==
  ASSUME TypeOK, MigrationInv, NEW t \in TokenId, MigrateToken(t)
  PROVE  MigrationInv'
<1>1. /\ start' = NextToken /\ start.at = t /\ ~up /\ start.step = "token"
      /\ UNCHANGED <<tokens, policies, bindings, up, before, made, req>>
      /\ legacy'[t] = None /\ \A v \in TokenId : v # t => legacy'[v] = legacy[v]
  BY DEF MigrateToken, Walking, Walk, Put, TypeOK, requestVars
<1>2. /\ Carries(t) /\ policies[<<"legacy", tokens[t]>>] = Granted(legacy[t])
      /\ bindings[<<"legacy", tokens[t]>>] = tokens[t]
  BY <1>1 DEF MigrationInv, WalkedSteps
<1>3. before[t].subject = tokens[t] /\ before[t].kind = legacy[t]
  BY <1>2, WalkedToken
<1>4. LegacyKept' /\ LegacyMade'
  BY <1>1, WalkMade DEF MigrationInv, LegacyKept
<1>5. Walked' /\ WalkedSteps'
  BY <1>1, WalkOrder DEF MigrationInv, Walked, WalkedSteps, Carries
<1>6. RightsMoved'
  <2>1. \A subject \in Subjects, kind \in Kind :
           Uniform(subject, kind)' <=> Uniform(subject, kind)
    BY <1>1 DEF Uniform
  <2>2. \A kind \in Kind : Uniform(tokens[t], kind) => kind = legacy[t]
    BY <1>3 DEF Uniform
  <2>3. SUFFICES ASSUME NEW subject \in Subjects, NEW kind \in Kind,
                        Uniform(subject, kind)
                 PROVE  /\ \A v \in TokenId :
                              before[v].subject = subject /\ legacy'[v] = None =>
                                /\ policies[<<"legacy", subject>>] = Granted(kind)
                                /\ bindings[<<"legacy", subject>>] = subject
                        /\ subject \in start.seen =>
                              /\ policies[<<"legacy", subject>>] = Granted(kind)
                              /\ bindings[<<"legacy", subject>>] = subject
    BY <1>1, <2>1, WalkOrder DEF RightsMoved
  <2>4. /\ \A v \in TokenId :
              before[v].subject = subject /\ legacy[v] = None =>
                /\ policies[<<"legacy", subject>>] = Granted(kind)
                /\ bindings[<<"legacy", subject>>] = subject
        /\ subject \in start.seen =>
              /\ policies[<<"legacy", subject>>] = Granted(kind)
              /\ bindings[<<"legacy", subject>>] = subject
    BY <1>1, <2>3 DEF MigrationInv, RightsMoved
  <2>5. QED
    BY <1>1, <1>2, <1>3, <2>2, <2>3, <2>4
<1>7. QED
  BY <1>4, <1>5, <1>6 DEF MigrationInv

LEMMA PassOverMigration ==
  ASSUME TypeOK, MigrationInv, NEW t \in TokenId, PassOver(t)
  PROVE  MigrationInv'
<1>1. /\ start.at = t /\ ~up /\ start.step = "policy"
      /\ start'.step = "policy" /\ start'.seen = start.seen /\ start'.failed
      /\ UNCHANGED <<tokens, legacy, policies, bindings, up, before, made, req>>
  BY DEF PassOver, Walking, Walk, NextToken, TypeOK, requestVars
<1>2. LegacyKept' /\ LegacyMade'
  BY <1>1, WalkMade DEF MigrationInv, LegacyKept
<1>3. Walked' /\ WalkedSteps'
  BY <1>1 DEF Walked, WalkedSteps
<1>4. RightsMoved'
  <2>1. \A subject \in Subjects, kind \in Kind :
           Uniform(subject, kind)' <=> Uniform(subject, kind)
    BY <1>1 DEF Uniform
  <2>2. QED
    BY <1>1, <2>1 DEF MigrationInv, RightsMoved
<1>5. QED
  BY <1>2, <1>3, <1>4 DEF MigrationInv

(* The walk is over, or is begun again: only what was moved counts.         *)
LEMMA WalkOver ==
  ASSUME TypeOK, MigrationInv, UNCHANGED <<tokens, legacy, policies, bindings, before>>,
         start'.step = "policy", start'.seen = {}, LegacyMade', Walked'
  PROVE  MigrationInv'
<1>1. LegacyKept' /\ WalkedSteps'
  BY DEF MigrationInv, LegacyKept, WalkedSteps
<1>2. RightsMoved'
  BY RightsFrame DEF MigrationInv
<1>3. QED
  BY <1>1, <1>2 DEF MigrationInv

LEMMA AbandonMigration ==
  ASSUME TypeOK, MigrationInv, NEW t \in TokenId, Abandon(t)
  PROVE  MigrationInv'
<1>1. /\ start'.step = "policy" /\ start'.seen = {} /\ start'.failed
      /\ UNCHANGED <<tokens, legacy, policies, bindings, before, made, req>>
  BY DEF Abandon, Walk, Started, requestVars
<1>2. LegacyMade' /\ Walked'
  BY <1>1, WalkMade DEF Walked
<1>3. QED
  BY <1>1, <1>2, WalkOver

LEMMA ServeMigration ==
  ASSUME TypeOK, MigrationInv, Serve
  PROVE  MigrationInv'
<1>1. /\ start'.step = "policy" /\ start'.seen = {} /\ start'.failed = start.failed
      /\ start.at > MaxTokens /\ start.at \in Nat
      /\ UNCHANGED <<tokens, legacy, policies, bindings, before, made, req>>
  BY RbacAssumption DEF Serve, Walk, Started, TypeOK, requestVars
<1>2. \A t \in TokenId : t < start.at
  BY <1>1, RbacAssumption DEF TokenId
<1>3. LegacyMade' /\ Walked'
  BY <1>1, <1>2, WalkMade DEF MigrationInv, Walked, Carries
<1>4. QED
  BY <1>1, <1>3, WalkOver

LEMMA RestartMigration ==
  ASSUME TypeOK, MigrationInv, Restart
  PROVE  MigrationInv'
<1>1. /\ ~up' /\ start'.at = 1 /\ start'.step = "policy" /\ start'.seen = {}
      /\ UNCHANGED <<tokens, legacy, policies, bindings, before, made>>
      /\ \A s \in Slots : req'[s] = Idle
  BY DEF Restart, Started, treeVars
<1>2. \A t \in TokenId : ~(t < 1)
  BY RbacAssumption DEF TokenId
<1>3. LegacyMade' /\ Walked'
  BY <1>1, <1>2 DEF MigrationInv, LegacyMade, Walked, Idle, TokenOps
<1>4. QED
  BY <1>1, <1>3, WalkOver

LEMMA InitMigration == Init => MigrationInv
<1> SUFFICES ASSUME Init PROVE MigrationInv
  OBVIOUS
<1>1. /\ ~up /\ start.at = 1 /\ start.step = "policy" /\ start.seen = {}
      /\ tokens = [t \in TokenId |-> before[t].subject]
      /\ legacy = [t \in TokenId |-> IF before[t] = NoLegacy THEN None ELSE before[t].kind]
  BY DEF Init, Started
<1>2. \A t \in TokenId : ~(t < 1)
  BY RbacAssumption DEF TokenId
<1>3. \A t \in TokenId : before[t] \in Legacy \cup {NoLegacy}
  BY DEF Init
<1>4. LegacyKept /\ Walked /\ WalkedSteps
  BY <1>1, <1>2 DEF LegacyKept, Walked, WalkedSteps
<1>8. LegacyMade
  <2>1. PICK n \in 0 .. MaxLegacy :
          /\ \A t \in TokenId : before[t] = NoLegacy <=> t > n
          /\ made = 1 .. n
    BY DEF Init
  <2>2. \A t \in TokenId : legacy[t] # None => t \in made
    BY <1>1, <2>1, RbacAssumption DEF TokenId
  <2>3. \A s \in Slots : req[s].op \notin TokenOps
    BY DEF Init, Idle, TokenOps
  <2>4. QED
    BY <2>2, <2>3 DEF LegacyMade
<1>5. \A t \in TokenId : before[t].subject \in Subjects => legacy[t] # None
  BY <1>1, <1>3, RbacAssumption, NoneAssumption DEF Legacy, NoLegacy
<1>6. RightsMoved
  BY <1>1, <1>5 DEF RightsMoved
<1>7. QED
  BY <1>4, <1>6, <1>8 DEF MigrationInv

(* A token that was rewritten has left its rights in policies and bindings, *)
(* wherever the migration was cut by a kill or ended by an error:           *)
(* MigrationInv is inductive.                                               *)
THEOREM MigrationInvariance == Spec => []MigrationInv
<1>1. TypeOK /\ MigrationInv /\ [Next]_vars => MigrationInv'
  <2> SUFFICES ASSUME TypeOK, MigrationInv, [Next]_vars PROVE MigrationInv'
    OBVIOUS
  <2>1. CASE UNCHANGED vars
    <3>1. UNCHANGED <<tokens, legacy, policies, bindings, start, up, before, made, req>>
      BY <2>1 DEF vars
    <3>2. \A subject \in Subjects, kind \in Kind :
             Uniform(subject, kind)' <=> Uniform(subject, kind)
      BY <3>1 DEF Uniform
    <3>3. RightsMoved'
      BY <3>1, <3>2 DEF MigrationInv, RightsMoved
    <3>4. LegacyKept' /\ LegacyMade' /\ Walked' /\ WalkedSteps'
      BY <3>1, WalkMade DEF MigrationInv, LegacyKept, Walked, WalkedSteps, Carries
    <3>5. QED
      BY <3>3, <3>4 DEF MigrationInv
  <2>2. ASSUME NEW t \in TokenId, Migrate(t) PROVE MigrationInv'
    BY <2>2, SkipMigration, MigrateAgainMigration, MigratePolicyMigration,
       MigrateBindingMigration, MigrateTokenMigration, PassOverMigration,
       AbandonMigration DEF Migrate
  <2>3. QED
    BY <2>1, <2>2, ServeMigration, StepMigration, RestartMigration DEF Next
<1>2. QED
  BY InitMigration, <1>1, TypeCorrect, PTL DEF Spec

(* When the master serves, an owner whose older tokens said the same has    *)
(* the rights they gave, or all of these tokens still carry them, because   *)
(* of an error in this start; for any number of tokens, kills and starts.   *)
THEOREM MigrationRights == Spec => []MigrationKeepsRights
<1>1. TypeOK /\ MigrationInv => MigrationKeepsRights
  <2> SUFFICES ASSUME TypeOK, MigrationInv, up, NEW subject \in Subjects, NEW kind \in Kind,
                      Uniform(subject, kind), ~Untouched(subject)
               PROVE  Granted(kind) \in Rights(subject)
    BY DEF MigrationKeepsRights
  <2>1. PICK t \in TokenId :
          before[t].subject = subject /\ ~(legacy[t] # None /\ (tokens[t] # None => start.failed))
    BY DEF Untouched
  <2>2. legacy[t] = None
    BY <2>1 DEF MigrationInv, Walked, Carries
  <2>3. /\ policies[<<"legacy", subject>>] = Granted(kind)
        /\ bindings[<<"legacy", subject>>] = subject
    BY <2>1, <2>2 DEF MigrationInv, RightsMoved
  <2>4. Granted(kind) # None
    BY GrantedType, NoneAssumption
  <2>5. QED
    BY <2>3, <2>4, UserIds DEF Rights
<1>2. QED
  BY <1>1, TypeCorrect, MigrationInvariance, PTL

=============================================================================
