------------------------- MODULE Reconciler_proofs --------------------------
(* Theorems about Reconciler: types, what an undisturbed iteration knows,   *)
(* and that it spares fitting and foreign containers.                       *)
EXTENDS Reconciler, TLAPS

LEMMA InitType == Init => TypeOK
<1> SUFFICES ASSUME Init PROVE TypeOK
  OBVIOUS
<1>1. upsets \in 0 .. MaxUpsets
  BY ReconcilerAssumption DEF Init
<1>2. manifest \in [Apps -> Manifest] /\ docker \in [Apps -> Container]
  BY DEF Init, Manifest, Container, Owner, Status, Env
<1>3. round \in Round /\ round.todo = {}
  <2>1. PICK a \in Apps :
          round = [step |-> "idle", wanted |-> manifest, listed |-> {},
                   todo |-> {}, app |-> a, env |-> NoVar, upset |-> FALSE]
    BY DEF Init
  <2>2. "idle" \in Step /\ NoVar \in Env
    BY DEF Step, Env
  <2>3. QED
    BY <1>2, <2>1, <2>2 DEF Round
<1>4. QED
  BY <1>1, <1>2, <1>3 DEF Init, TypeOK

(* What the steps of the loop do to the counter and the flag.               *)
LEMMA UpsetType ==
  ASSUME TypeOK, Upset
  PROVE  upsets' \in 0 .. MaxUpsets
BY ReconcilerAssumption DEF TypeOK, Upset

(* A step that changes only where the iteration is.                         *)
LEMMA ToType ==
  ASSUME TypeOK, NEW step \in Step
  PROVE  /\ To(step) \in Round
         /\ To(step).todo = round.todo /\ To(step).wanted = round.wanted
         /\ To(step).step = step
BY DEF TypeOK, To, Round

(* A step with a request that worked or failed, to a well-typed round.      *)
LEMMA StepType ==
  ASSUME TypeOK, NEW next \in Round, Goes(next) \/ Fails(next),
         \A a \in next.todo : next.wanted[a].set,
         next.step \in {"idle", "list"} => next.todo = {},
         docker' \in [Apps -> Container],
         UNCHANGED <<host, manifest, secret>>
  PROVE  TypeOK'
<1>1. upsets' \in 0 .. MaxUpsets
  BY UpsetType DEF Goes, Fails, TypeOK
<1>2. /\ round' \in Round /\ round'.todo = next.todo
      /\ round'.wanted = next.wanted /\ round'.step = next.step
  BY DEF Goes, Fails, Round
<1>3. QED
  BY <1>1, <1>2 DEF TypeOK

(* The record a create puts in place, and the ways a container changes.     *)
LEMMA DockerType ==
  ASSUME TypeOK, NEW a \in Apps
  PROVE  /\ Gone(a) => docker' \in [Apps -> Container]
         /\ Created(a) => docker' \in [Apps -> Container]
         /\ \A status \in Status :
              [docker EXCEPT ![a].status = status] \in [Apps -> Container]
         /\ \A owner \in Owner, status \in Status :
              [docker EXCEPT ![a].owner = owner, ![a].status = status]
                \in [Apps -> Container]
<1>1. docker[a] \in Container /\ round.wanted[a].image \in Images /\ round.env \in Env
  BY DEF TypeOK, Round, Manifest
<1>2. Gone(a) => docker' \in [Apps -> Container]
  BY <1>1 DEF Gone, TypeOK, Container, Owner
<1>3. Created(a) => docker' \in [Apps -> Container]
  BY <1>1 DEF Created, TypeOK, Container, Owner, Status
<1>4. \A status \in Status :
        [docker EXCEPT ![a].status = status] \in [Apps -> Container]
  BY <1>1 DEF TypeOK, Container
<1>5. \A owner \in Owner, status \in Status :
        [docker EXCEPT ![a].owner = owner, ![a].status = status]
          \in [Apps -> Container]
  BY <1>1 DEF TypeOK, Container
<1>6. QED
  BY <1>2, <1>3, <1>4, <1>5

(* Something happens outside of the loop.                                   *)
LEMMA MeanwhileType ==
  ASSUME TypeOK, Meanwhile
  PROVE  /\ upsets' \in 0 .. MaxUpsets
         /\ round' \in Round /\ round'.todo = round.todo
         /\ round'.wanted = round.wanted /\ round'.step = round.step
BY UpsetType DEF Meanwhile, TypeOK, Round

LEMMA VisitType ==
  ASSUME TypeOK, NEW a \in Apps, Visit(a) \/ InspectFails(a)
  PROVE  TypeOK'
<1>1. CASE Visit(a)
  <2>1. PICK env \in {Resolved(a), Ref}, step \in {"create", "remove", "visit"} :
          LET next == [round EXCEPT !.todo = @ \ {a}, !.app = a, !.env = env,
                                    !.listed = NotOrphan(a), !.step = step]
          IN  Goes(next) \/ Fails(next)
    BY <1>1 DEF Visit
  <2>2. env \in Env
    BY DEF Resolved, Meaning, Env, TypeOK, Round, Manifest
  <2>3. PICK next :
          /\ next = [round EXCEPT !.todo = @ \ {a}, !.app = a, !.env = env,
                                  !.listed = NotOrphan(a), !.step = step]
          /\ Goes(next) \/ Fails(next)
    BY <2>1
  <2>4. /\ next \in Round /\ next.todo = round.todo \ {a}
        /\ next.wanted = round.wanted /\ next.step = step
    BY <2>2, <2>3 DEF TypeOK, Round, NotOrphan, Step
  <2>5. \A b \in next.todo : next.wanted[b].set
    BY <2>4 DEF TypeOK
  <2>6. QED
    BY <1>1, <2>3, <2>4, <2>5, StepType DEF Visit, TypeOK
<1>2. CASE InspectFails(a)
  <2>1. PICK next : /\ next = [round EXCEPT !.todo = @ \ {a}, !.listed = NotOrphan(a)]
                    /\ Fails(next)
    BY <1>2 DEF InspectFails
  <2>2. /\ next \in Round /\ next.todo = round.todo \ {a}
        /\ next.wanted = round.wanted /\ next.step = "visit"
    BY <1>2, <2>1 DEF TypeOK, Round, NotOrphan, InspectFails
  <2>3. \A b \in next.todo : next.wanted[b].set
    BY <2>2 DEF TypeOK
  <2>4. QED
    BY <1>2, <2>1, <2>2, <2>3, StepType DEF InspectFails, TypeOK
<1>3. QED
  BY <1>1, <1>2

LEMMA NextType == TypeOK /\ [Next]_vars => TypeOK'
<1> SUFFICES ASSUME TypeOK, [Next]_vars PROVE TypeOK'
  OBVIOUS
<1>1. ASSUME NEW a \in Apps, ManifestChanges(a) PROVE TypeOK'
  BY <1>1, MeanwhileType DEF ManifestChanges, TypeOK
<1>2. CASE SecretChanges
  BY <1>2, MeanwhileType DEF SecretChanges, TypeOK
<1>3. ASSUME NEW a \in Apps, UserActs(a) PROVE TypeOK'
  <2>1. docker' \in [Apps -> Container]
    <3>1. {"none", "foreign", "other"} \subseteq Owner
          /\ {"running", "stopped"} \subseteq Status
      BY DEF Owner, Status
    <3>2. CASE docker' = [docker EXCEPT ![a].owner = "none"]
      BY <3>2, DockerType DEF Gone
    <3>3. QED
      BY <1>3, <3>1, <3>2, DockerType DEF UserActs
  <2>2. QED
    BY <1>3, <2>1, MeanwhileType DEF UserActs, TypeOK
<1>4. CASE AgentRestart
  <2>1. round' \in Round /\ round'.todo = {}
    BY <1>4 DEF AgentRestart, TypeOK, Round, Step
  <2>2. host' \in Host
    BY <1>4 DEF AgentRestart, TypeOK, Host
  <2>3. QED
    BY <1>4, <2>1, <2>2, UpsetType DEF AgentRestart, TypeOK
<1>5. CASE Fetch \/ FetchNothing
  <2>1. PICK wanted \in [Apps -> Manifest], upset \in BOOLEAN :
          round' = [round EXCEPT !.step = "list", !.wanted = wanted, !.upset = upset]
    <3>1. CASE Fetch
      BY <3>1 DEF Fetch, Goes, TypeOK
    <3>2. CASE FetchNothing
      <4>1. PICK wanted : wanted = [b \in Apps |-> [manifest[b] EXCEPT !.set = FALSE]]
        OBVIOUS
      <4>2. wanted \in [Apps -> Manifest]
        BY <4>1 DEF TypeOK, Manifest
      <4>3. round' = [round EXCEPT !.step = "list", !.wanted = wanted, !.upset = TRUE]
        BY <3>2, <4>1 DEF FetchNothing, Fails, TypeOK, Round
      <4>4. QED
        BY <4>2, <4>3
    <3>3. QED
      BY <1>5, <3>1, <3>2
  <2>2. round' \in Round /\ round'.todo = {}
    BY <1>5, <2>1 DEF TypeOK, Round, Step, Fetch, FetchNothing
  <2>3. QED
    BY <1>5, <2>2, UpsetType DEF Fetch, FetchNothing, Goes, Fails, TypeOK
<1>6. CASE List
  <2>1. PICK next : /\ Goes(next) \/ Fails(next)
                    /\ \/ next = [round EXCEPT !.step = "visit", !.todo = Wanted,
                              !.listed = {a \in Apps : docker[a].owner = "node"}]
                       \/ next = [round EXCEPT !.step = "idle"]
    BY <1>6 DEF List
  <2>2. next \in Round /\ (next.step \in {"idle", "list"} => next.todo = {})
    <3>1. round \in Round /\ round.step = "list" /\ round.todo = {}
      BY <1>6 DEF List, TypeOK
    <3>2. Wanted \subseteq Apps
      BY DEF Wanted
    <3>3. CASE next = [round EXCEPT !.step = "visit", !.todo = Wanted,
                              !.listed = {a \in Apps : docker[a].owner = "node"}]
      BY <3>1, <3>2, <3>3 DEF Round, Step
    <3>4. CASE next = [round EXCEPT !.step = "idle"]
      BY <3>1, <3>4 DEF Round, Step
    <3>5. QED
      BY <2>1, <3>3, <3>4
  <2>3. \A a \in next.todo : next.wanted[a].set
    BY <2>1 DEF TypeOK, Round, Wanted
  <2>4. QED
    BY <1>6, <2>1, <2>2, <2>3, StepType DEF List, TypeOK
<1>7. ASSUME NEW a \in Apps, Visit(a) \/ InspectFails(a) PROVE TypeOK'
  BY <1>7, VisitType
<1>8. ASSUME NEW a \in Apps, Remove(a) \/ Create(a) \/ Replace(a) \/ Recreate(a)
                               \/ Start(a)
      PROVE  TypeOK'
  <2>1. docker' \in [Apps -> Container]
    <3>1. docker \in [Apps -> Container] /\ {"running", "stopped"} \subseteq Status
      BY DEF TypeOK, Status
    <3> DEFINE halted == [docker EXCEPT ![a].status = "stopped"]
               runs == [docker EXCEPT ![a].status = "running"]
    <3>1a. halted \in [Apps -> Container] /\ runs \in [Apps -> Container]
      BY <3>1, DockerType
    <3>2. CASE Remove(a)
      <4>1. Gone(a) \/ docker' \in {docker, halted}
        BY <3>2 DEF Remove
      <4> HIDE DEF halted
      <4>2. QED
        BY <3>1, <3>1a, <4>1, DockerType
    <3>3. CASE Create(a) \/ Recreate(a)
      BY <3>1, <3>3, DockerType DEF Create, Recreate
    <3>4. CASE Replace(a)
      BY <3>1, <3>4, DockerType DEF Replace
    <3>5. CASE Start(a)
      <4>1. docker' \in {docker, runs}
        BY <3>5 DEF Start
      <4> HIDE DEF runs
      <4>2. QED
        BY <3>1, <3>1a, <4>1
    <3>6. QED
      BY <1>8, <3>2, <3>3, <3>4, <3>5
  <2>2. PICK step \in {"create", "start", "replace", "visit", "recreate"} :
          Goes(To(step)) \/ Fails(To(step))
    BY <1>8 DEF Remove, Create, Replace, Recreate, Start
  <2>3. step \in Step
    BY DEF Step
  <2>4. \A b \in To(step).todo : To(step).wanted[b].set
    BY <2>3, ToType DEF TypeOK
  <2>5. UNCHANGED <<host, manifest, secret>>
    BY <1>8 DEF Remove, Create, Replace, Recreate, Start
  <2>6. QED
    BY <2>1, <2>2, <2>3, <2>4, <2>5, ToType, StepType
<1>9. ASSUME NEW a \in Apps, RemoveOrphan(a) PROVE TypeOK'
  <2>1. PICK next : /\ next = [round EXCEPT !.listed = @ \ {a}]
                    /\ Goes(next) \/ Fails(next)
    BY <1>9 DEF RemoveOrphan
  <2>2. next \in Round /\ next.todo = {}
    BY <1>9, <2>1 DEF TypeOK, Round, RemoveOrphan
  <2>3. docker' \in [Apps -> Container]
    BY <1>9, DockerType DEF RemoveOrphan, TypeOK
  <2>4. QED
    BY <1>9, <2>1, <2>2, <2>3, StepType DEF RemoveOrphan
<1>10. CASE RoundEnds
  <2>1. "idle" \in Step
    BY DEF Step
  <2>2. To("idle").todo = {}
    BY <1>10, <2>1, ToType DEF RoundEnds
  <2>3. QED
    BY <1>10, <2>1, <2>2, ToType, StepType DEF RoundEnds, TypeOK
<1>11. CASE UNCHANGED vars
  BY <1>11 DEF vars, TypeOK
<1>12. QED
  BY <1>1, <1>2, <1>3, <1>4, <1>5, <1>6, <1>7, <1>8, <1>9, <1>10, <1>11
     DEF Next, Loop

(* The variables of the reconciler keep their types.                        *)
THEOREM TypeCorrect == Spec => []TypeOK
<1>1. QED
  BY InitType, NextType, PTL DEF Spec

-----------------------------------------------------------------------------
(* What an undisturbed iteration knows.                                     *)

LEMMA InitRound == Init => RoundInv
BY DEF Init, RoundInv, Working

(* A step with a request that failed or a change from outside is no longer  *)
(* undisturbed; one with a request that worked is if it was before.         *)
LEMMA StillUndisturbed ==
  ASSUME TypeOK, NEW next \in Round, next.upset = round.upset,
         Goes(next) \/ Fails(next), ~round'.upset
  PROVE  Goes(next) /\ round' = next /\ ~round.upset
BY DEF Goes, Fails, Round

(* The containers of the other apps stay as they are.                       *)
LEMMA DockerOthers ==
  ASSUME TypeOK, NEW a \in Apps,
         \/ Gone(a) \/ Created(a) \/ UNCHANGED docker
         \/ docker' = [docker EXCEPT ![a].status = "running"]
  PROVE  /\ \A b \in Apps \ {a} : docker'[b] = docker[b]
         /\ Gone(a) => docker'[a].owner = "none"
         /\ Created(a) => docker'[a].owner = "node"
         /\ docker' = [docker EXCEPT ![a].status = "running"]
              => docker'[a].owner = docker[a].owner
BY DEF TypeOK, Container, Gone, Created

(* The steps that work on one app after it was visited.                     *)
LEMMA WorkingRound ==
  ASSUME TypeOK, RoundInv, NEW a \in Apps, ~round'.upset,
         Remove(a) \/ Create(a) \/ Replace(a) \/ Recreate(a) \/ Start(a)
  PROVE  RoundInv'
<1>1. PICK step \in {"create", "start", "replace", "visit", "recreate"} :
        Goes(To(step)) \/ Fails(To(step))
  BY DEF Remove, Create, Replace, Recreate, Start
<1>2. /\ To(step) \in Round /\ To(step).upset = round.upset
      /\ To(step).app = round.app /\ To(step).listed = round.listed
      /\ To(step).todo = round.todo /\ To(step).wanted = round.wanted
      /\ To(step).step = step
  BY DEF TypeOK, To, Round, Step
<1>3. Goes(To(step)) /\ round' = To(step) /\ ~round.upset
  BY <1>1, <1>2, StillUndisturbed
<1>4. upsets' = upsets
  BY <1>3 DEF Goes
<1>5. ~\E next : Fails(next)
  BY <1>4 DEF Fails, Upset, TypeOK
<1>6. \A s \in Step : Goes(To(s)) => s = step
  BY <1>2, <1>3, ToType DEF Goes, Step
<1>7. round.step \in Working /\ round.app = a
  BY DEF Remove, Create, Replace, Recreate, Start, Working
<1>8. /\ round.wanted = manifest /\ a \notin round.todo \cup round.listed
      /\ \A b \in round.listed : round.wanted[b].set => b \in round.todo
      /\ \A b \in round.todo \ round.listed : docker[b].owner # "node"
  BY <1>3, <1>7 DEF RoundInv, Working
<1>9. \/ Gone(a) \/ Created(a) \/ UNCHANGED docker
      \/ docker' = [docker EXCEPT ![a].status = "running"]
  BY <1>5 DEF Remove, Create, Replace, Recreate, Start
<1>10. \A b \in Apps \ {a} : docker'[b] = docker[b]
  BY <1>9, DockerOthers
<1>11. /\ step \in {"create", "recreate"} => docker'[a].owner # "node"
       /\ step = "replace" => docker'[a].owner = "other"
       /\ step = "start" => docker'[a].owner = "node"
  <2>1. {"create", "start", "replace", "visit", "recreate"} \subseteq Step
    BY DEF Step
  <2>2. CASE Remove(a)
    BY <1>5, <1>6, <2>1, <2>2, DockerOthers DEF Remove
  <2>3. CASE Create(a)
    <3>1. docker[a].owner # "node"
      BY <1>3, <2>3 DEF RoundInv, Create
    <3>2. CASE Created(a) /\ Goes(To("start"))
      BY <1>6, <2>1, <3>2, DockerOthers
    <3>3. CASE Ours(a) /\ UNCHANGED docker /\ Goes(To("replace"))
      BY <1>6, <2>1, <3>1, <3>3 DEF Ours
    <3>4. CASE Goes(To("visit"))
      BY <1>6, <2>1, <3>4
    <3>5. QED
      BY <1>5, <2>3, <3>2, <3>3, <3>4 DEF Create
  <2>4. CASE Replace(a)
    BY <1>5, <1>6, <2>1, <2>4, DockerOthers DEF Replace
  <2>5. CASE Recreate(a)
    BY <1>5, <1>6, <2>1, <2>5, DockerOthers DEF Recreate
  <2>6. CASE Start(a)
    BY <1>5, <1>6, <2>1, <2>6 DEF Start
  <2>7. QED
    BY <2>2, <2>3, <2>4, <2>5, <2>6
<1>12. manifest' = manifest
  BY DEF Remove, Create, Replace, Recreate, Start
<1>13. round.todo \subseteq Apps
  BY DEF TypeOK, Round
<1>14. /\ round'.step = step /\ round'.app = a /\ round'.todo = round.todo
       /\ round'.listed = round.listed /\ round'.wanted = round.wanted
  BY <1>2, <1>3, <1>7
<1>15. \A b \in round.todo \ round.listed : docker'[b].owner # "node"
  BY <1>8, <1>10, <1>13
<1>16. QED
  BY <1>8, <1>11, <1>12, <1>14, <1>15 DEF RoundInv, Working

(* A visit finds out what has to be done with the container of the app.     *)
LEMMA VisitRound ==
  ASSUME TypeOK, RoundInv, NEW a \in Apps, ~round'.upset, Visit(a)
  PROVE  RoundInv'
<1> DEFINE step == IF a \notin round.listed THEN "create"
                   ELSE IF docker[a].owner = "node" /\ ~Same(a, Resolved(a))
                   THEN "remove" ELSE "visit"
<1>1. round' = [round EXCEPT !.todo = @ \ {a}, !.app = a, !.env = Resolved(a),
                             !.listed = NotOrphan(a), !.step = step]
  BY DEF Visit, Goes, Fails, TypeOK, Round
<1>2. step \in {"create", "remove", "visit"}
  OBVIOUS
<1> HIDE DEF step
<1>3. /\ round'.todo = round.todo \ {a} /\ round'.app = a
      /\ round'.listed = round.listed \ {a} /\ round'.step = step
      /\ round'.wanted = round.wanted /\ ~round.upset
  BY <1>1 DEF TypeOK, Round, NotOrphan
<1>4. /\ round.step = "visit" /\ a \in round.todo /\ round.wanted[a].set
      /\ UNCHANGED <<manifest, secret, docker>>
  BY DEF Visit, TypeOK
<1>5. /\ round.wanted = manifest
      /\ \A b \in round.listed : round.wanted[b].set => b \in round.todo
      /\ \A b \in round.todo \ round.listed : docker[b].owner # "node"
  BY <1>3, <1>4 DEF RoundInv
<1>6. step = "remove" => ~Fits(a)
  <2>1. manifest[a].env = NoVar => Resolved(a) = NoVar
    BY <1>5, ReconcilerAssumption DEF Resolved, Meaning
  <2>2. QED
    BY <1>5, <2>1 DEF step, Fits, Same, Resolved
<1>7. step = "create" => docker[a].owner # "node"
  BY <1>4, <1>5 DEF step
<1>8. (~Fits(a))' <=> ~Fits(a)
  BY <1>4 DEF Fits, Meaning
<1>9. QED
  BY <1>2, <1>3, <1>4, <1>5, <1>6, <1>7, <1>8 DEF RoundInv, Working, Fits

LEMMA NextRound == TypeOK /\ RoundInv /\ [Next]_vars => RoundInv'
<1> SUFFICES ASSUME TypeOK, RoundInv, [Next]_vars, ~round'.upset PROVE RoundInv'
  BY DEF RoundInv
<1>1. CASE Meanwhile
  BY <1>1 DEF Meanwhile, TypeOK, Round
<1>2. ASSUME NEW a \in Apps, ManifestChanges(a) \/ UserActs(a) PROVE RoundInv'
  BY <1>1, <1>2 DEF ManifestChanges, UserActs
<1>3. CASE SecretChanges
  BY <1>1, <1>3 DEF SecretChanges
<1>4. CASE FetchNothing
  BY <1>4 DEF FetchNothing, Fails, TypeOK, Round
<1>5. ASSUME NEW a \in Apps, InspectFails(a) PROVE RoundInv'
  BY <1>5 DEF InspectFails, Fails, TypeOK, Round
<1>6. CASE AgentRestart
  BY <1>6 DEF AgentRestart, RoundInv, Working, TypeOK, Round
<1>7. CASE Fetch
  BY <1>7 DEF Fetch, Goes, RoundInv, Working, TypeOK, Round
<1>8. CASE List
  <2>1. CASE Goes([round EXCEPT !.step = "visit", !.todo = Wanted,
                     !.listed = {a \in Apps : docker[a].owner = "node"}])
    <3>1. /\ round'.step = "visit" /\ round'.todo = Wanted
          /\ round'.listed = {a \in Apps : docker[a].owner = "node"}
          /\ round'.wanted = round.wanted /\ ~round.upset
      BY <2>1 DEF Goes, TypeOK, Round
    <3>2. round.wanted = manifest
      BY <1>8, <3>1 DEF List, RoundInv
    <3>3. UNCHANGED <<manifest, docker>>
      BY <1>8 DEF List
    <3>4. QED
      BY <3>1, <3>2, <3>3 DEF RoundInv, Working, Wanted
  <2>2. CASE Fails([round EXCEPT !.step = "idle"])
    BY <2>2 DEF Fails, TypeOK, Round
  <2>3. QED
    BY <1>8, <2>1, <2>2 DEF List
<1>9. ASSUME NEW a \in Apps, Visit(a) PROVE RoundInv'
  BY <1>9, VisitRound
<1>10. ASSUME NEW a \in Apps, Remove(a) \/ Create(a) \/ Replace(a) \/ Recreate(a)
                                \/ Start(a)
       PROVE  RoundInv'
  BY <1>10, WorkingRound
<1>11. ASSUME NEW a \in Apps, RemoveOrphan(a) PROVE RoundInv'
  <2>1. /\ round'.step = "visit" /\ round'.todo = {} /\ ~round.upset
        /\ round'.listed = round.listed \ {a} /\ round'.wanted = round.wanted
    BY <1>11 DEF RemoveOrphan, Goes, Fails, TypeOK, Round
  <2>2. /\ round.wanted = manifest /\ manifest' = manifest
        /\ \A b \in round.listed : ~round.wanted[b].set
    BY <1>11, <2>1 DEF RemoveOrphan, RoundInv
  <2>3. QED
    BY <2>1, <2>2 DEF RoundInv, Working
<1>12. CASE RoundEnds
  <2>1. round'.step = "idle"
    BY <1>12 DEF RoundEnds, Goes, To, TypeOK, Round
  <2>2. QED
    BY <2>1 DEF RoundInv, Working
<1>13. CASE UNCHANGED vars
  BY <1>13 DEF vars, RoundInv, Fits, Meaning
<1>14. QED
  BY <1>2, <1>3, <1>4, <1>5, <1>6, <1>7, <1>8, <1>9, <1>10, <1>11, <1>12, <1>13
     DEF Next, Loop

(* An undisturbed iteration knows the manifests, visits every app whose     *)
(* container it might have to change, and works only on names that it may.  *)
THEOREM RoundInvariance == Spec => []RoundInv
<1>1. QED
  BY InitRound, NextRound, TypeCorrect, PTL DEF Spec

-----------------------------------------------------------------------------
(* What an undisturbed iteration spares.                                    *)

(* The containers that a step of the loop touches when nothing fails.       *)
LEMMA Touches ==
  ASSUME TypeOK, RoundInv, Next, ~round.upset, upsets' = upsets,
         NEW a \in Apps, docker'[a] # docker[a]
  PROVE  /\ ~Fits(a) \/ docker' = [docker EXCEPT ![a].status = "running"]
         /\ docker[a].owner # "foreign"
<1>1. ~\E next : Fails(next)
  BY DEF Fails, Upset, TypeOK
<1>2. ~Upset
  BY DEF Upset, TypeOK
<1>3. PICK b \in Apps : \/ Remove(b) \/ Create(b) \/ Replace(b) \/ Recreate(b)
                        \/ Start(b) \/ RemoveOrphan(b)
  BY <1>1, <1>2 DEF Next, Loop, Meanwhile, ManifestChanges, UserActs,
       SecretChanges, AgentRestart, InspectFails, FetchNothing, Fetch, List,
       RoundEnds, Visit
<1>4. a = b
  <2>1. \/ Gone(b) \/ Created(b) \/ UNCHANGED docker
        \/ docker' = [docker EXCEPT ![b].status = "running"]
    <3>1. CASE Remove(b)
      BY <1>1, <3>1 DEF Remove
    <3>2. CASE Create(b) \/ Recreate(b)
      BY <1>1, <3>2 DEF Create, Recreate
    <3>3. CASE Replace(b)
      BY <1>1, <3>3 DEF Replace
    <3>4. CASE Start(b)
      BY <1>1, <3>4 DEF Start
    <3>5. CASE RemoveOrphan(b)
      BY <1>1, <3>5 DEF RemoveOrphan
    <3>6. QED
      BY <1>3, <3>1, <3>2, <3>3, <3>4, <3>5
  <2>2. QED
    BY <2>1, DockerOthers
<1>5. CASE Remove(b)
  BY <1>1, <1>4, <1>5 DEF Remove, RoundInv
<1>6. CASE Create(b) \/ Recreate(b)
  BY <1>1, <1>4, <1>6 DEF Create, Recreate, Fits
<1>7. CASE Replace(b)
  BY <1>1, <1>4, <1>7 DEF Replace, RoundInv, Fits
<1>8. CASE Start(b)
  BY <1>1, <1>4, <1>8 DEF Start, RoundInv
<1>9. CASE RemoveOrphan(b)
  <2>1. docker[b].owner = "node" /\ b \in round.listed
    BY <1>1, <1>4, <1>9 DEF RemoveOrphan
  <2>2. ~manifest[b].set
    BY <1>9, <2>1 DEF RemoveOrphan, RoundInv
  <2>3. QED
    BY <1>4, <2>1, <2>2 DEF Fits
<1>10. QED
  BY <1>3, <1>5, <1>6, <1>7, <1>8, <1>9

(* An undisturbed iteration never touches a container r4a did not create.   *)
THEOREM ForeignIsSpared == Spec => ForeignSpared
<1> DEFINE Spares == \A a \in Apps :
             docker[a].owner = "foreign" /\ ~round.upset /\ upsets' = upsets
               => docker'[a] = docker[a]
<1>1. ASSUME TypeOK, RoundInv, [Next]_vars PROVE [Spares]_vars
  BY <1>1, Touches
<1>2. QED
  BY <1>1, TypeCorrect, RoundInvariance, PTL DEF Spec, ForeignSpared

(* An undisturbed iteration neither restarts nor removes a running          *)
(* container that fits its manifest and the vault.                          *)
THEOREM FittingIsKept == Spec => FittingKept
<1> DEFINE Keeps == \A a \in Apps :
             Fits(a) /\ ~round.upset /\ upsets' = upsets =>
               /\ Fits(a)'
               /\ docker[a].status = "running" => docker'[a] = docker[a]
<1>1. ASSUME TypeOK, RoundInv, [Next]_vars PROVE [Keeps]_vars
  <2> SUFFICES ASSUME Next, NEW a \in Apps, Fits(a), ~round.upset, upsets' = upsets
               PROVE  /\ Fits(a)'
                      /\ docker[a].status = "running" => docker'[a] = docker[a]
    BY <1>1
  <2>1. UNCHANGED <<host, manifest, secret>>
    <3>1. ~Upset
      BY <1>1 DEF Upset, TypeOK
    <3>2. CASE Loop
      BY <3>2 DEF Loop, Fetch, List, RoundEnds, Visit, Remove, Create, Replace,
           Recreate, Start, RemoveOrphan
    <3>3. CASE FetchNothing \/ AgentRestart
      BY <3>1, <3>3 DEF FetchNothing, AgentRestart
    <3>4. ASSUME NEW b \in Apps, InspectFails(b)
          PROVE  UNCHANGED <<host, manifest, secret>>
      BY <3>4 DEF InspectFails
    <3>5. ~Meanwhile
      BY <3>1 DEF Meanwhile
    <3>6. QED
      BY <3>2, <3>3, <3>4, <3>5 DEF Next, ManifestChanges, UserActs, SecretChanges
  <2>2. CASE docker'[a] = docker[a]
    BY <2>1, <2>2 DEF Fits, Meaning
  <2>3. CASE docker'[a] # docker[a]
    <3>1. docker' = [docker EXCEPT ![a].status = "running"]
      BY <1>1, <2>3, Touches
    <3>2. docker'[a] = [docker[a] EXCEPT !.status = "running"]
      BY <1>1, <3>1 DEF TypeOK
    <3>3. docker[a] \in Container
      BY <1>1 DEF TypeOK
    <3>4. docker[a].status = "running" => docker'[a] = docker[a]
      BY <3>2, <3>3 DEF Container
    <3>5. /\ docker'[a].owner = docker[a].owner
          /\ docker'[a].image = docker[a].image
          /\ docker'[a].env = docker[a].env
      BY <3>2, <3>3 DEF Container
    <3>6. QED
      BY <2>1, <3>4, <3>5 DEF Fits, Meaning
  <2>4. QED
    BY <2>2, <2>3
<1>2. QED
  BY <1>1, TypeCorrect, RoundInvariance, PTL DEF Spec, FittingKept
=============================================================================
