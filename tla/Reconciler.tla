----------------------------- MODULE Reconciler -----------------------------
(***************************************************************************)
(* The containers of one node, an agent or the master itself: the loop     *)
(* that fetches the manifests of the node and Reconciler::reconcile, which *)
(* resolves secrets, asks Docker what runs and removes, creates and starts *)
(* containers until they fit.  Between its requests users change           *)
(* manifests, secrets and containers, and any request may fail.            *)
(*                                                                         *)
(* Of a container's environment the model has one variable, which a        *)
(* manifest may leave out or refer to a secret of the vault.               *)
(***************************************************************************)
EXTENDS Naturals

CONSTANTS
    Apps,
    Images,
    Secrets,     \* values of the secret
    NoVar,       \* the manifest, or the container, does not set the variable
    Ref,         \* the text of the reference, as the manifest has it
    MaxUpsets    \* bound: changes from outside, faults and restarts together

ASSUME ReconcilerAssumption ==
    /\ NoVar \notin Secrets /\ Ref \notin Secrets /\ NoVar # Ref
    /\ MaxUpsets \in Nat

VARIABLES
    host,        \* where the loop runs, and whether it has a token
    manifest,    \* manifests of the node at the master
    secret,      \* value in the vault
    docker,      \* the container that has the name of each app
    round,       \* the running iteration of the loop
    upsets

vars == <<host, manifest, secret, docker, round, upsets>>

\* The master gives its reconciler no token, and an agent may have none.
Host == {"agent", "tokenless", "master"}
Manifest == [set : BOOLEAN, image : Images, env : {NoVar, Ref}]
Owner == {"none", "node", "other", "foreign"}
Status == {"created", "running", "stopped"}
Env == Secrets \cup {NoVar, Ref}
Container == [owner : Owner, status : Status, image : Images, env : Env]
Step == {"idle", "list", "visit", "remove", "create", "replace", "recreate",
         "start"}
Round == [step : Step, wanted : [Apps -> Manifest], listed : SUBSET Apps,
          todo : SUBSET Apps, app : Apps, env : Env, upset : BOOLEAN]

TypeOK ==
    /\ host \in Host
    /\ manifest \in [Apps -> Manifest]
    /\ secret \in Secrets
    /\ docker \in [Apps -> Container]
    /\ round \in Round
    /\ upsets \in 0 .. MaxUpsets
    /\ \A a \in round.todo : round.wanted[a].set
    /\ round.step \in {"idle", "list"} => round.todo = {}

\* No names are taken, nobody has stored a manifest.
Init ==
    /\ host \in Host
    /\ \E i \in Images :
         /\ manifest = [a \in Apps |-> [set |-> FALSE, image |-> i, env |-> NoVar]]
         /\ docker = [a \in Apps |-> [owner |-> "none", status |-> "created",
                                      image |-> i, env |-> NoVar]]
    /\ secret \in Secrets
    /\ \E a \in Apps :
         round = [step |-> "idle", wanted |-> manifest, listed |-> {},
                  todo |-> {}, app |-> a, env |-> NoVar, upset |-> FALSE]
    /\ upsets = 0

-----------------------------------------------------------------------------
(* The surroundings *)

Upset ==
    /\ upsets < MaxUpsets
    /\ upsets' = upsets + 1

Meanwhile == Upset /\ round' = [round EXCEPT !.upset = TRUE]

\* A manifest is stored or deleted at the master.
ManifestChanges(a) ==
    /\ Meanwhile
    /\ \E m \in Manifest : manifest' = [manifest EXCEPT ![a] = m]
    /\ UNCHANGED <<host, secret, docker>>

SecretChanges ==
    /\ Meanwhile
    /\ secret' \in Secrets
    /\ UNCHANGED <<host, manifest, docker>>

\* A user removes the container of that name, runs one, stops or starts it;
\* another node on the same Docker creates one with its label.
UserActs(a) ==
    /\ Meanwhile
    /\ \/ /\ docker[a].owner # "none"
          /\ \/ docker' = [docker EXCEPT ![a].owner = "none"]
             \/ \E status \in {"running", "stopped"} :
                  docker' = [docker EXCEPT ![a].status = status]
       \/ /\ docker[a].owner = "none"
          /\ \E owner \in {"foreign", "other"} :
               docker' = [docker EXCEPT ![a].owner = owner, ![a].status = "running"]
    /\ UNCHANGED <<host, manifest, secret>>

\* The agent, or the master, is started again; an agent that had no token may
\* be given one by its join.
AgentRestart ==
    /\ Upset
    /\ round' = [round EXCEPT !.step = "idle", !.todo = {}, !.listed = {}]
    /\ host' \in {host} \cup (IF host = "tokenless" THEN {"agent"} ELSE {})
    /\ UNCHANGED <<manifest, secret, docker>>

-----------------------------------------------------------------------------
(* The loop *)

\* Next step of the iteration, with a request that worked or one that did not.
Goes(next) == round' = next /\ UNCHANGED upsets
Fails(next) == Upset /\ round' = [next EXCEPT !.upset = TRUE]

To(step) == [round EXCEPT !.step = step]

\* The manifests of the node are fetched.
Fetch ==
    /\ round.step = "idle"
    /\ Goes([round EXCEPT !.step = "list", !.wanted = manifest, !.upset = FALSE])
    /\ UNCHANGED <<host, manifest, secret, docker>>

\* On the master a failure to read them counts as no manifests at all.
FetchNothing ==
    /\ host = "master" /\ round.step = "idle"
    /\ Fails([round EXCEPT !.step = "list",
                           !.wanted = [a \in Apps |-> [manifest[a] EXCEPT !.set = FALSE]]])
    /\ UNCHANGED <<host, manifest, secret, docker>>

\* The manifests of the node with a container.
Wanted == {a \in Apps : round.wanted[a].set}

\* list_containers, with the label of this node.
List ==
    /\ round.step = "list"
    /\ \/ Goes([round EXCEPT !.step = "visit",
                    !.todo = Wanted,
                    !.listed = {a \in Apps : docker[a].owner = "node"}])
       \/ Fails([round EXCEPT !.step = "idle"])
    /\ UNCHANGED <<host, manifest, secret, docker>>

\* What a manifest's variable stands for on this node: without a token the
\* vault is not asked, and the reference itself is the value.
Meaning(m) ==
    CASE m.env = NoVar -> NoVar
      [] m.env = Ref /\ host = "agent" -> secret
      [] m.env = Ref /\ host # "agent" -> Ref

\* resolve_env, if the vault answers.
Resolved(a) == Meaning(round.wanted[a])

\* Mutant: the images are not compared.
SameEnvOnly(a, env) == env = NoVar \/ docker[a].env = env

\* What the comparison with the inspected container looks at.
Same(a, env) ==
    /\ env = NoVar \/ docker[a].env = env
    /\ docker[a].image = round.wanted[a].image

\* Mutant: a container that fits stays among the orphans.
StillListed(a) == round.listed

NotOrphan(a) == round.listed \ {a}

\* The variables are resolved and the container is inspected; if the vault
\* does not answer, the reference itself stays.
Visit(a) ==
    /\ round.step = "visit" /\ a \in round.todo
    /\ LET next(env) ==
             [round EXCEPT
                !.todo = @ \ {a}, !.app = a, !.env = env,
                !.listed = NotOrphan(a),
                !.step = IF a \notin round.listed THEN "create"
                         ELSE IF docker[a].owner = "node" /\ ~Same(a, env)
                         THEN "remove" ELSE "visit"]
       IN  \/ Goes(next(Resolved(a)))
           \/ Resolved(a) \in Secrets /\ Fails(next(Ref))
    /\ UNCHANGED <<host, manifest, secret, docker>>

\* ... which may fail, and then the container counts as unchanged.
InspectFails(a) ==
    /\ round.step = "visit" /\ a \in round.todo /\ a \in round.listed
    /\ Fails([round EXCEPT !.todo = @ \ {a}, !.listed = NotOrphan(a)])
    /\ UNCHANGED <<host, manifest, secret, docker>>

Gone(a) == docker' = [docker EXCEPT ![a].owner = "none"]

\* stop and remove of the container that was listed, by its id; if one of
\* them fails the container is still there.
Remove(a) ==
    /\ round.step = "remove" /\ round.app = a
    /\ \/ /\ docker[a].owner = "node" /\ Gone(a)
          /\ Goes(To("create"))
       \/ /\ docker[a].owner # "node" /\ UNCHANGED docker
          /\ Goes(To("create"))
       \/ /\ docker[a].owner = "node"
          /\ docker' \in {docker, [docker EXCEPT ![a].status = "stopped"]}
          /\ Fails(To("create"))
    /\ UNCHANGED <<host, manifest, secret>>

Created(a) ==
    docker' = [docker EXCEPT ![a] = [owner |-> "node", status |-> "created",
                                     image |-> round.wanted[a].image,
                                     env |-> round.env]]

\* Mutant: a container of any owner is replaced.
Replaceable(a) == docker[a].owner # "none"

\* A container has the name and carries the label r4a.node, of any node.
Ours(a) == docker[a].owner \in {"node", "other"}

\* create_container, after the image was pulled; 409 if the name is taken.
Create(a) ==
    /\ round.step = "create" /\ round.app = a
    /\ \/ docker[a].owner = "none" /\ Created(a) /\ Goes(To("start"))
       \/ Ours(a) /\ UNCHANGED docker /\ Goes(To("replace"))
       \/ ~Ours(a) /\ docker[a].owner # "none"
            /\ UNCHANGED docker /\ Goes(To("visit"))
       \/ UNCHANGED docker /\ Fails(To("visit"))
    /\ UNCHANGED <<host, manifest, secret>>

\* stop and forced remove of the container that has the name by now.
Replace(a) ==
    /\ round.step = "replace" /\ round.app = a
    /\ \/ Gone(a) /\ Goes(To("recreate"))
       \/ UNCHANGED docker /\ Fails(To("recreate"))
    /\ UNCHANGED <<host, manifest, secret>>

Recreate(a) ==
    /\ round.step = "recreate" /\ round.app = a
    /\ \/ docker[a].owner = "none" /\ Created(a) /\ Goes(To("start"))
       \/ docker[a].owner # "none" /\ UNCHANGED docker /\ Goes(To("visit"))
       \/ UNCHANGED docker /\ Fails(To("visit"))
    /\ UNCHANGED <<host, manifest, secret>>

\* start_container, by name.
Start(a) ==
    /\ round.step = "start" /\ round.app = a
    /\ \/ /\ docker[a].owner # "none"
          /\ docker' = [docker EXCEPT ![a].status = "running"]
          /\ Goes(To("visit"))
       \/ docker[a].owner = "none" /\ UNCHANGED docker /\ Goes(To("visit"))
       \/ UNCHANGED docker /\ Fails(To("visit"))
    /\ UNCHANGED <<host, manifest, secret>>

\* A listed container that no manifest asked for is removed, by its id.
RemoveOrphan(a) ==
    /\ round.step = "visit" /\ round.todo = {}
    /\ a \in round.listed
    /\ LET next == [round EXCEPT !.listed = @ \ {a}]
       IN  \/ docker[a].owner = "node" /\ Gone(a) /\ Goes(next)
           \/ docker[a].owner # "node" /\ UNCHANGED docker /\ Goes(next)
           \/ UNCHANGED docker /\ Fails(next)
    /\ UNCHANGED <<host, manifest, secret>>

RoundEnds ==
    /\ round.step = "visit" /\ round.todo = {} /\ round.listed = {}
    /\ Goes(To("idle"))
    /\ UNCHANGED <<host, manifest, secret, docker>>

Loop ==
    \/ Fetch \/ List \/ RoundEnds
    \/ \E a \in Apps :
         \/ Visit(a) \/ Remove(a) \/ Create(a) \/ Replace(a) \/ Recreate(a)
         \/ Start(a) \/ RemoveOrphan(a)

Next ==
    \/ \E a \in Apps : ManifestChanges(a) \/ UserActs(a) \/ InspectFails(a)
    \/ SecretChanges
    \/ FetchNothing
    \/ AgentRestart
    \/ Loop

Spec == Init /\ [][Next]_vars

\* The loop goes on as long as the agent runs.
FairSpec == Spec /\ WF_vars(Loop)

-----------------------------------------------------------------------------
(* Properties *)

\* The container of the app fits its manifest, as far as the loop compares
\* them: it has the value of the secret where the reconciler has a token, and
\* the text of the reference where it has none.
Fits(a) ==
    /\ docker[a].owner = "node"
    /\ manifest[a].set
    /\ docker[a].image = manifest[a].image
    /\ manifest[a].env = NoVar \/ docker[a].env = Meaning(manifest[a])

\* An iteration in which nothing fails and nothing changes from outside leaves
\* containers alone that fit; it neither restarts nor removes them.
FittingKept ==
    [][\A a \in Apps : Fits(a) /\ ~round.upset /\ upsets' = upsets =>
         /\ Fits(a)'
         /\ docker[a].status = "running" => docker'[a] = docker[a]]_vars

\* A container that r4a did not create is never removed or changed by it,
\* unless the one of that name was exchanged while the iteration ran.
ForeignSpared ==
    [][\A a \in Apps :
         docker[a].owner = "foreign" /\ ~round.upset /\ upsets' = upsets
           => docker'[a] = docker[a]]_vars

\* The strengthening of the two: what an undisturbed iteration knows of the
\* manifests, of the apps it has still to visit, and of the one it works on.
Working == {"remove", "create", "replace", "recreate", "start"}

RoundInv ==
    ~round.upset =>
        /\ round.step # "idle" => round.wanted = manifest
        /\ round.step \in Working =>
             round.app \notin round.todo \cup round.listed
        /\ round.step \in {"visit"} \cup Working =>
             /\ \A a \in round.listed : round.wanted[a].set => a \in round.todo
             /\ \A a \in round.todo \ round.listed : docker[a].owner # "node"
        /\ round.step = "remove" => ~Fits(round.app)
        /\ round.step \in {"create", "replace", "recreate"} =>
             docker[round.app].owner # "node"
        /\ round.step = "replace" => docker[round.app].owner = "other"
        /\ round.step = "start" => docker[round.app].owner = "node"

\* When changes and faults stop, the names settle: a foreign container keeps
\* its name; an app with a manifest has a container that fits, also when the
\* name was taken by another node; and no other container of the node is left.
EventuallyReconciled ==
    <>[](\A a \in Apps : \/ docker[a].owner = "foreign"
                         \/ Fits(a)
                         \/ ~manifest[a].set /\ docker[a].owner # "node")
=============================================================================
