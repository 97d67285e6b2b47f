--------------------------- MODULE UpdateRollout ---------------------------
(***************************************************************************)
(* Updating the agents from the master.  The master has an agent binary    *)
(* and a signature file, a flag update_pending and the last report of      *)
(* every agent, the last two in memory.  An agent polls, downloads binary  *)
(* and signature in two requests, checks them, replaces its own binary,    *)
(* reports and exits, to be started again by its service manager.          *)
(*                                                                         *)
(* A version stands for a binary, its checksum and its signature; 0 is     *)
(* what the agents were installed with, and at the master the file that is *)
(* not there.                                                              *)
(***************************************************************************)
EXTENDS Naturals

CONSTANTS
    Agents,
    SkipVerify,      \* agents that install a binary without signature
    MaxVersion,      \* bound: binaries fetched from GitHub
    MaxJoins,        \* bound: agents that join once the master is up
    MaxRestarts      \* bound: restarts, of the master and of agents together

ASSUME UpdateAssumption ==
    /\ SkipVerify \subseteq Agents
    /\ MaxVersion \in Nat \ {0}
    /\ MaxJoins \in Nat
    /\ MaxRestarts \in Nat

VARIABLES
    binary,      \* version of the agent binary at the master
    signature,   \* version that the signature file belongs to, NoVersion if cut
    fetching,    \* a fetch has replaced the binary, not yet the signature
    pending,     \* AppState.update_pending
    reports,     \* AppState.agent_update_states
    known,       \* agents in the peers map
    handling,    \* the report whose handler runs; the reports lock is held
    agent,       \* the update task of each agent
    installed,   \* version of each agent's binary
    restarts, joins

vars == <<binary, signature, fetching, pending, reports, known, handling, agent,
          installed, restarts, joins>>

Version == 0 .. MaxVersion
NoVersion == MaxVersion + 1
OptVersion == 0 .. MaxVersion + 1
Status == {"none", "unknown", "updating", "updated", "failed"}
Report == [status : Status, checksum : OptVersion]
NoReport == [status |-> "none", checksum |-> NoVersion]
Phase == {"down", "boot", "idle", "updating", "download", "signature",
          "install", "updated", "current", "failed", "dead"}
Task == [phase : Phase, target : OptVersion, bytes : OptVersion]
TaskIn(phase) == [phase |-> phase, target |-> NoVersion, bytes |-> NoVersion]
Handling == [step : {"none", "read", "check", "clear"}, master : OptVersion,
             agents : SUBSET Agents]
NotHandling == [step |-> "none", master |-> NoVersion, agents |-> {}]

TypeOK ==
    /\ binary \in Version /\ signature \in OptVersion
    /\ fetching \in BOOLEAN
    /\ pending \in BOOLEAN
    /\ reports \in [Agents -> Report]
    /\ known \subseteq Agents
    /\ handling \in Handling
    /\ agent \in [Agents -> Task]
    /\ installed \in [Agents -> Version]
    /\ restarts \in 0 .. MaxRestarts
    /\ joins \in 0 .. MaxJoins
    /\ \A a \in Agents :
         /\ agent[a].phase \in {"updating", "download", "signature", "install",
                                "updated"} => agent[a].target \in Version
         /\ agent[a].phase \in {"signature", "install", "failed"}
               => agent[a].bytes \in Version
         /\ a \in known <=> agent[a].phase # "down"

Init ==
    /\ binary = 0 /\ signature = 0
    /\ fetching = FALSE
    /\ pending = FALSE
    /\ reports = [a \in Agents |-> NoReport]
    /\ known = {}
    /\ handling = NotHandling
    /\ agent = [a \in Agents |-> TaskIn("down")]
    /\ installed = [a \in Agents |-> 0]
    /\ restarts = 0
    /\ joins = 0

-----------------------------------------------------------------------------
(* The master *)

\* do_fetch_github renames the latest binary, a new one or the same again,
\* into place ...
FetchBinary ==
    /\ ~fetching
    /\ binary' \in {v \in Version \ {0} : v \in {binary, binary + 1}}
    /\ fetching' = TRUE
    /\ UNCHANGED <<signature, pending, reports, known, handling, agent,
                   installed, restarts, joins>>

\* ... and then writes its signature.
FetchSignature ==
    /\ fetching
    /\ signature' = binary
    /\ fetching' = FALSE
    /\ UNCHANGED <<binary, pending, reports, known, handling, agent,
                   installed, restarts, joins>>

\* The release has none, which R4A_SKIP_SIGNATURE_VERIFY allows, or the write
\* fails: the file is as before, or cut.
FetchUnsigned ==
    /\ fetching
    /\ signature' \in {signature, NoVersion}
    /\ fetching' = FALSE
    /\ UNCHANGED <<binary, pending, reports, known, handling, agent,
                   installed, restarts, joins>>

\* update_trigger_handler.
Trigger ==
    /\ pending' = TRUE
    /\ UNCHANGED <<binary, signature, fetching, reports, known, handling, agent,
                   installed, restarts, joins>>

\* update_report_handler, under the lock of the reports: the report is stored.
Receive(a, status, checksum) ==
    /\ reports' = [reports EXCEPT ![a] = [status |-> status,
                                          checksum |-> checksum]]
    /\ handling' = [NotHandling EXCEPT !.step = "read"]

\* The checksum of the binary file is computed; without one the handler ends.
ReportReads ==
    /\ handling.step = "read"
    /\ handling' = IF binary = 0 THEN NotHandling
                   ELSE [handling EXCEPT !.step = "check", !.master = binary]
    /\ UNCHANGED <<binary, signature, fetching, pending, reports, known, agent,
                   installed, restarts, joins>>

UpdatedTo(v) ==
    {a \in Agents : reports[a] = [status |-> "updated", checksum |-> v]}

\* The peers map is read: have all agents reported that checksum?
ReportChecks ==
    /\ handling.step = "check"
    /\ handling' = IF known # {} /\ known \subseteq UpdatedTo(handling.master)
                   THEN [handling EXCEPT !.step = "clear", !.agents = known]
                   ELSE NotHandling
    /\ UNCHANGED <<binary, signature, fetching, pending, reports, known, agent,
                   installed, restarts, joins>>

ReportClears ==
    /\ handling.step = "clear"
    /\ pending' = FALSE
    /\ handling' = NotHandling
    /\ UNCHANGED <<binary, signature, fetching, reports, known, agent, installed,
                   restarts, joins>>

\* update_pending and the reports live in memory.
MasterRestart ==
    /\ restarts < MaxRestarts
    /\ restarts' = restarts + 1
    /\ pending' = FALSE
    /\ reports' = [a \in Agents |-> NoReport]
    /\ handling' = NotHandling
    /\ fetching' = FALSE
    /\ UNCHANGED <<binary, signature, known, agent, installed, joins>>

-----------------------------------------------------------------------------
(* An agent *)

agentVars == <<agent, installed>>
masterVars == <<binary, signature, fetching, pending, known, restarts, joins>>

\* An agent joins the cluster, with the binary it was installed with.
Join(a) ==
    /\ agent[a].phase = "down"
    /\ joins < MaxJoins
    /\ joins' = joins + 1
    /\ known' = known \cup {a}
    /\ agent' = [agent EXCEPT ![a] = TaskIn("boot")]
    /\ UNCHANGED <<binary, signature, fetching, pending, reports, handling, installed,
                   restarts>>

\* A report is posted and waits for the lock; if the request fails the agent
\* goes on all the same.
Post(a, status, checksum, next) ==
    /\ handling = NotHandling
    /\ Receive(a, status, checksum) \/ UNCHANGED <<reports, handling>>
    /\ agent' = [agent EXCEPT ![a] = next]
    /\ UNCHANGED <<masterVars, installed>>

\* `connect` reports the checksum it runs; the status is not one it knows.
PostBoot(a) ==
    /\ agent[a].phase = "boot"
    /\ Post(a, "unknown", installed[a], TaskIn("idle"))

\* The task wakes and polls.  Without a binary the answer has no checksum, and
\* the task sleeps on.
Poll(a) ==
    /\ agent[a].phase = "idle"
    /\ pending /\ binary # 0
    /\ agent' = [agent EXCEPT ![a] =
                   IF binary = installed[a] THEN TaskIn("current")
                   ELSE [TaskIn("updating") EXCEPT !.target = binary]]
    /\ UNCHANGED <<masterVars, reports, handling, installed>>

PostCurrent(a) ==
    /\ agent[a].phase = "current"
    /\ Post(a, "updated", installed[a], TaskIn("idle"))

PostUpdating(a) ==
    /\ agent[a].phase = "updating"
    /\ Post(a, "updating", installed[a], [agent[a] EXCEPT !.phase = "download"])

Download(a) ==
    /\ agent[a].phase = "download"
    /\ agent' = [agent EXCEPT ![a].phase = "signature", ![a].bytes = binary]
    /\ UNCHANGED <<masterVars, reports, handling, installed>>

\* A signature that is there does not fit: the closure that would report the
\* failure calls block_on inside the async task, which panics and ends it.
VerifyPanics(a) ==
    /\ agent[a].phase = "signature"
    /\ signature \notin {0, agent[a].bytes}
    /\ agent' = [agent EXCEPT ![a] = TaskIn("dead")]
    /\ UNCHANGED <<masterVars, reports, handling, installed>>

\* The signature is good, or there is none and the agent goes on without; the
\* checksum is compared with what the poll was told.
Verify(a) ==
    /\ agent[a].phase = "signature"
    /\ signature = agent[a].bytes \/ (signature = 0 /\ a \in SkipVerify)
    /\ agent' = [agent EXCEPT ![a].phase =
                   IF agent[a].bytes = agent[a].target THEN "install"
                                                       ELSE "failed"]
    /\ UNCHANGED <<masterVars, reports, handling, installed>>

\* There is no signature, and the agent refuses the binary.
RefuseUnsigned(a) ==
    /\ agent[a].phase = "signature"
    /\ signature = 0 /\ a \notin SkipVerify
    /\ agent' = [agent EXCEPT ![a].phase = "failed", ![a].bytes = agent[a].target]
    /\ UNCHANGED <<masterVars, reports, handling, installed>>

PostFailed(a) ==
    /\ agent[a].phase = "failed"
    /\ Post(a, "failed", agent[a].bytes, TaskIn("idle"))

\* Mutant: the new binary is left beside the old one.
InstallBeside(a) ==
    /\ agent[a].phase = "install"
    /\ agent' = [agent EXCEPT ![a].phase = "updated"]
    /\ UNCHANGED <<masterVars, reports, handling, installed>>

\* The new binary is renamed over the old one.
Install(a) ==
    /\ agent[a].phase = "install"
    /\ installed' = [installed EXCEPT ![a] = agent[a].bytes]
    /\ agent' = [agent EXCEPT ![a].phase = "updated"]
    /\ UNCHANGED <<masterVars, reports, handling>>

\* A download fails, or writing the new binary to /tmp, making it executable
\* or renaming it does (always, if /tmp is another file system).
AttemptFails(a) ==
    /\ agent[a].phase \in {"download", "signature", "install"}
    /\ agent' = [agent EXCEPT ![a] = TaskIn("idle")]
    /\ UNCHANGED <<masterVars, reports, handling, installed>>

\* The agent reports, exits and is started again.
PostUpdated(a) ==
    /\ agent[a].phase = "updated"
    /\ Post(a, "updated", agent[a].target, TaskIn("boot"))

\* The agent is restarted for another reason; what it downloaded is lost.
AgentRestart(a) ==
    /\ agent[a].phase # "down"
    /\ restarts < MaxRestarts
    /\ restarts' = restarts + 1
    /\ agent' = [agent EXCEPT ![a] = TaskIn("boot")]
    /\ UNCHANGED <<binary, signature, fetching, pending, known, joins, reports,
                   handling, installed>>

\* Mutant: an agent that has the version already does not say so.
AgentStepSilent(a) ==
    \/ PostBoot(a) \/ PostUpdating(a) \/ PostFailed(a) \/ PostUpdated(a)
    \/ Poll(a) \/ Download(a) \/ Verify(a) \/ VerifyPanics(a) \/ RefuseUnsigned(a)
    \/ Install(a) \/ AttemptFails(a)
    \/ /\ agent[a].phase = "current"
       /\ agent' = [agent EXCEPT ![a] = TaskIn("idle")]
       /\ UNCHANGED <<masterVars, reports, handling, installed>>

AgentStep(a) ==
    \/ PostBoot(a) \/ PostUpdating(a) \/ PostFailed(a) \/ PostUpdated(a)
    \/ PostCurrent(a)
    \/ Poll(a) \/ Download(a) \/ Verify(a) \/ VerifyPanics(a) \/ RefuseUnsigned(a)
    \/ Install(a) \/ AttemptFails(a)

Next ==
    \/ FetchBinary \/ FetchSignature \/ FetchUnsigned \/ Trigger
    \/ ReportReads \/ ReportChecks \/ ReportClears
    \/ MasterRestart
    \/ \E a \in Agents : Join(a)
    \/ \E a \in Agents : AgentStep(a)
    \/ \E a \in Agents : AgentRestart(a)

Spec == Init /\ [][Next]_vars

\* Handlers and the agents' loops run on; a poll, and a report, gets through
\* again and again.
Fairness ==
    /\ WF_vars(ReportReads) /\ WF_vars(ReportChecks) /\ WF_vars(ReportClears)
    /\ WF_vars(FetchSignature \/ FetchUnsigned)
    /\ \A a \in Agents :
         /\ WF_vars(AgentStep(a))
         /\ SF_vars(AgentStep(a) /\ handling' # handling)

FairSpec == Spec /\ Fairness

-----------------------------------------------------------------------------
(* Properties *)

\* When the rollout is declared over, every agent the handler found in the
\* peers map has the version whose checksum it computed, or a later one,
\* installed: what an agent reports is never ahead of its disk.
RolloutReachedAgents ==
    handling.step = "clear" =>
        \A a \in handling.agents : installed[a] >= handling.master

\* The strengthening of RolloutReachedAgents: no disk is ahead of the master,
\* a download is between the two, and a report is not ahead of its disk.
RolloutInv ==
    /\ \A a \in Agents :
         /\ installed[a] <= binary
         /\ agent[a].phase \in {"signature", "install"} =>
              installed[a] <= agent[a].bytes /\ agent[a].bytes <= binary
         /\ agent[a].phase = "install" => agent[a].target = agent[a].bytes
         /\ agent[a].phase = "updated" => agent[a].target <= installed[a]
         /\ reports[a].status = "updated" => reports[a].checksum <= installed[a]
    /\ RolloutReachedAgents

\* What the agents need to install the master's binary is there.
Complete == binary # 0 /\ (signature # 0 \/ known \subseteq SkipVerify)

\* A rollout does not hang: with agents in the cluster update_pending is reset
\* once joins, restarts and new binaries (of which there are boundedly many)
\* stop coming and downloads and installations stop failing, although reports
\* get lost and an updated agent starts with a report that does not count;
\* unless the master has no binary, or no signature that an agent asks for, or
\* an agent's update task has died.
RolloutEnds ==
    <>[][\A a \in Agents : ~AttemptFails(a)]_vars =>
        (pending /\ known # {} ~>
            \/ ~pending
            \/ ~Complete
            \/ \E a \in Agents : agent[a].phase = "dead")
=============================================================================
