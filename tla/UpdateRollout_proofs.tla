------------------------ MODULE UpdateRollout_proofs ------------------------
(* Theorems about UpdateRollout: types, and what a finished rollout means.  *)
EXTENDS UpdateRollout, TLAPS

(* A task between two requests holds neither a checksum nor a binary.       *)
LEMMA TaskInType ==
  /\ NoVersion \in OptVersion
  /\ Version \subseteq OptVersion
  /\ NotHandling \in Handling
  /\ \A p \in Phase : /\ TaskIn(p) \in Task
                      /\ TaskIn(p).phase = p
BY UpdateAssumption DEF TaskIn, Task, OptVersion, NoVersion, Version, NotHandling,
   Handling

LEMMA InitType == Init => TypeOK
<1>1. /\ 0 \in Version /\ 0 \in OptVersion
      /\ 0 \in 0 .. MaxRestarts /\ 0 \in 0 .. MaxJoins
  BY UpdateAssumption DEF Version, OptVersion
<1>2. NoReport \in Report
  BY TaskInType DEF NoReport, Report, Status
<1>3. "down" \in Phase
  BY DEF Phase
<1>4. QED
  BY <1>1, <1>2, <1>3, TaskInType DEF Init, TypeOK

(* A post changes the report, if it arrives, and the task.                  *)
LEMMA PostType ==
  ASSUME TypeOK, NEW a \in Agents, NEW status \in Status,
         NEW checksum \in OptVersion, NEW next \in Task,
         Post(a, status, checksum, next),
         next.phase = "download" => next.target \in Version,
         next.phase \in {"boot", "idle", "download"}, agent[a].phase # "down"
  PROVE  TypeOK'
<1>1. reports' \in [Agents -> Report]
  BY DEF Post, Receive, TypeOK, Report
<1>2. handling' \in Handling
  BY TaskInType DEF Post, Receive, TypeOK, Handling, NotHandling
<1>3. agent' = [agent EXCEPT ![a] = next]
  BY DEF Post
<1>4. QED
  BY <1>1, <1>2, <1>3 DEF Post, TypeOK, masterVars

LEMMA NextType == TypeOK /\ [Next]_vars => TypeOK'
<1> SUFFICES ASSUME TypeOK, [Next]_vars PROVE TypeOK'
  OBVIOUS
<1>1. CASE FetchBinary \/ FetchSignature \/ FetchUnsigned \/ Trigger
  BY <1>1, TaskInType DEF FetchBinary, FetchSignature, FetchUnsigned, Trigger, TypeOK
<1>2. CASE ReportReads
  BY <1>2, TaskInType DEF ReportReads, TypeOK, Handling
<1>3. CASE ReportChecks
  BY <1>3, TaskInType DEF ReportChecks, TypeOK, Handling
<1>4. CASE ReportClears
  BY <1>4, TaskInType DEF ReportClears, TypeOK
<1>5. CASE MasterRestart
  <2>1. NoReport \in Report
    BY TaskInType DEF NoReport, Report, Status
  <2>2. restarts' \in 0 .. MaxRestarts
    BY <1>5, UpdateAssumption DEF MasterRestart, TypeOK
  <2>3. QED
    BY <1>5, <2>1, <2>2, TaskInType DEF MasterRestart, TypeOK
<1>6. ASSUME NEW a \in Agents, Join(a) PROVE TypeOK'
  <2>1. agent' = [agent EXCEPT ![a] = TaskIn("boot")] /\ "boot" \in Phase
    BY <1>6 DEF Join, Phase
  <2>2. QED
    BY <1>6, <2>1, TaskInType, UpdateAssumption DEF Join, TypeOK
<1>7. ASSUME NEW a \in Agents, AgentStep(a) PROVE TypeOK'
  <2>1. /\ {"idle", "boot", "current", "updating", "dead"} \subseteq Phase
        /\ installed[a] \in OptVersion /\ binary \in OptVersion
        /\ agent[a] \in Task
    BY TaskInType DEF TypeOK, Phase
  <2>2. CASE PostBoot(a) \/ PostCurrent(a)
    BY <2>1, <2>2, PostType, TaskInType DEF PostBoot, PostCurrent, Status
  <2>3. CASE PostUpdating(a)
    <3>1. agent[a].target \in Version
      BY <2>3 DEF PostUpdating, TypeOK
    <3>2. [agent[a] EXCEPT !.phase = "download"] \in Task
      BY <2>1 DEF Task, Phase
    <3>3. /\ [agent[a] EXCEPT !.phase = "download"].phase = "download"
          /\ [agent[a] EXCEPT !.phase = "download"].target = agent[a].target
      BY <2>1 DEF Task
    <3>4. QED
      BY <2>1, <2>3, <3>1, <3>2, <3>3, PostType DEF PostUpdating, Status
  <2>4. CASE PostFailed(a)
    BY <2>1, <2>4, PostType, TaskInType DEF PostFailed, Status, Task
  <2>5. CASE PostUpdated(a)
    BY <2>1, <2>5, PostType, TaskInType DEF PostUpdated, Status, Task
  <2>6. CASE Poll(a)
    <3>1. CASE binary = installed[a]
      BY <2>1, <2>6, <3>1, TaskInType DEF Poll, TypeOK, masterVars
    <3>2. CASE binary # installed[a]
      <4>1. PICK t : t = [TaskIn("updating") EXCEPT !.target = binary]
        OBVIOUS
      <4>2. t \in Task /\ t.phase = "updating" /\ t.target = binary
        BY <2>1, <4>1, TaskInType DEF Task, TaskIn
      <4>3. agent' = [agent EXCEPT ![a] = t]
        BY <2>6, <3>2, <4>1 DEF Poll
      <4>4. QED
        BY <2>6, <4>2, <4>3 DEF Poll, TypeOK, masterVars
    <3>3. QED
      BY <3>1, <3>2
  <2>7. CASE Download(a)
    <3>1. PICK t \in Task : /\ t.phase = "signature" /\ t.bytes = binary
                            /\ t.target = agent[a].target
                            /\ agent' = [agent EXCEPT ![a] = t]
      BY <2>1, <2>7 DEF Download, Task, Phase, TypeOK
    <3>2. QED
      BY <2>7, <3>1 DEF Download, TypeOK, masterVars
  <2>8. CASE VerifyPanics(a)
    BY <2>1, <2>8, TaskInType DEF VerifyPanics, TypeOK, masterVars
  <2>9. CASE Verify(a)
    <3>1. PICK p \in {"install", "failed"} :
            agent' = [agent EXCEPT ![a].phase = p]
      BY <2>9 DEF Verify
    <3>2. PICK t : t = [agent[a] EXCEPT !.phase = p]
      OBVIOUS
    <3>3. /\ t \in Task
          /\ t.phase = p /\ t.bytes = agent[a].bytes
          /\ t.target = agent[a].target
      BY <2>1, <3>2 DEF Task, Phase
    <3>4. agent' = [agent EXCEPT ![a] = t]
      BY <2>1, <3>1, <3>2 DEF TypeOK
    <3>5. QED
      BY <2>9, <3>3, <3>4 DEF Verify, TypeOK, masterVars
  <2>10. CASE Install(a)
    <3>1. PICK t \in Task : /\ t.phase = "updated"
                            /\ t.target = agent[a].target
                            /\ agent' = [agent EXCEPT ![a] = t]
      BY <2>1, <2>10 DEF Install, Task, Phase, TypeOK
    <3>2. QED
      BY <2>10, <3>1 DEF Install, TypeOK, masterVars
  <2>11. CASE RefuseUnsigned(a)
    <3>1. PICK t : t = [agent[a] EXCEPT !.phase = "failed", !.bytes = agent[a].target]
      OBVIOUS
    <3>2. agent[a].target \in Version
      BY <2>11 DEF RefuseUnsigned, TypeOK
    <3>3. t \in Task /\ t.phase = "failed" /\ t.bytes \in Version
      BY <2>1, <3>1, <3>2, TaskInType DEF Task, Phase
    <3>4. agent' = [agent EXCEPT ![a] = t]
      BY <2>1, <2>11, <3>1 DEF RefuseUnsigned, TypeOK, Task
    <3>5. QED
      BY <2>11, <3>3, <3>4 DEF RefuseUnsigned, TypeOK, masterVars
  <2>12. CASE AttemptFails(a)
    BY <2>1, <2>12, TaskInType DEF AttemptFails, TypeOK, masterVars
  <2>13. QED
    BY <1>7, <2>2, <2>3, <2>4, <2>5, <2>6, <2>7, <2>8, <2>9, <2>10, <2>11, <2>12
       DEF AgentStep
<1>8. ASSUME NEW a \in Agents, AgentRestart(a) PROVE TypeOK'
  <2>1. agent' = [agent EXCEPT ![a] = TaskIn("boot")] /\ "boot" \in Phase
    BY <1>8 DEF AgentRestart, Phase
  <2>2. QED
    BY <1>8, <2>1, TaskInType, UpdateAssumption DEF AgentRestart, TypeOK
<1>9. CASE UNCHANGED vars
  BY <1>9 DEF vars, TypeOK
<1>10. QED
  BY <1>1, <1>2, <1>3, <1>4, <1>5, <1>6, <1>7, <1>8, <1>9 DEF Next

(* The variables of the rollout keep their types.                           *)
THEOREM TypeCorrect == Spec => []TypeOK
<1>1. QED
  BY InitType, NextType, PTL DEF Spec

-----------------------------------------------------------------------------

LEMMA RolloutInit == Init => RolloutInv
<1> SUFFICES ASSUME Init PROVE RolloutInv
  OBVIOUS
<1>1. /\ \A a \in Agents : /\ installed[a] = 0 /\ agent[a].phase = "down"
                           /\ reports[a].status = "none"
      /\ binary = 0 /\ handling.step = "none"
  <2>1. binary = 0 /\ handling.step = "none"
    BY DEF Init, NotHandling
  <2>2. ASSUME NEW a \in Agents
        PROVE  /\ installed[a] = 0 /\ agent[a].phase = "down"
               /\ reports[a].status = "none"
    BY DEF Init, TaskIn, NoReport
  <2>3. QED
    BY <2>1, <2>2
<1>2. QED
  BY <1>1 DEF RolloutInv, RolloutReachedAgents

(* A post keeps the invariant if what it calls updated is installed.        *)
LEMMA PostInv ==
  ASSUME TypeOK, RolloutInv, NEW a \in Agents, NEW status, NEW checksum, NEW next,
         Post(a, status, checksum, next),
         status = "updated" => checksum <= installed[a],
         next.phase \in {"boot", "idle", "download"}
  PROVE  RolloutInv'
<1>1. /\ agent' = [agent EXCEPT ![a] = next]
      /\ installed' = installed /\ binary' = binary
  BY DEF Post, masterVars
<1>2. handling.step # "clear" /\ handling'.step # "clear"
  BY DEF Post, Receive, NotHandling
<1>3. \A b \in Agents :
        reports'[b].status = "updated" => reports'[b].checksum <= installed[b]
  BY DEF Post, Receive, TypeOK, RolloutInv
<1>4. \A b \in Agents \ {a} : agent'[b] = agent[b]
  BY <1>1 DEF TypeOK
<1>5. agent'[a].phase \in {"boot", "idle", "download"}
  BY <1>1 DEF TypeOK
<1>6. QED
  BY <1>1, <1>2, <1>3, <1>4, <1>5 DEF RolloutInv, RolloutReachedAgents

(* A step of one agent's task that posts nothing and installs nothing.      *)
LEMMA TaskInv ==
  ASSUME TypeOK, RolloutInv, NEW a \in Agents, NEW t \in Task,
         agent' = [agent EXCEPT ![a] = t],
         UNCHANGED <<binary, installed, reports, handling>>,
         t.phase \in {"signature", "install"} =>
            installed[a] <= t.bytes /\ t.bytes <= binary,
         t.phase = "install" => t.target = t.bytes,
         t.phase # "updated"
  PROVE  RolloutInv'
<1>1. agent'[a] = t /\ \A b \in Agents \ {a} : agent'[b] = agent[b]
  BY DEF TypeOK
<1>2. QED
  BY <1>1 DEF RolloutInv, RolloutReachedAgents

LEMMA RolloutNext == TypeOK /\ RolloutInv /\ [Next]_vars => RolloutInv'
<1> SUFFICES ASSUME TypeOK, RolloutInv, [Next]_vars PROVE RolloutInv'
  OBVIOUS
<1>0. /\ \A a \in Agents : installed[a] \in Nat
      /\ \A a \in Agents : agent[a] \in Task
      /\ binary \in Nat
  BY UpdateAssumption DEF TypeOK, Version
<1>1. CASE FetchBinary
  <2>1. binary' \in Nat /\ binary <= binary'
    BY <1>0, <1>1, UpdateAssumption DEF FetchBinary, Version
  <2>2. \A a \in Agents :
          agent[a].phase \in {"signature", "install"} => agent[a].bytes \in Nat
    BY UpdateAssumption DEF TypeOK, Version
  <2>3. QED
    BY <1>0, <1>1, <2>1, <2>2 DEF FetchBinary, RolloutInv, RolloutReachedAgents
<1>2. CASE FetchSignature \/ FetchUnsigned \/ Trigger
  BY <1>2 DEF FetchSignature, FetchUnsigned, Trigger, RolloutInv, RolloutReachedAgents
<1>3. CASE ReportReads
  <2>1. handling'.step # "clear"
    BY <1>3 DEF ReportReads, TypeOK, Handling, NotHandling
  <2>2. QED
    BY <1>3, <2>1 DEF ReportReads, RolloutInv, RolloutReachedAgents
<1>4. CASE ReportChecks
  (* The agents found have reported, and so installed, what was computed.   *)
  <2>1. CASE known # {} /\ known \subseteq UpdatedTo(handling.master)
    <3>1. handling'.master = handling.master /\ handling'.agents = known
      BY <1>4, <2>1 DEF ReportChecks, TypeOK, Handling
    <3>2. \A a \in known : handling.master <= installed[a]
      BY <2>1 DEF UpdatedTo, RolloutInv
    <3>3. handling.master \in Nat
      BY UpdateAssumption DEF TypeOK, Handling, OptVersion
    <3>4. QED
      BY <1>0, <1>4, <3>1, <3>2, <3>3
         DEF ReportChecks, RolloutInv, RolloutReachedAgents, TypeOK
  <2>2. CASE ~(known # {} /\ known \subseteq UpdatedTo(handling.master))
    <3>1. handling'.step = "none"
      BY <1>4, <2>2 DEF ReportChecks, NotHandling
    <3>2. QED
      BY <1>4, <3>1 DEF ReportChecks, RolloutInv, RolloutReachedAgents
  <2>3. QED
    BY <2>1, <2>2
<1>5. CASE ReportClears
  BY <1>5 DEF ReportClears, NotHandling, RolloutInv, RolloutReachedAgents
<1>6. CASE MasterRestart
  BY <1>6 DEF MasterRestart, NoReport, NotHandling, RolloutInv, RolloutReachedAgents
<1>7. ASSUME NEW a \in Agents, Join(a) \/ AgentRestart(a) PROVE RolloutInv'
  <2>1. TaskIn("boot") \in Task /\ TaskIn("boot").phase = "boot"
    BY TaskInType DEF Phase
  <2>2. QED
    BY <1>7, <2>1, TaskInv DEF Join, AgentRestart
<1>8. ASSUME NEW a \in Agents, AgentStep(a) PROVE RolloutInv'
  <2>1. CASE PostBoot(a) \/ PostFailed(a)
    BY <2>1, PostInv DEF PostBoot, PostFailed, TaskIn
  <2>2. CASE PostCurrent(a)
    BY <1>0, <2>2, PostInv DEF PostCurrent, TaskIn
  <2>3. CASE PostUpdating(a)
    <3>1. [agent[a] EXCEPT !.phase = "download"].phase = "download"
      BY <1>0 DEF Task
    <3>2. QED
      BY <2>3, <3>1, PostInv DEF PostUpdating
  <2>4. CASE PostUpdated(a)
    BY <2>4, PostInv DEF PostUpdated, RolloutInv, TaskIn
  <2>5. CASE Poll(a)
    <3>1. PICK t : /\ t \in {TaskIn("current"),
                             [TaskIn("updating") EXCEPT !.target = binary]}
                   /\ agent' = [agent EXCEPT ![a] = t]
      BY <2>5 DEF Poll
    <3>2. t \in Task /\ t.phase \in {"current", "updating"}
      BY <3>1, TaskInType DEF Task, TaskIn, Phase, TypeOK
    <3>3. QED
      BY <2>5, <3>1, <3>2, TaskInv DEF Poll, masterVars
  <2>6. CASE Download(a)
    <3>1. PICK t \in Task : /\ t.phase = "signature" /\ t.bytes = binary
                            /\ agent' = [agent EXCEPT ![a] = t]
      <4>1. agent \in [Agents -> Task] /\ binary \in OptVersion
        BY TaskInType DEF TypeOK
      <4>2. QED
        BY <2>6, <4>1 DEF Download, Task, Phase
    <3>2. installed[a] <= binary /\ binary <= binary
      BY <1>0 DEF RolloutInv
    <3>3. QED
      BY <2>6, <3>1, <3>2, TaskInv DEF Download, masterVars
  <2>7. CASE VerifyPanics(a)
    <3>1. TaskIn("dead") \in Task /\ TaskIn("dead").phase = "dead"
      BY TaskInType DEF Phase
    <3>2. QED
      BY <2>7, <3>1, TaskInv DEF VerifyPanics, masterVars
  <2>8. CASE Verify(a)
    <3>1. PICK p : /\ p = IF agent[a].bytes = agent[a].target THEN "install"
                                                              ELSE "failed"
                   /\ agent' = [agent EXCEPT ![a].phase = p]
      BY <2>8 DEF Verify
    <3>2. PICK t : t = [agent[a] EXCEPT !.phase = p]
      OBVIOUS
    <3>3. /\ t \in Task
          /\ t.phase = p /\ t.bytes = agent[a].bytes
          /\ t.target = agent[a].target
      BY <1>0, <3>1, <3>2 DEF Task, Phase
    <3>4. agent' = [agent EXCEPT ![a] = t]
      BY <3>1, <3>2 DEF TypeOK
    <3>5. installed[a] <= t.bytes /\ t.bytes <= binary
      BY <2>8, <3>3 DEF Verify, RolloutInv
    <3>6. (t.phase = "install" => t.target = t.bytes) /\ t.phase # "updated"
      BY <3>1, <3>3
    <3>7. QED
      BY <2>8, <3>3, <3>4, <3>5, <3>6, TaskInv DEF Verify, masterVars
  <2>9. CASE Install(a)
    <3>1. /\ installed' = [installed EXCEPT ![a] = agent[a].bytes]
          /\ agent' = [agent EXCEPT ![a].phase = "updated"]
          /\ UNCHANGED <<binary, reports, handling>>
          /\ agent[a].phase = "install"
      BY <2>9 DEF Install, masterVars
    <3>2. /\ agent[a].bytes \in Nat /\ agent[a].target = agent[a].bytes
          /\ installed[a] <= agent[a].bytes /\ agent[a].bytes <= binary
      BY <3>1, UpdateAssumption DEF RolloutInv, TypeOK, Version
    <3>3. /\ installed'[a] = agent[a].bytes
          /\ agent'[a].phase = "updated" /\ agent'[a].target = agent[a].bytes
      BY <1>0, <3>1, <3>2 DEF TypeOK, Task
    <3>4. \A b \in Agents \ {a} : agent'[b] = agent[b] /\ installed'[b] = installed[b]
      BY <3>1 DEF TypeOK
    <3>5. \A b \in Agents : installed[b] <= installed'[b] /\ installed'[b] \in Nat
      BY <1>0, <3>2, <3>3, <3>4
    <3>6. RolloutReachedAgents'
      <4>1. SUFFICES ASSUME handling.step = "clear", NEW b \in handling.agents
                     PROVE  handling.master <= installed'[b]
        BY <3>1 DEF RolloutReachedAgents
      <4>2. b \in Agents /\ handling.master \in Nat
        BY <4>1, UpdateAssumption DEF TypeOK, Handling, OptVersion
      <4>3. handling.master <= installed[b]
        BY <1>0, <4>1, <4>2 DEF RolloutInv, RolloutReachedAgents
      <4>4. QED
        BY <1>0, <3>5, <4>2, <4>3
    <3>7. \A b \in Agents : reports'[b].status = "updated" =>
                              reports'[b].checksum <= installed'[b]
      <4>1. SUFFICES ASSUME NEW b \in Agents, reports[b].status = "updated"
                     PROVE  reports[b].checksum <= installed'[b]
        BY <3>1
      <4>2. reports[b].checksum \in Nat
        BY UpdateAssumption DEF TypeOK, Report, OptVersion
      <4>3. reports[b].checksum <= installed[b]
        BY <4>1 DEF RolloutInv
      <4>4. QED
        BY <1>0, <3>5, <4>2, <4>3
    <3>8. \A b \in Agents :
            /\ installed'[b] <= binary
            /\ agent'[b].phase \in {"signature", "install"} =>
                 installed'[b] <= agent'[b].bytes /\ agent'[b].bytes <= binary
            /\ agent'[b].phase = "install" => agent'[b].target = agent'[b].bytes
            /\ agent'[b].phase = "updated" => agent'[b].target <= installed'[b]
      BY <3>2, <3>3, <3>4 DEF RolloutInv
    <3>9. QED
      BY <3>1, <3>6, <3>7, <3>8 DEF RolloutInv
  <2>10. CASE RefuseUnsigned(a)
    <3>1. PICK t : t = [agent[a] EXCEPT !.phase = "failed", !.bytes = agent[a].target]
      OBVIOUS
    <3>2. t \in Task /\ t.phase = "failed"
      BY <1>0, <3>1 DEF Task, Phase
    <3>3. agent' = [agent EXCEPT ![a] = t]
      BY <1>0, <2>10, <3>1 DEF RefuseUnsigned, TypeOK, Task
    <3>4. QED
      BY <2>10, <3>2, <3>3, TaskInv DEF RefuseUnsigned, masterVars
  <2>11. CASE AttemptFails(a)
    <3>1. TaskIn("idle") \in Task /\ TaskIn("idle").phase = "idle"
      BY TaskInType DEF Phase
    <3>2. QED
      BY <2>11, <3>1, TaskInv DEF AttemptFails, masterVars
  <2>12. QED
    BY <1>8, <2>1, <2>2, <2>3, <2>4, <2>5, <2>6, <2>7, <2>8, <2>9, <2>10, <2>11
       DEF AgentStep
<1>9. CASE UNCHANGED vars
  BY <1>9 DEF vars, RolloutInv, RolloutReachedAgents
<1>10. QED
  BY <1>1, <1>2, <1>3, <1>4, <1>5, <1>6, <1>7, <1>8, <1>9 DEF Next

(* No report is ahead of the disk of its agent, and no disk ahead of the    *)
(* master.                                                                  *)
THEOREM RolloutInvariance == Spec => []RolloutInv
<1>1. QED
  BY InitType, NextType, RolloutInit, RolloutNext, PTL DEF Spec

(* When the master declares a rollout over, the agents it knew of run the   *)
(* binary it compared them with, or a later one.                            *)
THEOREM RolloutReaches == Spec => []RolloutReachedAgents
<1>1. RolloutInv => RolloutReachedAgents
  BY DEF RolloutInv
<1>2. QED
  BY <1>1, RolloutInvariance, PTL
=============================================================================
