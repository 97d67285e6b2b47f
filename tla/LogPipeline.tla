---------------------------- MODULE LogPipeline ----------------------------
(***************************************************************************)
(* The configuration on the master and the collector of an agent together: *)
(* the collector polls the configuration, ships with the password it was   *)
(* given last, and ClickHouse takes it only if it runs with the same one.  *)
(***************************************************************************)
EXTENDS LogShipper

vars == <<configVars, shipVars, faults>>

TypeOK == ConfigTypeOK /\ ShipTypeOK

Init == ConfigInit /\ ShipInit

\* Mutant: the target is taken once.
AnswerOnce(c) ==
    /\ Found(c)
    /\ \/ c.by = "agent" /\ target = 0 /\ TakeTarget(c.pw)
       \/ (c.by # "agent" \/ target # 0) /\ UNCHANGED shipVars

\* logs_agent_config_handler answers and the collector takes the target; a
\* load for another reader, or an answer that is lost, leaves it alone.
Answer(c) ==
    /\ Found(c)
    /\ \/ c.by = "agent" /\ TakeTarget(c.pw)
       \/ c.by # "agent" /\ UNCHANGED shipVars

Next ==
    \/ ConfigStep /\ UNCHANGED shipVars
    \/ \E c \in calls : Answer(c)
    \/ ShipStep /\ UNCHANGED configVars

\* The next access of a call.
Proceed(c) ==
    \/ PutConfig(c) /\ UNCHANGED shipVars
    \/ ClearConfig(c) /\ UNCHANGED shipVars
    \/ NotFound(c) /\ UNCHANGED shipVars
    \/ ClearStale(c) /\ UNCHANGED shipVars
    \/ Answer(c)

\* Calls, tasks and the reconciler go on; the collector polls for ever.
Fairness ==
    /\ \A op \in {"setup", "delete"} :
          WF_vars(\E c \in calls : c.op = op /\ Proceed(c))
    /\ \A by \in Caller :
          WF_vars(\E c \in calls : c.op \in {"load", "clear"} /\ c.by = by /\ Proceed(c))
    /\ SF_vars(ReadConfig("agent") /\ UNCHANGED shipVars)
    /\ WF_vars(Deploy /\ UNCHANGED shipVars)
    /\ WF_vars(Track /\ UNCHANGED configVars)
    /\ \A i \in Ids : WF_vars(Collect(i) /\ UNCHANGED configVars)

Spec == Init /\ [][Next]_vars
FairSpec == Spec /\ Fairness

-----------------------------------------------------------------------------
\* The logs are set up and stay so, and the container runs.
Working == table /\ config # 0 /\ config = manifest /\ running

Settled(l) ==
    /\ l <= Len(lines)
    /\ \/ copies[l] > 0
       \/ l \in dropped
       \/ lines[l].id # live
       \/ lines[l].ts <= cursor

(* logs_setup_handler, run_collector, follow_container and ship together:   *)
(* once the logs are set up for good and no more faults come, each line of  *)
(* the container gets to ClickHouse or falls under one of the two known     *)
(* losses, a full buffer and the millisecond of the cursor.                 *)
LinesArrive ==
    <>[]Working =>
        \A l \in Line :
            l <= Len(lines) ~> Settled(l)
=============================================================================
