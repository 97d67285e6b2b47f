----------------------------- MODULE LogsConfig -----------------------------
(***************************************************************************)
(* The master's configuration of central logs: the manifest `clickhouse`   *)
(* and the key logs_ch_config hold the same password and are written and   *)
(* deleted one after the other, by handlers that run at the same time; an  *)
(* error of the store ends a handler between the two.  The manifest can    *)
(* also be replaced alone.  Whoever loads the configuration deletes it     *)
(* when there is no manifest.  Each setup generates a password, here its   *)
(* number; 0 is none.                                                      *)
(***************************************************************************)
EXTENDS Naturals, FiniteSets

CONSTANTS
    MaxSetups,       \* bound: calls of logs_setup_handler
    MaxCalls,        \* bound: calls at the same time
    Readers,         \* those who load the configuration: "agent", "user"
    MaxFaults        \* bound: restarts, errors of the store, lost answers and the like

ASSUME LogsConfigAssumption ==
    Readers \subseteq {"agent", "user"} /\ MaxSetups \in Nat /\ MaxCalls \in Nat /\ MaxFaults \in Nat

VARIABLES
    manifest,    \* password in the manifest `clickhouse`
    config,      \* password in logs_ch_config
    calls,       \* calls between two accesses to the store
    setups,
    schema,      \* ensure_logs_ch_schema tasks
    served,      \* password the ClickHouse container runs with
    table,       \* r4a.logs exists
    faults,
    crossed      \* history: the last setup or deletion met another one, the
                 \* setup was not finished, or its password was replaced

configVars == <<manifest, config, calls, setups, schema, served, table, crossed>>

Password == 0 .. MaxSetups + 1
\* A password that a user thought of.
OwnPassword == MaxSetups + 1

\* The collector's polls, the start of the master and users' requests that
\* load the configuration, and the users' requests that change it.
Caller == {"agent", "schema", "user"}
Call == [op : {"setup", "delete", "load", "clear"}, pw : Password, by : Caller]

ConfigTypeOK ==
    /\ manifest \in Password /\ config \in Password /\ served \in Password
    /\ calls \subseteq Call
    /\ setups \in 0 .. MaxSetups
    /\ schema \subseteq Password
    /\ table \in BOOLEAN /\ crossed \in BOOLEAN
    /\ faults \in 0 .. MaxFaults

ConfigInit ==
    /\ manifest = 0 /\ config = 0 /\ served = 0
    /\ calls = {} /\ setups = 0 /\ schema = {}
    /\ table = FALSE /\ crossed = FALSE /\ faults = 0

Fault == faults < MaxFaults /\ faults' = faults + 1

Writers == {c \in calls : c.op \in {"setup", "delete"}}

Begin(op, pw, by) ==
    /\ Cardinality(calls) < MaxCalls
    /\ calls' = calls \cup {[op |-> op, pw |-> pw, by |-> by]}

\* logs_setup_handler: a new password goes into the manifest ...
PutManifest ==
    /\ setups < MaxSetups
    /\ setups' = setups + 1
    /\ manifest' = setups + 1
    /\ Begin("setup", setups + 1, "user")
    /\ crossed' = (Writers # {})
    /\ UNCHANGED <<config, schema, served, table, faults>>

\* Mutant: the configuration is written for the setup before.
PutConfigStale(c) ==
    /\ c.op = "setup"
    /\ config' = IF config = 0 THEN c.pw ELSE config
    /\ calls' = calls \ {c}
    /\ schema' = schema \cup {c.pw}
    /\ UNCHANGED <<manifest, setups, served, table, faults, crossed>>

\* ... and then into the configuration.
PutConfig(c) ==
    /\ c.op = "setup"
    /\ config' = c.pw
    /\ calls' = calls \ {c}
    /\ schema' = schema \cup {c.pw}
    /\ UNCHANGED <<manifest, setups, served, table, faults, crossed>>

\* put_manifest or put returns an error, which ends the setup: the password
\* has not come into the configuration, or has and only flush_async failed.
SetupFails(c) ==
    /\ c.op = "setup"
    /\ Fault
    /\ \/ crossed' = TRUE /\ UNCHANGED config
       \/ config' = c.pw /\ UNCHANGED crossed
    /\ calls' = calls \ {c}
    /\ UNCHANGED <<manifest, setups, schema, served, table>>

\* manifest_upsert_handler for `clickhouse`: a user stores a manifest that
\* was read earlier, or one with another password.
UpsertManifest(pw) ==
    /\ pw \in 1 .. setups \cup {OwnPassword} /\ pw # manifest
    /\ manifest' = pw
    /\ crossed' = TRUE
    /\ UNCHANGED <<config, calls, setups, schema, served, table, faults>>

\* manifest_delete_handler for `clickhouse`: the manifest, ...
DeleteManifest ==
    /\ Begin("delete", 0, "user")
    /\ manifest' = 0
    /\ crossed' = (Writers # {})
    /\ UNCHANGED <<config, setups, schema, served, table, faults>>

\* ... and the configuration.
ClearConfig(c) ==
    /\ c.op = "delete"
    /\ config' = 0
    /\ calls' = calls \ {c}
    /\ UNCHANGED <<manifest, setups, schema, served, table, faults, crossed>>

\* An error of either deletion ends the handler.
DeleteFails(c) ==
    /\ c.op = "delete"
    /\ Fault
    /\ calls' = calls \ {c}
    /\ UNCHANGED <<manifest, config, setups, schema, served, table, crossed>>

\* load_active_logs_ch_config reads the configuration (without one it
\* answers at once), ...
ReadConfig(by) ==
    /\ config # 0
    /\ ~\E c \in calls : c.by = by /\ c.op \in {"load", "clear"}
    /\ Begin("load", config, by)
    /\ UNCHANGED <<manifest, config, setups, schema, served, table, faults, crossed>>

\* ... looks for the manifest, and returns what it read, ...
Found(c) ==
    /\ c.op = "load" /\ manifest # 0
    /\ calls' = calls \ {c}
    /\ schema' = schema \cup (IF c.by = "schema" THEN {c.pw} ELSE {})
    /\ UNCHANGED <<manifest, config, setups, served, table, faults, crossed>>

NotFound(c) ==
    /\ c.op = "load" /\ manifest = 0
    /\ calls' = (calls \ {c}) \cup {[c EXCEPT !.op = "clear"]}
    /\ UNCHANGED <<manifest, config, setups, schema, served, table, faults, crossed>>

\* Mutant: a configuration without manifest is only not returned.
ClearStaleNot(c) ==
    /\ c.op = "clear"
    /\ calls' = calls \ {c}
    /\ UNCHANGED <<manifest, config, setups, schema, served, table, faults, crossed>>

\* ... or deletes the configuration, whatever has come meanwhile.
ClearStale(c) ==
    /\ c.op = "clear"
    /\ config' = 0
    /\ calls' = calls \ {c}
    /\ UNCHANGED <<manifest, setups, schema, served, table, faults, crossed>>

\* An error of the store ends it, which answers the reader with status 500.
LoadFails(c) ==
    /\ c.op \in {"load", "clear"}
    /\ Fault
    /\ calls' = calls \ {c}
    /\ UNCHANGED <<manifest, config, setups, schema, served, table, crossed>>

\* The reconciler of the node runs the container of the manifest.
Deploy ==
    /\ served # manifest
    /\ served' = manifest
    /\ UNCHANGED <<manifest, config, calls, setups, schema, table, faults, crossed>>

\* ensure_logs_ch_schema reaches ClickHouse with its password ...
CreateTable(p) ==
    /\ p \in schema /\ served = p
    /\ table' = TRUE
    /\ schema' = schema \ {p}
    /\ UNCHANGED <<manifest, config, calls, setups, served, faults, crossed>>

\* ... or gives up after 60 tries.
GiveUpTable(p) ==
    /\ p \in schema
    /\ schema' = schema \ {p}
    /\ UNCHANGED <<manifest, config, calls, setups, served, table, faults, crossed>>

\* The master is killed and started.  The start loads the configuration for
\* the schema.
MasterRestart ==
    /\ Fault
    /\ calls' = IF config = 0 THEN {}
                ELSE {[op |-> "load", pw |-> config, by |-> "schema"]}
    /\ schema' = {}
    /\ crossed' = (crossed \/ \E c \in calls : c.op = "setup")
    /\ UNCHANGED <<manifest, config, setups, served, table>>

\* Everything but Found, whose answer may go to the agent.
ConfigStep ==
    \/ PutManifest
    \/ \E c \in calls : PutConfig(c)
    \/ \E c \in calls : SetupFails(c)
    \/ \E pw \in Password : UpsertManifest(pw)
    \/ DeleteManifest
    \/ \E c \in calls : ClearConfig(c)
    \/ \E c \in calls : DeleteFails(c)
    \/ \E by \in Readers : ReadConfig(by)
    \/ \E c \in calls : NotFound(c)
    \/ \E c \in calls : ClearStale(c)
    \/ \E c \in calls : LoadFails(c)
    \/ Deploy
    \/ \E p \in schema : CreateTable(p)
    \/ \E p \in schema : GiveUpTable(p)
    \/ MasterRestart

-----------------------------------------------------------------------------
(* logs_setup_handler, manifest_delete_handler: after a setup that met no   *)
(* other and came to its end, and whose manifest no user has replaced       *)
(* since, agents are given the password that ClickHouse is deployed with.   *)
(* It does not matter what setups, deletions, errors and restarts came      *)
(* before, nor which loads delete the configuration in between.             *)
SamePassword ==
    ~crossed /\ Writers = {} /\ manifest # 0 /\ config # 0
        => config = manifest

(* load_active_logs_ch_config: a configuration whose manifest is gone, also *)
(* by a deletion that a restart cut, is deleted in the end.                 *)
StaleConfigCleared == manifest = 0 ~> config = 0 \/ manifest # 0

-----------------------------------------------------------------------------
(* The inductive invariant behind SamePassword: if nothing crossed the last *)
(* setup or deletion it is the only one under way, it has put its password  *)
(* (a deletion, none) into the manifest, and once it is over the two sides  *)
(* agree.                                                                   *)
PasswordInv ==
    ~crossed =>
        /\ \A c, d \in Writers : c = d
        /\ \A c \in Writers : c.pw = manifest /\ (c.op = "delete" => manifest = 0)
        /\ SamePassword
=============================================================================
