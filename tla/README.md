# TLA+ models of rust4eska

rust4eska (`r4a`) is a small cluster manager: a master hands out VPN addresses
and keeps the cluster's state in a sled database; agents join it over WireGuard,
run containers from manifests, open direct tunnels to each other, ship logs and
update themselves from the master.  This directory holds TLA+ models of its
concurrent and failure-prone parts, TLC configurations that check them, and
TLAPS proofs.

Paths below: `S` is `src/binaries/r4a-server/src/main.rs`, `ST`
`src/crates/r4a-store/src/lib.rs`, `A` `src/binaries/r4a-agent/src/main.rs`,
`W` `src/crates/r4a-worker/src/lib.rs`, `R`
`src/crates/r4a-git-registry/src/registry.rs`, `C`
`src/crates/r4a-telemetry/src/collector.rs`, `V`
`src/crates/r4a-vpn/src/wireguard.rs`.

## Inventory

| component | state | operations | what is hard | what makes it correct |
|---|---|---|---|---|
| VPN membership (S, V) | `peers`, `next_ip` in memory; `core/peers`, `connections`, `connection_labels`, `tokens`, `policies`, `bindings` on disk; the kernel's WireGuard table | join, connect, disconnect, heartbeat, expiry loop, start | detached tasks in any order, read-then-write handlers without locks, kill between answer and save | an address has one owner; the table routes it to that owner; an agent's token works; a label keeps its address; silent connections go |
| Store replication (ST) | sled trees per master, list of masters | put, delete, broadcast, sync handler | pushes lost, late, in any order, to the sender itself | masters agree once writes stop; an old value never replaces a newer one |
| P2P tunnels (A) | per-peer tunnel state, kernel table, back-off | periodic sync against the peers list and handshakes | stale state of a peer that changed, failed `wg` commands | an agent whose tunnel is dead is reached through the hub |
| Vault (ST, S) | `vault_meta` (sealed keys, salt), `vault_keys` in memory, secrets, list of configs | start with two migrations, create config, set, get and delete secret, sync handler | a kill between any two writes, read-modify-write of the key map, another cluster secret, secrets replicated without their keys | every secret can be opened again at the master that sealed it |
| Reconciler (W) | managed containers | list, create, remove, restart on change | partial failure of the Docker API and of secret resolution | running containers converge to the manifests; a healthy one is not restarted |
| OCI registry (R, S) | manifests and tags in `registry_meta`; blobs and uploads as files | upload, patch, complete, put and delete a manifest, delete a tag through the API | deletion racing with a put, two requests on one upload, kills | a tag resolves; a blob has the content of its digest |
| Update rollout (S, A) | `update_pending`, states per agent; agent's binary | trigger, fetch, poll, report, apply | agents joining and leaving during a rollout, restart of the master | every current agent updates before the rollout ends |
| Log shipping (C) | cursor per container, buffer, state file | follow, ship, retry, save | time-outs after success, restart, overflow | no loss, no duplicates |
| Logs configuration (S) | key `logs_ch_config`, manifest `clickhouse` | setup, delete, load (which deletes) | check-then-delete racing with setup | one password on both sides; a setup is not forgotten |
| RBAC (S, ST) | users, tokens, policies, bindings | create, delete, exchange, migrate v1 to v2, `can` | several writes per request, check-then-insert, a migration cut and begun again | a token or user has the rights asked for it, a deleted one leaves none |
| Git, TLS, DNS, proxies, metrics (R, S) | repositories, certificates made at a start, last values reported | pass on, resolve, report | none that a model reaches | |
| CLI, TUI, web, client, service manager | none of their own | requests to the master | none that a model reaches | |

Interactions: agents and tools call the master over HTTP; the master's handlers
share `AppState` (two mutexes, `peers` and `next_ip`, held together only in
`join_handler`) and the sled trees; background loops (expiry, reconcile,
metrics broadcast, observed endpoints, DNS) share both; masters push single
keys to each other.

## Modules

Each component has its module, an `MC` module that TLC runs, one configuration
per question, and a `_proofs` module.  Definitions named `...NoAdvance`,
`...Silent` and so on with a comment `Mutant:` are wrong variants of the
definition after them; a run with the definition replaced by its variant
violates the property that guards against that bug.  `PROJECT.json` maps every
definition to the lines it stands for.

### VPN membership

| module | models |
|---|---|
| `StoreFaults` | the second outcome of an operation of the store: an error, which most callers ignore |
| `AddressPool` | `next_ip`, allocation, its value after a start, and the WireGuard table, where an allowed-ip belongs to one peer |
| `NodeJoin` | `join_handler` (S) in two parts under the `peers` lock, and the task it spawns, one step per awaited put |
| `Connections` | `connect_handler`, `disconnect_handler`, `connection_heartbeat_handler` and the expiry loop, one step per store access or `wg` command |
| `VpnMaster` | both over one pool, with the master killed at any point and started again; the properties |
| `AddressLease` | the abstract promise: an address has one owner and never passes to another in a step |
| `VpnMaster_proofs` | the theorems |
| `MCVpnMaster` | symmetry for TLC |

Address 10.42.0.N is the number N, the last one `MaxIp` instead of 254.  Keys,
names and labels are model values.  The master's own record, which never
changes, is left out of the maps and counted in `RecordedIps`.  `join_handler`
is two steps although it holds the `peers` lock throughout: the task of an
earlier join does not take that lock and may store its token between the
removal of the tokens of a name (S:1259) and the search for one (S:1299).  A
`wg` command may fail (`WgMayFail`), which the handlers log or ignore.  A
connection's `fresh` stands for `now - last_seen <= 90`.  `Restart` keeps the
trees, forgets `peers`, the running requests and tasks, rebuilds the table from
the saved peers only (S:633-645) and recomputes `next_ip` (S:664-690).

Most callers ignore an error of the store (`let _ =`, `if let Ok`, `_ =>`) and
go on, so each such operation has a second action that is one `Fault`:
`TaskRefused` and `TaskSaveFails` (S:1372-1375), a `JoinBegin` that keeps tokens it
should remove, a `JoinEnd` that does not find the stored one, `ConnectUnlisted`
(S:3459), `DeleteFails` (S:3465, 824), `PinUnread` (an error counts as no pin,
S:3472), `PinFails` (S:3487), `RecordFails`, the one error that is answered
(S:3536), and `BeatFails`.  An error that comes after the change (of the flush) has
the effect of the change.  `refused` remembers which of a token's three writes
the store refused.

A connect of a label is undisturbed (`calm`) if no other request of the label
overlaps it and the store does not fail it.  A label is `settled` from the end of an
undisturbed connect until a request of it is disturbed (`Disturb`); a label that
nobody connected yet is settled.  So the properties of labels except what two
overlapping requests or an ignored error leave behind, and say that the next
undisturbed connect repairs it.

`DnsResolve` is what `handle_dns_query` and `dns_resolve` answer (S:4057-4111): the
query is put in lower case; `master` and names below it are the master; then
come the nodes, then names below a node, then the labels as they were given.
`Lower` and `LastPart` are operators that the instance gives; no property or
proof depends on what they are.
Assumption: an agent and a client do not use the same public key
(`PoolAssumption`), nor is a label equal to a key.

### Store replication

`StoreSync`: `Store::put` and `delete` are two steps, the change of the tree
(`Store`) and, after the awaited flush, the broadcast (`Broadcast`), one POST
per address in `Store.masters`.  A POST is delivered (`sync_handler`) or lost,
in any order.  The list of masters is the peers map's, the writer included.  A
key stands for a tree and a key in it; those of trees that are not in
`ALLOWED_SYNC_TREES` are outside `Allowed`.  Three history variables say what
was written last, to whom it was sent, and whether the writes of a key
overlapped.  A master's peers map is taken as saved, and a write counts as
durable once it is in the tree; a joining master starts from an empty store,
as in the code.

### Agent-to-agent tunnels

`P2pSync`: an iteration of `p2p_sync` (A:660-785) fetches the list and the
handshakes (`Fetch`), looks at every agent of the list in any order (`Look`,
whose disjuncts are the match arms), and ends by removing the agents that left
(`Finish`).  The list, handshakes and time are the environment, which moves
between any two of those steps.  Time is three booleans per agent, the three
comparisons of the code.  `stray` is a history variable: the direct peers that
`wg` failed to remove, which the code does not look at again.

### Update rollout

`UpdateRollout`: versions stand for binaries, checksums and signatures.  The
report handler is three steps after the report is stored, because it takes
the lock of the statuses only and the binary, the peers and the flag may change
between its reads (S:2967-2988).  The agent's task is one step per request or
file operation; the step after a failed verification is `VerifyPanics`, since
the error closure blocks on a future inside the runtime (A:877-886).  Version 0 at
the master is the file that is not there: a new master has neither, and a release
without signature, or a failed write of it, leaves the old file, none, or a cut
one (`FetchUnsigned`).  Without signature an agent refuses the binary
(`RefuseUnsigned`) unless it is in `SkipVerify`; a download or an installation may
fail at any attempt (`AttemptFails`).

### Reconciler

`Reconciler`: one step per request of an iteration to the master, the vault
and Docker, except that a look-up and what follows without another request, or
a stop with its remove, are one.  `docker[a]` is the container that has the
name of app `a`, and whose it is: none, one with this node's label, with
another node's, or a foreign one.  Between any two steps a manifest or the
secret changes, a user acts on a container, or the next request fails; each of
these counts as an upset, and `round.upset` tells whether the iteration met
one.  An environment is one variable that a manifest leaves out or takes from
the vault; that the vault does not answer leaves the text of the reference
(`Ref`).  `host` is where the loop runs.  The master gives its reconciler an empty
token (S:758), and an agent may have none: there the vault is never asked, and
the text of the reference is the value (`Meaning`, W:179).  Only on the master does a
failure to read the manifests count as no manifests (`FetchNothing`, S:775).

### Vault

`Vault`: each write of a start is a step and a kill may come between any two.
A start stores the salt once (`StoreSalt`), moves the blob of an older version
(`ListLegacy`, `MoveLegacy`, `RemoveLegacy`), opens what opens (`OpenAll`),
seals again what the literal salt opened (`Reencrypt`), and makes a default
config if nothing did (`MakeDefault`, `ListDefault`).  `Init` has each master
new or with the data of one of the two older versions.  A DEK is the record of
who made it, for which config, the how-manieth; a blob is a DEK with the secret
and the salt it is sealed under, and `Opens` is what deriving the key again and
decrypting amounts to.  `create_vault_config` is a record that moves through
its steps with its copy of the key map.  A secret is the DEK it was sealed
with: a config has one.  `sled` keeps a prefix of the writes, so that an
unflushed write is a kill before it.  `set_secret` logs an error of `init_vault` and
goes on (ST:62-65): after `StartFails` the master is up with what was written and
without any key; a blob that cannot be sealed again stays under the literal salt
(`ReencryptFails`); `CreationFails` ends a creation at any of its writes.

### Logs

| module | models |
|---|---|
| `LogsConfig` | `logs_setup_handler`, `manifest_upsert_handler` and `manifest_delete_handler` for the manifest `clickhouse`, `load_active_logs_ch_config` and `ensure_logs_ch_schema` on the master, one step per access to the store; a setup's password is its number |
| `LogShipper` | the agent's collector: the tasks that follow containers, buffers, batches, the cursor and its file, one step per item read, POST stored by ClickHouse, and answer |
| `LogPipeline` | both: the collector polls the configuration, ClickHouse takes a batch if it runs with the batch's password |
| `LogPipeline_proofs` | the theorems |
| `MCLogPipeline` | the instance for TLC, with two configurations |

Any access of a handler may be its last, by a kill or by an error of the store
(`SetupFails`, `DeleteFails`, `LoadFails`; S:3855, 3865).  `crossed` says that the
two passwords may differ: the last setup or deletion met another one, a setup was
cut between its two writes, or a user has replaced the manifest alone
(`UpsertManifest`, S:2096).  The next setup or deletion that begins alone ends it.

One container name is modelled, whose containers follow each other.  All names
share one file of cursors, which is written anew as a whole whenever any of them
goes on (C:46-57): `SaveOther` is such a write for another name, and it, like
the write for this one, may fail before or after the file is emptied or be cut by
a kill.  `doubts` counts what makes the collector forget what it stored: a lost
answer for a stored batch, a failed or cut write of the file, a kill before the
answer.  An item of Docker's stream may hold several lines of one time
(`MaxItem`, C:252-267), so that a buffer exceeds its limit by an item.

### OCI registry

`Registry`: a request is in a slot and takes one step per file operation or
tree access.  `put_manifest` writes the manifest before the tag,
`delete_manifest` removes the manifest before the tags it scanned, the tag
route of the API removes the tag before it looks for others.  `data` holds what
each file has in it, `gens` which file an upload id names (one request may still
hold the file that another has removed or renamed).  Chunked writes are steps,
so requests on one upload interleave within it.  `crossed`, `loose` and
`shared` are history variables for the cases the properties except.

### RBAC

`Rbac`: the requests that make and delete tokens and users, one step per write,
in slots; a write may fail (`Fail`), the master be killed (`Restart`).
`migrate_rbac_v1_to_v2` walks the tokens in key order at each start, with
`start.seen` for the owners it has met in this walk.  A write that fails or a
record that does not parse ends the walk (`Abandon`); a token that cannot be read, or
a second admin token that cannot be removed, is passed over (`PassOver`); `start_server` ignores the error (S:747), and `start.failed`
tells that the master serves with tokens that this start did not migrate.
`Rights` is `can` for the three kinds of rules that the handlers write.  `asked`
and `before` remember what each token was made with.  One master is modelled:
tokens, policies and bindings are also pushed to the others, by POSTs that may come
in any order, and users are not (`StoreSync` models pushes).

## Runs

| run | instance | what it shows |
|---|---|---|
| `vpn_joins` | 3 agent keys, 2 names, 3 joins, addresses to 4, 1 restart, `wg` fails, 1 error of the store | addresses routed to their owner; an agent keeps its address; its token ends up stored, with policy and binding, but for a write the store refused; `AddressLease` implemented |
| `vpn_mixed` | 1 agent, whose name the label may be below, 2 clients, 1 label, addresses to 3, 2 connections, 1 restart, 1 error of the store, 2 connection requests at once | addresses unique; of a settled label: one connection, found by DNS; a pin replaced only by a disturbed connect; silent connections go, also with the pool used up |
| `vpn_reissue` (violation) | as `vpn_joins` | a master killed between the answer and the save gives the address away again |
| `sync_replicas` | 3 masters, 2 keys, one of them replicated, 2 writes | spaced writes replicate, local trees stay, the traffic ends |
| `p2p_tunnels` | 1 agent, 2 endpoints, `wg` fails | tunnels, the watched ones and the reported ones agree; dead and orphaned tunnels go; back-offs end |
| `update_rollout` | 2 agents, one of which takes a binary without signature, 2 versions, 2 joins, 1 restart | a rollout that is over has reached its agents, and it does get over if the files are there and attempts stop failing |
| `reconcile` | 2 apps, on an agent with or without token or on the master, 2 images, 2 secrets, 3 upsets | undisturbed iterations spare fitting and foreign containers; the loop converges, to the text of a reference where there is no token |
| `vault_starts` | 2 masters of any generation, 2 cluster secrets, 2 configs, 3 starts, 1 POST, 1 error of the store | no kill, migration, creation or replication loses a secret or lists a config without key; a start gives back every key that opens, or none if the store failed it |
| `log_lines` | 1 setup, 2 containers, 3 lines, items and batches of 2, 2 faults | the cursor passes only what is stored; a line is stored twice only after a doubt; buffers are bounded |
| `logs_setup` | 2 setups, 2 calls at once, a user's own password, 1 line, 1 fault | one password on both sides after a setup that was not disturbed; a stale configuration goes; lines arrive in the end |
| `registry` | 2 slots, 2 tags, 2 manifests, 2 uploads of 2 files each | tags resolve; the last tag takes its manifest along; what was answered is stored |
| `rbac` | 2 slots, 2 tokens, both possibly old, 1 user | tokens and users have what was asked for; a deleted user leaves nothing; the migration keeps rights, or the token that gave them |

The type invariants and the inductive strengthenings are not in these
configurations: they are theorems.

Bounds: they limit how often the environment acts (joins, connections, writes,
versions, restarts, upsets), never what the code does in answer.  They exist
for TLC only; the theorems hold for all their values.  Because they run out,
the configurations switch the deadlock check off.  Two or three of a kind are
enough to meet the interactions the properties are about: an owner that loses
an address to another needs two owners and a third that arrives between them;
a late POST needs two writes of one key; an overtaken rollout needs two
versions and two agents; an iteration of the reconciler met by a change, a
fault and another change needs three upsets; a migration that is cut and a
secret changed in between need three starts, which two masters share.  One error of
the store suffices for each place where one is ignored (`MaxFaults`).  Four
configurations have a CONSTRAINT.  `FewOverlaps` lets two requests of clients
overlap when nothing else runs, and not after the restart or an error of the store;
one alone meets joins, the expiry loop and the restart; errors of the store come
in behaviours without joins, and after one the expiry loop and a request do not overlap;
the errors that meet joins are those of `vpn_joins`.  `PostsApart` leaves out
POSTs of the vault that are under way during a creation or a start, neither of which
reads what a POST changes; `FaultsApart` lets the vault's store fail in behaviours
without POSTs between masters and with one creation at most.  `GeneratedPasswords`
leaves a user's own password out of `log_lines`, where it is one more refused batch;
`logs_setup` has it.  `OneHalf` explores
the registry's tree and its files one at a time: they share no variable but
the slots.  The theorems are without these constraints.  The tunnel loop treats each agent
independently except in `Finish`, so liveness is checked for one agent, and
what the proofs say holds for any number.  Symmetry is used only in
configurations without liveness.

Fairness: weak fairness of steps that a task or a loop of the code takes by
itself (spawned tasks, the loops, handlers that have started), and of the
passing of time.  Strong fairness only where something is retried for ever: a
`wg set` that adds a tunnel (P2pSync) and a report to the master
(UpdateRollout) do not fail every time, and the collector's poll every few
seconds (LogPipeline) finds the configuration if it is there again and again.  No user, join, release or restart is
fair.

## Proofs

TLAPS checks every leaf, for all values of the constants, from the named
assumptions of the modules (`PoolAssumption`, `SyncAssumption` and so on; TLC
evaluates them).  Each module also has `TypeCorrect` (`P2pTypeCorrect` for
the tunnels, whose theorems share a module with those of the replication:
`P2pInit`, `P2pSpec` and so on have their prefix for that).

| module | inductive invariant | properties it gives |
|---|---|---|
| `VpnMaster_proofs` | `AddressInvariance`, `TokenInvariance`, `LabelInvariance` | `AddressesUnique`, `WgRoutesOwners`, `LeaseImplemented`, `TokenAuthorised`, `AgentTokenStored`, `AddressKept`, `OneConnectionPerLabel`, `DnsFindsConnection`, `PinPermanent` |
| `Sync_proofs` | `SyncInvariance`, `WatchInvariance` | `SpacedWritesReplicate`, `LocalTreesStay`; of the tunnels `ReportedAreDirect`, `RelayUnlessWatched` |
| `UpdateRollout_proofs` | `RolloutInvariance` | `RolloutReachedAgents` |
| `Reconciler_proofs` | `RoundInvariance` | `ForeignSpared`, `FittingKept` |
| `Vault_proofs` | `DekInvariance`, `ListInvariance` | `SecretsRecoverable`, `ListedConfigsHaveKeys`, `DefaultKeptWhileAnyOpens`, `ReadableAfterStart` |
| `Registry_proofs` | `TagsInvariance`, `LastTagInvariance`, `AnsweredInvariance` | `TagsResolve`, `LastTagTakesManifest`, `AnsweredStored` |
| `Rbac_proofs` | `TokenInvariance`, `UserInvariance`, `MigrationInvariance` | `TokenHasGrant`, `UserHasRights`, `RightsGoWithUser`, `MigrationKeepsRights` |
| `LogPipeline_proofs` | `PipelineInvariance` | `SamePassword`, `CursorPassesStored`, `CopiesNeedDoubt`, `BufferBounded` |

The arguments:

- *Addresses.*  That two owners never have one address is not inductive: the
  address is also in snapshots of unfinished tasks, in records a request has
  read, in the saved map that the next start reads.  `AddressInv` says of all
  the places together that they agree on the owner and lie below `next_ip`; a
  fresh address is then in none of them, and the recomputation after a restart
  is above all of the ones that survive.
- *Tokens of agents.*  A token in the store is safe because its task stored the
  policy and the binding before it, or was refused them; `TokenInv` says so of
  every stage of every task.  It also follows the token of each agent: stored,
  refused, on its way in a task, or its agent is just joining again.
- *Labels.*  `LabelInv` speaks of settled labels and of undisturbed connects, with
  any number of requests at once: every record of a settled label, also one that a
  heartbeat read, has the pinned address; an undisturbed connect about to pin has
  found none; the connections it must evict are on its list or gone.  That a step
  of one request leaves this true of the others needs `ConnectsApart` (no other
  request touches the label of an undisturbed connect), `SettledConnects` (every
  connect of a settled label is undisturbed) and `BeatsAgree` (the heartbeats of a
  settled label have one record).
- *Replication.*  `SyncInv`: of a key without overlapping writes everything
  under way carries the last write, and every master reached has it or has a
  POST coming.  When nothing is under way, all have it.
- *Tunnels.*  `WatchInv`: established implies watched, watched implies in the
  kernel; a peer leaves the kernel only in a step that also stops watching it.
  A removal that fails is why `RelayUnlessWatched` needs the history `stray`.
- *Rollout.*  `RolloutInv` orders the versions: report, disk, download,
  binary at the master, each no newer than the next; so a report that equals
  the master's checksum means the disk has reached it.
- *Reconciler.*  `RoundInv` says what an undisturbed iteration knows: it works
  from the stored manifests; a listed container whose app is wanted is still to
  be visited, so that what is left for the orphan loop is unwanted; and the
  name it creates or replaces has no container of this node.

- *Vault.*  That a stored secret's DEK is on its master's disk says nothing of
  a DEK about to be used.  `DekInv` says it of every carrier of a DEK: the
  trees, the key map, the copies of unfinished creations and the POSTs.  It also
  says what a start has done by each phase, so that a blob removed is a blob
  moved, and a DEK generated replaces none that opens.  `ListInv` adds that a
  creation past its second write, and a config on its way, has its DEK stored.
- *Registry.*  `TagsInv` looks at requests: a put has its manifest stored, one
  about to drop a manifest has found no tag, a sweep has all the tags it must
  remove, and of one manifest no put and deletion meet, unless it is `crossed`.
  `LastTagInv` finds, for a manifest without tags, the request that will tag or
  remove it.  `AnsweredInv` keeps open files and blobs apart: a request writes
  to the last file of its upload, and a blob is an older file or a moved one.
- *RBAC.*  Rights are written before the record that makes them usable and
  removed after it.  `TokenInv` says a token id is one request's; `UserInv` the
  same of a name, as long as requests for it do not overlap.  `MigrationInv`:
  a token is rewritten only when its owner's policy and binding are in place,
  so a walk begun again finds either the token or its rights; and the tokens
  behind the walk are rewritten, unless something failed in this start, in which
  case an owner without rights still has all tokens as they were.

- *Logs configuration.*  `PasswordInv`: if nothing crossed the last setup or
  deletion there is at most one under way, the manifest is what it wrote (none, for
  a deletion), and when it is over both sides agree.
- *Log shipping.*  `CursorPassesStored` is not inductive: a task that reads on
  could leave a line behind, and a new line could be written behind the cursor.
  `ReadInv` says where a line is that is not stored yet: ahead of the cursor
  and of the task's starting point, and if the task has read past it, in its
  buffer.  `CursorInv` says that cursors stand at times of stored lines, so a
  line written at the cursor's time shares it with a stored one.  That a
  batch moves the cursor to its newest line needs `LinesInv` (time goes on) and
  the lemmas on the greatest time of a batch, which rest on the least-number
  principle of the library.  `DoubtInv` counts rows: each beyond the first has
  its doubt; so has the first once a restart may read the line again, that is
  while the file is behind it and no answer for its batch is awaited; and a
  line between the cursor of the file and the one in memory has one doubt more
  in reserve, which the restart uses up.  `BufferInv` bounds a buffer by the
  phase of its task.  The argument about doubts holds with a file of all
  cursors, because what another name's write does to it is `SaveOther`.

Every safety property of the runs, invariant, action property or refinement, is
a theorem.  Only model-checked: liveness under fairness
(`SilentConnectionRemoved`, `PushesEnd`, `DeadTunnelDropped`, `GoneTunnelDropped`, `BackoffRetried`, `RolloutEnds`,
`EventuallyReconciled`, `StaleConfigCleared`, `LinesArrive`), which the prover
does not do.

## Where the code departs from what it says

The run `vpn_reissue` shows one; `findings` in `PROJECT.json` quotes the lines.
Others that were met while modelling; the properties except them, and the
comments there say so:

- Overlapping connects of a label leave two active connections, although
  connecting evicts the others of the label (S:3458); overlapping first connects
  pin two addresses, the later pin wins (ST:746).  So does one connect whose
  eviction the store refuses (S:3459, 3465) or for which it fails to read the pin
  (S:3472, an error counts as no pin), although the pin is called permanent
  (ST:746); if it fails to write the pin (S:3487) DNS does not find the label.
- A join's task ignores errors of the store (S:1372-1374): the agent is given a token
  that is not stored, or one that may do nothing, and keeps it until it joins again.
- The expiry loop removes a connection by an earlier reading of `last_seen`; a
  heartbeat between the two is lost (S:819-828).
- A label that equals the name of a node, or is below one, is shadowed by it in DNS;
  `master`, and what is below it, is the master; a label with capitals is never
  found, since the query is put in lower case and the label is not (S:4057-4111).
- A disconnect between the two halves of a heartbeat is undone: the record is back
  and has no WireGuard peer until it expires (ST:730).  After a restart of the master
  all connections have records and no peers (S:633).
- The list of other masters contains the writer (ST:24 says other masters,
  S:404 fills it from all peers): a late POST of an older write changes the
  writer back.
- An agent that is listed without endpoint keeps its dead direct tunnel (A:620,
  A:699).
- A binary is renamed into place before its signature (S:2901-2905); a download
  in between fails verification, and reporting that panics, since it blocks
  inside the runtime (A:877-886): the update task is gone until a restart.
- A rollout hangs, with `update_pending` set and every agent reporting, if the master
  has no agent binary (S:2931, A:836), has no signature and an agent asks for it
  (A:889-898), or if an agent can never install (A:920-928: a rename from `/tmp`
  fails if that is another file system).
- An agent that joins, or a binary fetched and triggered, while a report is
  handled is left out of the rollout that the handler ends (S:2988).
- The reconciler never looks at the status of a container: one whose start
  failed, or that a user stopped, is not started (W:84).  A variable removed from
  the manifest stays in the container (W:83-94); ports, volumes and the command
  are not compared either.  On the master a failed read of the manifests removes
  all containers of the node until the next iteration (S:775).
- A `vault://` reference in a manifest (src/README.md:14) is never resolved on the
  master, whose reconciler is made with an empty token (S:758, W:179), nor on an agent
  that was given none: the container gets the text of the reference.  The same text
  replaces a good value when the vault does not answer once (W:197).
- A foreign container that takes a name between the look at its owner and the
  removal is removed (W:302).
- An error of `init_vault` is only logged (ST:62-65): the master serves and answers 404
  for all secrets until the next start.
- Two configs created at once: one key is lost from memory until the next start
  (ST:246), and the requests of that config answer 404 until then.
- After a restart of the agent, lines of the millisecond of the last one shipped
  are passed over, shipped or not (C:249-250).
- A comment says that the file of cursors prevents duplicates after a restart (C:22-24,
  «дублей нет»).  Lines are stored again after a lost answer, and after a failed or
  cut write of the file, which all names share: then those of all names
  (C:46-57).  `CopiesNeedDoubt` counts these cases and says there are no others.
- A setup of the logs that meets a load which has just seen no manifest loses its
  configuration (S:3661); it has to be done again.
- A setup whose second write fails (S:3865), or a user who stores the manifest
  `clickhouse` alone (S:2096), leaves agents with another password than ClickHouse
  until the next setup.
- A manifest put while its last tag is deleted is left with a tag and without a
  record (S:2448).
- A user whose deletion was cut leaves a policy and a binding that stay until a
  user of the name is made, whose own replace them (S:1892).
- An error of the migration of older tokens is ignored (S:747): the master serves,
  and the tokens not yet migrated have no rights until a later start.

## Not modelled

- The front ends (CLI, TUI, web, client library), which send requests and show
  answers, and the scripts and unit files of the service manager.
- Git: requests are passed to `git http-backend`.  TLS certificates are made once
  at a start; DNS and the proxies keep no state (what DNS answers for a label is
  `DnsResolve` of `VpnMaster`).  Metrics replace each other in no order that
  matters.
- Of the modelled components: a second master's `join_master` and `prune-nodes`;
  errors of the store while a master starts (but those of the vault and of the
  migration of tokens); fetches of a release that overlap, which write one temporary
  file; the master's update of its own binary; systemd units of a manifest; a key
  of the vault that sled cannot read during a start, which is skipped (ST:122; if it
  is the only one that opens, a new default config replaces it); several secrets per
  config; the authentication of registry requests and its repositories, which share
  only blobs; other masters with respect to the logs configuration (the manifest
  is replicated to them, the key `logs_ch_config` is not) and to tokens and users;
  resource names and patterns in rules; the parsing of log lines.
