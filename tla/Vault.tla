------------------------------- MODULE Vault -------------------------------
(***************************************************************************)
(* The vault of each master.  A config has a data key (DEK), kept in the   *)
(* tree vault_meta sealed under a key derived from the cluster secret and  *)
(* a salt, and opened into Store.vault_keys at a start.  Secrets (tree     *)
(* vault) and the list of configs (vault_configs) are replicated between   *)
(* masters, vault_meta is not.                                             *)
(*                                                                         *)
(* A start migrates what older versions left: one blob under the key       *)
(* kek_dek, and blobs sealed under a salt that was a literal.  Each write  *)
(* of the start is a step, and the process may be killed between any two.  *)
(* sled keeps a prefix of the writes, so a write lost because it was not   *)
(* flushed is a kill before it.  An error of the store ends a start; the   *)
(* master then serves with no keys at all.                                 *)
(*                                                                         *)
(* Each config holds at most one secret, named by the DEK that sealed it.  *)
(***************************************************************************)
EXTENDS StoreFaults, FiniteSets

CONSTANTS
    Masters,
    Rotating,        \* masters whose operator changes R4A_SECRET
    Secrets,         \* values of R4A_SECRET
    FirstSecret,
    Default,         \* the config that every master makes for itself
    Named,           \* configs that users create, their ids are fresh uuids
    NoDek,
    MaxStarts,       \* bound: starts of all masters together
    MaxPushes        \* bound: POSTs on their way

Configs == Named \cup {Default}
Dek == [at : Masters, config : Configs, gen : Nat]

ASSUME VaultAssumption ==
    /\ Rotating \subseteq Masters
    /\ FirstSecret \in Secrets
    /\ Default \notin Named
    /\ NoDek \notin Dek
    /\ MaxStarts \in Nat /\ MaxPushes \in Nat

VARIABLES
    secret,      \* cluster_secret of each master
    phase,       \* where the start of a master is, "down" or "up"
    salt,        \* master_salt in vault_meta, 0 when there is none yet
    legacy,      \* kek_dek in vault_meta
    meta,        \* kek_dek_<config> in vault_meta
    configs,     \* tree vault_configs
    vault,       \* tree vault: the DEK that sealed the secret of a config
    keys,        \* Store.vault_keys; during a start the map being filled
    creating,    \* calls of create_vault_config under way
    made,        \* ids given to configs
    gens,        \* default DEKs a master generated
    starts,
    wire         \* POSTs of broadcast_sync on their way

disk == <<salt, legacy, meta, configs, vault>>
vars == <<secret, phase, disk, keys, creating, made, gens, starts, wire, faults>>

Phase == {"down", "salt", "legacy", "move", "remove", "reseal", "list", "up"}
MaybeDek == Dek \cup {NoDek}
Blob == [dek : MaybeDek, secret : Secrets, salt : Nat]
NoBlob == [dek |-> NoDek, secret |-> FirstSecret, salt |-> 0]
NoKeys == [c \in Configs |-> NoDek]
Creation == [at : Masters, config : Named, keys : [Configs -> MaybeDek],
             step : {"copied", "sealed", "listed", "stored"}]
Push == [to : Masters, secret : Secrets, tree : {"vault", "vault_configs"},
         config : Configs, dek : MaybeDek]

TypeOK ==
    /\ secret \in [Masters -> Secrets]
    /\ phase \in [Masters -> Phase]
    /\ salt \in [Masters -> Nat]
    /\ legacy \in [Masters -> Blob]
    /\ meta \in [Masters -> [Configs -> Blob]]
    /\ configs \in [Masters -> SUBSET Configs]
    /\ vault \in [Masters -> [Configs -> MaybeDek]]
    /\ keys \in [Masters -> [Configs -> MaybeDek]]
    /\ creating \subseteq Creation
    /\ made \subseteq Named
    /\ gens \in [Masters -> Nat]
    /\ starts \in 0 .. MaxStarts
    /\ wire \subseteq Push
    /\ faults \in 0 .. MaxFaults
    /\ \A m \in Masters : phase[m] \in {"down", "salt"} => keys[m] = NoKeys
    /\ \A o \in creating : phase[o.at] = "up"

DefaultDek(m, n) == [at |-> m, config |-> Default, gen |-> n]

\* Sealed under the secret of the master with the literal salt.
OldBlob(m) == [dek |-> DefaultDek(m, 1), secret |-> FirstSecret, salt |-> 0]

\* A master that never ran, one of the version with a single config, or one
\* of the version with configs and the literal salt.
Fresh(m) == /\ legacy[m] = NoBlob
            /\ meta[m] = [c \in Configs |-> NoBlob]
            /\ configs[m] = {} /\ vault[m] = NoKeys /\ gens[m] = 0
SingleConfig(m) == /\ legacy[m] = OldBlob(m)
                   /\ meta[m] = [c \in Configs |-> NoBlob]
                   /\ configs[m] = {}
                   /\ vault[m] = [NoKeys EXCEPT ![Default] = DefaultDek(m, 1)]
                   /\ gens[m] = 1
LiteralSalt(m) == /\ legacy[m] = NoBlob
                  /\ meta[m] = [c \in Configs |-> IF c = Default
                                                  THEN OldBlob(m) ELSE NoBlob]
                  /\ configs[m] = {Default}
                  /\ vault[m] = [NoKeys EXCEPT ![Default] = DefaultDek(m, 1)]
                  /\ gens[m] = 1

\* Ways a master may begin.  The first conjuncts enumerate them for TLC.
Init ==
    /\ legacy \in [Masters -> {NoBlob} \cup {OldBlob(m) : m \in Masters}]
    /\ meta \in [Masters -> {[c \in Configs |-> NoBlob]}
                            \cup {[c \in Configs |-> IF c = Default THEN OldBlob(m)
                                                     ELSE NoBlob] : m \in Masters}]
    /\ configs \in [Masters -> {{}, {Default}}]
    /\ gens \in [Masters -> {0, 1}]
    /\ vault \in [Masters -> {NoKeys} \cup {[NoKeys EXCEPT ![Default] = DefaultDek(m, 1)]
                                            : m \in Masters}]
    /\ \A m \in Masters : Fresh(m) \/ SingleConfig(m) \/ LiteralSalt(m)
    /\ secret = [m \in Masters |-> FirstSecret]
    /\ phase = [m \in Masters |-> "down"]
    /\ salt = [m \in Masters |-> 0]
    /\ keys = [m \in Masters |-> NoKeys]
    /\ creating = {}
    /\ made = {}
    /\ starts = 0
    /\ wire = {}
    /\ faults = 0
-----------------------------------------------------------------------------
\* crypto::decrypt of a blob at a master that runs with a secret: the key
\* derived with the saved salt is tried, then the one of the literal salt.
Opens(m, blob) ==
    /\ blob.dek # NoDek
    /\ blob.secret = secret[m]
    /\ blob.salt \in {0, salt[m]}

Sealed(m, dek) == [dek |-> dek, secret |-> secret[m], salt |-> salt[m]]

\* load_identity and set_secret.
Start(m, s) ==
    /\ phase[m] = "down"
    /\ starts < MaxStarts
    /\ s # secret[m] => m \in Rotating
    /\ phase' = [phase EXCEPT ![m] = "salt"]
    /\ secret' = [secret EXCEPT ![m] = s]
    /\ starts' = starts + 1
    /\ UNCHANGED <<disk, keys, creating, made, gens, wire>>

\* Mutant: a salt is generated at each start.
StoreSaltAlways(m) ==
    /\ phase[m] = "salt"
    /\ salt' = [salt EXCEPT ![m] = @ + 1]
    /\ phase' = [phase EXCEPT ![m] = "legacy"]
    /\ UNCHANGED <<secret, legacy, meta, configs, vault, keys, creating, made,
                   gens, starts, wire>>

StoreSalt(m) ==
    /\ phase[m] = "salt"
    /\ salt' = [salt EXCEPT ![m] = IF @ = 0 THEN 1 ELSE @]
    /\ phase' = [phase EXCEPT ![m] = "legacy"]
    /\ UNCHANGED <<secret, legacy, meta, configs, vault, keys, creating, made,
                   gens, starts, wire>>

\* The migration of a single config: listed, moved to its new key, removed
\* from the old one.
ListLegacy(m) ==
    /\ phase[m] = "legacy" /\ legacy[m] # NoBlob
    /\ configs' = [configs EXCEPT ![m] = @ \cup {Default}]
    /\ phase' = [phase EXCEPT ![m] = "move"]
    /\ UNCHANGED <<secret, salt, legacy, meta, vault, keys, creating, made,
                   gens, starts, wire>>

MoveLegacy(m) ==
    /\ phase[m] = "move"
    /\ meta' = [meta EXCEPT ![m][Default] = legacy[m]]
    /\ phase' = [phase EXCEPT ![m] = "remove"]
    /\ UNCHANGED <<secret, salt, legacy, configs, vault, keys, creating, made,
                   gens, starts, wire>>

RemoveLegacy(m) ==
    /\ phase[m] = "remove"
    /\ legacy' = [legacy EXCEPT ![m] = NoBlob]
    /\ phase' = [phase EXCEPT ![m] = "legacy"]
    /\ UNCHANGED <<secret, salt, meta, configs, vault, keys, creating, made,
                   gens, starts, wire>>

\* Mutant: a blob that does not open ends the loop.
OpenAllOrNone(m) ==
    /\ phase[m] = "legacy" /\ legacy[m] = NoBlob
    /\ keys' = [keys EXCEPT ![m] = [c \in Configs |->
                   IF \A d \in Configs : meta[m][d] = NoBlob \/ Opens(m, meta[m][d])
                   THEN meta[m][c].dek ELSE NoDek]]
    /\ phase' = [phase EXCEPT ![m] = "reseal"]
    /\ UNCHANGED <<secret, disk, creating, made, gens, starts, wire>>

\* Every blob that opens gives a key; the others are skipped.
OpenAll(m) ==
    /\ phase[m] = "legacy" /\ legacy[m] = NoBlob
    /\ keys' = [keys EXCEPT ![m] = [c \in Configs |->
                   IF Opens(m, meta[m][c]) THEN meta[m][c].dek ELSE NoDek]]
    /\ phase' = [phase EXCEPT ![m] = "reseal"]
    /\ UNCHANGED <<secret, disk, creating, made, gens, starts, wire>>

\* Opened with the literal salt.
ToReencrypt(m) == {c \in Configs : keys[m][c] # NoDek /\ meta[m][c].salt = 0}

Reencrypt(m, c) ==
    /\ phase[m] = "reseal" /\ c \in ToReencrypt(m)
    /\ meta' = [meta EXCEPT ![m][c] = Sealed(m, keys[m][c])]
    /\ UNCHANGED <<secret, phase, salt, legacy, configs, vault, keys, creating,
                   made, gens, starts, wire>>

Ready(m) ==
    /\ phase[m] = "reseal" /\ ToReencrypt(m) = {} /\ keys[m] # NoKeys
    /\ phase' = [phase EXCEPT ![m] = "up"]
    /\ UNCHANGED <<secret, disk, keys, creating, made, gens, starts, wire>>

\* Some of them cannot be stored: they stay under the literal salt.
ReencryptFails(m) ==
    /\ phase[m] = "reseal" /\ ToReencrypt(m) # {}
    /\ phase' = [phase EXCEPT ![m] = "up"]
    /\ UNCHANGED <<secret, disk, keys, creating, made, gens, starts, wire>>

\* Mutant: a default config is made whenever the key of the default one is
\* not there.
MakeDefaultIfMissing(m) ==
    /\ phase[m] = "reseal" /\ keys[m][Default] = NoDek
    /\ meta' = [meta EXCEPT ![m][Default] = Sealed(m, DefaultDek(m, gens[m] + 1))]
    /\ gens' = [gens EXCEPT ![m] = @ + 1]
    /\ phase' = [phase EXCEPT ![m] = "list"]
    /\ UNCHANGED <<secret, salt, legacy, configs, vault, keys, creating, made,
                   starts, wire>>

\* No key at all: create_vault_config_internal for the default config.
MakeDefault(m) ==
    /\ phase[m] = "reseal" /\ keys[m] = NoKeys
    /\ meta' = [meta EXCEPT ![m][Default] = Sealed(m, DefaultDek(m, gens[m] + 1))]
    /\ gens' = [gens EXCEPT ![m] = @ + 1]
    /\ phase' = [phase EXCEPT ![m] = "list"]
    /\ UNCHANGED <<secret, salt, legacy, configs, vault, keys, creating, made,
                   starts, wire>>

ListDefault(m) ==
    /\ phase[m] = "list"
    /\ configs' = [configs EXCEPT ![m] = @ \cup {Default}]
    /\ keys' = [keys EXCEPT ![m][Default] = DefaultDek(m, gens[m])]
    /\ phase' = [phase EXCEPT ![m] = "up"]
    /\ UNCHANGED <<secret, salt, legacy, meta, vault, creating, made, gens,
                   starts, wire>>

\* init_vault returns an error, which set_secret logs: what was written stays,
\* and the map that was being filled never becomes vault_keys.
StartFails(m) ==
    /\ \/ phase[m] \in {"salt", "legacy", "move", "remove", "list"}
       \/ phase[m] = "reseal" /\ keys[m] = NoKeys
    /\ phase' = [phase EXCEPT ![m] = "up"]
    /\ keys' = [keys EXCEPT ![m] = NoKeys]
    /\ UNCHANGED <<secret, disk, creating, made, gens, starts, wire>>

\* The process ends, and with it its calls and what is posted to it.
Kill(m) ==
    /\ phase[m] # "down"
    /\ phase' = [phase EXCEPT ![m] = "down"]
    /\ keys' = [keys EXCEPT ![m] = NoKeys]
    /\ creating' = {o \in creating : o.at # m}
    /\ wire' = {p \in wire : p.to # m}
    /\ UNCHANGED <<secret, disk, made, gens, starts>>
-----------------------------------------------------------------------------
\* broadcast_sync posts to every master of the list, the sender included.
\* Those of the POSTs that exceed the bound count as lost.
Broadcast(m, tree, c, dek) ==
    \E to \in SUBSET Masters :
        /\ wire' = wire \cup {[to |-> n, secret |-> secret[m], tree |-> tree,
                               config |-> c, dek |-> dek] : n \in to}
        /\ Cardinality(wire') <= MaxPushes

\* create_vault_config: the map of keys is copied, if there is a salt ...
CopyKeys(m, c) ==
    /\ phase[m] = "up" /\ salt[m] # 0 /\ c \in Named \ made
    /\ made' = made \cup {c}
    /\ creating' = creating \cup {[at |-> m, config |-> c, keys |-> keys[m],
                                   step |-> "copied"]}
    /\ UNCHANGED <<secret, phase, disk, keys, gens, starts, wire>>

NamedDek(o) == [at |-> o.at, config |-> o.config, gen |-> 1]
\* The copy with the new key.
WithDek(o) == [o.keys EXCEPT ![o.config] = NamedDek(o)]

Advance(o, next) == creating' = (creating \ {o}) \cup {next}

\* Mutant: the config is listed before its key is stored.
StoreSealedLate(o) ==
    /\ o.step = "copied"
    /\ configs' = [configs EXCEPT ![o.at] = @ \cup {o.config}]
    /\ Advance(o, [o EXCEPT !.step = "sealed", !.keys = WithDek(o)])
    /\ UNCHANGED <<secret, phase, salt, legacy, meta, vault, keys, made,
                   gens, starts, wire>>

\* ... a DEK is generated, sealed and stored, ...
StoreSealed(o) ==
    /\ o.step = "copied"
    /\ meta' = [meta EXCEPT ![o.at][o.config] = Sealed(o.at, NamedDek(o))]
    /\ Advance(o, [o EXCEPT !.step = "sealed", !.keys = WithDek(o)])
    /\ UNCHANGED <<secret, phase, salt, legacy, configs, vault, keys, made,
                   gens, starts, wire>>

\* ... the config is listed, ...
ListConfig(o) ==
    /\ o.step = "sealed"
    /\ configs' = [configs EXCEPT ![o.at] = @ \cup {o.config}]
    /\ Advance(o, [o EXCEPT !.step = "listed"])
    /\ UNCHANGED <<secret, phase, salt, legacy, meta, vault, keys, made, gens,
                   starts, wire>>

\* ... the copy becomes the map, and with it goes what others added, ...
StoreKeys(o) ==
    /\ o.step = "listed"
    /\ keys' = [keys EXCEPT ![o.at] = o.keys]
    /\ Advance(o, [o EXCEPT !.step = "stored"])
    /\ UNCHANGED <<secret, phase, disk, made, gens, starts, wire>>

\* ... and put_vault_config stores the config again and posts it.
PutConfig(o) ==
    /\ o.step = "stored"
    /\ configs' = [configs EXCEPT ![o.at] = @ \cup {o.config}]
    /\ creating' = creating \ {o}
    /\ Broadcast(o.at, "vault_configs", o.config, NoDek)
    /\ UNCHANGED <<secret, phase, salt, legacy, meta, vault, keys, made, gens,
                   starts>>

\* One of these writes fails and the creation ends.
CreationFails(o) ==
    /\ creating' = creating \ {o}
    /\ UNCHANGED <<secret, phase, disk, keys, made, gens, starts, wire>>

\* vault_set_handler: without a key for the config it answers 404.  The key
\* of a config is the same for as long as the process runs, so that nothing
\* comes between its read and the put.
SetSecret(m, c) ==
    /\ phase[m] = "up" /\ keys[m][c] # NoDek
    /\ vault' = [vault EXCEPT ![m][c] = keys[m][c]]
    /\ Broadcast(m, "vault", c, keys[m][c])
    /\ UNCHANGED <<secret, phase, salt, legacy, meta, configs, keys, creating,
                   made, gens, starts>>

\* vault_delete_handler asks for no key.
DeleteSecret(m, c) ==
    /\ phase[m] = "up"
    /\ vault' = [vault EXCEPT ![m][c] = NoDek]
    /\ Broadcast(m, "vault", c, NoDek)
    /\ UNCHANGED <<secret, phase, salt, legacy, meta, configs, keys, creating,
                   made, gens, starts>>

\* What vault_configs_list_handler shows.
Listed(m) == configs[m]

\* decrypt_secret, with the key that vault_keys has for the config.
Decrypts(m, c, dek) == keys[m][c] = dek

\* vault_get_handler answers with the secret.
Readable(m, c) == vault[m][c] # NoDek /\ Decrypts(m, c, vault[m][c])

\* sync_handler.  A POST with another cluster secret is refused.
Deliver(p) ==
    /\ phase[p.to] = "up"
    /\ wire' = wire \ {p}
    /\ \/ /\ p.secret = secret[p.to] /\ p.tree = "vault"
          /\ vault' = [vault EXCEPT ![p.to][p.config] = p.dek]
          /\ UNCHANGED configs
       \/ /\ p.secret = secret[p.to] /\ p.tree = "vault_configs"
          /\ configs' = [configs EXCEPT ![p.to] = @ \cup {p.config}]
          /\ UNCHANGED vault
       \/ /\ p.secret # secret[p.to]
          /\ UNCHANGED <<configs, vault>>
    /\ UNCHANGED <<secret, phase, salt, legacy, meta, keys, creating, made,
                   gens, starts>>

Lose(p) ==
    /\ wire' = wire \ {p}
    /\ UNCHANGED <<secret, phase, disk, keys, creating, made, gens, starts>>

StartStep(m) ==
    \/ \E s \in Secrets : Start(m, s)
    \/ StoreSalt(m)
    \/ ListLegacy(m)
    \/ MoveLegacy(m)
    \/ RemoveLegacy(m)
    \/ OpenAll(m)
    \/ \E c \in Configs : Reencrypt(m, c)
    \/ Ready(m)
    \/ MakeDefault(m)
    \/ ListDefault(m)

VaultStep ==
    \/ \E m \in Masters : StartStep(m)
    \/ \E m \in Masters : Kill(m)
    \/ \E m \in Masters, c \in Named : CopyKeys(m, c)
    \/ \E o \in creating : StoreSealed(o)
    \/ \E o \in creating : ListConfig(o)
    \/ \E o \in creating : StoreKeys(o)
    \/ \E o \in creating : PutConfig(o)
    \/ \E m \in Masters, c \in Configs : SetSecret(m, c)
    \/ \E m \in Masters, c \in Configs : DeleteSecret(m, c)
    \/ \E p \in wire : Deliver(p)
    \/ \E p \in wire : Lose(p)

\* An error of the store is not told from no error where nothing is written,
\* and where the write was the last step.
VaultFault ==
    \/ \E m \in Masters : ReencryptFails(m) \/ StartFails(m)
    \/ \E o \in creating : CreationFails(o)

Next ==
    \/ VaultStep /\ UNCHANGED faults
    \/ VaultFault /\ Fault

Spec == Init /\ [][Next]_vars
-----------------------------------------------------------------------------
\* The blob a start would take for the config: the migration puts kek_dek
\* over kek_dek_default.
Effective(m, c) ==
    IF c = Default /\ legacy[m] # NoBlob THEN legacy[m] ELSE meta[m][c]

(* init_vault, create_vault_config, vault_set_handler and sync_handler:     *)
(* whatever is killed, replicated or lost, a stored secret can be read      *)
(* again at the master that sealed it, because the DEK is on its disk,      *)
(* under a secret and a salt it has.  The default config of a master that   *)
(* was started with another cluster secret is excepted.                     *)
SecretsRecoverable ==
    \A m \in Masters, c \in Configs :
        LET d == vault[m][c]
            b == Effective(d.at, c)
        IN  d # NoDek =>
              \/ b.dek = d /\ b.salt \in {0, salt[d.at]}
              \/ c = Default /\ d.at \in Rotating

(* A start with another secret may make a new default config over the old   *)
(* one.  It does so only if no DEK on the disk of the master is sealed      *)
(* under the secret it runs with: an unchanged secret never loses the       *)
(* default config, and a changed one only when nothing opens with it        *)
(* (store lib.rs:190).                                                      *)
DefaultKeptWhileAnyOpens ==
    [][\A m \in Masters :
          LET b == Effective(m, Default)
          IN  b.dek # NoDek /\ Effective(m, Default)'.dek # b.dek
                => \A c \in Configs : Effective(m, c).dek # NoDek
                                        => Effective(m, c).secret # secret[m]]_vars

(* A master that begins to serve has a key for every secret of its own that *)
(* is sealed under the present cluster secret, also when earlier starts     *)
(* were killed or failed in the middle of a migration, when a key could not *)
(* be sealed again, and when overlapping creations had lost the key from    *)
(* memory (store lib.rs:246).  If the store failed this start it has no key *)
(* at all: never some of them.                                              *)
ReadableAfterStart ==
    [][\A m \in Masters : phase[m] # "up" /\ phase'[m] = "up" =>
          \/ faults' # faults /\ keys'[m] = NoKeys
          \/ \A c \in Configs :
                LET d == vault[m][c]
                IN  /\ d # NoDek /\ d.at = m
                    /\ Effective(m, c)'.dek = d /\ Effective(m, c)'.secret = secret[m]
                    => Readable(m, c)']_vars

(* A config that some master lists has its DEK on the disk of the master    *)
(* that made it, or of the lister itself for the default one, although the  *)
(* maker may have been killed during the creation (store lib.rs:281).       *)
ListedConfigsHaveKeys ==
    \A m \in Masters : \A c \in Listed(m) :
        IF c = Default THEN Effective(m, c).dek # NoDek
        ELSE \E n \in Masters : Effective(n, c).dek # NoDek

-----------------------------------------------------------------------------
(* The strengthening of these properties.  A DEK in use for a config, in a  *)
(* tree, in memory, in the copy of a creation or in a POST, is one that its *)
(* master can open again.                                                   *)
Recoverable(d, c) ==
    \/ Effective(d.at, c).dek = d /\ Effective(d.at, c).salt \in {0, salt[d.at]}
    \/ c = Default /\ d.at \in Rotating
Sound(d, c) ==
    d # NoDek => /\ d.config = c /\ (c \in Named => d.gen = 1)
                 /\ Recoverable(d, c)

VaultSound == \A m \in Masters, c \in Configs : Sound(vault[m][c], c)
KeysSound == \A m \in Masters, c \in Configs : Sound(keys[m][c], c)
CopiesSound == \A o \in creating, c \in Configs : Sound(o.keys[c], c)
WireSound == \A p \in wire : Sound(p.dek, p.config)
BlobsOf(m) ==
    /\ legacy[m] \in {NoBlob, OldBlob(m)}
    /\ \A c \in Configs : meta[m][c].dek # NoDek =>
          /\ meta[m][c].dek.at = m /\ meta[m][c].dek.config = c
          /\ c \in Named => meta[m][c].dek.gen = 1
          /\ meta[m][c].salt \in {0, salt[m]}
          /\ m \notin Rotating => meta[m][c].secret = FirstSecret
BlobsOwn == \A m \in Masters : BlobsOf(m)
SecretKept == \A m \in Masters \ Rotating : secret[m] = FirstSecret

\* What a start has done by each phase.
Opened(m, c) == keys[m][c] = IF Opens(m, meta[m][c]) THEN meta[m][c].dek ELSE NoDek
PhaseOf(m) ==
    /\ phase[m] \in {"move", "remove"} => legacy[m] # NoBlob
    /\ phase[m] = "remove" => meta[m][Default] = legacy[m]
    /\ phase[m] \in {"reseal", "list"} => legacy[m] = NoBlob
    /\ phase[m] = "reseal" => \A c \in Configs : Opened(m, c)
    /\ phase[m] = "list" => /\ meta[m][Default].dek = DefaultDek(m, gens[m])
                           /\ \A c \in Named : Opened(m, c)
PhaseInv == \A m \in Masters : PhaseOf(m)

DekInv == /\ VaultSound /\ KeysSound /\ CopiesSound /\ WireSound
          /\ BlobsOwn /\ SecretKept /\ PhaseInv

\* A config is listed, or posted to be, after its DEK is stored.
Kept(c) == \E n \in Masters : Effective(n, c).dek # NoDek
ListInv ==
    /\ ListedConfigsHaveKeys
    /\ \A o \in creating : o.step # "copied" => Effective(o.at, o.config).dek # NoDek
    /\ \A p \in wire : p.tree = "vault_configs" => p.config \in Named /\ Kept(p.config)
=============================================================================
