---------------------------- MODULE Vault_proofs ----------------------------
(* Theorems about Vault: types, that a start and a creation lose no DEK in  *)
(* use, that a start opens what opens, and that a listed config has a DEK.  *)
EXTENDS Vault, TLAPS

LEMMA Constants ==
  /\ Default \in Configs /\ Named \subseteq Configs
  /\ \A c \in Configs : c # Default <=> c \in Named
  /\ Rotating \subseteq Masters /\ FirstSecret \in Secrets
  /\ NoDek \notin Dek /\ MaxStarts \in Nat
BY VaultAssumption DEF Configs

LEMMA NoBlobFields == NoBlob.dek = NoDek /\ NoBlob.salt = 0 /\ NoBlob \in Blob
BY Constants DEF NoBlob, Blob, MaybeDek

LEMMA NoKeysType ==
  NoKeys \in [Configs -> MaybeDek] /\ \A c \in Configs : NoKeys[c] = NoDek
BY DEF NoKeys, MaybeDek

LEMMA DefaultDekType ==
  ASSUME NEW m \in Masters, NEW n \in Nat
  PROVE  /\ DefaultDek(m, n) \in Dek /\ DefaultDek(m, n) # NoDek
         /\ DefaultDek(m, n).at = m /\ DefaultDek(m, n).config = Default
BY Constants DEF DefaultDek, Dek

LEMMA OldBlobType ==
  ASSUME NEW m \in Masters
  PROVE  /\ OldBlob(m) \in Blob /\ OldBlob(m).dek = DefaultDek(m, 1)
         /\ OldBlob(m).salt = 0 /\ OldBlob(m).secret = FirstSecret
         /\ OldBlob(m) # NoBlob
BY Constants, DefaultDekType, NoBlobFields DEF OldBlob, Blob, MaybeDek

LEMMA SealedType ==
  ASSUME TypeOK, NEW m \in Masters, NEW d \in MaybeDek
  PROVE  /\ Sealed(m, d) \in Blob /\ Sealed(m, d).dek = d
         /\ Sealed(m, d).salt = salt[m] /\ Sealed(m, d).secret = secret[m]
BY DEF TypeOK, Sealed, Blob

LEMMA NamedDekType ==
  ASSUME NEW o \in Creation
  PROVE  /\ NamedDek(o) \in Dek /\ NamedDek(o) # NoDek
         /\ NamedDek(o).at = o.at /\ NamedDek(o).config = o.config /\ NamedDek(o).gen = 1
BY Constants DEF NamedDek, Dek, Creation

(* Fields of a creation and of its next step.                               *)
LEMMA CreationFields ==
  ASSUME NEW o \in Creation
  PROVE  /\ o.at \in Masters /\ o.config \in Named /\ o.config \in Configs
         /\ o.keys \in [Configs -> MaybeDek]
BY Constants DEF Creation

LEMMA WithDekType ==
  ASSUME NEW o \in Creation
  PROVE  /\ WithDek(o) \in [Configs -> MaybeDek] /\ WithDek(o)[o.config] = NamedDek(o)
         /\ \A c \in Configs : c # o.config => WithDek(o)[c] = o.keys[c]
BY CreationFields, NamedDekType DEF WithDek, MaybeDek

LEMMA SealedCreation ==
  ASSUME NEW o \in Creation
  PROVE  LET n == [o EXCEPT !.step = "sealed", !.keys = WithDek(o)]
         IN  /\ n \in Creation /\ n.at = o.at /\ n.config = o.config /\ n.step = "sealed"
             /\ n.keys = WithDek(o)
BY WithDekType DEF Creation

LEMMA NextCreation ==
  ASSUME NEW o \in Creation, NEW step \in {"copied", "sealed", "listed", "stored"}
  PROVE  LET n == [o EXCEPT !.step = step]
         IN  /\ n \in Creation /\ n.at = o.at /\ n.config = o.config /\ n.step = step
             /\ n.keys = o.keys
BY DEF Creation

-----------------------------------------------------------------------------
(* Types *)

DiskTypes ==
    /\ salt' \in [Masters -> Nat]
    /\ legacy' \in [Masters -> Blob]
    /\ meta' \in [Masters -> [Configs -> Blob]]
    /\ configs' \in [Masters -> SUBSET Configs]
    /\ vault' \in [Masters -> [Configs -> MaybeDek]]
KeyTypes ==
    /\ keys' \in [Masters -> [Configs -> MaybeDek]]
    /\ \A m \in Masters : phase'[m] \in {"down", "salt"} => keys'[m] = NoKeys

LEMMA DiskKept == TypeOK /\ UNCHANGED disk => DiskTypes
BY DEF TypeOK, disk, DiskTypes

LEMMA KeysKept == TypeOK /\ UNCHANGED <<keys, phase>> => KeyTypes
BY DEF TypeOK, KeyTypes

(* A phase changes: keys stay, unless a start begins or is killed.          *)
LEMMA PhaseStep ==
  ASSUME TypeOK, NEW m \in Masters, NEW p \in Phase,
         phase' = [phase EXCEPT ![m] = p]
  PROVE  /\ phase' \in [Masters -> Phase]
         /\ keys' = keys /\ p \notin {"down", "salt"} => KeyTypes
BY DEF TypeOK, KeyTypes

LEMMA Types ==
  ASSUME TypeOK, DiskTypes, KeyTypes,
         secret' \in [Masters -> Secrets], phase' \in [Masters -> Phase],
         creating' \subseteq Creation, made' \subseteq Named, gens' \in [Masters -> Nat],
         starts' \in 0 .. MaxStarts, wire' \subseteq Push,
         \A o \in creating' : phase'[o.at] = "up", faults' \in 0 .. MaxFaults
  PROVE  TypeOK'
BY DEF TypeOK, DiskTypes, KeyTypes

LEMMA InitType == Init => TypeOK
<1> SUFFICES ASSUME Init PROVE TypeOK
  OBVIOUS
<1>1. legacy \in [Masters -> Blob]
  BY NoBlobFields, OldBlobType DEF Init
<1>2. meta \in [Masters -> [Configs -> Blob]]
  <2>1. \A m \in Masters : [c \in Configs |-> IF c = Default THEN OldBlob(m) ELSE NoBlob]
                              \in [Configs -> Blob]
    BY NoBlobFields, OldBlobType
  <2>2. [c \in Configs |-> NoBlob] \in [Configs -> Blob]
    BY NoBlobFields
  <2>3. \A m \in Masters : meta[m] \in [Configs -> Blob]
    BY <2>1, <2>2 DEF Init, Fresh, SingleConfig, LiteralSalt
  <2>4. QED
    BY <2>3 DEF Init
<1>3. vault \in [Masters -> [Configs -> MaybeDek]]
  <2>1. \A m \in Masters : [NoKeys EXCEPT ![Default] = DefaultDek(m, 1)]
                              \in [Configs -> MaybeDek]
    BY NoKeysType, DefaultDekType DEF MaybeDek
  <2>2. \A m \in Masters : vault[m] \in [Configs -> MaybeDek]
    BY <2>1, NoKeysType DEF Init, Fresh, SingleConfig, LiteralSalt
  <2>3. QED
    BY <2>2 DEF Init
<1>4. configs \in [Masters -> SUBSET Configs]
  BY Constants DEF Init
<1>5. gens \in [Masters -> Nat] /\ starts \in 0 .. MaxStarts
  BY Constants DEF Init
<1>6. /\ secret \in [Masters -> Secrets] /\ phase \in [Masters -> Phase]
      /\ salt \in [Masters -> Nat] /\ faults \in 0 .. MaxFaults
      /\ keys \in [Masters -> [Configs -> MaybeDek]] /\ \A m \in Masters : keys[m] = NoKeys
      /\ creating = {} /\ made = {} /\ wire = {}
  BY Constants, NoKeysType, FaultAssumption DEF Init, Phase
<1>7. QED
  BY <1>1, <1>2, <1>3, <1>4, <1>5, <1>6 DEF TypeOK

LEMMA BroadcastType ==
  ASSUME TypeOK, NEW m \in Masters, NEW tree \in {"vault", "vault_configs"},
         NEW c \in Configs, NEW d \in MaybeDek, Broadcast(m, tree, c, d)
  PROVE  wire' \subseteq Push
<1>1. PICK to \in SUBSET Masters :
        wire' = wire \cup {[to |-> n, secret |-> secret[m], tree |-> tree, config |-> c,
                           dek |-> d] : n \in to}
  BY DEF Broadcast
<1>2. secret[m] \in Secrets /\ wire \subseteq Push
  BY DEF TypeOK
<1>3. \A n \in to : [to |-> n, secret |-> secret[m], tree |-> tree, config |-> c, dek |-> d]
                      \in Push
  BY <1>2 DEF Push
<1>4. QED
  BY <1>1, <1>2, <1>3

(* The steps of a start.  creating stays: its calls run on masters that are *)
(* up, and no master that is up starts.                                     *)
LEMMA StartPhases ==
  ASSUME TypeOK, NEW m \in Masters, phase[m] # "up", UNCHANGED creating,
         NEW p, phase' = [phase EXCEPT ![m] = p]
  PROVE  \A o \in creating' : phase'[o.at] = "up"
BY DEF TypeOK

LEMMA StartType ==
  ASSUME TypeOK, NEW m \in Masters, StartStep(m) \/ ReencryptFails(m) \/ StartFails(m),
         faults' \in 0 .. MaxFaults
  PROVE  TypeOK'
<1>1. /\ secret \in [Masters -> Secrets] /\ phase \in [Masters -> Phase]
      /\ creating \subseteq Creation /\ made \subseteq Named /\ gens \in [Masters -> Nat]
      /\ starts \in 0 .. MaxStarts /\ wire \subseteq Push
      /\ \A o \in creating : phase[o.at] = "up"
      /\ keys \in [Masters -> [Configs -> MaybeDek]]
      /\ \A n \in Masters : phase[n] \in {"down", "salt"} => keys[n] = NoKeys
  BY DEF TypeOK
<1>2. /\ salt \in [Masters -> Nat] /\ legacy \in [Masters -> Blob]
      /\ meta \in [Masters -> [Configs -> Blob]]
      /\ configs \in [Masters -> SUBSET Configs]
      /\ vault \in [Masters -> [Configs -> MaybeDek]]
  BY DEF TypeOK
<1>3. {"down", "salt", "legacy", "move", "remove", "reseal", "list", "up"} = Phase
  BY DEF Phase
<1>4. ASSUME NEW s \in Secrets, Start(m, s) PROVE TypeOK'
  <2>1. /\ phase[m] = "down" /\ phase' = [phase EXCEPT ![m] = "salt"]
        /\ secret' = [secret EXCEPT ![m] = s]
        /\ starts < MaxStarts /\ starts' = starts + 1
        /\ UNCHANGED <<disk, keys, creating, made, gens, wire>>
    BY <1>4 DEF Start
  <2>2. starts' \in 0 .. MaxStarts
    BY <1>1, <2>1, Constants
  <2>3. KeyTypes
    BY <1>1, <2>1 DEF KeyTypes
  <2>4. secret' \in [Masters -> Secrets] /\ phase' \in [Masters -> Phase]
    BY <1>1, <1>3, <2>1
  <2>5. QED
    BY <1>1, <2>1, <2>2, <2>3, <2>4, StartPhases, DiskKept, Types
<1>5. CASE StoreSalt(m)
  <2>1. /\ phase[m] = "salt" /\ phase' = [phase EXCEPT ![m] = "legacy"]
        /\ salt' = [salt EXCEPT ![m] = IF @ = 0 THEN 1 ELSE @]
        /\ UNCHANGED <<secret, legacy, meta, configs, vault, keys, creating, made, gens,
                       starts, wire>>
    BY <1>5 DEF StoreSalt
  <2>2. DiskTypes
    BY <1>2, <2>1 DEF DiskTypes
  <2>3. KeyTypes /\ phase' \in [Masters -> Phase]
    BY <1>3, <2>1, PhaseStep
  <2>4. QED
    BY <1>1, <2>1, <2>2, <2>3, StartPhases, Types
<1>6. CASE ListLegacy(m)
  <2>1. /\ phase[m] = "legacy" /\ phase' = [phase EXCEPT ![m] = "move"]
        /\ configs' = [configs EXCEPT ![m] = @ \cup {Default}]
        /\ UNCHANGED <<secret, salt, legacy, meta, vault, keys, creating, made, gens,
                       starts, wire>>
    BY <1>6 DEF ListLegacy
  <2>2. DiskTypes
    BY <1>2, <2>1, Constants DEF DiskTypes
  <2>3. KeyTypes /\ phase' \in [Masters -> Phase]
    BY <1>3, <2>1, PhaseStep
  <2>4. QED
    BY <1>1, <2>1, <2>2, <2>3, StartPhases, Types
<1>7. CASE MoveLegacy(m)
  <2>1. /\ phase[m] = "move" /\ phase' = [phase EXCEPT ![m] = "remove"]
        /\ meta' = [meta EXCEPT ![m][Default] = legacy[m]]
        /\ UNCHANGED <<secret, salt, legacy, configs, vault, keys, creating, made, gens,
                       starts, wire>>
    BY <1>7 DEF MoveLegacy
  <2>2. DiskTypes
    BY <1>2, <2>1, Constants DEF DiskTypes
  <2>3. KeyTypes /\ phase' \in [Masters -> Phase]
    BY <1>3, <2>1, PhaseStep
  <2>4. QED
    BY <1>1, <2>1, <2>2, <2>3, StartPhases, Types
<1>8. CASE RemoveLegacy(m)
  <2>1. /\ phase[m] = "remove" /\ phase' = [phase EXCEPT ![m] = "legacy"]
        /\ legacy' = [legacy EXCEPT ![m] = NoBlob]
        /\ UNCHANGED <<secret, salt, meta, configs, vault, keys, creating, made, gens,
                       starts, wire>>
    BY <1>8 DEF RemoveLegacy
  <2>2. DiskTypes
    BY <1>2, <2>1, NoBlobFields DEF DiskTypes
  <2>3. KeyTypes /\ phase' \in [Masters -> Phase]
    BY <1>3, <2>1, PhaseStep
  <2>4. QED
    BY <1>1, <2>1, <2>2, <2>3, StartPhases, Types
<1>9. CASE OpenAll(m)
  <2> DEFINE opened == [c \in Configs |-> IF Opens(m, meta[m][c])
                                         THEN meta[m][c].dek ELSE NoDek]
  <2>1. /\ phase[m] = "legacy" /\ phase' = [phase EXCEPT ![m] = "reseal"]
        /\ keys' = [keys EXCEPT ![m] = opened]
        /\ UNCHANGED <<secret, disk, creating, made, gens, starts, wire>>
    BY <1>9 DEF OpenAll
  <2>2. \A c \in Configs : meta[m][c].dek \in MaybeDek
    BY <1>2 DEF Blob
  <2>3. opened \in [Configs -> MaybeDek]
    BY <2>2 DEF MaybeDek
  <2> HIDE DEF opened
  <2>4. KeyTypes
    BY <1>1, <2>1, <2>3 DEF KeyTypes
  <2>5. phase' \in [Masters -> Phase]
    BY <1>3, <2>1, PhaseStep
  <2>6. QED
    BY <1>1, <2>1, <2>4, <2>5, StartPhases, DiskKept, Types
<1>10. ASSUME NEW c \in Configs, Reencrypt(m, c) PROVE TypeOK'
  <2>1. /\ meta' = [meta EXCEPT ![m][c] = Sealed(m, keys[m][c])]
        /\ UNCHANGED <<secret, phase, salt, legacy, configs, vault, keys, creating, made,
                       gens, starts, wire>>
    BY <1>10 DEF Reencrypt
  <2>2. Sealed(m, keys[m][c]) \in Blob
    BY <1>1, SealedType
  <2>3. DiskTypes
    BY <1>2, <2>1, <2>2 DEF DiskTypes
  <2>4. QED
    BY <1>1, <2>1, <2>3, KeysKept, Types
<1>11. CASE Ready(m) \/ ReencryptFails(m)
  <2>1. /\ phase[m] = "reseal" /\ phase' = [phase EXCEPT ![m] = "up"]
        /\ UNCHANGED <<secret, disk, keys, creating, made, gens, starts, wire>>
    BY <1>11 DEF Ready, ReencryptFails
  <2>2. KeyTypes /\ phase' \in [Masters -> Phase]
    BY <1>3, <2>1, PhaseStep
  <2>3. QED
    BY <1>1, <2>1, <2>2, StartPhases, DiskKept, Types
<1>12. CASE MakeDefault(m)
  <2>1. /\ phase[m] = "reseal" /\ phase' = [phase EXCEPT ![m] = "list"]
        /\ meta' = [meta EXCEPT ![m][Default] = Sealed(m, DefaultDek(m, gens[m] + 1))]
        /\ gens' = [gens EXCEPT ![m] = @ + 1]
        /\ UNCHANGED <<secret, salt, legacy, configs, vault, keys, creating, made, starts,
                       wire>>
    BY <1>12 DEF MakeDefault
  <2>2. gens[m] + 1 \in Nat /\ gens' \in [Masters -> Nat]
    BY <1>1, <2>1
  <2>3. Sealed(m, DefaultDek(m, gens[m] + 1)) \in Blob
    BY <2>2, SealedType, DefaultDekType DEF MaybeDek
  <2>4. DiskTypes
    BY <1>2, <2>1, <2>3, Constants DEF DiskTypes
  <2>5. KeyTypes /\ phase' \in [Masters -> Phase]
    BY <1>3, <2>1, PhaseStep
  <2>6. QED
    BY <1>1, <2>1, <2>2, <2>4, <2>5, StartPhases, Types
<1>13. CASE ListDefault(m)
  <2>1. /\ phase[m] = "list" /\ phase' = [phase EXCEPT ![m] = "up"]
        /\ configs' = [configs EXCEPT ![m] = @ \cup {Default}]
        /\ keys' = [keys EXCEPT ![m][Default] = DefaultDek(m, gens[m])]
        /\ UNCHANGED <<secret, salt, legacy, meta, vault, creating, made, gens, starts,
                       wire>>
    BY <1>13 DEF ListDefault
  <2>2. DiskTypes
    BY <1>2, <2>1, Constants DEF DiskTypes
  <2>3. DefaultDek(m, gens[m]) \in MaybeDek
    BY <1>1, DefaultDekType DEF MaybeDek
  <2>4. KeyTypes
    BY <1>1, <2>1, <2>3, Constants DEF KeyTypes
  <2>5. phase' \in [Masters -> Phase]
    BY <1>3, <2>1, PhaseStep
  <2>6. QED
    BY <1>1, <2>1, <2>2, <2>4, <2>5, StartPhases, Types
<1>14. CASE StartFails(m)
  <2>1. /\ phase[m] # "up" /\ phase' = [phase EXCEPT ![m] = "up"]
        /\ keys' = [keys EXCEPT ![m] = NoKeys]
        /\ UNCHANGED <<secret, disk, creating, made, gens, starts, wire>>
    BY <1>14 DEF StartFails
  <2>2. KeyTypes
    BY <1>1, <2>1, NoKeysType DEF KeyTypes
  <2>3. phase' \in [Masters -> Phase]
    BY <1>1, <1>3, <2>1
  <2>4. QED
    BY <1>1, <2>1, <2>2, <2>3, StartPhases, DiskKept, Types
<1>15. QED
  BY <1>4, <1>5, <1>6, <1>7, <1>8, <1>9, <1>10, <1>11, <1>12, <1>13, <1>14 DEF StartStep

LEMMA KillType ==
  ASSUME TypeOK, NEW m \in Masters, Kill(m), faults' \in 0 .. MaxFaults
  PROVE  TypeOK'
<1>1. /\ phase' = [phase EXCEPT ![m] = "down"]
      /\ keys' = [keys EXCEPT ![m] = NoKeys]
      /\ creating' = {o \in creating : o.at # m}
      /\ wire' \subseteq wire
      /\ UNCHANGED <<secret, disk, made, gens, starts>>
  BY DEF Kill
<1>2. phase' \in [Masters -> Phase]
  BY <1>1 DEF TypeOK, Phase
<1>3. KeyTypes
  BY <1>1, NoKeysType DEF TypeOK, KeyTypes
<1>4. \A o \in creating' : phase'[o.at] = "up"
  BY <1>1 DEF TypeOK, Creation
<1>5. QED
  BY <1>1, <1>2, <1>3, <1>4, DiskKept, Types DEF TypeOK

(* A creation takes its next step.                                          *)
LEMMA AdvanceType ==
  ASSUME TypeOK, NEW o \in creating, NEW n \in Creation, n.at = o.at, Advance(o, n),
         UNCHANGED phase
  PROVE  creating' \subseteq Creation /\ \A q \in creating' : phase'[q.at] = "up"
BY DEF TypeOK, Advance

LEMMA CreationType ==
  ASSUME TypeOK, NEW o \in creating, faults' \in 0 .. MaxFaults,
         \/ StoreSealed(o) \/ ListConfig(o) \/ StoreKeys(o) \/ PutConfig(o)
         \/ CreationFails(o)
  PROVE  TypeOK'
<1>1. /\ secret \in [Masters -> Secrets] /\ phase \in [Masters -> Phase]
      /\ creating \subseteq Creation /\ made \subseteq Named /\ gens \in [Masters -> Nat]
      /\ starts \in 0 .. MaxStarts /\ wire \subseteq Push
      /\ \A q \in creating : phase[q.at] = "up"
      /\ keys \in [Masters -> [Configs -> MaybeDek]]
      /\ \A n \in Masters : phase[n] \in {"down", "salt"} => keys[n] = NoKeys
  BY DEF TypeOK
<1>2. /\ salt \in [Masters -> Nat] /\ legacy \in [Masters -> Blob]
      /\ meta \in [Masters -> [Configs -> Blob]]
      /\ configs \in [Masters -> SUBSET Configs]
      /\ vault \in [Masters -> [Configs -> MaybeDek]]
  BY DEF TypeOK
<1>3. /\ o \in Creation /\ o.at \in Masters /\ o.config \in Named /\ o.config \in Configs
      /\ o.keys \in [Configs -> MaybeDek]
  BY <1>1, CreationFields
<1>4. CASE StoreSealed(o)
  <2>1. /\ meta' = [meta EXCEPT ![o.at][o.config] = Sealed(o.at, NamedDek(o))]
        /\ Advance(o, [o EXCEPT !.step = "sealed", !.keys = WithDek(o)])
        /\ UNCHANGED <<secret, phase, salt, legacy, configs, vault, keys, made, gens,
                       starts, wire>>
    BY <1>4 DEF StoreSealed
  <2>2. Sealed(o.at, NamedDek(o)) \in Blob
    BY <1>3, NamedDekType, SealedType DEF MaybeDek
  <2>3. DiskTypes
    BY <1>2, <1>3, <2>1, <2>2 DEF DiskTypes
  <2>4. creating' \subseteq Creation /\ \A q \in creating' : phase'[q.at] = "up"
    BY <1>3, <2>1, SealedCreation, AdvanceType
  <2>5. QED
    BY <1>1, <2>1, <2>3, <2>4, KeysKept, Types
<1>5. CASE ListConfig(o)
  <2>1. /\ configs' = [configs EXCEPT ![o.at] = @ \cup {o.config}]
        /\ Advance(o, [o EXCEPT !.step = "listed"])
        /\ UNCHANGED <<secret, phase, salt, legacy, meta, vault, keys, made, gens, starts,
                       wire>>
    BY <1>5 DEF ListConfig
  <2>2. DiskTypes
    BY <1>2, <1>3, <2>1 DEF DiskTypes
  <2>3. creating' \subseteq Creation /\ \A q \in creating' : phase'[q.at] = "up"
    BY <1>3, <2>1, NextCreation, AdvanceType
  <2>4. QED
    BY <1>1, <2>1, <2>2, <2>3, KeysKept, Types
<1>6. CASE StoreKeys(o)
  <2>1. /\ keys' = [keys EXCEPT ![o.at] = o.keys]
        /\ Advance(o, [o EXCEPT !.step = "stored"])
        /\ UNCHANGED <<secret, phase, disk, made, gens, starts, wire>>
    BY <1>6 DEF StoreKeys
  <2>2. KeyTypes
    BY <1>1, <1>3, <2>1 DEF KeyTypes
  <2>3. creating' \subseteq Creation /\ \A q \in creating' : phase'[q.at] = "up"
    BY <1>3, <2>1, NextCreation, AdvanceType
  <2>4. QED
    BY <1>1, <2>1, <2>2, <2>3, DiskKept, Types
<1>7. CASE PutConfig(o)
  <2>1. /\ configs' = [configs EXCEPT ![o.at] = @ \cup {o.config}]
        /\ creating' = creating \ {o}
        /\ Broadcast(o.at, "vault_configs", o.config, NoDek)
        /\ UNCHANGED <<secret, phase, salt, legacy, meta, vault, keys, made, gens, starts>>
    BY <1>7 DEF PutConfig
  <2>2. DiskTypes
    BY <1>2, <1>3, <2>1 DEF DiskTypes
  <2>3. wire' \subseteq Push
    BY <1>3, <2>1, BroadcastType DEF MaybeDek
  <2>4. QED
    BY <1>1, <2>1, <2>2, <2>3, KeysKept, Types
<1>8. CASE CreationFails(o)
  <2>1. /\ creating' \subseteq creating
        /\ UNCHANGED <<secret, phase, disk, keys, made, gens, starts, wire>>
    BY <1>8 DEF CreationFails
  <2>2. QED
    BY <1>1, <2>1, DiskKept, KeysKept, Types
<1>9. QED
  BY <1>4, <1>5, <1>6, <1>7, <1>8

LEMMA RequestType ==
  ASSUME TypeOK, faults' \in 0 .. MaxFaults,
         \/ \E m \in Masters, c \in Named : CopyKeys(m, c)
         \/ \E m \in Masters, c \in Configs : SetSecret(m, c) \/ DeleteSecret(m, c)
         \/ \E p \in wire : Deliver(p) \/ Lose(p)
  PROVE  TypeOK'
<1>1. /\ secret \in [Masters -> Secrets] /\ phase \in [Masters -> Phase]
      /\ creating \subseteq Creation /\ made \subseteq Named /\ gens \in [Masters -> Nat]
      /\ starts \in 0 .. MaxStarts /\ wire \subseteq Push
      /\ \A q \in creating : phase[q.at] = "up"
      /\ keys \in [Masters -> [Configs -> MaybeDek]]
  BY DEF TypeOK
<1>2. /\ salt \in [Masters -> Nat] /\ legacy \in [Masters -> Blob]
      /\ meta \in [Masters -> [Configs -> Blob]]
      /\ configs \in [Masters -> SUBSET Configs]
      /\ vault \in [Masters -> [Configs -> MaybeDek]]
  BY DEF TypeOK
<1>3. ASSUME NEW m \in Masters, NEW c \in Named, CopyKeys(m, c) PROVE TypeOK'
  <2> DEFINE n == [at |-> m, config |-> c, keys |-> keys[m], step |-> "copied"]
  <2>1. /\ phase[m] = "up" /\ made' = made \cup {c}
        /\ creating' = creating \cup {n}
        /\ UNCHANGED <<secret, phase, disk, keys, gens, starts, wire>>
    BY <1>3 DEF CopyKeys
  <2>2. n \in Creation /\ n.at = m
    BY <1>1 DEF Creation
  <2> HIDE DEF n
  <2>3. creating' \subseteq Creation /\ \A q \in creating' : phase'[q.at] = "up"
    BY <1>1, <2>1, <2>2
  <2>4. QED
    BY <1>1, <2>1, <2>3, DiskKept, KeysKept, Types
<1>4. ASSUME NEW m \in Masters, NEW c \in Configs, SetSecret(m, c) PROVE TypeOK'
  <2>1. /\ vault' = [vault EXCEPT ![m][c] = keys[m][c]]
        /\ Broadcast(m, "vault", c, keys[m][c])
        /\ UNCHANGED <<secret, phase, salt, legacy, meta, configs, keys, creating, made,
                       gens, starts>>
    BY <1>4 DEF SetSecret
  <2>2. DiskTypes
    BY <1>1, <1>2, <2>1 DEF DiskTypes
  <2>3. wire' \subseteq Push
    BY <1>1, <2>1, BroadcastType
  <2>4. QED
    BY <1>1, <2>1, <2>2, <2>3, KeysKept, Types
<1>5. ASSUME NEW m \in Masters, NEW c \in Configs, DeleteSecret(m, c) PROVE TypeOK'
  <2>1. /\ vault' = [vault EXCEPT ![m][c] = NoDek]
        /\ Broadcast(m, "vault", c, NoDek)
        /\ UNCHANGED <<secret, phase, salt, legacy, meta, configs, keys, creating, made,
                       gens, starts>>
    BY <1>5 DEF DeleteSecret
  <2>2. DiskTypes
    BY <1>2, <2>1 DEF DiskTypes, MaybeDek
  <2>3. wire' \subseteq Push
    BY <2>1, BroadcastType DEF MaybeDek
  <2>4. QED
    BY <1>1, <2>1, <2>2, <2>3, KeysKept, Types
<1>6. ASSUME NEW p \in wire, Deliver(p) PROVE TypeOK'
  <2>1. p.to \in Masters /\ p.config \in Configs /\ p.dek \in MaybeDek
    BY <1>1 DEF Push
  <2>2. /\ wire' \subseteq wire
        /\ UNCHANGED <<secret, phase, salt, legacy, meta, keys, creating, made, gens, starts>>
    BY <1>6 DEF Deliver
  <2>3. \/ vault' = [vault EXCEPT ![p.to][p.config] = p.dek]
        \/ vault' = vault
    BY <1>6 DEF Deliver
  <2>4. \/ configs' = [configs EXCEPT ![p.to] = @ \cup {p.config}]
        \/ configs' = configs
    BY <1>6 DEF Deliver
  <2>5. vault' \in [Masters -> [Configs -> MaybeDek]]
    <3> DEFINE m == p.to
               c == p.config
               d == p.dek
    <3>1. m \in Masters /\ c \in Configs /\ d \in MaybeDek
      BY <2>1
    <3>2. vault' = [vault EXCEPT ![m][c] = d] \/ vault' = vault
      BY <2>3
    <3> HIDE DEF m, c, d
    <3>3. CASE vault' = [vault EXCEPT ![m][c] = d]
      BY <1>2, <3>1, <3>3
    <3>4. CASE vault' = vault
      BY <1>2, <3>4
    <3>5. QED
      BY <3>2, <3>3, <3>4
  <2>6. configs' \in [Masters -> SUBSET Configs]
    BY <1>2, <2>1, <2>4
  <2>7. DiskTypes
    BY <1>2, <2>2, <2>5, <2>6 DEF DiskTypes
  <2>8. QED
    BY <1>1, <2>2, <2>7, KeysKept, Types
<1>7. ASSUME NEW p \in wire, Lose(p) PROVE TypeOK'
  BY <1>1, <1>7, DiskKept, KeysKept, Types DEF Lose
<1>8. QED
  BY <1>3, <1>4, <1>5, <1>6, <1>7

(* The state of Vault has its types in every behaviour of the program.      *)
THEOREM TypeCorrect == Spec => []TypeOK
<1>1. TypeOK /\ [Next]_vars => TypeOK'
  <2> SUFFICES ASSUME TypeOK, [Next]_vars PROVE TypeOK'
    OBVIOUS
  <2>1. CASE UNCHANGED vars
    BY <2>1 DEF vars, disk, TypeOK
  <2>2. CASE Next
    <3>1. faults' \in 0 .. MaxFaults
      BY <2>2, FaultAssumption DEF TypeOK, Next, Fault
    <3>2. CASE VaultStep
      BY <3>1, <3>2, StartType, KillType, CreationType, RequestType DEF VaultStep
    <3>3. CASE VaultFault
      BY <3>1, <3>3, StartType, CreationType DEF VaultFault
    <3>4. QED
      BY <2>2, <3>2, <3>3 DEF Next
  <2>3. QED
    BY <2>1, <2>2
<1>2. QED
  BY InitType, <1>1, PTL DEF Spec

-----------------------------------------------------------------------------
(* A DEK in use stays one that its master can open.                         *)
BlobsKept ==
    \A n \in Masters, c \in Configs :
        \/ Effective(n, c)'.dek = Effective(n, c).dek
        \/ Effective(n, c).dek = NoDek
        \/ c = Default /\ n \in Rotating
        \/ c \in Named /\ Effective(n, c)'.dek = [at |-> n, config |-> c, gen |-> 1]

LEMMA SoundKept ==
  ASSUME BlobsOwn', BlobsKept, NEW d \in MaybeDek, NEW c \in Configs, Sound(d, c)
  PROVE  Sound(d, c)'
<1> SUFFICES ASSUME d # NoDek PROVE Recoverable(d, c)'
  BY DEF Sound
<1>1. d \in Dek /\ d.at \in Masters /\ d.config = c /\ (c \in Named => d.gen = 1)
  BY DEF Sound, MaybeDek, Dek
<1>2. d = [at |-> d.at, config |-> d.config, gen |-> d.gen]
  BY <1>1 DEF Dek
<1>3. Recoverable(d, c)
  BY DEF Sound
<1>4. CASE Effective(d.at, c)'.dek = d
  <2>1. Effective(d.at, c)'.salt \in {0, salt'[d.at]}
    <3> DEFINE n == d.at
    <3>1. n \in Masters
      BY <1>1
    <3> HIDE DEF n
    <3>2. (Effective(n, c).dek # NoDek => Effective(n, c).salt \in {0, salt[n]})'
      BY <3>1, OldBlobType DEF BlobsOwn, BlobsOf, Effective
    <3>3. QED
      BY <1>4, <3>2 DEF n
  <2>2. QED
    BY <1>4, <2>1 DEF Recoverable
<1>5. CASE c = Default /\ d.at \in Rotating
  BY <1>5 DEF Recoverable
<1>6. QED
  BY <1>1, <1>2, <1>3, <1>4, <1>5 DEF BlobsKept, Recoverable

Carriers == VaultSound /\ KeysSound /\ CopiesSound /\ WireSound

LEMMA SameVault ==
  ASSUME TypeOK, DekInv, BlobsOwn', BlobsKept, UNCHANGED vault
  PROVE  VaultSound'
<1> SUFFICES ASSUME NEW m \in Masters, NEW c \in Configs PROVE Sound(vault[m][c], c)'
  BY DEF VaultSound
<1>1. PICK d \in MaybeDek : d = vault[m][c]
  BY DEF TypeOK
<1>2. Sound(d, c)
  BY <1>1 DEF DekInv, VaultSound
<1>3. Sound(d, c)'
  BY <1>2, SoundKept
<1>4. QED
  BY <1>1, <1>3 DEF Sound, Recoverable, Effective

LEMMA SameKeys ==
  ASSUME TypeOK, DekInv, BlobsOwn', BlobsKept, NEW m \in Masters, NEW c \in Configs,
         keys'[m][c] = keys[m][c]
  PROVE  Sound(keys[m][c], c)'
<1>1. PICK d \in MaybeDek : d = keys[m][c]
  BY DEF TypeOK
<1>2. Sound(d, c)
  BY <1>1 DEF DekInv, KeysSound
<1>3. Sound(d, c)'
  BY <1>2, SoundKept
<1>4. QED
  BY <1>1, <1>3 DEF Sound, Recoverable, Effective

LEMMA SameCopies ==
  ASSUME TypeOK, DekInv, BlobsOwn', BlobsKept, creating' \subseteq creating
  PROVE  CopiesSound'
<1> SUFFICES ASSUME NEW o \in creating', NEW c \in Configs PROVE Sound(o.keys[c], c)'
  BY DEF CopiesSound
<1>1. o \in creating /\ o.keys[c] \in MaybeDek
  BY CreationFields DEF TypeOK
<1>2. Sound(o.keys[c], c)
  BY <1>1 DEF DekInv, CopiesSound
<1>3. QED
  BY <1>1, <1>2, SoundKept

LEMMA SameWire ==
  ASSUME TypeOK, DekInv, BlobsOwn', BlobsKept, wire' \subseteq wire
  PROVE  WireSound'
<1> SUFFICES ASSUME NEW p \in wire' PROVE Sound(p.dek, p.config)'
  BY DEF WireSound
<1>1. p \in wire /\ p.dek \in MaybeDek /\ p.config \in Configs
  BY DEF TypeOK, Push
<1>2. Sound(p.dek, p.config)
  BY <1>1 DEF DekInv, WireSound
<1>3. QED
  BY <1>1, <1>2, SoundKept

(* A step of one master leaves the blobs and phases of the others.          *)
Alone(m) ==
    /\ \A n \in Masters \ {m} :
          /\ secret'[n] = secret[n] /\ phase'[n] = phase[n] /\ salt'[n] = salt[n]
          /\ legacy'[n] = legacy[n] /\ meta'[n] = meta[n] /\ gens'[n] = gens[n]
          /\ keys'[n] = keys[n]

LEMMA OthersKept ==
  ASSUME TypeOK, DekInv, NEW m \in Masters, Alone(m)
  PROVE  \A n \in Masters \ {m} : /\ BlobsOf(n)' /\ PhaseOf(n)'
                                 /\ \A c \in Configs : Effective(n, c)' = Effective(n, c)
<1> SUFFICES ASSUME NEW n \in Masters \ {m}
             PROVE  /\ BlobsOf(n)' /\ PhaseOf(n)'
                    /\ \A c \in Configs : Effective(n, c)' = Effective(n, c)
  OBVIOUS
<1>1. /\ secret'[n] = secret[n] /\ phase'[n] = phase[n] /\ salt'[n] = salt[n]
      /\ legacy'[n] = legacy[n] /\ meta'[n] = meta[n] /\ gens'[n] = gens[n]
      /\ keys'[n] = keys[n]
  BY DEF Alone
<1>2. BlobsOf(n)'
  BY <1>1 DEF DekInv, BlobsOwn, BlobsOf
<1>3. \A c \in Configs : Opened(n, c)' <=> Opened(n, c)
  BY <1>1 DEF Opened, Opens
<1>4. PhaseOf(n)'
  BY <1>1, <1>3, Constants DEF DekInv, PhaseInv, PhaseOf
<1>5. QED
  BY <1>1, <1>2, <1>4 DEF Effective

(* What is left to show of a step of a start.                               *)
LEMMA StartFrame ==
  ASSUME TypeOK, DekInv, NEW m \in Masters, Alone(m),
         UNCHANGED <<vault, creating, wire>>,
         m \notin Rotating => secret'[m] = FirstSecret,
         BlobsOf(m)', PhaseOf(m)',
         \A c \in Configs :
            \/ Effective(m, c)'.dek = Effective(m, c).dek
            \/ Effective(m, c).dek = NoDek
            \/ c = Default /\ m \in Rotating,
         \A c \in Configs : keys'[m][c] = keys[m][c] \/ Sound(keys[m][c], c)'
  PROVE  DekInv'
<1>1. BlobsOwn' /\ PhaseInv'
  BY OthersKept DEF BlobsOwn, PhaseInv
<1>2. BlobsKept
  BY OthersKept DEF BlobsKept
<1>3. VaultSound' /\ CopiesSound' /\ WireSound'
  BY <1>1, <1>2, SameVault, SameCopies, SameWire
<1>4. KeysSound'
  <2> SUFFICES ASSUME NEW n \in Masters, NEW c \in Configs PROVE Sound(keys[n][c], c)'
    BY DEF KeysSound
  <2>1. CASE keys'[n][c] = keys[n][c]
    BY <1>1, <1>2, <2>1, SameKeys
  <2>2. CASE n = m /\ keys'[n][c] # keys[n][c]
    BY <2>2 DEF Sound, Recoverable, Effective
  <2>3. QED
    BY <2>1, <2>2 DEF Alone
<1>5. SecretKept'
  BY DEF DekInv, SecretKept, Alone
<1>6. QED
  BY <1>1, <1>3, <1>4, <1>5 DEF DekInv

(* What DekInv says of a master.                                            *)
LEMMA OfMaster ==
  ASSUME TypeOK, DekInv, NEW m \in Masters
  PROVE  /\ BlobsOf(m) /\ PhaseOf(m)
         /\ m \notin Rotating => secret[m] = FirstSecret
BY DEF DekInv, BlobsOwn, PhaseInv, SecretKept

LEMMA BeginDeks ==
  ASSUME TypeOK, DekInv, NEW m \in Masters,
         \/ \E s \in Secrets : Start(m, s)
         \/ StoreSalt(m) \/ ListLegacy(m) \/ Ready(m) \/ ReencryptFails(m)
  PROVE  DekInv'
<1>1. /\ UNCHANGED <<vault, creating, wire, keys, legacy, meta, gens>>
      /\ \A n \in Masters \ {m} :
            secret'[n] = secret[n] /\ phase'[n] = phase[n] /\ salt'[n] = salt[n]
      /\ salt[m] # 0 => salt'[m] = salt[m]
      /\ m \notin Rotating => secret'[m] = secret[m]
      /\ phase'[m] \in {"salt", "legacy", "move", "up"}
      /\ phase'[m] = "move" => legacy[m] # NoBlob
  BY DEF TypeOK, Start, StoreSalt, ListLegacy, Ready, ReencryptFails, disk
<1>2. Alone(m)
  BY <1>1 DEF Alone
<1>3. BlobsOf(m)'
  BY <1>1, OfMaster DEF BlobsOf
<1>4. PhaseOf(m)'
  BY <1>1, OfMaster DEF PhaseOf
<1>5. \A c \in Configs : Effective(m, c)' = Effective(m, c)
  BY <1>1 DEF Effective
<1>6. QED
  BY <1>1, <1>2, <1>3, <1>4, <1>5, OfMaster, StartFrame

LEMMA StartFailsDeks ==
  ASSUME TypeOK, DekInv, NEW m \in Masters, StartFails(m)
  PROVE  DekInv'
<1>1. /\ phase'[m] = "up" /\ keys'[m] = NoKeys
      /\ UNCHANGED <<secret, salt, legacy, meta, vault, creating, gens, wire>>
      /\ \A n \in Masters \ {m} : phase'[n] = phase[n] /\ keys'[n] = keys[n]
  BY DEF TypeOK, StartFails, disk
<1>2. Alone(m)
  BY <1>1 DEF Alone
<1>3. BlobsOf(m)'
  BY <1>1, OfMaster DEF BlobsOf
<1>4. PhaseOf(m)'
  BY <1>1 DEF PhaseOf
<1>5. \A c \in Configs : Effective(m, c)' = Effective(m, c)
  BY <1>1 DEF Effective
<1>6. \A c \in Configs : Sound(keys[m][c], c)'
  BY <1>1, NoKeysType DEF Sound
<1>7. QED
  BY <1>1, <1>2, <1>3, <1>4, <1>5, <1>6, OfMaster, StartFrame

LEMMA MoveLegacyDeks ==
  ASSUME TypeOK, DekInv, NEW m \in Masters, MoveLegacy(m)
  PROVE  DekInv'
<1>1. /\ phase[m] = "move" /\ phase'[m] = "remove"
      /\ meta'[m][Default] = legacy[m]
      /\ \A c \in Configs : c # Default => meta'[m][c] = meta[m][c]
      /\ UNCHANGED <<secret, salt, legacy, vault, keys, creating, gens, wire>>
      /\ \A n \in Masters \ {m} : phase'[n] = phase[n] /\ meta'[n] = meta[n]
  BY Constants DEF TypeOK, MoveLegacy
<1>2. Alone(m)
  BY <1>1 DEF Alone
<1>3. legacy[m] = OldBlob(m)
  BY <1>1, OfMaster DEF BlobsOf, PhaseOf
<1>4. BlobsOf(m)'
  BY <1>1, <1>3, OfMaster, OldBlobType, DefaultDekType, Constants DEF BlobsOf
<1>5. PhaseOf(m)'
  BY <1>1, <1>3, OldBlobType DEF PhaseOf
<1>6. \A c \in Configs : Effective(m, c)' = Effective(m, c)
  BY <1>1, <1>3, OldBlobType DEF Effective
<1>7. QED
  BY <1>1, <1>2, <1>4, <1>5, <1>6, OfMaster, StartFrame

LEMMA RemoveLegacyDeks ==
  ASSUME TypeOK, DekInv, NEW m \in Masters, RemoveLegacy(m)
  PROVE  DekInv'
<1>1. /\ phase[m] = "remove" /\ phase'[m] = "legacy" /\ legacy'[m] = NoBlob
      /\ UNCHANGED <<secret, salt, meta, vault, keys, creating, gens, wire>>
      /\ \A n \in Masters \ {m} : phase'[n] = phase[n] /\ legacy'[n] = legacy[n]
  BY DEF TypeOK, RemoveLegacy
<1>2. Alone(m)
  BY <1>1 DEF Alone
<1>3. legacy[m] # NoBlob /\ meta[m][Default] = legacy[m]
  BY <1>1, OfMaster DEF PhaseOf
<1>4. BlobsOf(m)'
  BY <1>1, OfMaster DEF BlobsOf
<1>5. PhaseOf(m)'
  BY <1>1 DEF PhaseOf
<1>6. \A c \in Configs : Effective(m, c)' = Effective(m, c)
  BY <1>1, <1>3 DEF Effective
<1>7. QED
  BY <1>1, <1>2, <1>4, <1>5, <1>6, OfMaster, StartFrame

LEMMA OpenAllDeks ==
  ASSUME TypeOK, DekInv, NEW m \in Masters, OpenAll(m)
  PROVE  DekInv'
<1>1. /\ phase'[m] = "reseal" /\ legacy[m] = NoBlob
      /\ \A c \in Configs :
            keys'[m][c] = IF Opens(m, meta[m][c]) THEN meta[m][c].dek ELSE NoDek
      /\ UNCHANGED <<secret, salt, legacy, meta, vault, creating, gens, wire>>
      /\ \A n \in Masters \ {m} : phase'[n] = phase[n] /\ keys'[n] = keys[n]
  BY DEF TypeOK, OpenAll, disk
<1>2. Alone(m)
  BY <1>1 DEF Alone
<1>3. BlobsOf(m)'
  BY <1>1, OfMaster DEF BlobsOf
<1>4. \A c \in Configs : Opened(m, c)'
  BY <1>1 DEF Opened, Opens
<1>5. PhaseOf(m)'
  BY <1>1, <1>4 DEF PhaseOf
<1>6. \A c \in Configs : Effective(m, c)' = Effective(m, c) /\ Effective(m, c) = meta[m][c]
  BY <1>1 DEF Effective
<1>7. ASSUME NEW c \in Configs PROVE Sound(keys[m][c], c)'
  <2>1. CASE keys'[m][c] = NoDek
    BY <2>1 DEF Sound
  <2>2. CASE keys'[m][c] # NoDek
    <3>1. keys'[m][c] = meta[m][c].dek /\ meta[m][c].dek # NoDek
      BY <1>1, <2>2
    <3>2. /\ meta[m][c].dek.at = m /\ meta[m][c].dek.config = c
          /\ c \in Named => meta[m][c].dek.gen = 1
          /\ meta[m][c].salt \in {0, salt[m]}
      BY <3>1, OfMaster DEF BlobsOf
    <3>3. QED
      BY <1>1, <3>1, <3>2 DEF Sound, Recoverable, Effective
  <2>3. QED
    BY <2>1, <2>2
<1>8. QED
  BY <1>1, <1>2, <1>3, <1>5, <1>6, <1>7, OfMaster, StartFrame

LEMMA ReencryptDeks ==
  ASSUME TypeOK, DekInv, NEW m \in Masters, NEW c \in Configs, Reencrypt(m, c)
  PROVE  DekInv'
<1> DEFINE k == keys[m][c]
           b == Sealed(m, k)
<1>1. /\ phase[m] = "reseal" /\ k # NoDek
      /\ meta'[m][c] = b
      /\ \A e \in Configs : e # c => meta'[m][e] = meta[m][e]
      /\ UNCHANGED <<secret, phase, salt, legacy, vault, keys, creating, gens, wire>>
      /\ \A n \in Masters \ {m} : meta'[n] = meta[n]
  BY DEF TypeOK, Reencrypt, ToReencrypt
<1>2. Alone(m)
  BY <1>1 DEF Alone
<1>3. b.dek = k /\ b.salt = salt[m] /\ b.secret = secret[m]
  BY SealedType DEF TypeOK
<1>4. legacy[m] = NoBlob /\ \A e \in Configs : Opened(m, e)
  BY <1>1, OfMaster DEF PhaseOf
<1>5. meta[m][c].dek = k
  BY <1>1, <1>4 DEF Opened
<1> HIDE DEF b, k
<1>6. BlobsOf(m)'
  BY <1>1, <1>3, <1>5, OfMaster DEF BlobsOf
<1>7. \A e \in Configs : Opened(m, e)'
  <2> SUFFICES ASSUME NEW e \in Configs PROVE Opened(m, e)'
    OBVIOUS
  <2>1. CASE e = c
    BY <1>1, <1>3, <2>1 DEF Opened, Opens, k
  <2>2. CASE e # c
    BY <1>1, <1>4, <2>2 DEF Opened, Opens
  <2>3. QED
    BY <2>1, <2>2
<1>8. PhaseOf(m)'
  BY <1>1, <1>4, <1>7 DEF PhaseOf
<1>9. \A e \in Configs : Effective(m, e)'.dek = Effective(m, e).dek
  BY <1>1, <1>3, <1>4, <1>5 DEF Effective
<1>10. QED
  BY <1>1, <1>2, <1>6, <1>8, <1>9, OfMaster, StartFrame

LEMMA MakeDefaultDeks ==
  ASSUME TypeOK, DekInv, NEW m \in Masters, MakeDefault(m)
  PROVE  DekInv'
<1> DEFINE d == DefaultDek(m, gens[m] + 1)
           b == Sealed(m, d)
<1>1. /\ phase[m] = "reseal" /\ phase'[m] = "list" /\ keys[m] = NoKeys
      /\ meta'[m][Default] = b
      /\ \A c \in Configs : c # Default => meta'[m][c] = meta[m][c]
      /\ gens'[m] = gens[m] + 1
      /\ UNCHANGED <<secret, salt, legacy, vault, keys, creating, wire>>
      /\ \A n \in Masters \ {m} :
            phase'[n] = phase[n] /\ meta'[n] = meta[n] /\ gens'[n] = gens[n]
  BY Constants DEF TypeOK, MakeDefault
<1>2. Alone(m)
  BY <1>1 DEF Alone
<1>3. d \in MaybeDek /\ d # NoDek /\ d.at = m /\ d.config = Default
  <2>1. gens[m] + 1 \in Nat
    BY DEF TypeOK
  <2>2. QED
    BY <2>1, DefaultDekType DEF MaybeDek
<1>4. b.dek = d /\ b.salt = salt[m] /\ b.secret = secret[m]
  BY <1>3, SealedType
<1>5. legacy[m] = NoBlob /\ \A c \in Configs : Opened(m, c)
  BY <1>1, OfMaster DEF PhaseOf
<1>6. \A c \in Configs : ~Opens(m, meta[m][c])
  BY <1>1, <1>5, NoKeysType DEF Opened, Opens
<1>7. DefaultDek(m, gens[m])' = d
  BY <1>1 DEF DefaultDek
<1> HIDE DEF b, d
<1>8. BlobsOf(m)'
  BY <1>1, <1>3, <1>4, OfMaster, Constants DEF BlobsOf
<1>9. \A c \in Named : Opened(m, c)'
  BY <1>1, <1>5, Constants DEF Opened, Opens
<1>10. PhaseOf(m)'
  BY <1>1, <1>4, <1>5, <1>7, <1>9 DEF PhaseOf
<1>11. m \notin Rotating => meta[m][Default].dek = NoDek
  BY <1>6, OfMaster, Constants DEF BlobsOf, Opens
<1>12. \A c \in Configs :
          \/ Effective(m, c)'.dek = Effective(m, c).dek
          \/ Effective(m, c).dek = NoDek
          \/ c = Default /\ m \in Rotating
  BY <1>1, <1>5, <1>11 DEF Effective
<1>13. QED
  BY <1>1, <1>2, <1>8, <1>10, <1>12, OfMaster, StartFrame

LEMMA ListDefaultDeks ==
  ASSUME TypeOK, DekInv, NEW m \in Masters, ListDefault(m)
  PROVE  DekInv'
<1> DEFINE d == DefaultDek(m, gens[m])
<1>1. /\ phase[m] = "list" /\ phase'[m] = "up"
      /\ keys'[m][Default] = d
      /\ \A c \in Configs : c # Default => keys'[m][c] = keys[m][c]
      /\ UNCHANGED <<secret, salt, legacy, meta, vault, creating, gens, wire>>
      /\ \A n \in Masters \ {m} : phase'[n] = phase[n] /\ keys'[n] = keys[n]
  BY Constants DEF TypeOK, ListDefault
<1>2. Alone(m)
  BY <1>1 DEF Alone
<1>3. d # NoDek /\ d.at = m /\ d.config = Default
  BY DefaultDekType DEF TypeOK
<1>4. legacy[m] = NoBlob /\ meta[m][Default].dek = d
  BY <1>1, OfMaster DEF PhaseOf
<1> HIDE DEF d
<1>5. meta[m][Default].salt \in {0, salt[m]}
  BY <1>3, <1>4, OfMaster, Constants DEF BlobsOf
<1>6. BlobsOf(m)'
  BY <1>1, OfMaster DEF BlobsOf
<1>7. PhaseOf(m)'
  BY <1>1, <1>4 DEF PhaseOf
<1>8. \A c \in Configs : Effective(m, c)' = Effective(m, c)
  BY <1>1 DEF Effective
<1>9. Sound(keys[m][Default], Default)'
  BY <1>1, <1>3, <1>4, <1>5, Constants DEF Sound, Recoverable, Effective
<1>10. \A c \in Configs : keys'[m][c] = keys[m][c] \/ Sound(keys[m][c], c)'
  BY <1>1, <1>9
<1>11. QED
  BY <1>1, <1>2, <1>6, <1>7, <1>8, <1>10, OfMaster, StartFrame

(* What runs on a master that is up, and a kill, leave the blobs.           *)
LEMMA RunFrame ==
  ASSUME TypeOK, DekInv, UNCHANGED <<secret, salt, legacy, meta, gens>>,
         \A n \in Masters :
            \/ phase'[n] = "down"
            \/ phase'[n] = phase[n] /\ (phase[n] = "up" \/ keys'[n] = keys[n])
  PROVE  BlobsOwn' /\ SecretKept' /\ PhaseInv' /\ BlobsKept
<1>1. BlobsOwn' /\ SecretKept'
  BY DEF DekInv, BlobsOwn, BlobsOf, SecretKept
<1>2. PhaseInv'
  <2> SUFFICES ASSUME NEW n \in Masters PROVE PhaseOf(n)'
    BY DEF PhaseInv
  <2>1. CASE phase'[n] = "down"
    BY <2>1 DEF PhaseOf
  <2>2. CASE phase'[n] = phase[n] /\ phase[n] = "up"
    BY <2>2, OfMaster DEF PhaseOf
  <2>3. CASE phase'[n] = phase[n] /\ keys'[n] = keys[n]
    <3>1. \A c \in Configs : Opened(n, c)' <=> Opened(n, c)
      BY <2>3 DEF Opened, Opens
    <3>2. QED
      BY <2>3, <3>1, OfMaster, Constants DEF PhaseOf
  <2>4. QED
    BY <2>1, <2>2, <2>3
<1>3. BlobsKept
  BY DEF BlobsKept, Effective
<1>4. QED
  BY <1>1, <1>2, <1>3

LEMMA UnchangedSound ==
  ASSUME UNCHANGED <<salt, legacy, meta>>, NEW d, NEW c, Sound(d, c)
  PROVE  Sound(d, c)'
BY DEF Sound, Recoverable, Effective

LEMMA KillDeks ==
  ASSUME TypeOK, DekInv, NEW m \in Masters, Kill(m)
  PROVE  DekInv'
<1>1. /\ phase'[m] = "down" /\ keys'[m] = NoKeys
      /\ \A n \in Masters \ {m} : phase'[n] = phase[n] /\ keys'[n] = keys[n]
      /\ creating' \subseteq creating /\ wire' \subseteq wire
      /\ UNCHANGED <<secret, salt, legacy, meta, vault, gens>>
  BY DEF TypeOK, Kill, disk
<1>2. BlobsOwn' /\ SecretKept' /\ PhaseInv' /\ BlobsKept
  BY <1>1, RunFrame
<1>3. KeysSound'
  <2> SUFFICES ASSUME NEW n \in Masters, NEW c \in Configs PROVE Sound(keys[n][c], c)'
    BY DEF KeysSound
  <2>1. CASE n = m
    BY <1>1, <2>1, NoKeysType DEF Sound
  <2>2. CASE n # m
    BY <1>1, <1>2, <2>2, SameKeys
  <2>3. QED
    BY <2>1, <2>2
<1>4. QED
  BY <1>1, <1>2, <1>3, SameVault, SameCopies, SameWire DEF DekInv

LEMMA AllKeysKept ==
  ASSUME TypeOK, DekInv, BlobsOwn', BlobsKept, UNCHANGED keys
  PROVE  KeysSound'
BY SameKeys DEF KeysSound

(* What a creation has copied, when one is added or moves on.               *)
LEMMA NewCopy ==
  ASSUME TypeOK, DekInv, BlobsOwn', BlobsKept, NEW q,
         creating' \subseteq creating \cup {q},
         \A c \in Configs : Sound(q.keys[c], c)'
  PROVE  CopiesSound'
<1> SUFFICES ASSUME NEW o \in creating', NEW c \in Configs PROVE Sound(o.keys[c], c)'
  BY DEF CopiesSound
<1>1. CASE o = q
  BY <1>1
<1>2. CASE o \in creating
  <2>1. o.keys[c] \in MaybeDek
    BY <1>2, CreationFields DEF TypeOK
  <2>2. Sound(o.keys[c], c)
    BY <1>2 DEF DekInv, CopiesSound
  <2>3. QED
    BY <2>1, <2>2, SoundKept
<1>3. QED
  BY <1>1, <1>2

LEMMA CopyKeysDeks ==
  ASSUME TypeOK, DekInv, NEW m \in Masters, NEW e \in Named, CopyKeys(m, e)
  PROVE  DekInv'
<1>0. PICK q : q = [at |-> m, config |-> e, keys |-> keys[m], step |-> "copied"]
  OBVIOUS
<1>1. /\ creating' = creating \cup {q}
      /\ UNCHANGED <<secret, phase, salt, legacy, meta, vault, keys, gens, wire>>
  BY <1>0 DEF CopyKeys, disk
<1>2. BlobsOwn' /\ SecretKept' /\ PhaseInv' /\ BlobsKept
  BY <1>1, RunFrame
<1>3. q.keys = keys[m]
  BY <1>0
<1>4. \A c \in Configs : Sound(keys[m][c], c)
  BY DEF DekInv, KeysSound
<1>5. ASSUME NEW c \in Configs PROVE Sound(q.keys[c], c)'
  <2>1. Sound(q.keys[c], c)
    BY <1>3, <1>4
  <2>2. QED
    BY <1>1, <2>1 DEF Sound, Recoverable, Effective
<1>6. CopiesSound'
  BY <1>1, <1>2, <1>5, NewCopy
<1>7. QED
  BY <1>1, <1>2, <1>6, SameVault, AllKeysKept, SameWire DEF DekInv

LEMMA StoreSealedDeks ==
  ASSUME TypeOK, DekInv, NEW o \in creating, StoreSealed(o)
  PROVE  DekInv'
<1>0. PICK m, e, d, b, q :
        /\ m = o.at /\ e = o.config /\ d = NamedDek(o) /\ b = Sealed(m, d)
        /\ q = [o EXCEPT !.step = "sealed", !.keys = WithDek(o)]
  OBVIOUS
<1>1. o \in Creation /\ phase[m] = "up"
  BY <1>0 DEF TypeOK
<1>2. m \in Masters /\ e \in Named /\ e \in Configs /\ e # Default
  BY <1>0, <1>1, CreationFields, Constants
<1>3. /\ meta' = [meta EXCEPT ![m][e] = b]
      /\ creating' = (creating \ {o}) \cup {q}
      /\ UNCHANGED <<secret, phase, salt, legacy, vault, keys, gens, wire>>
  BY <1>0 DEF StoreSealed, Advance
<1>4. d \in MaybeDek /\ d # NoDek /\ d.at = m /\ d.config = e /\ d.gen = 1
  BY <1>0, <1>1, NamedDekType DEF MaybeDek
<1>5. b.dek = d /\ b.salt = salt[m] /\ b.secret = secret[m]
  BY <1>0, <1>2, <1>4, SealedType
<1>6. q.keys = WithDek(o)
  BY <1>0, <1>1, SealedCreation
<1>7. d = [at |-> m, config |-> e, gen |-> 1]
  BY <1>0 DEF NamedDek
<1>8. /\ meta'[m][e] = b /\ \A c \in Configs : c # e => meta'[m][c] = meta[m][c]
      /\ \A n \in Masters \ {m} : meta'[n] = meta[n]
  BY <1>2, <1>3 DEF TypeOK
<1>9. Alone(m)
  BY <1>3, <1>8 DEF Alone
<1>10. BlobsOf(m)'
  BY <1>2, <1>3, <1>4, <1>5, <1>8, OfMaster DEF BlobsOf
<1>11. PhaseOf(m)'
  BY <1>1, <1>2, <1>3, OfMaster DEF PhaseOf
<1>12. BlobsOwn' /\ PhaseInv'
  BY <1>9, <1>10, <1>11, <1>2, OthersKept DEF BlobsOwn, PhaseInv
<1>13. \A c \in Configs :
          \/ Effective(m, c)' = Effective(m, c)
          \/ c = e /\ Effective(m, c)'.dek = d
  BY <1>2, <1>3, <1>5, <1>8 DEF Effective
<1>14. BlobsKept
  BY <1>2, <1>7, <1>9, <1>13, OthersKept DEF BlobsKept
<1>15. Sound(d, e)'
  BY <1>2, <1>3, <1>4, <1>5, <1>8 DEF Sound, Recoverable, Effective
<1>16. ASSUME NEW c \in Configs PROVE Sound(q.keys[c], c)'
  <2>1. CASE c = e
    <3>1. q.keys[c] = d
      BY <1>0, <1>1, <1>6, <2>1, WithDekType
    <3>2. QED
      BY <1>15, <2>1, <3>1
  <2>2. CASE c # e
    <3>1. q.keys[c] = o.keys[c] /\ o.keys[c] \in MaybeDek
      BY <1>0, <1>1, <1>6, <2>2, WithDekType, CreationFields
    <3>2. Sound(o.keys[c], c)
      BY DEF DekInv, CopiesSound
    <3>3. Sound(o.keys[c], c)'
      BY <1>12, <1>14, <3>1, <3>2, SoundKept
    <3>4. QED
      BY <3>1, <3>3
  <2>3. QED
    BY <2>1, <2>2
<1>17. CopiesSound'
  BY <1>3, <1>12, <1>14, <1>16, NewCopy
<1>18. SecretKept'
  BY <1>3 DEF DekInv, SecretKept
<1>19. QED
  BY <1>3, <1>12, <1>14, <1>17, <1>18, SameVault, AllKeysKept, SameWire DEF DekInv

LEMMA ListConfigDeks ==
  ASSUME TypeOK, DekInv, NEW o \in creating, ListConfig(o) \/ StoreKeys(o)
  PROVE  DekInv'
<1>1. o \in Creation /\ phase[o.at] = "up" /\ o.at \in Masters
  BY CreationFields DEF TypeOK
<1>2. PICK q : /\ creating' \subseteq creating \cup {q} /\ q.keys = o.keys
  <2>1. CASE ListConfig(o)
    <3>1. [o EXCEPT !.step = "listed"].keys = o.keys
      BY <1>1, NextCreation
    <3>2. creating' \subseteq creating \cup {[o EXCEPT !.step = "listed"]}
      BY <2>1 DEF ListConfig, Advance
    <3>3. QED
      BY <3>1, <3>2
  <2>2. CASE StoreKeys(o)
    <3>1. [o EXCEPT !.step = "stored"].keys = o.keys
      BY <1>1, NextCreation
    <3>2. creating' \subseteq creating \cup {[o EXCEPT !.step = "stored"]}
      BY <2>2 DEF StoreKeys, Advance
    <3>3. QED
      BY <3>1, <3>2
  <2>3. QED
    BY <2>1, <2>2
<1>3. /\ UNCHANGED <<secret, phase, salt, legacy, meta, vault, gens, wire>>
      /\ keys' = keys \/ keys' = [keys EXCEPT ![o.at] = o.keys]
  BY DEF ListConfig, StoreKeys, disk
<1>4. \A n \in Masters : keys'[n] = keys[n] \/ (n = o.at /\ keys'[n] = o.keys)
  BY <1>1, <1>3 DEF TypeOK
<1>5. BlobsOwn' /\ SecretKept' /\ PhaseInv' /\ BlobsKept
  BY <1>1, <1>3, <1>4, RunFrame
<1>6. \A c \in Configs : Sound(o.keys[c], c)'
  BY <1>1, <1>5, SoundKept, CreationFields DEF DekInv, CopiesSound
<1>7. CopiesSound'
  BY <1>2, <1>5, <1>6, NewCopy
<1>8. KeysSound'
  <2> SUFFICES ASSUME NEW n \in Masters, NEW c \in Configs PROVE Sound(keys[n][c], c)'
    BY DEF KeysSound
  <2>1. CASE keys'[n] = keys[n]
    BY <1>5, <2>1, SameKeys
  <2>2. CASE keys'[n] = o.keys
    BY <1>6, <2>2 DEF Sound, Recoverable, Effective
  <2>3. QED
    BY <1>4, <2>1, <2>2
<1>9. QED
  BY <1>3, <1>5, <1>7, <1>8, SameVault, SameWire DEF DekInv

(* A POST carries the DEK that its sender read.                             *)
LEMMA BroadcastDeks ==
  ASSUME TypeOK, DekInv, UNCHANGED <<salt, legacy, meta>>, NEW m, NEW tree,
         NEW c \in Configs, NEW d, Sound(d, c), Broadcast(m, tree, c, d)
  PROVE  WireSound'
<1>1. PICK to \in SUBSET Masters :
        wire' = wire \cup {[to |-> n, secret |-> secret[m], tree |-> tree, config |-> c,
                           dek |-> d] : n \in to}
  BY DEF Broadcast
<1>2. \A p \in wire' : p \in wire \/ (p.dek = d /\ p.config = c)
  BY <1>1
<1>3. \A p \in wire' : Sound(p.dek, p.config)
  BY <1>2 DEF DekInv, WireSound
<1>4. ASSUME NEW p \in wire' PROVE Sound(p.dek, p.config)'
  BY <1>3, UnchangedSound
<1>5. QED
  BY <1>4 DEF WireSound

LEMMA RequestDeks ==
  ASSUME TypeOK, DekInv,
         \/ \E o \in creating : PutConfig(o) \/ CreationFails(o)
         \/ \E m \in Masters, c \in Configs : SetSecret(m, c) \/ DeleteSecret(m, c)
         \/ \E p \in wire : Deliver(p) \/ Lose(p)
  PROVE  DekInv'
<1>1. UNCHANGED <<secret, phase, salt, legacy, meta, keys, gens>> /\ creating' \subseteq creating
  BY DEF PutConfig, CreationFails, SetSecret, DeleteSecret, Deliver, Lose, disk
<1>2. BlobsOwn' /\ SecretKept' /\ PhaseInv' /\ BlobsKept
  BY <1>1, RunFrame
<1>3. KeysSound' /\ CopiesSound'
  BY <1>1, <1>2, AllKeysKept, SameCopies
<1>4. \A c : Sound(NoDek, c)
  BY DEF Sound
<1>5. WireSound'
  <2>1. ASSUME NEW o \in creating, PutConfig(o) PROVE WireSound'
    <3>1. o.config \in Configs
      BY CreationFields DEF TypeOK
    <3>2. QED
      BY <1>1, <1>4, <2>1, <3>1, BroadcastDeks DEF PutConfig
  <2>2. ASSUME NEW m \in Masters, NEW c \in Configs, SetSecret(m, c) PROVE WireSound'
    <3>1. Sound(keys[m][c], c)
      BY DEF DekInv, KeysSound
    <3>2. QED
      BY <1>1, <2>2, <3>1, BroadcastDeks DEF SetSecret
  <2>3. ASSUME NEW m \in Masters, NEW c \in Configs, DeleteSecret(m, c) PROVE WireSound'
    BY <1>1, <1>4, <2>3, BroadcastDeks DEF DeleteSecret
  <2>4. ASSUME NEW p \in wire, Deliver(p) \/ Lose(p) PROVE WireSound'
    <3>1. wire' \subseteq wire
      BY <2>4 DEF Deliver, Lose
    <3>2. QED
      BY <1>2, <3>1, SameWire
  <2>5. ASSUME NEW o \in creating, CreationFails(o) PROVE WireSound'
    <3>1. wire' \subseteq wire
      BY <2>5 DEF CreationFails
    <3>2. QED
      BY <1>2, <3>1, SameWire
  <2>6. QED
    BY <2>1, <2>2, <2>3, <2>4, <2>5
<1>6. VaultSound'
  <2>1. \A m \in Masters, c \in Configs : Sound(vault'[m][c], c)
    <3>1. \A m \in Masters, c \in Configs : Sound(vault[m][c], c) /\ Sound(keys[m][c], c)
      BY DEF DekInv, VaultSound, KeysSound
    <3>2. CASE UNCHANGED vault
      BY <3>1, <3>2
    <3>3. ASSUME NEW m \in Masters, NEW c \in Configs, NEW d, Sound(d, c),
                 vault' = [vault EXCEPT ![m][c] = d]
          PROVE  \A n \in Masters, e \in Configs : Sound(vault'[n][e], e)
      <4>1. \A n \in Masters, e \in Configs :
               vault'[n][e] = vault[n][e] \/ (e = c /\ vault'[n][e] = d)
        BY <3>3 DEF TypeOK
      <4>2. QED
        BY <3>1, <3>3, <4>1
    <3>4. CASE \E m \in Masters, c \in Configs : SetSecret(m, c) \/ DeleteSecret(m, c)
      BY <1>4, <3>1, <3>3, <3>4 DEF SetSecret, DeleteSecret
    <3>5. CASE \E p \in wire : Deliver(p)
      <4>1. PICK p \in wire : Deliver(p)
        BY <3>5
      <4>2. p.to \in Masters /\ p.config \in Configs /\ Sound(p.dek, p.config)
        BY DEF TypeOK, Push, DekInv, WireSound
      <4>3. vault' = vault \/ vault' = [vault EXCEPT ![p.to][p.config] = p.dek]
        BY <4>1 DEF Deliver
      <4>4. QED
        BY <3>2, <3>3, <4>2, <4>3
    <3>6. CASE \/ \E o \in creating : PutConfig(o) \/ CreationFails(o)
               \/ \E p \in wire : Lose(p)
      BY <3>2, <3>6 DEF PutConfig, CreationFails, Lose, disk
    <3>7. QED
      BY <3>4, <3>5, <3>6
  <2> SUFFICES ASSUME NEW m \in Masters, NEW c \in Configs PROVE Sound(vault[m][c], c)'
    BY DEF VaultSound
  <2>2. PICK d : d = vault'[m][c]
    OBVIOUS
  <2>3. Sound(d, c)'
    BY <1>1, <2>1, <2>2, UnchangedSound
  <2>4. QED
    BY <2>2, <2>3 DEF Sound, Recoverable, Effective
<1>7. QED
  BY <1>2, <1>3, <1>5, <1>6 DEF DekInv

LEMMA InitDeks == Init => DekInv
<1> SUFFICES ASSUME Init PROVE DekInv
  OBVIOUS
<1>1. /\ salt = [m \in Masters |-> 0] /\ keys = [m \in Masters |-> NoKeys]
      /\ secret = [m \in Masters |-> FirstSecret] /\ phase = [m \in Masters |-> "down"]
      /\ creating = {} /\ wire = {}
  BY DEF Init
<1>2. ASSUME NEW m \in Masters
      PROVE  /\ BlobsOf(m)
             /\ \A c \in Configs : vault[m][c] # NoDek =>
                   /\ c = Default /\ vault[m][c] = DefaultDek(m, 1)
                   /\ Effective(m, c) = OldBlob(m)
  <2>1. CASE Fresh(m)
    BY <2>1, NoBlobFields, NoKeysType DEF Fresh, BlobsOf
  <2>2. CASE SingleConfig(m)
    <3>1. \A c \in Configs : meta[m][c].dek = NoDek
      BY <2>2, NoBlobFields DEF SingleConfig
    <3>2. \A c \in Configs : c # Default => vault[m][c] = NoDek
      BY <2>2, NoKeysType DEF SingleConfig
    <3>3. vault[m][Default] = DefaultDek(m, 1)
      BY <2>2, NoKeysType, Constants DEF SingleConfig
    <3>4. QED
      BY <2>2, <3>1, <3>2, <3>3, OldBlobType DEF SingleConfig, BlobsOf, Effective
  <2>3. CASE LiteralSalt(m)
    <3>1. \A c \in Configs : meta[m][c] = IF c = Default THEN OldBlob(m) ELSE NoBlob
      BY <2>3 DEF LiteralSalt
    <3>2. \A c \in Configs : c # Default => vault[m][c] = NoDek
      BY <2>3, NoKeysType DEF LiteralSalt
    <3>3. vault[m][Default] = DefaultDek(m, 1) /\ legacy[m] = NoBlob
      BY <2>3, NoKeysType, Constants DEF LiteralSalt
    <3>4. BlobsOf(m)
      BY <3>1, <3>3, OldBlobType, DefaultDekType, NoBlobFields, Constants DEF BlobsOf
    <3>5. QED
      BY <3>1, <3>2, <3>3, <3>4 DEF Effective
  <2>4. QED
    BY <2>1, <2>2, <2>3 DEF Init
<1>3. VaultSound
  BY <1>2, OldBlobType, DefaultDekType, Constants DEF VaultSound, Sound, Recoverable
<1>4. KeysSound
  BY <1>1, NoKeysType DEF KeysSound, Sound
<1>5. CopiesSound /\ WireSound /\ SecretKept
  BY <1>1 DEF CopiesSound, WireSound, SecretKept
<1>6. PhaseInv
  BY <1>1 DEF PhaseInv, PhaseOf
<1>7. QED
  BY <1>2, <1>3, <1>4, <1>5, <1>6 DEF DekInv, BlobsOwn

(* Every DEK in use can be opened again by its master, and a start has in   *)
(* each phase done what the next relies on: DekInv is inductive.            *)
THEOREM DekInvariance == Spec => []DekInv
<1>1. TypeOK /\ DekInv /\ [Next]_vars => DekInv'
  <2> SUFFICES ASSUME TypeOK, DekInv, [Next]_vars PROVE DekInv'
    OBVIOUS
  <2>1. CASE UNCHANGED vars
    <3>1. UNCHANGED <<secret, phase, salt, legacy, meta, vault, keys, creating, gens, wire>>
      BY <2>1 DEF vars, disk
    <3>2. BlobsOwn' /\ SecretKept' /\ PhaseInv' /\ BlobsKept
      BY <3>1, RunFrame
    <3>3. QED
      BY <3>1, <3>2, SameVault, AllKeysKept, SameCopies, SameWire DEF DekInv
  <2>2. ASSUME NEW m \in Masters, StartStep(m) PROVE DekInv'
    BY <2>2, BeginDeks, MoveLegacyDeks, RemoveLegacyDeks, OpenAllDeks, ReencryptDeks,
       MakeDefaultDeks, ListDefaultDeks DEF StartStep
  <2>3. CASE VaultStep
    BY <2>2, <2>3, KillDeks, CopyKeysDeks, StoreSealedDeks, ListConfigDeks, RequestDeks
       DEF VaultStep
  <2>4. CASE VaultFault
    BY <2>4, BeginDeks, StartFailsDeks, RequestDeks DEF VaultFault
  <2>5. QED
    BY <2>1, <2>3, <2>4 DEF Next
<1>2. QED
  BY InitDeks, <1>1, TypeCorrect, PTL DEF Spec

(* A stored secret can be read again at the master that sealed it, for any  *)
(* number of masters, configs, starts and POSTs.                            *)
THEOREM SecretsStayRecoverable == Spec => []SecretsRecoverable
<1>1. DekInv => SecretsRecoverable
  BY DEF DekInv, VaultSound, Sound, Recoverable, SecretsRecoverable
<1>2. QED
  BY <1>1, DekInvariance, PTL

-----------------------------------------------------------------------------
(* No step leaves a config without the DEK that a disk had for it.          *)
DeksStay ==
    \A n \in Masters, c \in Configs :
        Effective(n, c).dek # NoDek => Effective(n, c)'.dek # NoDek

(* The default config gets another DEK only in MakeDefault.                 *)
DefaultStays ==
    \A n \in Masters :
        Effective(n, Default)'.dek = Effective(n, Default).dek \/ MakeDefault(n)

LEMMA SameBlobs ==
  ASSUME UNCHANGED <<legacy, meta>>
  PROVE  DeksStay /\ DefaultStays
BY DEF DeksStay, DefaultStays, Effective

LEMMA NewBlob ==
  ASSUME TypeOK, NEW m \in Masters, NEW c \in Configs, NEW d \in Dek,
         meta' = [meta EXCEPT ![m][c] = Sealed(m, d)], UNCHANGED legacy
  PROVE  DeksStay
<1>1. Sealed(m, d).dek # NoDek
  BY Constants, SealedType DEF MaybeDek
<1>2. \A n \in Masters, e \in Configs :
         meta'[n][e] = meta[n][e] \/ meta'[n][e].dek # NoDek
  BY <1>1 DEF TypeOK
<1>3. QED
  BY <1>2 DEF DeksStay, Effective

LEMMA OtherBlobs ==
  ASSUME TypeOK, NEW m \in Masters, NEW c \in Configs, NEW b,
         meta' = [meta EXCEPT ![m][c] = b], UNCHANGED legacy,
         c # Default \/ b.dek = meta[m][c].dek \/ MakeDefault(m)
  PROVE  DefaultStays
<1>1. \A n \in Masters : \/ meta'[n][Default] = meta[n][Default]
                         \/ n = m /\ c = Default /\ meta'[n][Default] = b
  BY Constants DEF TypeOK
<1>2. QED
  BY <1>1 DEF DefaultStays, Effective

LEMMA LegacyBlobs ==
  ASSUME TypeOK, DekInv, NEW m \in Masters, MoveLegacy(m) \/ RemoveLegacy(m)
  PROVE  DeksStay /\ DefaultStays
<1>1. \A n \in Masters, c \in Configs : Effective(n, c)' = Effective(n, c)
  <2> SUFFICES ASSUME NEW n \in Masters, NEW c \in Configs
               PROVE  Effective(n, c)' = Effective(n, c)
    OBVIOUS
  <2>1. CASE n # m
    BY <2>1 DEF TypeOK, MoveLegacy, RemoveLegacy, Effective
  <2>2. CASE n = m /\ MoveLegacy(m)
    <3>1. legacy'[m] = legacy[m] /\ legacy[m] # NoBlob
      BY <2>2, OfMaster DEF MoveLegacy, PhaseOf
    <3>2. c # Default => meta'[m][c] = meta[m][c]
      BY <2>2, Constants DEF TypeOK, MoveLegacy
    <3>3. QED
      BY <2>2, <3>1, <3>2 DEF Effective
  <2>3. CASE n = m /\ RemoveLegacy(m)
    <3>1. legacy'[m] = NoBlob /\ meta' = meta /\ meta[m][Default] = legacy[m]
      BY <2>3, OfMaster DEF TypeOK, RemoveLegacy, PhaseOf
    <3>2. QED
      BY <2>3, <3>1 DEF Effective
  <2>4. QED
    BY <2>1, <2>2, <2>3
<1>2. QED
  BY <1>1, Constants DEF DeksStay, DefaultStays

LEMMA BlobSteps ==
  ASSUME TypeOK, DekInv, Next
  PROVE  DeksStay /\ DefaultStays
<1>1. ASSUME NEW m \in Masters, NEW c \in Configs, Reencrypt(m, c)
      PROVE  DeksStay /\ DefaultStays
  <2>1. /\ keys[m][c] \in Dek
        /\ meta' = [meta EXCEPT ![m][c] = Sealed(m, keys[m][c])] /\ legacy' = legacy
    BY <1>1 DEF TypeOK, Reencrypt, ToReencrypt, MaybeDek
  <2>2. Opened(m, c)
    BY <1>1, OfMaster DEF Reencrypt, PhaseOf
  <2>3. Sealed(m, keys[m][c]).dek = meta[m][c].dek
    BY <2>1, <2>2, SealedType, Constants DEF MaybeDek, Opened
  <2>4. QED
    BY <2>1, <2>3, NewBlob, OtherBlobs
<1>2. ASSUME NEW m \in Masters, MakeDefault(m) PROVE DeksStay /\ DefaultStays
  <2>1. gens[m] + 1 \in Nat
    BY DEF TypeOK
  <2>2. DefaultDek(m, gens[m] + 1) \in Dek
    BY <2>1, DefaultDekType
  <2>3. /\ meta' = [meta EXCEPT ![m][Default] = Sealed(m, DefaultDek(m, gens[m] + 1))]
        /\ legacy' = legacy
    BY <1>2 DEF MakeDefault
  <2>4. QED
    BY <1>2, <2>2, <2>3, NewBlob, OtherBlobs, Constants
<1>3. ASSUME NEW o \in creating, StoreSealed(o) PROVE DeksStay /\ DefaultStays
  <2>1. o \in Creation
    BY DEF TypeOK
  <2>2. /\ o.at \in Masters /\ o.config \in Configs /\ o.config # Default
        /\ NamedDek(o) \in Dek
    BY <2>1, CreationFields, NamedDekType, Constants
  <2>3. /\ meta' = [meta EXCEPT ![o.at][o.config] = Sealed(o.at, NamedDek(o))]
        /\ legacy' = legacy
    BY <1>3 DEF StoreSealed
  <2>4. QED
    BY <2>2, <2>3, NewBlob, OtherBlobs
<1>4. CASE \/ \E m \in Masters : \/ \E s \in Secrets : Start(m, s)
                                \/ StoreSalt(m) \/ ListLegacy(m) \/ OpenAll(m)
                                \/ Ready(m) \/ ListDefault(m) \/ Kill(m)
                                \/ ReencryptFails(m) \/ StartFails(m)
           \/ \E m \in Masters, c \in Named : CopyKeys(m, c)
           \/ \E o \in creating : \/ ListConfig(o) \/ StoreKeys(o) \/ PutConfig(o)
                                 \/ CreationFails(o)
           \/ \E m \in Masters, c \in Configs : SetSecret(m, c) \/ DeleteSecret(m, c)
           \/ \E p \in wire : Deliver(p) \/ Lose(p)
  BY <1>4, SameBlobs
     DEF Start, StoreSalt, ListLegacy, OpenAll, Ready, ListDefault, Kill, ReencryptFails,
         StartFails, CopyKeys, ListConfig, StoreKeys, PutConfig, CreationFails, SetSecret, DeleteSecret, Deliver, Lose, disk
<1>5. CASE VaultStep
  BY <1>1, <1>2, <1>3, <1>4, <1>5, LegacyBlobs DEF VaultStep, StartStep
<1>6. CASE VaultFault
  BY <1>4, <1>6 DEF VaultFault
<1>7. QED
  BY <1>5, <1>6 DEF Next

-----------------------------------------------------------------------------
(* A config is listed after its DEK is stored.                              *)
LEMMA Listing ==
  ASSUME TypeOK, DeksStay, ListInv, NEW m \in Masters, NEW c \in Configs,
         configs' = [configs EXCEPT ![m] = @ \cup {c}],
         c = Default => Effective(m, c).dek # NoDek,
         c # Default => Kept(c)
  PROVE  ListedConfigsHaveKeys'
<1>1. \A n \in Masters : \A e \in configs'[n] : e \in configs[n] \/ (n = m /\ e = c)
  BY DEF TypeOK
<1>2. ASSUME NEW n \in Masters, NEW e \in configs'[n]
      PROVE  IF e = Default THEN Effective(n, e).dek # NoDek ELSE Kept(e)
  BY <1>1, <1>2 DEF ListInv, ListedConfigsHaveKeys, Listed, Kept
<1>3. \A n \in Masters : configs'[n] \subseteq Configs
  BY <1>1 DEF TypeOK
<1>4. QED
  BY <1>2, <1>3 DEF ListedConfigsHaveKeys, Listed, Kept, DeksStay

LEMMA NotListing ==
  ASSUME TypeOK, DeksStay, ListInv, UNCHANGED configs
  PROVE  ListedConfigsHaveKeys'
<1>1. \A n \in Masters : configs[n] \subseteq Configs
  BY DEF TypeOK
<1>2. QED
  BY <1>1 DEF ListInv, ListedConfigsHaveKeys, Listed, DeksStay

StoredFirst ==
    \A o \in creating : o.step # "copied" => Effective(o.at, o.config).dek # NoDek
PostedKept ==
    \A p \in wire : p.tree = "vault_configs" => p.config \in Named /\ Kept(p.config)

LEMMA MoreCreations ==
  ASSUME TypeOK, DeksStay, ListInv, NEW q, creating' \subseteq creating \cup {q},
         q \notin creating' \/ q.step = "copied" \/ Effective(q.at, q.config)'.dek # NoDek
  PROVE  StoredFirst'
<1> SUFFICES ASSUME NEW o \in creating', o.step # "copied"
             PROVE  Effective(o.at, o.config)'.dek # NoDek
  BY DEF StoredFirst
<1>1. CASE o = q
  BY <1>1
<1>2. CASE o \in creating
  <2>1. o.at \in Masters /\ o.config \in Configs
    BY <1>2, CreationFields DEF TypeOK
  <2>2. Effective(o.at, o.config).dek # NoDek
    BY <1>2 DEF ListInv
  <2>3. QED
    BY <2>1, <2>2 DEF DeksStay
<1>3. QED
  BY <1>1, <1>2

LEMMA FewerPosts ==
  ASSUME TypeOK, DeksStay, ListInv,
         \A p \in wire' : p \in wire \/ p.tree = "vault" \/ (p.config \in Named /\ Kept(p.config))
  PROVE  PostedKept'
<1>1. \A p \in wire' : p.tree = "vault_configs" => p.config \in Named /\ Kept(p.config)
  BY DEF ListInv
<1>2. \A c \in Named : Kept(c) => Kept(c)'
  BY Constants DEF Kept, DeksStay
<1>3. QED
  BY <1>1, <1>2 DEF PostedKept

LEMMA StartLists ==
  ASSUME TypeOK, DekInv, ListInv, DeksStay, NEW m \in Masters,
         StartStep(m) \/ Kill(m) \/ ReencryptFails(m) \/ StartFails(m)
  PROVE  ListInv'
<1>1. creating' \subseteq creating /\ wire' \subseteq wire
  BY DEF StartStep, Start, StoreSalt, ListLegacy, MoveLegacy, RemoveLegacy, OpenAll,
         Reencrypt, Ready, MakeDefault, ListDefault, Kill, ReencryptFails, StartFails
<1>2. StoredFirst'
  <2>1. CASE creating' = {}
    BY <2>1 DEF StoredFirst
  <2>2. CASE creating' # {}
    <3>1. PICK q : q \in creating'
      BY <2>2
    <3>2. q \in creating /\ q \in Creation
      BY <1>1, <3>1 DEF TypeOK
    <3>3. q.step = "copied" \/ Effective(q.at, q.config)'.dek # NoDek
      BY <3>2, CreationFields DEF ListInv, DeksStay
    <3>4. QED
      BY <1>1, <3>3, MoreCreations
  <2>3. QED
    BY <2>1, <2>2
<1>3. PostedKept'
  BY <1>1, FewerPosts
<1>4. ListedConfigsHaveKeys'
  <2>1. CASE ListLegacy(m)
    <3>1. legacy[m] # NoBlob /\ configs' = [configs EXCEPT ![m] = @ \cup {Default}]
      BY <2>1 DEF ListLegacy
    <3>2. legacy[m].dek # NoDek
      BY <3>1, OfMaster, OldBlobType, DefaultDekType DEF BlobsOf
    <3>3. QED
      BY <3>1, <3>2, Listing, Constants DEF Effective
  <2>2. CASE ListDefault(m)
    <3>1. /\ configs' = [configs EXCEPT ![m] = @ \cup {Default}]
          /\ legacy[m] = NoBlob /\ meta[m][Default].dek = DefaultDek(m, gens[m])
      BY <2>2, OfMaster DEF ListDefault, PhaseOf
    <3>2. DefaultDek(m, gens[m]) # NoDek
      BY DefaultDekType DEF TypeOK
    <3>3. QED
      BY <3>1, <3>2, Listing, Constants DEF Effective
  <2>3. CASE UNCHANGED configs
    BY <2>3, NotListing
  <2>4. UNCHANGED configs \/ ListLegacy(m) \/ ListDefault(m)
    <3>1. CASE \E s \in Secrets : Start(m, s)
      BY <3>1 DEF Start, disk
    <3>2. CASE StoreSalt(m) \/ MoveLegacy(m) \/ RemoveLegacy(m) \/ MakeDefault(m)
      BY <3>2 DEF StoreSalt, MoveLegacy, RemoveLegacy, MakeDefault
    <3>3. CASE OpenAll(m) \/ Ready(m) \/ Kill(m) \/ ReencryptFails(m) \/ StartFails(m)
      BY <3>3 DEF OpenAll, Ready, Kill, ReencryptFails, StartFails, disk
    <3>4. CASE \E c \in Configs : Reencrypt(m, c)
      BY <3>4 DEF Reencrypt
    <3>5. QED
      BY <3>1, <3>2, <3>3, <3>4 DEF StartStep
  <2>5. QED
    BY <2>1, <2>2, <2>3, <2>4
<1>5. QED
  BY <1>2, <1>3, <1>4 DEF ListInv, StoredFirst, PostedKept

LEMMA CreationLists ==
  ASSUME TypeOK, DekInv, ListInv, DeksStay, TypeOK',
         \/ \E m \in Masters, c \in Named : CopyKeys(m, c)
         \/ \E o \in creating :
               \/ StoreSealed(o) \/ ListConfig(o) \/ StoreKeys(o) \/ PutConfig(o)
               \/ CreationFails(o)
  PROVE  ListInv'
<1>1. ASSUME NEW m \in Masters, NEW c \in Named, CopyKeys(m, c) PROVE ListInv'
  <2>1. PICK q : q = [at |-> m, config |-> c, keys |-> keys[m], step |-> "copied"]
    OBVIOUS
  <2>2. creating' = creating \cup {q} /\ UNCHANGED <<configs, wire>> /\ q.step = "copied"
    BY <1>1, <2>1 DEF CopyKeys, disk
  <2>3. QED
    BY <2>2, MoreCreations, FewerPosts, NotListing DEF ListInv, StoredFirst, PostedKept
<1>2. ASSUME NEW o \in creating PROVE o \in Creation /\ o.at \in Masters
                                      /\ o.config \in Named /\ o.config \in Configs
                                      /\ o.config # Default
  <2>1. o \in Creation
    BY DEF TypeOK
  <2>2. QED
    BY <2>1, CreationFields, Constants
<1>3. ASSUME NEW o \in creating, StoreSealed(o) PROVE ListInv'
  <2>1. PICK q : q = [o EXCEPT !.step = "sealed", !.keys = WithDek(o)]
    OBVIOUS
  <2>2. /\ creating' \subseteq creating \cup {q} /\ UNCHANGED <<configs, wire>>
        /\ meta' = [meta EXCEPT ![o.at][o.config] = Sealed(o.at, NamedDek(o))]
    BY <1>3, <2>1 DEF StoreSealed, Advance
  <2>3. q.at = o.at /\ q.config = o.config
    BY <1>2, <2>1, SealedCreation
  <2>4. Sealed(o.at, NamedDek(o)).dek # NoDek
    BY <1>2, NamedDekType, SealedType DEF MaybeDek
  <2>5. Effective(o.at, o.config)' = Sealed(o.at, NamedDek(o))
    BY <1>2, <2>2 DEF TypeOK, Effective
  <2>6. QED
    BY <2>2, <2>3, <2>4, <2>5, MoreCreations, FewerPosts, NotListing DEF ListInv, StoredFirst, PostedKept
<1>4. ASSUME NEW o \in creating, o.step # "copied"
      PROVE  Kept(o.config) /\ Effective(o.at, o.config)'.dek # NoDek
  <2>1. Effective(o.at, o.config).dek # NoDek
    BY <1>4 DEF ListInv
  <2>2. QED
    BY <1>2, <2>1 DEF Kept, DeksStay
<1>5. ASSUME NEW o \in creating, ListConfig(o) PROVE ListInv'
  <2>1. PICK q : q = [o EXCEPT !.step = "listed"]
    OBVIOUS
  <2>2. /\ o.step # "copied" /\ creating' \subseteq creating \cup {q} /\ UNCHANGED wire
        /\ configs' = [configs EXCEPT ![o.at] = @ \cup {o.config}]
    BY <1>5, <2>1 DEF ListConfig, Advance
  <2>3. q.at = o.at /\ q.config = o.config
    BY <1>2, <2>1, NextCreation
  <2>4. QED
    BY <1>2, <1>4, <2>2, <2>3, MoreCreations, FewerPosts, Listing DEF ListInv, StoredFirst, PostedKept
<1>6. ASSUME NEW o \in creating, StoreKeys(o) PROVE ListInv'
  <2>1. PICK q : q = [o EXCEPT !.step = "stored"]
    OBVIOUS
  <2>2. /\ o.step # "copied" /\ creating' \subseteq creating \cup {q}
        /\ UNCHANGED <<configs, wire>>
    BY <1>6, <2>1 DEF StoreKeys, Advance, disk
  <2>3. q.at = o.at /\ q.config = o.config
    BY <1>2, <2>1, NextCreation
  <2>4. QED
    BY <1>4, <2>2, <2>3, MoreCreations, FewerPosts, NotListing DEF ListInv, StoredFirst, PostedKept
<1>7. ASSUME NEW o \in creating, PutConfig(o) PROVE ListInv'
  <2>1. /\ o.step # "copied" /\ creating' \subseteq creating \cup {o} /\ o \notin creating'
        /\ configs' = [configs EXCEPT ![o.at] = @ \cup {o.config}]
        /\ Broadcast(o.at, "vault_configs", o.config, NoDek)
    BY <1>7 DEF PutConfig
  <2>2. \A p \in wire' : p \in wire \/ p.config = o.config
    BY <2>1 DEF Broadcast
  <2>3. Kept(o.config)
    BY <1>4, <2>1
  <2>4. StoredFirst'
    BY <2>1, MoreCreations
  <2>5. PostedKept'
    BY <1>2, <2>2, <2>3, FewerPosts
  <2>6. ListedConfigsHaveKeys'
    BY <1>2, <2>1, <2>3, Listing
  <2>7. QED
    BY <2>4, <2>5, <2>6 DEF ListInv, StoredFirst, PostedKept
<1>8. ASSUME NEW o \in creating, CreationFails(o) PROVE ListInv'
  <2>1. /\ creating' \subseteq creating \cup {o} /\ o \notin creating'
        /\ UNCHANGED <<configs, wire>>
    BY <1>8 DEF CreationFails, disk
  <2>2. QED
    BY <2>1, MoreCreations, FewerPosts, NotListing DEF ListInv, StoredFirst, PostedKept
<1>9. QED
  BY <1>1, <1>3, <1>5, <1>6, <1>7, <1>8

LEMMA RequestLists ==
  ASSUME TypeOK, DekInv, ListInv, DeksStay,
         \/ \E m \in Masters, c \in Configs : SetSecret(m, c) \/ DeleteSecret(m, c)
         \/ \E p \in wire : Deliver(p) \/ Lose(p)
  PROVE  ListInv'
<1>1. creating' = creating
  BY DEF SetSecret, DeleteSecret, Deliver, Lose
<1>2. StoredFirst'
  <2> SUFFICES ASSUME NEW o \in creating, o.step # "copied"
               PROVE  Effective(o.at, o.config)'.dek # NoDek
    BY <1>1 DEF StoredFirst
  <2>1. o.at \in Masters /\ o.config \in Configs
    BY CreationFields DEF TypeOK
  <2>2. QED
    BY <2>1 DEF ListInv, DeksStay
<1>3. PostedKept'
  <2>1. \A p \in wire' : p \in wire \/ p.tree = "vault"
    <3>1. ASSUME NEW m, NEW c, NEW d, Broadcast(m, "vault", c, d)
          PROVE  \A p \in wire' : p \in wire \/ p.tree = "vault"
      BY <3>1 DEF Broadcast
    <3>2. QED
      BY <3>1 DEF SetSecret, DeleteSecret, Deliver, Lose
  <2>2. QED
    BY <2>1, FewerPosts
<1>4. ListedConfigsHaveKeys'
  <2>1. ASSUME NEW p \in wire, Deliver(p), p.tree = "vault_configs",
               configs' = [configs EXCEPT ![p.to] = @ \cup {p.config}]
        PROVE  ListedConfigsHaveKeys'
    <3>1. p.to \in Masters /\ p.config \in Configs /\ p.config # Default /\ Kept(p.config)
      BY <2>1, Constants DEF TypeOK, Push, ListInv
    <3>2. QED
      BY <2>1, <3>1, Listing
  <2>2. CASE UNCHANGED configs
    BY <2>2, NotListing
  <2>3. QED
    BY <2>1, <2>2 DEF SetSecret, DeleteSecret, Deliver, Lose, disk
<1>5. QED
  BY <1>2, <1>3, <1>4 DEF ListInv, StoredFirst, PostedKept

(* A config that is listed, created beyond its second step or posted has    *)
(* its DEK on a disk: ListInv is inductive next to DekInv.                  *)
THEOREM ListInvariance == Spec => []ListInv
<1>1. Init => ListInv
  <2> SUFFICES ASSUME Init PROVE ListInv
    OBVIOUS
  <2>1. creating = {} /\ wire = {}
    BY DEF Init
  <2>2. ASSUME NEW m \in Masters, NEW c \in configs[m]
        PROVE  c = Default /\ Effective(m, c).dek # NoDek
    <3>1. CASE Fresh(m)
      BY <2>2, <3>1 DEF Fresh
    <3>2. CASE SingleConfig(m)
      BY <2>2, <3>2 DEF SingleConfig
    <3>3. CASE LiteralSalt(m)
      <4>1. c = Default /\ legacy[m] = NoBlob /\ meta[m][Default] = OldBlob(m)
        BY <2>2, <3>3, Constants DEF LiteralSalt
      <4>2. QED
        BY <4>1, OldBlobType, DefaultDekType DEF Effective
    <3>4. QED
      BY <3>1, <3>2, <3>3 DEF Init
  <2>3. QED
    BY <2>1, <2>2 DEF ListInv, ListedConfigsHaveKeys, Listed
<1>2. TypeOK /\ TypeOK' /\ DekInv /\ ListInv /\ [Next]_vars => ListInv'
  <2> SUFFICES ASSUME TypeOK, TypeOK', DekInv, ListInv, [Next]_vars PROVE ListInv'
    OBVIOUS
  <2>1. CASE UNCHANGED vars
    BY <2>1 DEF vars, disk, ListInv, ListedConfigsHaveKeys, Listed, Effective, Kept
  <2>2. CASE Next
    <3>1. DeksStay
      BY <2>2, BlobSteps
    <3>2. CASE VaultStep
      BY <3>1, <3>2, StartLists, CreationLists, RequestLists DEF VaultStep
    <3>3. CASE VaultFault
      BY <3>1, <3>3, StartLists, CreationLists DEF VaultFault
    <3>4. QED
      BY <2>2, <3>2, <3>3 DEF Next
  <2>3. QED
    BY <2>1, <2>2
<1>3. QED
  BY <1>1, <1>2, TypeCorrect, DekInvariance, PTL DEF Spec

(* No order of the writes of a creation, and no kill between them, lists a  *)
(* config whose DEK no disk has.                                            *)
THEOREM ConfigsKeepKeys == Spec => []ListedConfigsHaveKeys
<1>1. ListInv => ListedConfigsHaveKeys
  BY DEF ListInv
<1>2. QED
  BY <1>1, ListInvariance, PTL

-----------------------------------------------------------------------------
(* A start replaces the default config only when no blob of its disk opens  *)
(* under the secret it was given.                                           *)
THEOREM DefaultReplacedWhenNothingOpens == Spec => DefaultKeptWhileAnyOpens
<1> DEFINE Keeps ==
      \A m \in Masters :
        LET b == Effective(m, Default)
        IN  b.dek # NoDek /\ Effective(m, Default)'.dek # b.dek
              => \A c \in Configs : Effective(m, c).dek # NoDek
                                      => Effective(m, c).secret # secret[m]
<1>1. ASSUME TypeOK, DekInv, NEW m \in Masters, MakeDefault(m), NEW c \in Configs,
             Effective(m, c).dek # NoDek
      PROVE  Effective(m, c).secret # secret[m]
  <2>1. legacy[m] = NoBlob /\ Opened(m, c) /\ keys[m][c] = NoDek
    BY <1>1, OfMaster, NoKeysType DEF MakeDefault, PhaseOf
  <2>2. Effective(m, c) = meta[m][c] /\ ~Opens(m, meta[m][c])
    BY <1>1, <2>1 DEF Effective, Opened, Opens
  <2>3. meta[m][c].salt \in {0, salt[m]}
    BY <1>1, <2>2, OfMaster DEF BlobsOf
  <2>4. QED
    BY <1>1, <2>2, <2>3 DEF Opens
<1>2. TypeOK /\ DekInv /\ [Next]_vars => [Keeps]_vars
  <2> SUFFICES ASSUME TypeOK, DekInv, Next PROVE Keeps
    OBVIOUS
  <2>1. DefaultStays
    BY BlobSteps
  <2>2. QED
    BY <1>1, <2>1 DEF DefaultStays
<1>3. QED
  BY <1>2, TypeCorrect, DekInvariance, PTL DEF Spec, DefaultKeptWhileAnyOpens

(* A start that ends has opened every blob that is sealed under its secret,  *)
(* or none if the store failed it.                                           *)
THEOREM StartsOpenSecrets == Spec => ReadableAfterStart
<1> DEFINE Reads ==
      \A m \in Masters : phase[m] # "up" /\ phase'[m] = "up" =>
        \/ faults' # faults /\ keys'[m] = NoKeys
        \/ \A c \in Configs :
              LET d == vault[m][c]
              IN  /\ d # NoDek /\ d.at = m
                  /\ Effective(m, c)'.dek = d /\ Effective(m, c)'.secret = secret[m]
                  => Readable(m, c)'
<1>1. ASSUME TypeOK, Next, NEW m \in Masters, phase[m] # "up", phase'[m] = "up"
      PROVE  \/ Ready(m) \/ ListDefault(m) \/ ReencryptFails(m)
             \/ StartFails(m) /\ Fault
  <2>1. ASSUME NEW n \in Masters, NEW p, p # "up", phase' = [phase EXCEPT ![n] = p]
        PROVE  FALSE
    BY <1>1, <2>1 DEF TypeOK
  <2>2. ASSUME NEW n \in Masters,
               Ready(n) \/ ListDefault(n) \/ ReencryptFails(n) \/ StartFails(n)
        PROVE  n = m
    BY <1>1, <2>2 DEF TypeOK, Ready, ListDefault, ReencryptFails, StartFails
  <2>3. ASSUME NEW n \in Masters, StartStep(n) \/ Kill(n) PROVE Ready(n) \/ ListDefault(n)
    <3>1. CASE \E s \in Secrets : Start(n, s)
      BY <2>1, <3>1 DEF Start
    <3>2. CASE StoreSalt(n) \/ ListLegacy(n) \/ MoveLegacy(n) \/ RemoveLegacy(n)
      BY <2>1, <3>2 DEF StoreSalt, ListLegacy, MoveLegacy, RemoveLegacy
    <3>3. CASE OpenAll(n) \/ MakeDefault(n) \/ Kill(n)
      BY <2>1, <3>3 DEF OpenAll, MakeDefault, Kill
    <3>4. CASE \E c \in Configs : Reencrypt(n, c)
      BY <1>1, <3>4 DEF Reencrypt
    <3>5. QED
      BY <2>3, <3>1, <3>2, <3>3, <3>4 DEF StartStep
  <2>4. phase' # phase
    BY <1>1
  <2>5. CASE VaultStep
    <3>1. \E n \in Masters : StartStep(n) \/ Kill(n)
      BY <2>4, <2>5 DEF VaultStep, CopyKeys, StoreSealed, ListConfig, StoreKeys, PutConfig,
         SetSecret, DeleteSecret, Deliver, Lose
    <3>2. QED
      BY <2>2, <2>3, <3>1
  <2>6. CASE VaultFault /\ Fault
    <3>1. \E n \in Masters : ReencryptFails(n) \/ StartFails(n)
      BY <2>4, <2>6 DEF VaultFault, CreationFails
    <3>2. QED
      BY <2>2, <2>6, <3>1
  <2>7. QED
    BY <1>1, <2>5, <2>6 DEF Next
<1>2. ASSUME TypeOK, DekInv, NEW m \in Masters,
             Ready(m) \/ ListDefault(m) \/ ReencryptFails(m), NEW c \in Configs,
             vault[m][c] # NoDek, Effective(m, c)'.dek = vault[m][c],
             Effective(m, c)'.secret = secret[m]
      PROVE  Readable(m, c)'
  <2>1. vault' = vault /\ legacy' = legacy /\ meta' = meta /\ legacy[m] = NoBlob
    BY <1>2, OfMaster DEF Ready, ListDefault, ReencryptFails, disk, PhaseOf
  <2>2. meta[m][c].dek = vault[m][c] /\ meta[m][c].secret = secret[m]
    BY <1>2, <2>1 DEF Effective
  <2>3. meta[m][c].salt \in {0, salt[m]}
    BY <1>2, <2>2, OfMaster DEF BlobsOf
  <2>4. Opens(m, meta[m][c])
    BY <1>2, <2>2, <2>3 DEF Opens
  <2>5. CASE Ready(m) \/ ReencryptFails(m)
    <3>1. keys' = keys /\ Opened(m, c)
      BY <1>2, <2>5, OfMaster DEF Ready, ReencryptFails, PhaseOf
    <3>2. QED
      BY <1>2, <2>1, <2>2, <2>4, <3>1 DEF Opened, Readable, Decrypts
  <2>6. CASE ListDefault(m) /\ c = Default
    <3>1. meta[m][Default].dek = DefaultDek(m, gens[m])
      BY <1>2, <2>6, OfMaster DEF ListDefault, PhaseOf
    <3>2. keys'[m][Default] = DefaultDek(m, gens[m])
      BY <1>2, <2>6, Constants DEF TypeOK, ListDefault
    <3>3. QED
      BY <1>2, <2>1, <2>2, <2>6, <3>1, <3>2 DEF Readable, Decrypts
  <2>7. CASE ListDefault(m) /\ c # Default
    <3>1. Opened(m, c) /\ keys'[m][c] = keys[m][c]
      BY <1>2, <2>7, OfMaster, Constants DEF TypeOK, ListDefault, PhaseOf
    <3>2. QED
      BY <1>2, <2>1, <2>2, <2>4, <3>1 DEF Opened, Readable, Decrypts
  <2>8. QED
    BY <1>2, <2>5, <2>6, <2>7
<1>3. TypeOK /\ DekInv /\ [Next]_vars => [Reads]_vars
  <2> SUFFICES ASSUME TypeOK, DekInv, Next PROVE Reads
    OBVIOUS
  <2> SUFFICES ASSUME NEW m \in Masters, phase[m] # "up", phase'[m] = "up",
                      ~(faults' # faults /\ keys'[m] = NoKeys)
               PROVE  \A c \in Configs :
                        LET d == vault[m][c]
                        IN  /\ d # NoDek /\ d.at = m
                            /\ Effective(m, c)'.dek = d /\ Effective(m, c)'.secret = secret[m]
                            => Readable(m, c)'
    OBVIOUS
  <2>1. ~(StartFails(m) /\ Fault)
    BY DEF TypeOK, StartFails, Fault
  <2>2. QED
    BY <1>1, <1>2, <2>1
<1>4. QED
  BY <1>3, TypeCorrect, DekInvariance, PTL DEF Spec, ReadableAfterStart
=============================================================================
