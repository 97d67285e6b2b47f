--------------------------- MODULE Registry_proofs ---------------------------
(* Theorems about Registry: types, and that tags resolve.                   *)
EXTENDS Registry, SequenceTheorems, TLAPS

LEMMA ContentIsSeq ==
  ASSUME NEW c
  PROVE  c \in Content <=> c \in Seq(Chunks) /\ Len(c) <= MaxLen
<1>1. ASSUME c \in Content
      PROVE  c \in Seq(Chunks) /\ Len(c) <= MaxLen
  <2>1. PICK n \in 0 .. MaxLen : c \in [1 .. n -> Chunks]
    BY <1>1 DEF Content
  <2>2. n \in Nat /\ n <= MaxLen
    BY <2>1, RegistryAssumption
  <2>3. c \in Seq(Chunks)
    BY <2>1, <2>2, SeqDef
  <2>4. Len(c) = n
    BY <2>1, <2>2, <2>3, LenProperties
  <2>5. QED
    BY <2>2, <2>3, <2>4
<1>2. ASSUME c \in Seq(Chunks), Len(c) <= MaxLen
      PROVE  c \in Content
  <2>1. Len(c) \in Nat /\ c \in [1 .. Len(c) -> Chunks]
    BY <1>2, LenProperties
  <2>2. Len(c) \in 0 .. MaxLen
    BY <2>1, <1>2, RegistryAssumption
  <2>3. QED
    BY <2>1, <2>2 DEF Content
<1>3. QED
  BY <1>1, <1>2

LEMMA EmptyContent == <<>> \in Content
<1>1. <<>> \in Seq(Chunks) /\ Len(<<>>) = 0
  BY EmptySeq
<1>2. 0 <= MaxLen
  BY RegistryAssumption
<1>3. QED
  BY <1>1, <1>2, ContentIsSeq

LEMMA TailContent ==
  ASSUME NEW c \in Content, c # <<>>
  PROVE  Tail(c) \in Content /\ Head(c) \in Chunks
<1>1. c \in Seq(Chunks) /\ Len(c) <= MaxLen
  BY ContentIsSeq
<1>2. Head(c) \in Chunks /\ Tail(c) \in Seq(Chunks) /\ Len(Tail(c)) = Len(c) - 1
  BY <1>1, HeadTailProperties
<1>3. Len(Tail(c)) <= MaxLen
  BY <1>1, <1>2, LenProperties, RegistryAssumption
<1>4. QED
  BY <1>2, <1>3, ContentIsSeq

LEMMA AppendContent ==
  ASSUME NEW c \in Content, NEW x \in Chunks, Len(c) < MaxLen
  PROVE  Append(c, x) \in Content
<1>1. c \in Seq(Chunks)
  BY ContentIsSeq
<1>2. Append(c, x) \in Seq(Chunks) /\ Len(Append(c, x)) = Len(c) + 1
  BY <1>1, AppendProperties
<1>3. Len(Append(c, x)) <= MaxLen
  BY <1>1, <1>2, LenProperties, RegistryAssumption
<1>4. QED
  BY <1>2, <1>3, ContentIsSeq

-----------------------------------------------------------------------------
(* What a request in progress has, by its stage.                            *)
LEMMA TagRequest ==
  ASSUME TypeOK, NEW s \in Slots, req[s].op \in {"tag", "untag"}
  PROVE  req[s] \in [op : {"tag", "untag"}, ref : References, m : Manifests]
BY DEF TypeOK, MetaRequest, FileRequest, Idle

LEMMA ManifestRequest ==
  ASSUME TypeOK, NEW s \in Slots, req[s].op \in {"check", "drop", "scan"}
  PROVE  req[s] \in [op : {"check", "drop", "scan"}, m : Manifests]
BY DEF TypeOK, MetaRequest, FileRequest, Idle

LEMMA SweepRequest ==
  ASSUME TypeOK, NEW s \in Slots, req[s].op = "sweep"
  PROVE  req[s] \in [op : {"sweep"}, m : Manifests, refs : SUBSET References]
BY DEF TypeOK, MetaRequest, FileRequest, Idle

LEMMA PatchRequest ==
  ASSUME TypeOK, NEW s \in Slots, req[s].op = "patch"
  PROVE  req[s] \in [op : {"patch"}, up : Uploads, gen : Gen, body : Content]
BY DEF TypeOK, MetaRequest, FileRequest, Idle

LEMMA FillRequest ==
  ASSUME TypeOK, NEW s \in Slots, req[s].op = "fill"
  PROVE  req[s] \in [op : {"fill"}, up : Uploads, gen : Gen, body : Content,
                     digest : Digests]
BY DEF TypeOK, MetaRequest, FileRequest, Idle

LEMMA HashRequest ==
  ASSUME TypeOK, NEW s \in Slots, req[s].op \in {"hash", "place", "rename"}
  PROVE  req[s] \in [op : {"hash", "place", "rename"}, up : Uploads, digest : Digests]
BY DEF TypeOK, MetaRequest, FileRequest, Idle

(* A slot takes a request of the right form.                                *)
LEMMA BecomesType ==
  ASSUME TypeOK, NEW s \in Slots, NEW r \in MetaRequest \cup FileRequest \cup {Idle},
         Becomes(s, r)
  PROVE  req' \in [Slots -> MetaRequest \cup FileRequest \cup {Idle}]
BY DEF TypeOK, Becomes

MetaTypes ==
    /\ manifests' \subseteq Manifests
    /\ tags' \in [References -> Manifests \cup {None}]
    /\ crossed' \subseteq Manifests /\ loose' \subseteq Manifests

LEMMA MetaFrame ==
  ASSUME TypeOK, MetaTypes, UNCHANGED fileVars,
         req' \in [Slots -> MetaRequest \cup FileRequest \cup {Idle}]
  PROVE  TypeOK'
BY DEF TypeOK, MetaTypes, fileVars

FileTypes ==
    /\ data' \in [Uploads -> [Gen -> Content]]
    /\ gens' \in [Uploads -> 0 .. MaxGens] /\ there' \in [Uploads -> BOOLEAN]
    /\ blob' \in [Digests -> File \cup {NoFile}]
    /\ answered' \subseteq Digests
    /\ shared' \subseteq Uploads
    /\ \A u \in Uploads : there'[u] => gens'[u] \in Gen

LEMMA FileFrame ==
  ASSUME TypeOK, FileTypes, UNCHANGED metaVars,
         req' \in [Slots -> MetaRequest \cup FileRequest \cup {Idle}]
  PROVE  TypeOK'
BY DEF TypeOK, FileTypes, metaVars

LEMMA InitType == Init => TypeOK
<1> SUFFICES ASSUME Init PROVE TypeOK
  OBVIOUS
<1>1. data \in [Uploads -> [Gen -> Content]]
  BY EmptyContent DEF Init
<1>2. gens \in [Uploads -> 0 .. MaxGens]
  BY RegistryAssumption DEF Init
<1>3. QED
  BY <1>1, <1>2 DEF Init, TypeOK, Idle

LEMMA MetaType ==
  ASSUME TypeOK, NEW s \in Slots, MetaStep(s)
  PROVE  TypeOK'
<1> DEFINE Requests == MetaRequest \cup FileRequest \cup {Idle}
<1>1. MetaTypes
  <2>1. /\ manifests \subseteq Manifests
        /\ tags \in [References -> Manifests \cup {None}]
        /\ crossed \subseteq Manifests /\ loose \subseteq Manifests
    BY DEF TypeOK
  <2>2. CASE PutManifest(s)
    BY <2>1, <2>2 DEF PutManifest, MetaTypes, Cross, fileVars
  <2>3. CASE PutTag(s)
    BY <2>1, <2>3, TagRequest DEF PutTag, At, MetaTypes, Loosen
  <2>4. CASE DeleteTag(s)
    BY <2>1, <2>4 DEF DeleteTag, MetaTypes, Loosen
  <2>5. CASE DeleteManifest(s)
    BY <2>1, <2>5 DEF DeleteManifest, MetaTypes, Cross
  <2>6. CASE ScanTags(s) \/ SweepDone(s) \/ CheckTags(s)
    BY <2>1, <2>6 DEF ScanTags, SweepDone, CheckTags, MetaTypes, metaVars
  <2>7. CASE SweepTag(s)
    BY <2>1, <2>7 DEF SweepTag, MetaTypes, Loosen
  <2>8. CASE ReadTag(s)
    BY <2>1, <2>8 DEF ReadTag, MetaTypes, Cross
  <2>9. CASE Untag(s)
    BY <2>1, <2>9 DEF Untag, MetaTypes, Loosen
  <2>10. CASE DropManifest(s)
    BY <2>1, <2>10 DEF DropManifest, MetaTypes
  <2>11. QED
    BY <2>2, <2>3, <2>4, <2>5, <2>6, <2>7, <2>8, <2>9, <2>10 DEF MetaStep
<1>2. \E r \in Requests : Becomes(s, r) \/ UNCHANGED req
  <2>1. Idle \in Requests
    OBVIOUS
  <2>2. CASE PutManifest(s)
    <3>1. PICK ref \in References, m \in Manifests :
            Becomes(s, [op |-> "tag", ref |-> ref, m |-> m])
      BY <2>2 DEF PutManifest
    <3>2. [op |-> "tag", ref |-> ref, m |-> m] \in MetaRequest
      BY DEF MetaRequest
    <3>3. QED
      BY <3>1, <3>2
  <2>3. CASE PutTag(s) \/ SweepDone(s) \/ DropManifest(s)
    BY <2>1, <2>3 DEF PutTag, SweepDone, DropManifest
  <2>4. CASE DeleteTag(s)
    BY <2>1, <2>4 DEF DeleteTag
  <2>5. CASE DeleteManifest(s)
    <3>1. PICK m \in Manifests : Becomes(s, [op |-> "scan", m |-> m])
      BY <2>5 DEF DeleteManifest
    <3>2. [op |-> "scan", m |-> m] \in MetaRequest
      BY DEF MetaRequest
    <3>3. QED
      BY <3>1, <3>2
  <2>6. CASE ScanTags(s)
    <3> DEFINE r == [op |-> "sweep", m |-> req[s].m, refs |-> Referring(req[s].m)]
    <3>1. req[s].m \in Manifests
      BY <2>6, ManifestRequest DEF ScanTags, At
    <3>2. r \in MetaRequest
      BY <3>1 DEF MetaRequest, Referring
    <3>3. Becomes(s, r)
      BY <2>6 DEF ScanTags
    <3>4. QED
      BY <3>2, <3>3
  <2>7. CASE SweepTag(s)
    <3>1. PICK ref \in req[s].refs : Becomes(s, [req[s] EXCEPT !.refs = @ \ {ref}])
      BY <2>7 DEF SweepTag
    <3>2. req[s] \in [op : {"sweep"}, m : Manifests, refs : SUBSET References]
      BY <2>7, SweepRequest DEF SweepTag, At
    <3>3. [req[s] EXCEPT !.refs = @ \ {ref}]
             \in [op : {"sweep"}, m : Manifests, refs : SUBSET References]
      BY <3>2
    <3>4. [req[s] EXCEPT !.refs = @ \ {ref}] \in MetaRequest
      BY <3>3 DEF MetaRequest
    <3>5. QED
      BY <3>1, <3>4
  <2>8. CASE ReadTag(s)
    <3>1. PICK ref \in References :
            tags[ref] # None /\ Becomes(s, [op |-> "untag", ref |-> ref, m |-> tags[ref]])
      BY <2>8 DEF ReadTag
    <3>2. tags[ref] \in Manifests
      BY <3>1 DEF TypeOK
    <3>3. [op |-> "untag", ref |-> ref, m |-> tags[ref]] \in MetaRequest
      BY <3>2 DEF MetaRequest
    <3>4. QED
      BY <3>1, <3>3
  <2>9. CASE Untag(s)
    <3>1. req[s].m \in Manifests
      BY <2>9, TagRequest DEF Untag, At
    <3>2. [op |-> "check", m |-> req[s].m] \in MetaRequest
      BY <3>1 DEF MetaRequest
    <3>3. QED
      BY <2>9, <3>2 DEF Untag
  <2>10. CASE CheckTags(s)
    <3>1. req[s].m \in Manifests
      BY <2>10, ManifestRequest DEF CheckTags, At
    <3>2. [op |-> "drop", m |-> req[s].m] \in MetaRequest
      BY <3>1 DEF MetaRequest
    <3>3. QED
      BY <2>1, <2>10, <3>2 DEF CheckTags
  <2>11. QED
    BY <2>2, <2>3, <2>4, <2>5, <2>6, <2>7, <2>8, <2>9, <2>10 DEF MetaStep
<1>3. req' \in [Slots -> Requests]
  BY <1>2, BecomesType DEF TypeOK
<1>4. UNCHANGED fileVars
  BY DEF MetaStep, PutManifest, PutTag, DeleteTag, DeleteManifest, ScanTags, SweepTag,
     SweepDone, ReadTag, Untag, CheckTags, DropManifest
<1>5. QED
  BY <1>1, <1>3, <1>4, MetaFrame

LEMMA FileType ==
  ASSUME TypeOK, NEW s \in Slots, FileStep(s)
  PROVE  TypeOK'
<1> DEFINE Requests == MetaRequest \cup FileRequest \cup {Idle}
<1>1. /\ data \in [Uploads -> [Gen -> Content]]
      /\ gens \in [Uploads -> 0 .. MaxGens] /\ there \in [Uploads -> BOOLEAN]
      /\ blob \in [Digests -> File \cup {NoFile}]
      /\ answered \subseteq Digests
      /\ shared \subseteq Uploads
      /\ \A u \in Uploads : there[u] => gens[u] \in Gen
  BY DEF TypeOK
<1>2. Idle \in Requests
  OBVIOUS
<1>4. MaxGens \in Nat \ {0}
  BY RegistryAssumption
<1>5. CASE StartUpload(s)
  <2>1. FileTypes /\ UNCHANGED metaVars
    <3>1. PICK u \in Uploads : /\ gens' = [gens EXCEPT ![u] = 1]
                                /\ there' = [there EXCEPT ![u] = TRUE]
      BY <1>5 DEF StartUpload
    <3>2. 1 \in Gen /\ 1 \in 0 .. MaxGens
      BY <1>4 DEF Gen
    <3>3. UNCHANGED <<data, blob, answered, shared, metaVars>>
      BY <1>5 DEF StartUpload
    <3>4. QED
      BY <1>1, <3>1, <3>2, <3>3 DEF FileTypes
  <2>2. req' = req
    BY <1>5 DEF StartUpload
  <2>3. QED
    BY <2>1, <2>2, FileFrame DEF TypeOK
<1>6. CASE OpenPatch(s)
  <2> DEFINE gen(u) == IF there[u] THEN gens[u] ELSE gens[u] + 1
  <2>1. PICK u \in Uploads, body \in Content \ {<<>>} :
          /\ gens[u] > 0 /\ (there[u] \/ gens[u] < MaxGens)
          /\ gens' = [gens EXCEPT ![u] = gen(u)]
          /\ Becomes(s, [op |-> "patch", up |-> u, gen |-> gen(u), body |-> body])
          /\ there' = [there EXCEPT ![u] = TRUE]
          /\ Share(u)
    BY <1>6 DEF OpenPatch
  <2>2. gen(u) \in Gen /\ gen(u) \in 0 .. MaxGens
    BY <1>1, <1>4, <2>1 DEF Gen
  <2> DEFINE r == [op |-> "patch", up |-> u, gen |-> gen(u), body |-> body]
  <2>3. r \in FileRequest
    <3> HIDE DEF gen
    <3> QED BY <2>2 DEF FileRequest
  <2>4. gens' \in [Uploads -> 0 .. MaxGens]
    <3> HIDE DEF gen
    <3> QED BY <1>1, <2>1, <2>2
  <2>5. UNCHANGED <<data, blob, answered, metaVars>>
    BY <1>6 DEF OpenPatch
  <2>6. FileTypes
    <3>1. \A w \in Uploads : there'[w] => gens'[w] \in Gen
      <4> HIDE DEF gen
      <4> QED BY <1>1, <2>1, <2>2
    <3>2. there' \in [Uploads -> BOOLEAN] /\ shared' \subseteq Uploads
      BY <1>1, <2>1 DEF Share
    <3>3. QED
      BY <1>1, <2>4, <2>5, <3>1, <3>2 DEF FileTypes
  <2> HIDE DEF r
  <2>7. Becomes(s, r)
    BY <2>1 DEF r
  <2>8. QED
    BY <2>3, <2>5, <2>6, <2>7, BecomesType, FileFrame
<1>7. CASE OpenComplete(s)
  <2>1. PICK u \in Uploads, body \in Content, digest \in Digests :
          /\ there[u]
          /\ Becomes(s, [op |-> "fill", up |-> u, gen |-> gens[u], body |-> body,
                         digest |-> digest])
          /\ Share(u)
    BY <1>7 DEF OpenComplete
  <2> DEFINE r == [op |-> "fill", up |-> u, gen |-> gens[u], body |-> body,
                   digest |-> digest]
  <2>2. gens[u] \in Gen
    BY <2>1 DEF TypeOK
  <2>3. r \in FileRequest
    BY <2>2 DEF FileRequest
  <2>4. UNCHANGED <<data, gens, there, blob, answered, metaVars>>
    BY <1>7 DEF OpenComplete
  <2>5. FileTypes
    BY <1>1, <2>1, <2>4 DEF FileTypes, Share
  <2> HIDE DEF r
  <2>6. Becomes(s, r)
    BY <2>1 DEF r
  <2>7. QED
    BY <2>3, <2>4, <2>5, <2>6, BecomesType, FileFrame
<1>8. CASE Write(s)
  <2> DEFINE r == [req[s] EXCEPT !.body = Tail(@)]
             u == req[s].up
             g == req[s].gen
  <2>1. u \in Uploads /\ g \in Gen /\ req[s].body \in Content /\ req[s].body # <<>>
    BY <1>8, PatchRequest, FillRequest DEF Write
  <2>2. Tail(req[s].body) \in Content /\ Head(req[s].body) \in Chunks
    BY <2>1, TailContent
  <2>3. r \in FileRequest
    <3>1. CASE req[s].op = "patch"
      <4>1. req[s] \in [op : {"patch"}, up : Uploads, gen : Gen, body : Content]
        BY <3>1, PatchRequest
      <4>2. r \in [op : {"patch"}, up : Uploads, gen : Gen, body : Content]
        BY <4>1, <2>2
      <4>3. QED
        BY <4>2 DEF FileRequest
    <3>2. CASE req[s].op = "fill"
      <4>1. req[s] \in [op : {"fill"}, up : Uploads, gen : Gen, body : Content,
                        digest : Digests]
        BY <3>2, FillRequest
      <4>2. r \in [op : {"fill"}, up : Uploads, gen : Gen, body : Content,
                   digest : Digests]
        BY <4>1, <2>2
      <4>3. QED
        BY <4>2 DEF FileRequest
    <3>3. QED
      BY <1>8, <3>1, <3>2 DEF Write
  <2>4. Becomes(s, r) /\ UNCHANGED <<gens, there, blob, answered, shared, metaVars>>
    BY <1>8 DEF Write
  <2>5. data' \in [Uploads -> [Gen -> Content]]
    <3>1. /\ Len(data[u][g]) < MaxLen
          /\ data' = [data EXCEPT ![u][g] = Append(@, Head(req[s].body))]
      BY <1>8 DEF Write
    <3>2. Append(data[u][g], Head(req[s].body)) \in Content
      BY <1>1, <2>1, <2>2, <3>1, AppendContent
    <3> DEFINE new == Append(data[u][g], Head(req[s].body))
    <3>3. data' = [data EXCEPT ![u][g] = new]
      BY <3>1
    <3> HIDE DEF new, u, g
    <3>4. QED
      BY <1>1, <2>1, <3>2, <3>3 DEF new
  <2>6. FileTypes
    BY <1>1, <2>4, <2>5 DEF FileTypes
  <2> HIDE DEF r
  <2>7. QED
    BY <2>3, <2>4, <2>6, BecomesType, FileFrame
<1>9. CASE EndPatch(s)
  <2>1. Becomes(s, Idle) /\ UNCHANGED <<metaVars, fileVars>>
    BY <1>9 DEF EndPatch
  <2>2. FileTypes
    BY <1>1, <2>1 DEF FileTypes, fileVars
  <2>3. QED
    BY <2>1, <2>2, BecomesType, FileFrame
<1>10. CASE EndFill(s)
  <2> DEFINE r == [op |-> "hash", up |-> req[s].up, digest |-> req[s].digest]
  <2>1. Becomes(s, r) /\ UNCHANGED <<metaVars, fileVars>>
    BY <1>10 DEF EndFill
  <2>2. req[s].up \in Uploads /\ req[s].digest \in Digests
    BY <1>10, FillRequest DEF EndFill, At
  <2>3. r \in FileRequest
    BY <2>2 DEF FileRequest
  <2>4. FileTypes
    BY <1>1, <2>1 DEF FileTypes, fileVars
  <2> HIDE DEF r
  <2>5. QED
    BY <2>1, <2>3, <2>4, BecomesType, FileFrame
<1>11. CASE Hash(s)
  <2> DEFINE u == req[s].up
             matches == there[u] /\ data[u][gens[u]] = req[s].digest
             r == IF matches THEN [req[s] EXCEPT !.op = "place"] ELSE Idle
  <2>1. /\ there' = [there EXCEPT ![u] = matches]
        /\ Becomes(s, r)
        /\ UNCHANGED <<data, gens, blob, answered, shared, metaVars>>
    BY <1>11 DEF Hash
  <2>2. req[s] \in [op : {"hash", "place", "rename"}, up : Uploads, digest : Digests]
    BY <1>11, HashRequest DEF Hash, At
  <2>3. r \in Requests
    <3>1. [req[s] EXCEPT !.op = "place"]
             \in [op : {"hash", "place", "rename"}, up : Uploads, digest : Digests]
      BY <2>2
    <3>2. QED
      BY <3>1 DEF FileRequest
  <2>4. there' \in [Uploads -> BOOLEAN]
    <3>1. matches \in BOOLEAN
      BY <1>1, <2>2
    <3> HIDE DEF matches
    <3>2. QED
      BY <1>1, <2>1, <3>1
  <2>5. FileTypes
    BY <1>1, <2>1, <2>4 DEF FileTypes
  <2> HIDE DEF r
  <2>6. QED
    BY <2>1, <2>3, <2>5, BecomesType, FileFrame
<1>12. CASE Place(s)
  <2>1. req[s] \in [op : {"hash", "place", "rename"}, up : Uploads, digest : Digests]
    BY <1>12, HashRequest DEF Place, At
  <2>2. UNCHANGED <<data, gens, blob, shared, metaVars>>
    BY <1>12 DEF Place
  <2>3. \E r \in Requests : Becomes(s, r)
    <3>1. [req[s] EXCEPT !.op = "rename"] \in FileRequest
      <4>1. [req[s] EXCEPT !.op = "rename"]
               \in [op : {"hash", "place", "rename"}, up : Uploads, digest : Digests]
        BY <2>1
      <4>2. QED
        BY <4>1 DEF FileRequest
    <3>2. QED
      BY <1>2, <1>12, <3>1 DEF Place
  <2>4. /\ there' \in [Uploads -> BOOLEAN] /\ answered' \subseteq Digests
        /\ \A u \in Uploads : there'[u] => there[u]
    BY <1>1, <1>12, <2>1 DEF Place
  <2>5. FileTypes
    BY <1>1, <2>2, <2>4 DEF FileTypes
  <2>6. QED
    BY <2>2, <2>3, <2>5, BecomesType, FileFrame
<1>13. CASE Rename(s)
  <2>1. req[s] \in [op : {"hash", "place", "rename"}, up : Uploads, digest : Digests]
    BY <1>13, HashRequest DEF Rename, At
  <2>2. Becomes(s, Idle) /\ UNCHANGED <<data, gens, shared, metaVars>>
    BY <1>13 DEF Rename
  <2>3. /\ there' \in [Uploads -> BOOLEAN] /\ answered' \subseteq Digests
        /\ \A u \in Uploads : there'[u] => there[u]
    BY <1>1, <1>13, <2>1 DEF Rename
  <2>4. blob' \in [Digests -> File \cup {NoFile}]
    <3>1. there[req[s].up] =>
            [up |-> req[s].up, gen |-> gens[req[s].up]] \in File
      BY <2>1 DEF TypeOK, File
    <3>2. QED
      BY <1>1, <1>13, <2>1, <3>1 DEF Rename
  <2>5. FileTypes
    BY <1>1, <2>2, <2>3, <2>4 DEF FileTypes
  <2>6. QED
    BY <2>2, <2>5, BecomesType, FileFrame
<1>14. QED
  BY <1>5, <1>6, <1>7, <1>8, <1>9, <1>10, <1>11, <1>12, <1>13 DEF FileStep

LEMMA KillType ==
  ASSUME TypeOK, Kill
  PROVE  TypeOK'
<1>1. req' \in [Slots -> MetaRequest \cup FileRequest \cup {Idle}]
  BY DEF Kill
<1>2. crossed' \subseteq Manifests
  <2>1. \A s \in Slots : req[s].op \in {"scan", "sweep"} => req[s].m \in Manifests
    BY ManifestRequest, SweepRequest
  <2>2. QED
    BY <2>1 DEF Kill, TypeOK
<1>3. loose' \subseteq Manifests
  <2>1. \A s \in Slots : req[s].op \in {"tag", "check", "drop"} => req[s].m \in Manifests
    BY TagRequest, ManifestRequest
  <2>2. QED
    BY <2>1 DEF Kill, TypeOK
<1>4. MetaTypes /\ UNCHANGED fileVars
  BY <1>2, <1>3 DEF Kill, MetaTypes, TypeOK
<1>5. QED
  BY <1>1, <1>4, MetaFrame

LEMMA NextType == TypeOK /\ [Next]_vars => TypeOK'
<1> SUFFICES ASSUME TypeOK, [Next]_vars PROVE TypeOK'
  OBVIOUS
<1>1. CASE Next
  BY <1>1, MetaType, FileType, KillType DEF Next
<1>2. CASE UNCHANGED vars
  BY <1>2 DEF vars, TypeOK
<1>3. QED
  BY <1>1, <1>2

(* The variables of the registry keep their types, and a request in         *)
(* progress has the data of its stage.                                      *)
THEOREM TypeCorrect == Spec => []TypeOK
<1>1. Init => TypeOK
  BY InitType
<1>2. TypeOK /\ [Next]_vars => TypeOK'
  BY NextType
<1>3. QED
  BY <1>1, <1>2, PTL DEF Spec

-----------------------------------------------------------------------------
(* A step of a slot leaves the requests of the others.                      *)
LEMMA BecomesSlots ==
  ASSUME TypeOK, NEW s \in Slots, NEW r, Becomes(s, r)
  PROVE  /\ req'[s] = r
         /\ \A t \in Slots : t # s => req'[t] = req[t]
BY DEF TypeOK, Becomes

DeleteOps == {"untag", "check", "drop", "scan", "sweep"}

(* A slot that works on uploads, before and after, has no part in it.       *)
LEMMA OtherOps ==
  ASSUME TypeOK, TagsInv, UNCHANGED metaVars,
         \A t \in Slots :
            \/ req'[t] = req[t]
            \/ /\ req[t].op \notin DeleteOps \cup {"tag"}
               /\ req'[t].op \notin DeleteOps \cup {"tag"}
  PROVE  TagsInv'
<1>1. \A m : Putting(m)' <=> Putting(m)
  BY DEF Putting, At
<1>2. \A m : Deleting(m)' <=> Deleting(m)
  BY DEF Deleting, DeleteOps
<1>3. \A m : Torn(m)' <=> Torn(m)
  BY DEF Torn, DeleteOps, metaVars
<1>4. \A m : Referring(m)' = Referring(m)
  BY DEF Referring, metaVars
<1>5. \A t \in Slots : req'[t].op \in {"drop", "sweep"} => req'[t] = req[t]
  BY DEF DeleteOps
<1>6. PutsApart' /\ PutsStored'
  BY <1>1, <1>2 DEF TagsInv, PutsApart, PutsStored, metaVars
<1>7. DropsUnreferred'
  BY <1>4, <1>5 DEF TagsInv, DropsUnreferred, At, metaVars
<1>8. SweepsAll'
  BY <1>4, <1>5 DEF TagsInv, SweepsAll, At, metaVars
<1>9. TagsResolve'
  BY <1>3 DEF TagsInv, TagsResolve, Missing, ListedTags, Resolves, metaVars
<1>10. QED
  BY <1>6, <1>7, <1>8, <1>9 DEF TagsInv

LEMMA PutManifestTags ==
  ASSUME TypeOK, TagsInv, NEW s \in Slots, PutManifest(s)
  PROVE  TagsInv'
<1>1. PICK ref \in References, m \in Manifests :
        /\ manifests' = manifests \cup {m}
        /\ Cross(m, Deleting(m))
        /\ Becomes(s, [op |-> "tag", ref |-> ref, m |-> m])
  BY DEF PutManifest
<1>2. req[s].op = "idle"
  BY DEF PutManifest, At
<1>3. tags' = tags /\ crossed \subseteq crossed'
  BY <1>1 DEF PutManifest, Cross
<1>4. /\ req'[s] = [op |-> "tag", ref |-> ref, m |-> m]
      /\ \A t \in Slots : t # s => req'[t] = req[t]
  BY <1>1, BecomesSlots
<1>5. \A k : Putting(k)' => Putting(k) \/ k = m
  BY <1>4 DEF Putting, At
<1>6. \A k : Deleting(k)' <=> Deleting(k)
  BY <1>2, <1>4 DEF Deleting, At, PutManifest
<1>7. PutsApart'
  BY <1>1, <1>3, <1>5, <1>6 DEF TagsInv, PutsApart, Cross
<1>8. PutsStored'
  BY <1>1, <1>3, <1>5 DEF TagsInv, PutsStored
<1>9. DropsUnreferred' /\ SweepsAll'
  BY <1>3, <1>4 DEF TagsInv, DropsUnreferred, SweepsAll, Referring, At
<1>10. TagsResolve'
  <2>1. \A k : Torn(k) => Torn(k)'
    BY <1>2, <1>3, <1>4 DEF Torn
  <2>2. QED
    BY <1>1, <1>3, <2>1 DEF TagsInv, TagsResolve, Missing, ListedTags, Resolves
<1>11. QED
  BY <1>7, <1>8, <1>9, <1>10 DEF TagsInv

LEMMA PutTagTags ==
  ASSUME TypeOK, TagsInv, NEW s \in Slots, PutTag(s)
  PROVE  TagsInv'
<1> DEFINE m == req[s].m
           ref == req[s].ref
<1>1. /\ tags' = [tags EXCEPT ![ref] = m]
      /\ Becomes(s, Idle) /\ manifests' = manifests /\ crossed' = crossed
      /\ req[s].op = "tag"
  BY DEF PutTag, At
<1>2. m \in Manifests /\ ref \in References
  BY <1>1, TagRequest
<1>3. /\ req'[s] = Idle
      /\ \A t \in Slots : t # s => req'[t] = req[t]
  BY <1>1, BecomesSlots
<1>4. Putting(m)
  BY <1>1 DEF Putting, At
<1>5. m \in crossed \/ ~Deleting(m)
  BY <1>2, <1>4 DEF TagsInv, PutsApart
<1>6. m \in crossed \/ m \in manifests
  BY <1>2, <1>4 DEF TagsInv, PutsStored
<1>7. \A k : (Putting(k)' => Putting(k)) /\ (Deleting(k)' <=> Deleting(k))
  BY <1>1, <1>3 DEF Putting, Deleting, At, Idle
<1>8. PutsApart' /\ PutsStored'
  BY <1>1, <1>7 DEF TagsInv, PutsApart, PutsStored
<1>9. \A k : k = m \/ Referring(k)' \subseteq Referring(k)
  BY <1>1, <1>2 DEF Referring, TypeOK
<1>10. \A t \in Slots : req'[t].op \in DeleteOps =>
         req'[t] = req[t] /\ (req[t].m # m \/ m \in crossed)
  BY <1>3, <1>5 DEF Deleting, DeleteOps, Idle
<1>11. DropsUnreferred'
  BY <1>1, <1>9, <1>10 DEF TagsInv, DropsUnreferred, At, DeleteOps
<1>12. SweepsAll'
  BY <1>1, <1>9, <1>10 DEF TagsInv, SweepsAll, At, DeleteOps
<1>13. TagsResolve'
  <2>1. \A k : Torn(k) => Torn(k)'
    BY <1>1, <1>3 DEF Torn
  <2>2. \A r \in References : r # ref => tags'[r] = tags[r]
    BY <1>1, <1>2 DEF TypeOK
  <2>3. tags'[ref] = m
    BY <1>1, <1>2 DEF TypeOK
  <2>4. \A k : k \in crossed => Torn(k)'
    BY <1>1 DEF Torn
  <2>5. QED
    BY <1>1, <1>6, <2>1, <2>2, <2>3, <2>4
       DEF TagsInv, TagsResolve, Missing, ListedTags, Resolves
<1>14. QED
  BY <1>8, <1>11, <1>12, <1>13 DEF TagsInv

(* Removing a tag, whatever it refers to, and going on with a request of    *)
(* the same deletion that does not sweep less, keeps the invariant.         *)
LEMMA UntagTags ==
  ASSUME TypeOK, TagsInv, NEW ref \in References,
         tags' = [tags EXCEPT ![ref] = None], manifests' = manifests, crossed' = crossed,
         \A t \in Slots :
            \/ req'[t] = req[t]
            \/ req[t].op = "untag" /\ req'[t].op = "check" /\ req'[t].m = req[t].m
            \/ /\ req[t].op = "sweep" /\ req'[t].op = "sweep" /\ req'[t].m = req[t].m
               /\ req[t].refs \subseteq req'[t].refs \cup {ref}
  PROVE  TagsInv'
<1>1. \A k : Putting(k)' => Putting(k)
  BY DEF Putting, At, DeleteOps
<1>2. \A k : Deleting(k)' => Deleting(k)
  BY DEF Deleting, DeleteOps
<1>3. PutsApart' /\ PutsStored'
  BY <1>1, <1>2 DEF TagsInv, PutsApart, PutsStored
<1>4. \A k \in Manifests : Referring(k)' = Referring(k) \ {ref}
  BY RegistryAssumption DEF Referring, TypeOK
<1>5. \A t \in Slots : req'[t].op = "drop" => req'[t] = req[t] /\ req[t].m \in Manifests
  BY ManifestRequest
<1>6. DropsUnreferred'
  BY <1>4, <1>5 DEF TagsInv, DropsUnreferred, At
<1>7. \A t \in Slots : req'[t].op = "sweep" =>
         /\ req[t].op = "sweep" /\ req'[t].m = req[t].m /\ req[t].m \in Manifests
         /\ req[t].refs \subseteq req'[t].refs \cup {ref}
  BY SweepRequest
<1>8. SweepsAll'
  BY <1>4, <1>7 DEF TagsInv, SweepsAll, At
<1>9. TagsResolve'
  <2>1. \A k : Torn(k) => Torn(k)'
    BY DEF Torn
  <2>2. \A r \in References : tags'[r] # None => tags'[r] = tags[r]
    BY DEF TypeOK
  <2>3. QED
    BY <2>1, <2>2 DEF TagsInv, TagsResolve, Missing, ListedTags, Resolves
<1>10. QED
  BY <1>3, <1>6, <1>8, <1>9 DEF TagsInv

LEMMA DeleteManifestTags ==
  ASSUME TypeOK, TagsInv, NEW s \in Slots, DeleteManifest(s)
  PROVE  TagsInv'
<1>1. PICK m \in Manifests :
        /\ manifests' = manifests \ {m}
        /\ Cross(m, Putting(m))
        /\ Becomes(s, [op |-> "scan", m |-> m])
  BY DEF DeleteManifest
<1>2. req[s].op = "idle" /\ tags' = tags
  BY DEF DeleteManifest, At
<1>3. /\ req'[s] = [op |-> "scan", m |-> m]
      /\ \A t \in Slots : t # s => req'[t] = req[t]
  BY <1>1, BecomesSlots
<1>4. crossed \subseteq crossed'
  BY <1>1 DEF Cross
<1>5. \A k : Putting(k)' => Putting(k)
  BY <1>3 DEF Putting, At
<1>6. \A k : Deleting(k)' => Deleting(k) \/ k = m
  BY <1>3 DEF Deleting
<1>7. m \in crossed' \/ ~Putting(m)
  BY <1>1 DEF Cross
<1>8. PutsApart'
  BY <1>4, <1>5, <1>6, <1>7 DEF TagsInv, PutsApart
<1>9. PutsStored'
  BY <1>1, <1>4, <1>5, <1>7 DEF TagsInv, PutsStored
<1>10. DropsUnreferred' /\ SweepsAll'
  BY <1>2, <1>3, <1>4 DEF TagsInv, DropsUnreferred, SweepsAll, Referring, At
<1>11. TagsResolve'
  <2>1. \A k : Torn(k) => Torn(k)'
    BY <1>2, <1>3, <1>4 DEF Torn
  <2>2. Torn(m)'
    BY <1>3 DEF Torn
  <2>3. QED
    BY <1>1, <1>2, <2>1, <2>2 DEF TagsInv, TagsResolve, Missing, ListedTags, Resolves
<1>12. QED
  BY <1>8, <1>9, <1>10, <1>11 DEF TagsInv

LEMMA ScanTagsTags ==
  ASSUME TypeOK, TagsInv, NEW s \in Slots, ScanTags(s)
  PROVE  TagsInv'
<1> DEFINE r == [op |-> "sweep", m |-> req[s].m, refs |-> Referring(req[s].m)]
<1>1. Becomes(s, r) /\ UNCHANGED <<metaVars, fileVars>> /\ req[s].op = "scan"
  BY DEF ScanTags, At
<1>2. /\ req'[s] = r
      /\ \A t \in Slots : t # s => req'[t] = req[t]
  <2> HIDE DEF r
  <2> QED BY <1>1, BecomesSlots
<1>3. /\ req'[s].op = "sweep" /\ req'[s].m = req[s].m
      /\ req'[s].refs = Referring(req[s].m)
  BY <1>2
<1> HIDE DEF r
<1>4. \A k : Putting(k)' => Putting(k)
  BY <1>1, <1>2, <1>3 DEF Putting, At
<1>5. \A k : Deleting(k)' => Deleting(k)
  BY <1>1, <1>2, <1>3 DEF Deleting
<1>6. PutsApart' /\ PutsStored'
  BY <1>1, <1>4, <1>5 DEF TagsInv, PutsApart, PutsStored, metaVars
<1>7. \A k : Referring(k)' = Referring(k)
  BY <1>1 DEF Referring, metaVars
<1>8. DropsUnreferred'
  BY <1>1, <1>2, <1>3, <1>7 DEF TagsInv, DropsUnreferred, At, metaVars
<1>9. SweepsAll'
  BY <1>1, <1>2, <1>3, <1>7 DEF TagsInv, SweepsAll, At, metaVars
<1>10. TagsResolve'
  <2>1. \A k : Torn(k) => Torn(k)'
    BY <1>1, <1>2, <1>3 DEF Torn, metaVars
  <2>2. QED
    BY <1>1, <2>1 DEF TagsInv, TagsResolve, Missing, ListedTags, Resolves, metaVars
<1>11. QED
  BY <1>6, <1>8, <1>9, <1>10 DEF TagsInv

LEMMA SweepDoneTags ==
  ASSUME TypeOK, TagsInv, NEW s \in Slots, SweepDone(s)
  PROVE  TagsInv'
<1>1. /\ Becomes(s, Idle) /\ UNCHANGED <<metaVars, fileVars>>
      /\ req[s].op = "sweep" /\ req[s].refs = {}
  BY DEF SweepDone, At
<1>2. /\ req'[s].op = "idle"
      /\ \A t \in Slots : t # s => req'[t] = req[t]
  BY <1>1, BecomesSlots DEF Idle
<1>3. \A k : Putting(k)' => Putting(k)
  BY <1>1, <1>2 DEF Putting, At
<1>4. \A k : Deleting(k)' => Deleting(k)
  BY <1>1, <1>2 DEF Deleting
<1>5. PutsApart' /\ PutsStored'
  BY <1>1, <1>3, <1>4 DEF TagsInv, PutsApart, PutsStored, metaVars
<1>6. \A k : Referring(k)' = Referring(k)
  BY <1>1 DEF Referring, metaVars
<1>7. DropsUnreferred' /\ SweepsAll'
  BY <1>1, <1>2, <1>6 DEF TagsInv, DropsUnreferred, SweepsAll, At, metaVars
<1>8. req[s].m \in crossed \/ Referring(req[s].m) = {}
  BY <1>1 DEF TagsInv, SweepsAll, At
<1>9. TagsResolve'
  <2>1. \A k : Torn(k) => Torn(k)' \/ k = req[s].m
    BY <1>1, <1>2 DEF Torn, metaVars
  <2>2. \A k : k \in crossed => Torn(k)'
    BY <1>1 DEF Torn, metaVars
  <2>3. \A ref \in References : tags[ref] = req[s].m => req[s].m \in crossed
    BY <1>8 DEF Referring
  <2>4. QED
    BY <1>1, <2>1, <2>2, <2>3 DEF TagsInv, TagsResolve, Missing, ListedTags, Resolves, metaVars
<1>10. QED
  BY <1>5, <1>7, <1>9 DEF TagsInv

LEMMA ReadTagTags ==
  ASSUME TypeOK, TagsInv, NEW s \in Slots, ReadTag(s)
  PROVE  TagsInv'
<1>1. PICK ref \in References :
        /\ tags[ref] # None
        /\ Cross(tags[ref], Putting(tags[ref]))
        /\ Becomes(s, [op |-> "untag", ref |-> ref, m |-> tags[ref]])
  BY DEF ReadTag
<1>2. UNCHANGED <<manifests, tags>> /\ req[s].op = "idle" /\ crossed \subseteq crossed'
  BY <1>1 DEF ReadTag, At, Cross
<1>3. /\ req'[s].op = "untag" /\ req'[s].m = tags[ref]
      /\ \A t \in Slots : t # s => req'[t] = req[t]
  BY <1>1, BecomesSlots
<1>4. \A k : Putting(k)' => Putting(k)
  BY <1>2, <1>3 DEF Putting, At
<1>5. \A k : Deleting(k)' => Deleting(k) \/ k = tags[ref]
  BY <1>2, <1>3 DEF Deleting
<1>6. tags[ref] \in crossed' \/ ~Putting(tags[ref])
  BY <1>1 DEF Cross
<1>7. PutsApart' /\ PutsStored'
  BY <1>2, <1>4, <1>5, <1>6 DEF TagsInv, PutsApart, PutsStored
<1>8. DropsUnreferred' /\ SweepsAll'
  BY <1>2, <1>3 DEF TagsInv, DropsUnreferred, SweepsAll, Referring, At
<1>9. TagsResolve'
  <2>1. \A k : Torn(k) => Torn(k)'
    BY <1>2, <1>3 DEF Torn
  <2>2. QED
    BY <1>2, <2>1 DEF TagsInv, TagsResolve, Missing, ListedTags, Resolves
<1>10. QED
  BY <1>7, <1>8, <1>9 DEF TagsInv

LEMMA CheckTagsTags ==
  ASSUME TypeOK, TagsInv, NEW s \in Slots, CheckTags(s)
  PROVE  TagsInv'
<1> DEFINE r == IF Referring(req[s].m) = {}
                THEN [op |-> "drop", m |-> req[s].m] ELSE Idle
<1>1. Becomes(s, r) /\ UNCHANGED <<metaVars, fileVars>> /\ req[s].op = "check"
  BY DEF CheckTags, At
<1>2. /\ req'[s] = r
      /\ \A t \in Slots : t # s => req'[t] = req[t]
  <2> HIDE DEF r
  <2> QED BY <1>1, BecomesSlots
<1>3. \/ req'[s].op = "drop" /\ req'[s].m = req[s].m /\ Referring(req[s].m) = {}
      \/ req'[s].op = "idle"
  BY <1>2 DEF Idle
<1> HIDE DEF r
<1>4. \A k : Putting(k)' => Putting(k)
  BY <1>1, <1>2, <1>3 DEF Putting, At
<1>5. \A k : Deleting(k)' => Deleting(k)
  BY <1>1, <1>2, <1>3 DEF Deleting
<1>6. PutsApart' /\ PutsStored'
  BY <1>1, <1>4, <1>5 DEF TagsInv, PutsApart, PutsStored, metaVars
<1>7. \A k : Referring(k)' = Referring(k)
  BY <1>1 DEF Referring, metaVars
<1>8. DropsUnreferred' /\ SweepsAll'
  BY <1>1, <1>2, <1>3, <1>7 DEF TagsInv, DropsUnreferred, SweepsAll, At, metaVars
<1>9. TagsResolve'
  <2>1. \A k : Torn(k) => Torn(k)'
    BY <1>1, <1>2, <1>3 DEF Torn, metaVars
  <2>2. QED
    BY <1>1, <2>1 DEF TagsInv, TagsResolve, Missing, ListedTags, Resolves, metaVars
<1>10. QED
  BY <1>6, <1>8, <1>9 DEF TagsInv

LEMMA DropManifestTags ==
  ASSUME TypeOK, TagsInv, NEW s \in Slots, DropManifest(s)
  PROVE  TagsInv'
<1>1. /\ manifests' = manifests \ {req[s].m} /\ Becomes(s, Idle)
      /\ UNCHANGED <<tags, crossed, loose, fileVars>> /\ req[s].op = "drop"
  BY DEF DropManifest, At
<1>2. /\ req'[s].op = "idle"
      /\ \A t \in Slots : t # s => req'[t] = req[t]
  BY <1>1, BecomesSlots DEF Idle
<1>3. \A k : (Putting(k)' => Putting(k)) /\ (Deleting(k)' => Deleting(k))
  BY <1>1, <1>2 DEF Putting, Deleting, At
<1>4. Deleting(req[s].m) /\ req[s].m \in Manifests
  BY <1>1, ManifestRequest DEF Deleting
<1>5. req[s].m \in crossed \/ ~Putting(req[s].m)
  BY <1>4 DEF TagsInv, PutsApart
<1>6. PutsApart' /\ PutsStored'
  BY <1>1, <1>3, <1>5 DEF TagsInv, PutsApart, PutsStored
<1>7. DropsUnreferred' /\ SweepsAll'
  BY <1>1, <1>2 DEF TagsInv, DropsUnreferred, SweepsAll, Referring, At
<1>8. TagsResolve'
  <2>1. \A k : Torn(k) => Torn(k)'
    BY <1>1, <1>2 DEF Torn
  <2>2. \A k : k \in crossed => Torn(k)
    BY DEF Torn
  <2>3. \A ref \in References : tags[ref] = req[s].m => req[s].m \in crossed
    BY <1>1 DEF TagsInv, DropsUnreferred, Referring, At
  <2>4. QED
    BY <1>1, <2>1, <2>2, <2>3 DEF TagsInv, TagsResolve, Missing, ListedTags, Resolves
<1>9. QED
  BY <1>6, <1>7, <1>8 DEF TagsInv

LEMMA KillTags ==
  ASSUME TypeOK, TagsInv, Kill
  PROVE  TagsInv'
<1>1. /\ \A t \in Slots : req'[t].op = "idle"
      /\ crossed' = crossed \cup {req[s].m : s \in {t \in Slots : req[t].op \in {"scan", "sweep"}}}
      /\ UNCHANGED <<manifests, tags>>
  BY DEF Kill, Idle
<1>2. \A k : Torn(k) => k \in crossed'
  BY <1>1 DEF Torn
<1>3. \A k : k \in crossed' => Torn(k)'
  BY DEF Torn
<1>4. PutsApart' /\ PutsStored' /\ DropsUnreferred' /\ SweepsAll'
  BY <1>1 DEF PutsApart, PutsStored, DropsUnreferred, SweepsAll, Putting, At
<1>5. TagsResolve'
  BY <1>1, <1>2, <1>3 DEF TagsInv, TagsResolve, Missing, ListedTags, Resolves
<1>6. QED
  BY <1>4, <1>5 DEF TagsInv

LEMMA RemovalTags ==
  ASSUME TypeOK, TagsInv, NEW s \in Slots, DeleteTag(s) \/ SweepTag(s) \/ Untag(s)
  PROVE  TagsInv'
<1>1. CASE DeleteTag(s)
  <2>1. PICK ref \in Tags : tags' = [tags EXCEPT ![ref] = None]
    BY <1>1 DEF DeleteTag
  <2>2. ref \in References
    BY DEF References
  <2>3. UNCHANGED <<manifests, req, crossed>>
    BY <1>1 DEF DeleteTag
  <2>4. QED
    BY <2>1, <2>2, <2>3, UntagTags
<1>2. CASE SweepTag(s)
  <2>1. PICK ref \in req[s].refs :
          /\ tags' = [tags EXCEPT ![ref] = None]
          /\ Becomes(s, [req[s] EXCEPT !.refs = @ \ {ref}])
    BY <1>2 DEF SweepTag
  <2>2. req[s] \in [op : {"sweep"}, m : Manifests, refs : SUBSET References]
    BY <1>2, SweepRequest DEF SweepTag, At
  <2> DEFINE r == [req[s] EXCEPT !.refs = @ \ {ref}]
  <2>3. r.op = "sweep" /\ r.m = req[s].m /\ r.refs = req[s].refs \ {ref}
    BY <2>2
  <2> HIDE DEF r
  <2>4. Becomes(s, r)
    BY <2>1 DEF r
  <2>5. req'[s] = r /\ \A t \in Slots : t # s => req'[t] = req[t]
    BY <2>4, BecomesSlots
  <2>6. UNCHANGED <<manifests, crossed>>
    BY <1>2 DEF SweepTag
  <2>7. ref \in References
    BY <2>1, <2>2
  <2>8. \A t \in Slots :
           \/ req'[t] = req[t]
           \/ /\ req[t].op = "sweep" /\ req'[t].op = "sweep" /\ req'[t].m = req[t].m
              /\ req[t].refs \subseteq req'[t].refs \cup {ref}
    BY <2>2, <2>3, <2>5
  <2>9. QED
    BY <2>1, <2>6, <2>7, <2>8, UntagTags
<1>3. CASE Untag(s)
  <2> DEFINE r == [op |-> "check", m |-> req[s].m]
  <2>1. /\ tags' = [tags EXCEPT ![req[s].ref] = None]
        /\ Becomes(s, r) /\ req[s].op = "untag"
        /\ UNCHANGED <<manifests, crossed>>
    BY <1>3 DEF Untag, At
  <2>2. r.op = "check" /\ r.m = req[s].m
    OBVIOUS
  <2> HIDE DEF r
  <2>3. req'[s] = r /\ \A t \in Slots : t # s => req'[t] = req[t]
    BY <2>1, BecomesSlots
  <2>4. req[s].ref \in References
    BY <2>1, TagRequest
  <2>5. \A t \in Slots :
           \/ req'[t] = req[t]
           \/ req[t].op = "untag" /\ req'[t].op = "check" /\ req'[t].m = req[t].m
    BY <2>1, <2>2, <2>3
  <2>6. QED
    BY <2>1, <2>4, <2>5, UntagTags
<1>4. QED
  BY <1>1, <1>2, <1>3

(* A step of an upload is none of a manifest or of a tag.                   *)
LEMMA FileSteps ==
  ASSUME TypeOK, NEW s \in Slots, FileStep(s)
  PROVE  /\ UNCHANGED metaVars
         /\ \A t \in Slots :
              \/ req'[t] = req[t]
              \/ /\ req[t].op \notin DeleteOps \cup {"tag"}
                 /\ req'[t].op \notin DeleteOps \cup {"tag"}
<1> DEFINE Others == DeleteOps \cup {"tag"}
<1>1. UNCHANGED metaVars
  BY DEF FileStep, StartUpload, OpenPatch, OpenComplete, Write, EndPatch, EndFill, Hash,
     Place, Rename
<1>2. req[s].op \notin Others
  BY DEF FileStep, StartUpload, OpenPatch, OpenComplete, Write, EndPatch, EndFill, Hash,
     Place, Rename, At, DeleteOps
<1>3. req' = req \/ \E r : Becomes(s, r) /\ r.op \notin Others
  <2>1. CASE StartUpload(s)
    BY <2>1 DEF StartUpload
  <2>2. CASE OpenPatch(s)
    <3>1. PICK u, body, gen :
            Becomes(s, [op |-> "patch", up |-> u, gen |-> gen, body |-> body])
      BY <2>2 DEF OpenPatch
    <3>2. QED
      BY <3>1 DEF DeleteOps
  <2>3. CASE OpenComplete(s)
    <3>1. PICK u, body, gen, digest :
            Becomes(s, [op |-> "fill", up |-> u, gen |-> gen, body |-> body,
                        digest |-> digest])
      BY <2>3 DEF OpenComplete
    <3>2. QED
      BY <3>1 DEF DeleteOps
  <2>4. CASE Write(s)
    <3>1. [req[s] EXCEPT !.body = Tail(@)].op = req[s].op
      BY <2>4, PatchRequest, FillRequest DEF Write
    <3>2. QED
      BY <2>4, <3>1, <1>2 DEF Write
  <2>5. CASE EndPatch(s)
    BY <2>5 DEF EndPatch, Idle, DeleteOps
  <2>6. CASE EndFill(s)
    BY <2>6 DEF EndFill, DeleteOps
  <2>7. CASE Hash(s)
    <3>1. [req[s] EXCEPT !.op = "place"].op = "place" /\ Idle.op = "idle"
      BY <2>7, HashRequest DEF Hash, At, Idle
    <3>2. \E r \in {Idle, [req[s] EXCEPT !.op = "place"]} : Becomes(s, r)
      BY <2>7 DEF Hash
    <3>3. QED
      BY <3>1, <3>2 DEF DeleteOps
  <2>8. CASE Place(s)
    <3>1. [req[s] EXCEPT !.op = "rename"].op = "rename" /\ Idle.op = "idle"
      BY <2>8, HashRequest DEF Place, At, Idle
    <3>2. \E r \in {Idle, [req[s] EXCEPT !.op = "rename"]} : Becomes(s, r)
      BY <2>8 DEF Place
    <3>3. QED
      BY <3>1, <3>2 DEF DeleteOps
  <2>9. CASE Rename(s)
    BY <2>9 DEF Rename, Idle, DeleteOps
  <2>10. QED
    BY <2>1, <2>2, <2>3, <2>4, <2>5, <2>6, <2>7, <2>8, <2>9 DEF FileStep
<1>4. \A t \in Slots : req'[t] = req[t] \/ (req[t].op \notin Others /\ req'[t].op \notin Others)
  <2>1. CASE req' = req
    BY <2>1
  <2>2. CASE \E r : Becomes(s, r) /\ r.op \notin Others
    <3>1. PICK r : Becomes(s, r) /\ r.op \notin Others
      BY <2>2
    <3>2. req'[s] = r /\ \A t \in Slots : t # s => req'[t] = req[t]
      BY <3>1, BecomesSlots
    <3>3. QED
      BY <1>2, <3>1, <3>2
  <2>3. QED
    BY <1>3, <2>1, <2>2
<1>5. QED
  BY <1>1, <1>4

LEMMA FileTags ==
  ASSUME TypeOK, TagsInv, NEW s \in Slots, FileStep(s)
  PROVE  TagsInv'
BY FileSteps, OtherOps

(* The tags of a repository can be pulled and listed: TagsInv is inductive,  *)
(* for any manifests, tags, uploads and number of requests at a time.        *)
THEOREM TagsInvariance == Spec => []TagsInv
<1>1. Init => TagsInv
  BY DEF Init, TagsInv, PutsApart, PutsStored, DropsUnreferred, SweepsAll, TagsResolve,
     Missing, ListedTags, Putting, At, Idle
<1>2. TypeOK /\ TagsInv /\ [Next]_vars => TagsInv'
  <2> SUFFICES ASSUME TypeOK, TagsInv, [Next]_vars PROVE TagsInv'
    OBVIOUS
  <2>1. ASSUME NEW s \in Slots, MetaStep(s) PROVE TagsInv'
    BY <2>1, PutManifestTags, PutTagTags, DeleteManifestTags, ScanTagsTags, SweepDoneTags,
       ReadTagTags, CheckTagsTags, DropManifestTags, RemovalTags DEF MetaStep
  <2>2. CASE UNCHANGED vars
    BY <2>2, OtherOps DEF vars, metaVars
  <2>3. QED
    BY <2>1, <2>2, FileTags, KillTags DEF Next
<1>3. QED
  BY <1>1, <1>2, TypeCorrect, PTL DEF Spec

(* A tag that is listed resolves to a manifest, unless its manifest was put  *)
(* while it was deleted or its deletion by digest is under way or was cut.   *)
THEOREM TagsAlwaysResolve == Spec => []TagsResolve
<1>1. TagsInv => TagsResolve
  BY DEF TagsInv
<1>2. QED
  BY <1>1, TagsInvariance, PTL

-----------------------------------------------------------------------------
(* The last tag takes the manifest.                                         *)

(* A step that adds no manifest and takes no tag away, whose requests hold  *)
(* what they held and delete by digest what they deleted, keeps it.         *)
LEMMA SameLast ==
  ASSUME LastTagInv, manifests' \subseteq manifests,
         loose \subseteq loose', crossed \subseteq crossed',
         \A k \in manifests' \ (loose' \cup crossed') :
            \/ Referring(k) \subseteq Referring(k)'
            \/ Referring(k)' # {} \/ Held(k)',
         \A k \in manifests' \ (loose' \cup crossed') :
            Held(k) => Held(k)' \/ Referring(k)' # {},
         \A t \in Slots :
            /\ req'[t].op \in {"scan", "sweep"} /\ req'[t].m \notin crossed'
            => \/ req[t].op \in {"scan", "sweep"} /\ req'[t].m = req[t].m
               \/ req'[t].m \notin manifests'
  PROVE  LastTagInv'
<1>1. UnreferredHeld'
  <2> SUFFICES ASSUME NEW k \in manifests' \ (loose' \cup crossed')
               PROVE  Referring(k)' # {} \/ Held(k)'
    BY DEF UnreferredHeld
  <2>1. Referring(k) # {} \/ Held(k)
    BY DEF LastTagInv, UnreferredHeld
  <2>2. QED
    BY <2>1
<1>2. DeletedGone'
  BY DEF LastTagInv, DeletedGone
<1>3. QED
  BY <1>1, <1>2 DEF LastTagInv

LEMMA PutManifestLast ==
  ASSUME TypeOK, LastTagInv, NEW s \in Slots, PutManifest(s)
  PROVE  LastTagInv'
<1>1. PICK ref \in References, m \in Manifests :
        /\ manifests' = manifests \cup {m}
        /\ Cross(m, Deleting(m))
        /\ Becomes(s, [op |-> "tag", ref |-> ref, m |-> m])
  BY DEF PutManifest
<1>2. req[s].op = "idle" /\ UNCHANGED <<tags, loose>> /\ crossed \subseteq crossed'
  BY <1>1 DEF PutManifest, At, Cross
<1>3. /\ req'[s].op = "tag" /\ req'[s].m = m
      /\ \A t \in Slots : t # s => req'[t] = req[t]
  BY <1>1, BecomesSlots
<1>4. Held(m)' /\ \A k : Held(k) => Held(k)'
  BY <1>2, <1>3 DEF Held
<1>5. \A k : Referring(k)' = Referring(k)
  BY <1>2 DEF Referring
<1>6. UnreferredHeld'
  BY <1>1, <1>2, <1>4, <1>5 DEF LastTagInv, UnreferredHeld
<1>7. Deleting(m) => m \in crossed'
  BY <1>1 DEF Cross
<1>8. DeletedGone'
  <2> SUFFICES ASSUME NEW t \in Slots, req'[t].op \in {"scan", "sweep"},
                      req'[t].m \notin crossed'
               PROVE  req'[t].m \notin manifests'
    BY DEF DeletedGone
  <2>1. t # s /\ req'[t] = req[t]
    BY <1>3
  <2>2. Deleting(req[t].m)
    BY <2>1 DEF Deleting
  <2>3. req[t].m # m
    BY <1>7, <2>1, <2>2
  <2>4. req[t].m \notin manifests
    BY <1>2, <2>1 DEF LastTagInv, DeletedGone
  <2>5. QED
    BY <1>1, <2>1, <2>3, <2>4
<1>9. QED
  BY <1>6, <1>8 DEF LastTagInv

LEMMA PutTagLast ==
  ASSUME TypeOK, LastTagInv, NEW s \in Slots, PutTag(s)
  PROVE  LastTagInv'
<1> PICK m, ref : m = req[s].m /\ ref = req[s].ref
  OBVIOUS
<1>1. /\ tags' = [tags EXCEPT ![ref] = m] /\ Loosen({tags[ref]} \ {m})
      /\ Becomes(s, Idle) /\ UNCHANGED <<manifests, crossed>>
      /\ req[s].op = "tag"
  BY DEF PutTag, At
<1>2. m \in Manifests /\ ref \in References
  BY <1>1, TagRequest
<1>3. /\ req'[s].op = "idle"
      /\ \A t \in Slots : t # s => req'[t] = req[t]
  BY <1>1, BecomesSlots DEF Idle
<1>4. loose \subseteq loose' /\ (tags[ref] \in Manifests \ {m} => tags[ref] \in loose')
  BY <1>1 DEF Loosen
<1>5. ref \in Referring(m)'
  BY <1>1, <1>2 DEF Referring, TypeOK
<1>6. \A k : k # m /\ k # tags[ref] => Referring(k) \subseteq Referring(k)'
  BY <1>1, <1>2 DEF Referring, TypeOK
<1>7. \A k \in manifests' \ (loose' \cup crossed') :
         Referring(k) \subseteq Referring(k)' \/ Referring(k)' # {}
  BY <1>1, <1>4, <1>5, <1>6 DEF TypeOK
<1>8. \A k : Held(k) => Held(k)' \/ Referring(k)' # {}
  BY <1>3, <1>5 DEF Held
<1>9. \A t \in Slots : req'[t].op \in {"scan", "sweep"} => req'[t] = req[t]
  BY <1>3
<1>10. QED
  BY <1>1, <1>4, <1>7, <1>8, <1>9, SameLast

LEMMA DeleteTagLast ==
  ASSUME TypeOK, LastTagInv, NEW s \in Slots, DeleteTag(s)
  PROVE  LastTagInv'
<1>1. PICK ref \in Tags : tags' = [tags EXCEPT ![ref] = None] /\ Loosen({tags[ref]})
  BY DEF DeleteTag
<1>2. UNCHANGED <<manifests, req, crossed>> /\ ref \in References
  BY DEF DeleteTag, References
<1>3. loose \subseteq loose' /\ (tags[ref] \in Manifests => tags[ref] \in loose')
  BY <1>1 DEF Loosen
<1>4. \A k : k # tags[ref] => Referring(k) \subseteq Referring(k)'
  BY <1>1, <1>2 DEF Referring, TypeOK
<1>5. \A k : Held(k)' <=> Held(k)
  BY <1>2 DEF Held
<1>6. \A k \in manifests' \ (loose' \cup crossed') : Referring(k) \subseteq Referring(k)'
  BY <1>2, <1>3, <1>4 DEF TypeOK
<1>7. QED
  BY <1>2, <1>3, <1>5, <1>6, SameLast

LEMMA DeleteManifestLast ==
  ASSUME TypeOK, LastTagInv, NEW s \in Slots, DeleteManifest(s)
  PROVE  LastTagInv'
<1>1. PICK m \in Manifests :
        /\ manifests' = manifests \ {m}
        /\ Cross(m, Putting(m))
        /\ Becomes(s, [op |-> "scan", m |-> m])
  BY DEF DeleteManifest
<1>2. req[s].op = "idle" /\ UNCHANGED <<tags, loose>> /\ crossed \subseteq crossed'
  BY <1>1 DEF DeleteManifest, At, Cross
<1>3. /\ req'[s].m = m
      /\ \A t \in Slots : t # s => req'[t] = req[t]
  BY <1>1, BecomesSlots
<1>4. \A k : Held(k) => Held(k)'
  BY <1>2, <1>3 DEF Held
<1>5. \A k : Referring(k)' = Referring(k)
  BY <1>2 DEF Referring
<1>6. \A t \in Slots : req'[t] = req[t] \/ req'[t].m \notin manifests'
  BY <1>1, <1>3
<1>7. QED
  BY <1>1, <1>2, <1>4, <1>5, <1>6, SameLast

LEMMA ScanTagsLast ==
  ASSUME TypeOK, LastTagInv, NEW s \in Slots, ScanTags(s)
  PROVE  LastTagInv'
<1> DEFINE r == [op |-> "sweep", m |-> req[s].m, refs |-> Referring(req[s].m)]
<1>1. Becomes(s, r) /\ UNCHANGED metaVars /\ req[s].op = "scan"
  BY DEF ScanTags, At
<1>2. r.op = "sweep" /\ r.m = req[s].m
  OBVIOUS
<1> HIDE DEF r
<1>3. req'[s] = r /\ \A t \in Slots : t # s => req'[t] = req[t]
  BY <1>1, BecomesSlots
<1>4. \A k : Held(k)' <=> Held(k)
  BY <1>1, <1>2, <1>3 DEF Held
<1>5. \A k : Referring(k)' = Referring(k)
  BY <1>1 DEF Referring, metaVars
<1>6. \A t \in Slots : req'[t] = req[t] \/ (req[t].op = "scan" /\ req'[t].m = req[t].m)
  BY <1>1, <1>2, <1>3
<1>7. QED
  BY <1>1, <1>4, <1>5, <1>6, SameLast DEF metaVars

LEMMA SweepTagLast ==
  ASSUME TypeOK, LastTagInv, NEW s \in Slots, SweepTag(s)
  PROVE  LastTagInv'
<1> DEFINE m == req[s].m
<1>1. PICK ref \in req[s].refs :
        /\ tags' = [tags EXCEPT ![ref] = None]
        /\ Loosen({tags[ref]} \ {m})
        /\ Becomes(s, [req[s] EXCEPT !.refs = @ \ {ref}])
  BY DEF SweepTag
<1>2. UNCHANGED <<manifests, crossed>> /\ req[s].op = "sweep"
  BY DEF SweepTag, At
<1>3. req[s] \in [op : {"sweep"}, m : Manifests, refs : SUBSET References]
  BY <1>2, SweepRequest
<1>4. ref \in References
  BY <1>1, <1>3
<1> DEFINE r == [req[s] EXCEPT !.refs = @ \ {ref}]
<1>5. r.op = "sweep" /\ r.m = m
  BY <1>3
<1> HIDE DEF r
<1>6. Becomes(s, r)
  BY <1>1 DEF r
<1>7. req'[s] = r /\ \A t \in Slots : t # s => req'[t] = req[t]
  BY <1>6, BecomesSlots
<1>8. loose \subseteq loose' /\ (tags[ref] \in Manifests \ {m} => tags[ref] \in loose')
  BY <1>1 DEF Loosen
<1>9. m \in crossed \/ m \notin manifests
  BY <1>2 DEF LastTagInv, DeletedGone
<1>10. \A k : k # tags[ref] => Referring(k) \subseteq Referring(k)'
  BY <1>1, <1>4 DEF Referring, TypeOK
<1>11. \A k \in manifests' \ (loose' \cup crossed') : Referring(k) \subseteq Referring(k)'
  BY <1>2, <1>8, <1>9, <1>10 DEF TypeOK
<1>12. \A k : Held(k)' <=> Held(k)
  BY <1>2, <1>5, <1>7 DEF Held
<1>13. \A t \in Slots : req'[t].op \in {"scan", "sweep"} =>
          req[t].op \in {"scan", "sweep"} /\ req'[t].m = req[t].m
  BY <1>2, <1>5, <1>7
<1>14. QED
  BY <1>2, <1>8, <1>11, <1>12, <1>13, SameLast

LEMMA UntagLast ==
  ASSUME TypeOK, LastTagInv, NEW s \in Slots, Untag(s)
  PROVE  LastTagInv'
<1> PICK m, ref : m = req[s].m /\ ref = req[s].ref
  OBVIOUS
<1> DEFINE r == [op |-> "check", m |-> m]
<1>1. /\ tags' = [tags EXCEPT ![ref] = None] /\ Loosen({tags[ref]} \ {m})
      /\ Becomes(s, r) /\ req[s].op = "untag" /\ UNCHANGED <<manifests, crossed>>
  BY DEF Untag, At
<1>2. m \in Manifests /\ ref \in References
  BY <1>1, TagRequest
<1>3. r.op = "check" /\ r.m = m
  OBVIOUS
<1> HIDE DEF r
<1>4. req'[s] = r /\ \A t \in Slots : t # s => req'[t] = req[t]
  BY <1>1, BecomesSlots
<1>5. loose \subseteq loose' /\ (tags[ref] \in Manifests \ {m} => tags[ref] \in loose')
  BY <1>1 DEF Loosen
<1>6. Held(m)' /\ \A k : Held(k) => Held(k)'
  BY <1>1, <1>3, <1>4 DEF Held
<1>7. \A k : k # tags[ref] => Referring(k) \subseteq Referring(k)'
  BY <1>1, <1>2 DEF Referring, TypeOK
<1>8. \A k \in manifests' \ (loose' \cup crossed') :
         Referring(k) \subseteq Referring(k)' \/ Held(k)'
  BY <1>1, <1>5, <1>6, <1>7 DEF TypeOK
<1>9. \A t \in Slots : req'[t].op \in {"scan", "sweep"} => req'[t] = req[t]
  BY <1>3, <1>4
<1>10. QED
  BY <1>1, <1>5, <1>6, <1>8, <1>9, SameLast

LEMMA CheckTagsLast ==
  ASSUME TypeOK, LastTagInv, NEW s \in Slots, CheckTags(s)
  PROVE  LastTagInv'
<1> DEFINE m == req[s].m
           r == IF Referring(m) = {} THEN [op |-> "drop", m |-> m] ELSE Idle
<1>1. Becomes(s, r) /\ UNCHANGED metaVars /\ req[s].op = "check"
  BY DEF CheckTags, At
<1>2. (r.op = "drop" /\ r.m = m) \/ (r.op = "idle" /\ Referring(m) # {})
  BY DEF Idle
<1> HIDE DEF r
<1>3. req'[s] = r /\ \A t \in Slots : t # s => req'[t] = req[t]
  BY <1>1, BecomesSlots
<1>4. \A k : Referring(k)' = Referring(k)
  BY <1>1 DEF Referring, metaVars
<1>5. \A k : Held(k) => Held(k)' \/ Referring(k)' # {}
  BY <1>2, <1>3, <1>4 DEF Held
<1>6. \A t \in Slots : req'[t].op \in {"scan", "sweep"} => req'[t] = req[t]
  BY <1>2, <1>3
<1>7. QED
  BY <1>1, <1>4, <1>5, <1>6, SameLast DEF metaVars

(* The other ends and starts of requests: of a sweep, of a read of a tag,   *)
(* of a manifest that is dropped.                                           *)
LEMMA EndsLast ==
  ASSUME TypeOK, LastTagInv, NEW s \in Slots, SweepDone(s) \/ ReadTag(s) \/ DropManifest(s)
  PROVE  LastTagInv'
<1>1. ASSUME SweepDone(s) \/ ReadTag(s)
      PROVE  /\ UNCHANGED <<manifests, tags, loose>> /\ crossed \subseteq crossed'
             /\ req[s].op \in {"sweep", "idle"}
             /\ req'[s].op \in {"untag", "idle"}
             /\ \A t \in Slots : t # s => req'[t] = req[t]
  <2>1. CASE SweepDone(s)
    BY <2>1, BecomesSlots DEF SweepDone, At, Idle, metaVars
  <2>2. CASE ReadTag(s)
    <3>1. PICK ref \in References :
            /\ Cross(tags[ref], Putting(tags[ref]))
            /\ Becomes(s, [op |-> "untag", ref |-> ref, m |-> tags[ref]])
      BY <2>2 DEF ReadTag
    <3>2. req'[s].op = "untag" /\ \A t \in Slots : t # s => req'[t] = req[t]
      BY <3>1, BecomesSlots
    <3>3. QED
      BY <2>2, <3>1, <3>2 DEF ReadTag, At, Cross
  <2>3. QED
    BY <1>1, <2>1, <2>2
<1>2. CASE SweepDone(s) \/ ReadTag(s)
  <2>1. /\ UNCHANGED <<manifests, tags, loose>> /\ crossed \subseteq crossed'
        /\ req[s].op \in {"sweep", "idle"}
        /\ req'[s].op \in {"untag", "idle"}
        /\ \A t \in Slots : t # s => req'[t] = req[t]
    BY <1>1, <1>2
  <2>2. \A k : Held(k) => Held(k)'
    BY <2>1 DEF Held
  <2>3. \A k : Referring(k)' = Referring(k)
    BY <2>1 DEF Referring
  <2>4. QED
    BY <2>1, <2>2, <2>3, SameLast
<1>3. CASE DropManifest(s)
  <2>1. /\ manifests' = manifests \ {req[s].m} /\ Becomes(s, Idle)
        /\ UNCHANGED <<tags, crossed, loose>>
    BY <1>3 DEF DropManifest
  <2>2. /\ req'[s].op = "idle"
        /\ \A t \in Slots : t # s => req'[t] = req[t]
    BY <2>1, BecomesSlots DEF Idle
  <2>3. \A k \in manifests' : Held(k) => Held(k)'
    BY <2>1, <2>2 DEF Held
  <2>4. \A k : Referring(k)' = Referring(k)
    BY <2>1 DEF Referring
  <2>5. \A t \in Slots : req'[t].op \in {"scan", "sweep"} => req'[t] = req[t]
    BY <2>2
  <2>6. QED
    BY <2>1, <2>3, <2>4, <2>5, SameLast
<1>4. QED
  BY <1>2, <1>3

LEMMA KillLast ==
  ASSUME LastTagInv, Kill
  PROVE  LastTagInv'
<1>1. /\ \A t \in Slots : req'[t].op = "idle"
      /\ UNCHANGED <<manifests, tags>>
      /\ crossed \subseteq crossed' /\ loose \subseteq loose'
      /\ \A t \in Slots : req[t].op \in {"tag", "check", "drop"} => req[t].m \in loose'
  BY DEF Kill, Idle
<1>2. \A k : Held(k) => k \in loose'
  BY <1>1 DEF Held
<1>3. \A k : Referring(k)' = Referring(k)
  BY <1>1 DEF Referring
<1>4. QED
  BY <1>1, <1>2, <1>3, SameLast

(* A step that is none of a manifest or of a tag.                           *)
LEMMA OtherLast ==
  ASSUME LastTagInv, UNCHANGED metaVars,
         \A t \in Slots :
            \/ req'[t] = req[t]
            \/ /\ req[t].op \notin DeleteOps \cup {"tag"}
               /\ req'[t].op \notin DeleteOps \cup {"tag"}
  PROVE  LastTagInv'
<1>1. \A k : Held(k)' <=> Held(k)
  BY DEF Held, DeleteOps
<1>2. \A k : Referring(k)' = Referring(k)
  BY DEF Referring, metaVars
<1>3. \A t \in Slots : req'[t].op \in {"scan", "sweep"} => req'[t] = req[t]
  BY DEF DeleteOps
<1>4. QED
  BY <1>1, <1>2, <1>3, SameLast DEF metaVars

(* A manifest without tags is held by a request, and one deleted by digest   *)
(* is gone: inductive, for any manifests, tags and number of requests.       *)
THEOREM LastTagInvariance == Spec => []LastTagInv
<1>1. Init => LastTagInv
  BY DEF Init, LastTagInv, UnreferredHeld, DeletedGone, Idle
<1>2. TypeOK /\ LastTagInv /\ [Next]_vars => LastTagInv'
  <2> SUFFICES ASSUME TypeOK, LastTagInv, [Next]_vars PROVE LastTagInv'
    OBVIOUS
  <2>1. ASSUME NEW s \in Slots, MetaStep(s) PROVE LastTagInv'
    BY <2>1, PutManifestLast, PutTagLast, DeleteTagLast, DeleteManifestLast, ScanTagsLast,
       SweepTagLast, UntagLast, CheckTagsLast, EndsLast DEF MetaStep
  <2>2. ASSUME NEW s \in Slots, FileStep(s) PROVE LastTagInv'
    BY <2>2, FileSteps, OtherLast
  <2>3. CASE UNCHANGED vars
    BY <2>3, OtherLast DEF vars, metaVars
  <2>4. QED
    BY <2>1, <2>2, <2>3, KillLast DEF Next
<1>3. QED
  BY <1>1, <1>2, TypeCorrect, PTL DEF Spec

(* registry_repo_tag_delete_handler: a manifest that no request works on     *)
(* and that lost no tag on purpose has a tag; with its last one it goes.     *)
THEOREM LastTagsTakeManifests == Spec => []LastTagTakesManifest
<1>1. LastTagInv => LastTagTakesManifest
  BY DEF LastTagInv, UnreferredHeld, LastTagTakesManifest, Held, Putting, Deleting, At
<1>2. QED
  BY <1>1, LastTagInvariance, PTL

-----------------------------------------------------------------------------
(* An upload that was answered is stored.                                   *)

(* A step that touches no file and starts no request of an upload.          *)
LEMMA QuietAnswered ==
  ASSUME AnsweredInv, UNCHANGED fileVars,
         \A t \in Slots : req'[t] = req[t] \/ req'[t].op \notin FileOps
  PROVE  AnsweredInv'
<1>1. UploadsApart' /\ OpenIsLast' /\ MatchKept'
  BY DEF AnsweredInv, UploadsApart, OpenIsLast, MatchKept, FileOps, fileVars
<1>2. BlobsClosed' /\ \A d \in answered' : Stored(d)'
  BY DEF AnsweredInv, BlobsClosed, Stored, BlobContent, fileVars
<1>3. QED
  BY <1>1, <1>2 DEF AnsweredInv

(* A step of a slot on an upload that no other slot works on, or is shared. *)
LEMMA UploadStep ==
  ASSUME TypeOK, AnsweredInv, NEW s \in Slots, NEW u \in Uploads,
         shared \subseteq shared',
         \A t \in Slots : t # s => req'[t] = req[t],
         \A w \in Uploads \ {u} :
            gens'[w] = gens[w] /\ there'[w] = there[w] /\ data'[w] = data[w],
         req'[s].op \in FileOps => req'[s].up = u,
         \A t \in Slots \ {s} :
            req[t].op \in FileOps /\ req[t].up = u /\ req'[s].op \in FileOps => u \in shared',
         \A t \in Slots \ {s} :
            req[t].op \in FileOps \ {"hash"} /\ req[t].up = u => u \in shared',
         u \notin shared' =>
            /\ req'[s].op \in {"patch", "fill"} => there'[u] /\ req'[s].gen = gens'[u]
            /\ req'[s].op \in {"place", "rename"}
               => there'[u] /\ data'[u][gens'[u]] = req'[s].digest,
         \A d \in Digests : blob'[d] = blob[d] \/ (blob'[d] # NoFile /\ blob'[d].up = u),
         \A d \in Digests : Stored(d)' /\ blob'[d].up = u /\ u \notin shared' =>
            /\ BlobContent(d)' = d
            /\ blob'[d].gen < gens'[u] \/ (blob'[d].gen = gens'[u] /\ ~there'[u]),
         \A d \in answered' : d \in Digests /\ (d \in answered \/ blob'[d] # NoFile)
  PROVE  AnsweredInv'
<1>1. \A t \in Slots : req[t].op \in FileOps => req[t].up \in Uploads
  BY PatchRequest, FillRequest, HashRequest DEF FileOps
<1>2. UploadsApart'
  <2> SUFFICES ASSUME NEW a \in Slots, NEW b \in Slots, a # b,
                      req'[a].op \in FileOps, req'[b].op \in FileOps,
                      req'[a].up = req'[b].up
               PROVE  req'[a].up \in shared'
    BY DEF UploadsApart
  <2>1. CASE a # s /\ b # s
    BY <2>1 DEF AnsweredInv, UploadsApart
  <2>2. CASE a = s \/ b = s
    BY <2>2
  <2>3. QED
    BY <2>1, <2>2
<1>3. \A t \in Slots : t # s /\ req[t].op \in FileOps \ {"hash"} /\ req[t].up \notin shared'
         => /\ gens'[req[t].up] = gens[req[t].up] /\ there'[req[t].up] = there[req[t].up]
            /\ data'[req[t].up] = data[req[t].up] /\ req[t].up \notin shared
  BY <1>1
<1>4. OpenIsLast'
  <2> SUFFICES ASSUME NEW t \in Slots, req'[t].op \in {"patch", "fill"},
                      req'[t].up \notin shared'
               PROVE  there'[req'[t].up] /\ req'[t].gen = gens'[req'[t].up]
    BY DEF OpenIsLast
  <2>1. CASE t = s
    BY <2>1 DEF FileOps
  <2>2. CASE t # s
    BY <2>2, <1>3 DEF AnsweredInv, OpenIsLast, FileOps
  <2>3. QED
    BY <2>1, <2>2
<1>5. MatchKept'
  <2> SUFFICES ASSUME NEW t \in Slots, req'[t].op \in {"place", "rename"},
                      req'[t].up \notin shared'
               PROVE  /\ there'[req'[t].up]
                      /\ data'[req'[t].up][gens'[req'[t].up]] = req'[t].digest
    BY DEF MatchKept
  <2>1. CASE t = s
    BY <2>1 DEF FileOps
  <2>2. CASE t # s
    BY <2>2, <1>3 DEF AnsweredInv, MatchKept, FileOps
  <2>3. QED
    BY <2>1, <2>2
<1>6. BlobsClosed'
  <2> SUFFICES ASSUME NEW d \in Digests, Stored(d)', blob'[d].up \notin shared'
               PROVE  /\ BlobContent(d)' = d
                      /\ blob'[d].gen < gens'[blob'[d].up]
                           \/ (blob'[d].gen = gens'[blob'[d].up] /\ ~there'[blob'[d].up])
    BY DEF BlobsClosed
  <2>1. CASE blob'[d].up = u
    BY <2>1
  <2>2. CASE blob'[d].up # u
    <3>1. blob'[d] = blob[d] /\ blob[d].up \in Uploads \ {u} /\ Stored(d)
      BY <2>2 DEF Stored, TypeOK, File
    <3>2. blob[d].up \notin shared
      BY <3>1
    <3>3. /\ BlobContent(d) = d
          /\ blob[d].gen < gens[blob[d].up]
               \/ (blob[d].gen = gens[blob[d].up] /\ ~there[blob[d].up])
      BY <3>1, <3>2 DEF AnsweredInv, BlobsClosed
    <3>4. QED
      BY <3>1, <3>3 DEF BlobContent
  <2>3. QED
    BY <2>1, <2>2
<1>7. \A d \in answered' : Stored(d)'
  BY DEF AnsweredInv, Stored
<1>8. QED
  BY <1>2, <1>4, <1>5, <1>6, <1>7 DEF AnsweredInv

LEMMA MetaAnswered ==
  ASSUME TypeOK, AnsweredInv, NEW s \in Slots, MetaStep(s)
  PROVE  AnsweredInv'
<1>1. UNCHANGED fileVars
  BY DEF MetaStep, PutManifest, PutTag, DeleteTag, DeleteManifest, ScanTags, SweepTag,
     SweepDone, ReadTag, Untag, CheckTags, DropManifest
<1>2. req' = req \/ \E r : Becomes(s, r) /\ r.op \notin FileOps
  <2>1. CASE PutManifest(s)
    <3>1. PICK ref, m : Becomes(s, [op |-> "tag", ref |-> ref, m |-> m])
      BY <2>1 DEF PutManifest
    <3>2. QED
      BY <3>1 DEF FileOps
  <2>2. CASE PutTag(s) \/ SweepDone(s) \/ DropManifest(s)
    BY <2>2 DEF PutTag, SweepDone, DropManifest, Idle, FileOps
  <2>3. CASE DeleteTag(s)
    BY <2>3 DEF DeleteTag
  <2>4. CASE DeleteManifest(s)
    <3>1. PICK m : Becomes(s, [op |-> "scan", m |-> m])
      BY <2>4 DEF DeleteManifest
    <3>2. QED
      BY <3>1 DEF FileOps
  <2>5. CASE ScanTags(s)
    BY <2>5 DEF ScanTags, FileOps
  <2>6. CASE SweepTag(s)
    <3>1. PICK ref : Becomes(s, [req[s] EXCEPT !.refs = @ \ {ref}])
      BY <2>6 DEF SweepTag
    <3>2. [req[s] EXCEPT !.refs = @ \ {ref}].op = "sweep"
      BY <2>6, SweepRequest DEF SweepTag, At
    <3>3. QED
      BY <3>1, <3>2 DEF FileOps
  <2>7. CASE ReadTag(s)
    <3>1. PICK ref : Becomes(s, [op |-> "untag", ref |-> ref, m |-> tags[ref]])
      BY <2>7 DEF ReadTag
    <3>2. QED
      BY <3>1 DEF FileOps
  <2>8. CASE Untag(s)
    BY <2>8 DEF Untag, FileOps
  <2>9. CASE CheckTags(s)
    <3>1. \E r \in {[op |-> "drop", m |-> req[s].m], Idle} : Becomes(s, r)
      BY <2>9 DEF CheckTags
    <3>2. QED
      BY <3>1 DEF Idle, FileOps
  <2>10. QED
    BY <2>1, <2>2, <2>3, <2>4, <2>5, <2>6, <2>7, <2>8, <2>9 DEF MetaStep
<1>3. \A t \in Slots : req'[t] = req[t] \/ req'[t].op \notin FileOps
  <2>1. CASE req' = req
    BY <2>1
  <2>2. CASE \E r : Becomes(s, r) /\ r.op \notin FileOps
    <3>1. PICK r : Becomes(s, r) /\ r.op \notin FileOps
      BY <2>2
    <3>2. req'[s] = r /\ \A t \in Slots : t # s => req'[t] = req[t]
      BY <3>1, BecomesSlots
    <3>3. QED
      BY <3>1, <3>2
  <2>3. QED
    BY <1>2, <2>1, <2>2
<1>4. QED
  BY <1>1, <1>3, QuietAnswered

LEMMA StartUploadAnswered ==
  ASSUME TypeOK, AnsweredInv, NEW s \in Slots, StartUpload(s)
  PROVE  AnsweredInv'
<1>1. PICK u \in Uploads : /\ gens[u] = 0
                           /\ gens' = [gens EXCEPT ![u] = 1]
                           /\ there' = [there EXCEPT ![u] = TRUE]
  BY DEF StartUpload
<1>2. req[s].op = "idle" /\ UNCHANGED <<data, blob, req, answered, shared>>
  BY DEF StartUpload, At
<1>3. ~there[u] /\ gens'[u] = 1
  BY <1>1 DEF TypeOK, Gen
<1>4. \A w \in Uploads \ {u} : gens'[w] = gens[w] /\ there'[w] = there[w]
  BY <1>1 DEF TypeOK
<1>5. \A t \in Slots : req[t].op \in FileOps \ {"hash"} /\ req[t].up = u => u \in shared
  BY <1>3 DEF AnsweredInv, OpenIsLast, MatchKept, FileOps
<1>6. \A d \in Digests : Stored(d) /\ blob[d].up = u /\ u \notin shared =>
         BlobContent(d) = d /\ blob[d].gen < 1
  <2> SUFFICES ASSUME NEW d \in Digests, Stored(d), blob[d].up = u, u \notin shared
               PROVE  BlobContent(d) = d /\ blob[d].gen < 1
    OBVIOUS
  <2>1. BlobContent(d) = d /\ (blob[d].gen < 0 \/ blob[d].gen = 0)
    BY <1>1 DEF AnsweredInv, BlobsClosed
  <2>2. blob[d].gen \in Nat
    BY RegistryAssumption DEF Stored, TypeOK, File, Gen
  <2>3. QED
    BY <2>1, <2>2
<1>7. \A d \in Digests : Stored(d)' = Stored(d) /\ BlobContent(d)' = BlobContent(d)
  BY <1>2 DEF Stored, BlobContent
<1>8. \A d \in answered : d \in Digests
  BY DEF TypeOK
<1>9. req'[s].op \notin FileOps
  BY <1>2 DEF FileOps
<1>10. QED
  BY <1>2, <1>3, <1>4, <1>5, <1>6, <1>7, <1>8, <1>9, UploadStep DEF FileOps

(* What a blob, and what the other slots, are for the upload of a slot.     *)
LEMMA BlobOf ==
  ASSUME TypeOK, AnsweredInv, NEW d \in Digests, Stored(d), blob[d].up \notin shared
  PROVE  /\ BlobContent(d) = d /\ blob[d].up \in Uploads /\ blob[d].gen \in Gen
         /\ blob[d].gen < gens[blob[d].up]
              \/ (blob[d].gen = gens[blob[d].up] /\ ~there[blob[d].up])
BY DEF AnsweredInv, BlobsClosed, Stored, TypeOK, File

LEMMA OthersApart ==
  ASSUME AnsweredInv, NEW s \in Slots, req[s].op \in FileOps,
         NEW t \in Slots \ {s}, req[t].op \in FileOps, req[t].up = req[s].up
  PROVE  req[s].up \in shared
BY DEF AnsweredInv, UploadsApart

LEMMA OpenPatchAnswered ==
  ASSUME TypeOK, AnsweredInv, NEW s \in Slots, OpenPatch(s)
  PROVE  AnsweredInv'
<1>1. PICK u \in Uploads, body \in Content \ {<<>>} :
        /\ gens[u] > 0
        /\ LET gen == IF there[u] THEN gens[u] ELSE gens[u] + 1
           IN  /\ gens' = [gens EXCEPT ![u] = gen]
               /\ Becomes(s, [op |-> "patch", up |-> u, gen |-> gen, body |-> body])
        /\ there' = [there EXCEPT ![u] = TRUE]
        /\ Share(u)
  BY DEF OpenPatch
<1>2. PICK gen : gen = IF there[u] THEN gens[u] ELSE gens[u] + 1
  OBVIOUS
<1>3. /\ gens' = [gens EXCEPT ![u] = gen]
      /\ Becomes(s, [op |-> "patch", up |-> u, gen |-> gen, body |-> body])
  BY <1>1, <1>2
<1>4. UNCHANGED <<data, blob, answered>> /\ shared \subseteq shared'
  BY <1>1 DEF OpenPatch, Share
<1>5. /\ req'[s].op = "patch" /\ req'[s].up = u /\ req'[s].gen = gen
      /\ \A t \in Slots : t # s => req'[t] = req[t]
  BY <1>3, BecomesSlots
<1>6. /\ gens'[u] = gen /\ there'[u]
      /\ \A w \in Uploads \ {u} : gens'[w] = gens[w] /\ there'[w] = there[w]
  BY <1>1, <1>3 DEF TypeOK
<1>7. \A t \in Slots : req[t].op \in FileOps /\ req[t].up = u => u \in shared'
  BY <1>1 DEF Share, Uploading
<1>8. \A d \in Digests : Stored(d) /\ blob[d].up = u /\ u \notin shared' =>
         BlobContent(d) = d /\ blob[d].gen < gen
  <2> SUFFICES ASSUME NEW d \in Digests, Stored(d), blob[d].up = u, u \notin shared'
               PROVE  BlobContent(d) = d /\ blob[d].gen < gen
    OBVIOUS
  <2>1. /\ BlobContent(d) = d /\ blob[d].gen \in Gen
        /\ blob[d].gen < gens[u] \/ (blob[d].gen = gens[u] /\ ~there[u])
    BY <1>4, BlobOf
  <2>2. gens[u] \in Nat /\ blob[d].gen \in Nat
    BY <2>1, RegistryAssumption DEF TypeOK, Gen
  <2>3. QED
    BY <1>2, <2>1, <2>2
<1>9. \A d \in Digests : Stored(d)' = Stored(d) /\ BlobContent(d)' = BlobContent(d)
  BY <1>4 DEF Stored, BlobContent
<1>10. \A d \in answered : d \in Digests
  BY DEF TypeOK
<1>11. QED
  BY <1>4, <1>5, <1>6, <1>7, <1>8, <1>9, <1>10, UploadStep

LEMMA OpenCompleteAnswered ==
  ASSUME TypeOK, AnsweredInv, NEW s \in Slots, OpenComplete(s)
  PROVE  AnsweredInv'
<1>1. PICK u \in Uploads, body \in Content, digest \in Digests :
        /\ there[u]
        /\ Becomes(s, [op |-> "fill", up |-> u, gen |-> gens[u], body |-> body,
                       digest |-> digest])
        /\ Share(u)
  BY DEF OpenComplete
<1>2. UNCHANGED <<data, gens, there, blob, answered>> /\ shared \subseteq shared'
  BY <1>1 DEF OpenComplete, Share
<1>3. /\ req'[s].op = "fill" /\ req'[s].up = u /\ req'[s].gen = gens[u]
      /\ \A t \in Slots : t # s => req'[t] = req[t]
  BY <1>1, BecomesSlots
<1>4. \A t \in Slots : req[t].op \in FileOps /\ req[t].up = u => u \in shared'
  BY <1>1 DEF Share, Uploading
<1>5. \A d \in Digests : Stored(d) /\ blob[d].up = u /\ u \notin shared' =>
         /\ BlobContent(d) = d
         /\ blob[d].gen < gens[u] \/ (blob[d].gen = gens[u] /\ ~there[u])
  BY <1>2, BlobOf
<1>6. \A d \in Digests : Stored(d)' = Stored(d) /\ BlobContent(d)' = BlobContent(d)
  BY <1>2 DEF Stored, BlobContent
<1>7. \A d \in answered : d \in Digests
  BY DEF TypeOK
<1>8. QED
  BY <1>1, <1>2, <1>3, <1>4, <1>5, <1>6, <1>7, UploadStep

LEMMA WriteAnswered ==
  ASSUME TypeOK, AnsweredInv, NEW s \in Slots, Write(s)
  PROVE  AnsweredInv'
<1> PICK u, g : u = req[s].up /\ g = req[s].gen
  OBVIOUS
<1> DEFINE r == [req[s] EXCEPT !.body = Tail(@)]
<1>1. /\ req[s].op \in {"patch", "fill"} /\ Becomes(s, r)
      /\ data' = [data EXCEPT ![u][g] = Append(@, Head(req[s].body))]
      /\ UNCHANGED <<gens, there, blob, answered, shared>>
  BY DEF Write
<1>2. u \in Uploads /\ g \in Gen
  BY <1>1, PatchRequest, FillRequest
<1>3. r.op = req[s].op /\ r.up = u /\ r.gen = g
  BY <1>1, PatchRequest, FillRequest
<1> HIDE DEF r
<1>4. req'[s] = r /\ \A t \in Slots : t # s => req'[t] = req[t]
  BY <1>1, BecomesSlots
<1>5. /\ \A w \in Uploads \ {u} : data'[w] = data[w]
      /\ \A h \in Gen \ {g} : data'[u][h] = data[u][h]
  BY <1>1, <1>2 DEF TypeOK
<1>6. u \notin shared => there[u] /\ g = gens[u]
  BY <1>1 DEF AnsweredInv, OpenIsLast
<1>7. \A t \in Slots \ {s} : req[t].op \in FileOps /\ req[t].up = u => u \in shared
  BY <1>1, OthersApart DEF FileOps
<1>8. \A d \in Digests : Stored(d)' /\ blob'[d].up = u /\ u \notin shared' =>
         /\ BlobContent(d)' = d
         /\ blob'[d].gen < gens'[u] \/ (blob'[d].gen = gens'[u] /\ ~there'[u])
  <2> SUFFICES ASSUME NEW d \in Digests, Stored(d)', blob'[d].up = u, u \notin shared'
               PROVE  /\ BlobContent(d)' = d
                      /\ blob'[d].gen < gens'[u] \/ (blob'[d].gen = gens'[u] /\ ~there'[u])
    OBVIOUS
  <2>1. Stored(d) /\ blob[d].up = u /\ u \notin shared /\ blob'[d] = blob[d]
    BY <1>1 DEF Stored
  <2>2. /\ BlobContent(d) = d /\ blob[d].gen \in Gen
        /\ blob[d].gen < gens[u] \/ (blob[d].gen = gens[u] /\ ~there[u])
    BY <2>1, BlobOf
  <2>3. gens[u] \in Nat /\ blob[d].gen \in Nat
    BY <1>2, <2>2, RegistryAssumption DEF TypeOK, Gen
  <2>4. blob[d].gen # g
    BY <1>6, <2>1, <2>2, <2>3
  <2>5. data'[u][blob[d].gen] = data[u][blob[d].gen]
    BY <1>5, <2>2, <2>4
  <2>6. BlobContent(d)' = BlobContent(d)
    BY <2>1, <2>5 DEF BlobContent
  <2>7. QED
    BY <1>1, <2>1, <2>2, <2>6
<1>9. \A w \in Uploads \ {u} :
         gens'[w] = gens[w] /\ there'[w] = there[w] /\ data'[w] = data[w]
  BY <1>1, <1>5
<1>10. u \notin shared' =>
          /\ req'[s].op \in {"patch", "fill"} => there'[u] /\ req'[s].gen = gens'[u]
          /\ req'[s].op \in {"place", "rename"}
             => there'[u] /\ data'[u][gens'[u]] = req'[s].digest
  BY <1>1, <1>3, <1>4, <1>6
<1>11. /\ shared \subseteq shared'
       /\ req'[s].op \in FileOps => req'[s].up = u
       /\ \A t \in Slots : t # s => req'[t] = req[t]
  BY <1>1, <1>3, <1>4
<1>12. /\ \A t \in Slots \ {s} :
             req[t].op \in FileOps /\ req[t].up = u /\ req'[s].op \in FileOps => u \in shared'
       /\ \A t \in Slots \ {s} :
             req[t].op \in FileOps \ {"hash"} /\ req[t].up = u => u \in shared'
  BY <1>1, <1>7
<1>13. \A d \in Digests : blob'[d] = blob[d] \/ (blob'[d] # NoFile /\ blob'[d].up = u)
  BY <1>1
<1>14. \A d \in answered' : d \in Digests /\ (d \in answered \/ blob'[d] # NoFile)
  BY <1>1 DEF TypeOK
<1>15. QED
  BY <1>2, <1>8, <1>9, <1>10, <1>11, <1>12, <1>13, <1>14, UploadStep

(* Steps of a slot that write no data: the upload stays, or goes.           *)
LEMMA CloseStep ==
  ASSUME TypeOK, AnsweredInv, NEW s \in Slots, NEW u \in Uploads,
         req[s].op \in FileOps, u = req[s].up,
         UNCHANGED <<data, gens, shared>>,
         \A t \in Slots : t # s => req'[t] = req[t],
         req'[s].op \in FileOps => req'[s].up = u,
         there'[u] => there[u],
         \A w \in Uploads \ {u} : there'[w] = there[w],
         u \notin shared =>
            /\ req'[s].op \notin {"patch", "fill"}
            /\ req'[s].op \in {"place", "rename"}
               => there'[u] /\ data[u][gens[u]] = req'[s].digest,
         \A d \in Digests :
            \/ blob'[d] = blob[d]
            \/ /\ blob'[d] = [up |-> u, gen |-> gens[u]] /\ gens[u] \in Gen
               /\ ~there'[u] /\ (u \notin shared => data[u][gens[u]] = d),
         \A d \in answered' : d \in Digests /\ (d \in answered \/ blob'[d] # NoFile)
  PROVE  AnsweredInv'
<1>1. \A t \in Slots \ {s} : req[t].op \in FileOps /\ req[t].up = u => u \in shared
  BY OthersApart
<1>2. \A d \in Digests : blob'[d] = blob[d] \/ (blob'[d] # NoFile /\ blob'[d].up = u)
  BY RegistryAssumption DEF NoFile, Gen
<1>3. \A d \in Digests : Stored(d)' /\ blob'[d].up = u /\ u \notin shared' =>
         /\ BlobContent(d)' = d
         /\ blob'[d].gen < gens'[u] \/ (blob'[d].gen = gens'[u] /\ ~there'[u])
  <2> SUFFICES ASSUME NEW d \in Digests, Stored(d)', blob'[d].up = u, u \notin shared'
               PROVE  /\ BlobContent(d)' = d
                      /\ blob'[d].gen < gens'[u] \/ (blob'[d].gen = gens'[u] /\ ~there'[u])
    OBVIOUS
  <2>1. CASE blob'[d] = blob[d]
    <3>1. Stored(d) /\ blob[d].up = u /\ u \notin shared
      BY <2>1 DEF Stored
    <3>2. /\ BlobContent(d) = d
          /\ blob[d].gen < gens[u] \/ (blob[d].gen = gens[u] /\ ~there[u])
      BY <3>1, BlobOf
    <3>3. BlobContent(d)' = BlobContent(d)
      BY <2>1 DEF BlobContent
    <3>4. QED
      BY <2>1, <3>2, <3>3
  <2>2. CASE blob'[d] # blob[d]
    BY <2>2 DEF BlobContent
  <2>3. QED
    BY <2>1, <2>2
<1>4. \A w \in Uploads \ {u} :
         gens'[w] = gens[w] /\ there'[w] = there[w] /\ data'[w] = data[w]
  OBVIOUS
<1>5. u \notin shared' =>
         /\ req'[s].op \in {"patch", "fill"} => there'[u] /\ req'[s].gen = gens'[u]
         /\ req'[s].op \in {"place", "rename"}
            => there'[u] /\ data'[u][gens'[u]] = req'[s].digest
  OBVIOUS
<1>6. \A t \in Slots \ {s} : req[t].op \in FileOps /\ req[t].up = u => u \in shared'
  BY <1>1
<1>7. shared \subseteq shared'
  OBVIOUS
<1>8. QED
  BY <1>2, <1>3, <1>4, <1>5, <1>6, <1>7, UploadStep

LEMMA EndAnswered ==
  ASSUME TypeOK, AnsweredInv, NEW s \in Slots, EndPatch(s) \/ EndFill(s)
  PROVE  AnsweredInv'
<1>1. CASE EndPatch(s)
  <2>1. req'[s].op = "idle" /\ \A t \in Slots : t # s => req'[t] = req[t]
    BY <1>1, BecomesSlots DEF EndPatch, Idle
  <2>2. QED
    BY <1>1, <2>1, QuietAnswered DEF EndPatch, FileOps
<1>2. CASE EndFill(s)
  <2>1. req[s].op = "fill" /\ UNCHANGED fileVars
    BY <1>2 DEF EndFill, At
  <2>2. PICK u : u = req[s].up
    OBVIOUS
  <2>3. u \in Uploads
    BY <2>1, <2>2, FillRequest
  <2> DEFINE r == [op |-> "hash", up |-> req[s].up, digest |-> req[s].digest]
  <2>4. Becomes(s, r) /\ r.op = "hash" /\ r.up = u
    BY <1>2, <2>2 DEF EndFill
  <2> HIDE DEF r
  <2>5. req'[s] = r /\ \A t \in Slots : t # s => req'[t] = req[t]
    BY <2>4, BecomesSlots
  <2>6. \A d \in answered : d \in Digests
    BY DEF TypeOK
  <2>7. QED
    BY <2>1, <2>2, <2>3, <2>4, <2>5, <2>6, CloseStep DEF fileVars, FileOps
<1>3. QED
  BY <1>1, <1>2

LEMMA HashAnswered ==
  ASSUME TypeOK, AnsweredInv, NEW s \in Slots, Hash(s)
  PROVE  AnsweredInv'
<1>1. PICK u, matches : /\ u = req[s].up
                        /\ matches = (there[u] /\ data[u][gens[u]] = req[s].digest)
  OBVIOUS
<1> DEFINE r == IF matches THEN [req[s] EXCEPT !.op = "place"] ELSE Idle
<1>2. /\ there' = [there EXCEPT ![u] = matches] /\ Becomes(s, r)
      /\ UNCHANGED <<data, gens, blob, answered, shared>> /\ req[s].op = "hash"
  BY <1>1 DEF Hash, At
<1>3. u \in Uploads
  BY <1>1, <1>2, HashRequest
<1>4. \/ r.op = "place" /\ r.up = u /\ r.digest = req[s].digest /\ matches
      \/ r.op = "idle"
  BY <1>1, <1>2, HashRequest DEF Idle
<1> HIDE DEF r
<1>5. req'[s] = r /\ \A t \in Slots : t # s => req'[t] = req[t]
  BY <1>2, BecomesSlots
<1>6. there'[u] = matches /\ \A w \in Uploads \ {u} : there'[w] = there[w]
  BY <1>2, <1>3 DEF TypeOK
<1>7. /\ there'[u] => there[u]
      /\ req[s].op \in FileOps
      /\ req'[s].op \in FileOps => req'[s].up = u
  BY <1>1, <1>2, <1>4, <1>5, <1>6 DEF FileOps
<1>8. u \notin shared =>
         /\ req'[s].op \notin {"patch", "fill"}
         /\ req'[s].op \in {"place", "rename"}
            => there'[u] /\ data[u][gens[u]] = req'[s].digest
  BY <1>1, <1>4, <1>5, <1>6
<1>9. \A d \in Digests :
         \/ blob'[d] = blob[d]
         \/ /\ blob'[d] = [up |-> u, gen |-> gens[u]] /\ gens[u] \in Gen
            /\ ~there'[u] /\ (u \notin shared => data[u][gens[u]] = d)
  BY <1>2
<1>10. \A d \in answered' : d \in Digests /\ (d \in answered \/ blob'[d] # NoFile)
  BY <1>2 DEF TypeOK
<1>11. UNCHANGED <<data, gens, shared>> /\ \A t \in Slots : t # s => req'[t] = req[t]
  BY <1>2, <1>5
<1>12. u = req[s].up
  BY <1>1
<1>13. QED
  BY <1>3, <1>6, <1>7, <1>8, <1>9, <1>10, <1>11, <1>12, CloseStep

LEMMA PlaceAnswered ==
  ASSUME TypeOK, AnsweredInv, NEW s \in Slots, Place(s)
  PROVE  AnsweredInv'
<1>1. PICK u, d : u = req[s].up /\ d = req[s].digest
  OBVIOUS
<1>2. req[s].op = "place" /\ UNCHANGED <<data, gens, blob, shared>>
  BY DEF Place, At
<1>3. u \in Uploads /\ d \in Digests
  BY <1>1, <1>2, HashRequest
<1>4. u \notin shared => there[u] /\ data[u][gens[u]] = d
  BY <1>1, <1>2 DEF AnsweredInv, MatchKept
<1>5. \A e \in answered : e \in Digests
  BY DEF TypeOK
<1>6. CASE blob[d] # NoFile
  <2>1. /\ there' = [there EXCEPT ![u] = FALSE] /\ answered' = answered \cup {d}
        /\ Becomes(s, Idle)
    BY <1>1, <1>6 DEF Place
  <2>2. req'[s].op = "idle" /\ \A t \in Slots : t # s => req'[t] = req[t]
    BY <2>1, BecomesSlots DEF Idle
  <2>3. ~there'[u] /\ \A w \in Uploads \ {u} : there'[w] = there[w]
    BY <1>3, <2>1 DEF TypeOK
  <2>4. QED
    BY <1>1, <1>2, <1>3, <1>5, <1>6, <2>1, <2>2, <2>3, CloseStep DEF FileOps
<1>7. CASE blob[d] = NoFile
  <2> DEFINE r == [req[s] EXCEPT !.op = "rename"]
  <2>1. Becomes(s, r) /\ UNCHANGED <<there, answered>>
    BY <1>1, <1>7 DEF Place
  <2>2. r.op = "rename" /\ r.up = u /\ r.digest = d
    BY <1>1, <1>2, HashRequest
  <2> HIDE DEF r
  <2>3. req'[s] = r /\ \A t \in Slots : t # s => req'[t] = req[t]
    BY <2>1, BecomesSlots
  <2>4. QED
    BY <1>1, <1>2, <1>3, <1>4, <1>5, <2>1, <2>2, <2>3, CloseStep DEF FileOps
<1>8. QED
  BY <1>6, <1>7

LEMMA RenameAnswered ==
  ASSUME TypeOK, AnsweredInv, NEW s \in Slots, Rename(s)
  PROVE  AnsweredInv'
<1>1. PICK u, d : u = req[s].up /\ d = req[s].digest
  OBVIOUS
<1>2. /\ req[s].op = "rename" /\ Becomes(s, Idle)
      /\ UNCHANGED <<data, gens, shared>>
  BY DEF Rename, At
<1>3. u \in Uploads /\ d \in Digests
  BY <1>1, <1>2, HashRequest
<1>4. u \notin shared => there[u] /\ data[u][gens[u]] = d
  BY <1>1, <1>2 DEF AnsweredInv, MatchKept
<1>5. \A e \in answered : e \in Digests
  BY DEF TypeOK
<1>6. req'[s].op = "idle" /\ \A t \in Slots : t # s => req'[t] = req[t]
  BY <1>2, BecomesSlots DEF Idle
<1>7. CASE there[u]
  <2>1. /\ blob' = [blob EXCEPT ![d] = [up |-> u, gen |-> gens[u]]]
        /\ there' = [there EXCEPT ![u] = FALSE] /\ answered' = answered \cup {d}
    BY <1>1, <1>7 DEF Rename
  <2>2. gens[u] \in Gen
    BY <1>3, <1>7 DEF TypeOK
  <2>3. /\ blob'[d] = [up |-> u, gen |-> gens[u]]
        /\ \A e \in Digests \ {d} : blob'[e] = blob[e]
    BY <1>3, <2>1 DEF TypeOK
  <2>4. ~there'[u] /\ \A w \in Uploads \ {u} : there'[w] = there[w]
    BY <1>3, <2>1 DEF TypeOK
  <2>5. blob'[d] # NoFile
    BY <2>2, <2>3, RegistryAssumption DEF NoFile, Gen
  <2>6. \A e \in Digests :
           \/ blob'[e] = blob[e]
           \/ /\ blob'[e] = [up |-> u, gen |-> gens[u]] /\ gens[u] \in Gen
              /\ ~there'[u] /\ (u \notin shared => data[u][gens[u]] = e)
    BY <1>4, <2>2, <2>3, <2>4
  <2>7. \A e \in answered' : e \in Digests /\ (e \in answered \/ blob'[e] # NoFile)
    BY <1>3, <1>5, <2>1, <2>5
  <2>8. QED
    BY <1>1, <1>2, <1>3, <1>6, <2>4, <2>6, <2>7, CloseStep DEF FileOps
<1>8. CASE ~there[u]
  <2>1. UNCHANGED <<blob, there, answered>>
    BY <1>1, <1>8 DEF Rename
  <2>2. QED
    BY <1>2, <1>6, <2>1, QuietAnswered DEF fileVars, FileOps
<1>9. QED
  BY <1>7, <1>8

(* The file open is the last of its upload, a digest found stays the one of  *)
(* the upload, and no blob can be opened: inductive, for any contents,       *)
(* uploads and number of requests at a time.                                 *)
THEOREM AnsweredInvariance == Spec => []AnsweredInv
<1>1. Init => AnsweredInv
  BY DEF Init, AnsweredInv, UploadsApart, OpenIsLast, MatchKept, BlobsClosed, Stored,
     Idle, FileOps
<1>2. TypeOK /\ AnsweredInv /\ [Next]_vars => AnsweredInv'
  <2> SUFFICES ASSUME TypeOK, AnsweredInv, [Next]_vars PROVE AnsweredInv'
    OBVIOUS
  <2>1. ASSUME NEW s \in Slots, FileStep(s) PROVE AnsweredInv'
    BY <2>1, StartUploadAnswered, OpenPatchAnswered, OpenCompleteAnswered, WriteAnswered,
       EndAnswered, HashAnswered, PlaceAnswered, RenameAnswered DEF FileStep
  <2>2. CASE Kill
    BY <2>2, QuietAnswered DEF Kill, Idle, FileOps
  <2>3. CASE UNCHANGED vars
    BY <2>3, QuietAnswered DEF vars, fileVars
  <2>4. QED
    BY <2>1, <2>2, <2>3, MetaAnswered DEF Next
<1>3. QED
  BY <1>1, <1>2, TypeCorrect, PTL DEF Spec

(* complete_upload: what was answered is stored, with the content of its     *)
(* digest unless two requests wrote to its upload at the same time.          *)
THEOREM AnsweredUploadsStored == Spec => []AnsweredStored
<1>1. TypeOK /\ AnsweredInv => AnsweredStored
  BY DEF TypeOK, AnsweredInv, BlobsClosed, AnsweredStored
<1>2. QED
  BY <1>1, TypeCorrect, AnsweredInvariance, PTL

=============================================================================
