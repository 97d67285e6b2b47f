------------------------------ MODULE Registry ------------------------------
(***************************************************************************)
(* The OCI registry.  Blobs are files: an upload is started, patched and   *)
(* completed, and is then renamed to its digest.  Manifests and tags are   *)
(* keys of the tree registry_meta, written and deleted through the         *)
(* registry's own routes and through the tag routes of the master's API.   *)
(*                                                                         *)
(* A request takes a step per file operation or access to the tree;        *)
(* requests of several clients, in slots, interleave.  A digest is what    *)
(* was hashed: a content is its own digest, a manifest is its own digest.  *)
(* A kill of the master ends all requests.  What sled has not flushed is   *)
(* lost with it, which is a kill at an earlier moment, since a request     *)
(* flushes before it answers.                                              *)
(***************************************************************************)
EXTENDS Naturals, Sequences

CONSTANTS
    Tags, Manifests,     \* names and digests a manifest is referred to by
    None,                \* none of either
    Uploads,             \* upload ids
    Chunks, MaxLen,      \* contents: at most MaxLen chunks
    MaxGens,             \* bound: files an upload id names in turn
    Slots                \* bound: requests at the same time

ASSUME RegistryAssumption ==
    /\ None \notin Manifests
    /\ MaxLen \in Nat /\ MaxGens \in Nat \ {0}

VARIABLES
    manifests,   \* keys repo:..manifest:..
    tags,        \* keys repo:..tag:.. and the digests in them
    data,        \* content of each file that an upload made
    gens,        \* files made under each upload id
    there,       \* _uploads/<id> exists: it is the last of them
    blob,        \* blobs/sha256/..: the file of each digest
    req,         \* requests in progress
    answered,    \* digests whose upload was answered with 201
    crossed,     \* history: digests put while deleted, or half deleted
    loose,       \* history: manifests that lost a tag and stay on purpose
    shared       \* history: uploads with two requests at a time

vars == <<manifests, tags, data, gens, there, blob, req, answered, crossed, loose, shared>>
metaVars == <<manifests, tags, crossed, loose>>
fileVars == <<data, gens, there, blob, answered, shared>>

NoFile == [up |-> None, gen |-> 0]
References == Tags \cup Manifests
Content == UNION {[1 .. n -> Chunks] : n \in 0 .. MaxLen}
Gen == 1 .. MaxGens
File == [up : Uploads, gen : Gen]
Digests == Content

Idle == [op |-> "idle"]
\* put_manifest after the manifest, registry_repo_tag_delete_handler after
\* each of its accesses, delete_manifest after the manifest.
MetaRequest ==
    [op : {"tag", "untag"}, ref : References, m : Manifests]
    \cup [op : {"check", "drop", "scan"}, m : Manifests]
    \cup [op : {"sweep"}, m : Manifests, refs : SUBSET References]
\* patch_upload, and complete_upload while it writes and after.
FileRequest ==
    [op : {"patch"}, up : Uploads, gen : Gen, body : Content]
    \cup [op : {"fill"}, up : Uploads, gen : Gen, body : Content, digest : Digests]
    \cup [op : {"hash", "place", "rename"}, up : Uploads, digest : Digests]

TypeOK ==
    /\ manifests \subseteq Manifests
    /\ tags \in [References -> Manifests \cup {None}]
    /\ data \in [Uploads -> [Gen -> Content]]
    /\ gens \in [Uploads -> 0 .. MaxGens] /\ there \in [Uploads -> BOOLEAN]
    /\ blob \in [Digests -> File \cup {NoFile}]
    /\ req \in [Slots -> MetaRequest \cup FileRequest \cup {Idle}]
    /\ answered \subseteq Digests
    /\ crossed \subseteq Manifests /\ loose \subseteq Manifests
    /\ shared \subseteq Uploads
    /\ \A u \in Uploads : there[u] => gens[u] \in Gen

Init ==
    /\ manifests = {} /\ tags = [r \in References |-> None]
    /\ data = [u \in Uploads |-> [g \in Gen |-> <<>>]]
    /\ gens = [u \in Uploads |-> 0] /\ there = [u \in Uploads |-> FALSE]
    /\ blob = [d \in Digests |-> NoFile]
    /\ req = [s \in Slots |-> Idle]
    /\ answered = {} /\ crossed = {} /\ loose = {} /\ shared = {}

Becomes(s, r) == req' = [req EXCEPT ![s] = r]
At(s, op) == req[s].op = op

-----------------------------------------------------------------------------
(* Manifests and tags *)

Putting(m) == \E s \in Slots : At(s, "tag") /\ req[s].m = m
Deleting(m) ==
    \E s \in Slots : req[s].op \in {"untag", "check", "drop", "scan", "sweep"} /\ req[s].m = m

Cross(m, met) == crossed' = IF met THEN crossed \cup {m} ELSE crossed
\* Tags are removed or moved whose manifests are not looked after.
Loosen(ms) == loose' = loose \cup (ms \cap Manifests)

\* put_manifest: the manifest, ...
PutManifest(s) ==
    /\ At(s, "idle")
    /\ \E ref \in References, m \in Manifests :
         /\ manifests' = manifests \cup {m}
         /\ Cross(m, Deleting(m))
         /\ Becomes(s, [op |-> "tag", ref |-> ref, m |-> m])
    /\ UNCHANGED <<tags, loose, fileVars>>

\* ... and what it is referred to by.
PutTag(s) ==
    /\ At(s, "tag")
    /\ tags' = [tags EXCEPT ![req[s].ref] = req[s].m]
    /\ Loosen({tags[req[s].ref]} \ {req[s].m})
    /\ Becomes(s, Idle)
    /\ UNCHANGED <<manifests, crossed, fileVars>>

\* delete_manifest with a tag.
DeleteTag(s) ==
    /\ At(s, "idle")
    /\ \E ref \in Tags :
         /\ tags' = [tags EXCEPT ![ref] = None]
         /\ Loosen({tags[ref]})
    /\ UNCHANGED <<manifests, req, crossed, fileVars>>

\* delete_manifest with a digest: the manifest, ...
DeleteManifest(s) ==
    /\ At(s, "idle")
    /\ \E m \in Manifests :
         /\ manifests' = manifests \ {m}
         /\ Cross(m, Putting(m))
         /\ Becomes(s, [op |-> "scan", m |-> m])
    /\ UNCHANGED <<tags, loose, fileVars>>

Referring(m) == {ref \in References : tags[ref] = m}

\* Mutant: the tags are not looked for.
ScanTagsNot(s) ==
    /\ At(s, "scan")
    /\ Becomes(s, Idle)
    /\ UNCHANGED <<metaVars, fileVars>>

\* ... a list of the tags with the digest, ...
ScanTags(s) ==
    /\ At(s, "scan")
    /\ Becomes(s, [op |-> "sweep", m |-> req[s].m, refs |-> Referring(req[s].m)])
    /\ UNCHANGED <<metaVars, fileVars>>

\* ... each of which is removed, whatever it refers to by then.
SweepTag(s) ==
    /\ At(s, "sweep")
    /\ \E ref \in req[s].refs :
         /\ tags' = [tags EXCEPT ![ref] = None]
         /\ Loosen({tags[ref]} \ {req[s].m})
         /\ Becomes(s, [req[s] EXCEPT !.refs = @ \ {ref}])
    /\ UNCHANGED <<manifests, crossed, fileVars>>

SweepDone(s) ==
    /\ At(s, "sweep") /\ req[s].refs = {}
    /\ Becomes(s, Idle)
    /\ UNCHANGED <<metaVars, fileVars>>

\* registry_repo_tag_delete_handler: the digest of the tag is read, ...
ReadTag(s) ==
    /\ At(s, "idle")
    /\ \E ref \in References :
         /\ tags[ref] # None
         /\ Cross(tags[ref], Putting(tags[ref]))
         /\ Becomes(s, [op |-> "untag", ref |-> ref, m |-> tags[ref]])
    /\ UNCHANGED <<manifests, tags, loose, fileVars>>

\* ... the tag is removed, with the digest it has by then, ...
Untag(s) ==
    /\ At(s, "untag")
    /\ tags' = [tags EXCEPT ![req[s].ref] = None]
    /\ Loosen({tags[req[s].ref]} \ {req[s].m})
    /\ Becomes(s, [op |-> "check", m |-> req[s].m])
    /\ UNCHANGED <<manifests, crossed, fileVars>>

\* Mutant: any other tag keeps the manifest.
CheckTagsAny(s) ==
    /\ At(s, "check")
    /\ Becomes(s, IF \A ref \in References : tags[ref] = None
                  THEN [op |-> "drop", m |-> req[s].m] ELSE Idle)
    /\ UNCHANGED <<metaVars, fileVars>>

\* ... other tags of the digest are looked for ...
CheckTags(s) ==
    /\ At(s, "check")
    /\ Becomes(s, IF Referring(req[s].m) = {}
                  THEN [op |-> "drop", m |-> req[s].m] ELSE Idle)
    /\ UNCHANGED <<metaVars, fileVars>>

\* ... and without any the manifest is removed.
DropManifest(s) ==
    /\ At(s, "drop")
    /\ manifests' = manifests \ {req[s].m}
    /\ Becomes(s, Idle)
    /\ UNCHANGED <<tags, crossed, loose, fileVars>>

MetaStep(s) ==
    \/ PutManifest(s) \/ PutTag(s)
    \/ DeleteTag(s) \/ DeleteManifest(s) \/ ScanTags(s) \/ SweepTag(s) \/ SweepDone(s)
    \/ ReadTag(s) \/ Untag(s) \/ CheckTags(s) \/ DropManifest(s)

-----------------------------------------------------------------------------
(* Uploads *)

FileOps == {"patch", "fill", "hash", "place", "rename"}
Uploading(u) == \E s \in Slots : req[s].op \in FileOps /\ req[s].up = u
Share(u) == shared' = IF Uploading(u) THEN shared \cup {u} ELSE shared

\* start_upload: an empty file under a new id.
StartUpload(s) ==
    /\ At(s, "idle")
    /\ \E u \in Uploads :
         /\ gens[u] = 0
         /\ gens' = [gens EXCEPT ![u] = 1]
         /\ there' = [there EXCEPT ![u] = TRUE]
    /\ UNCHANGED <<data, blob, req, answered, shared, metaVars>>

\* patch_upload opens the file, or makes one.
OpenPatch(s) ==
    /\ At(s, "idle")
    /\ \E u \in Uploads, body \in Content \ {<<>>} :
         /\ gens[u] > 0 /\ (there[u] \/ gens[u] < MaxGens)
         /\ LET gen == IF there[u] THEN gens[u] ELSE gens[u] + 1
            IN  /\ gens' = [gens EXCEPT ![u] = gen]
                /\ Becomes(s, [op |-> "patch", up |-> u, gen |-> gen, body |-> body])
         /\ there' = [there EXCEPT ![u] = TRUE]
         /\ Share(u)
    /\ UNCHANGED <<data, blob, answered, metaVars>>

\* complete_upload opens the file; without one it answers 404.
OpenComplete(s) ==
    /\ At(s, "idle")
    /\ \E u \in Uploads, body \in Content, digest \in Digests :
         /\ there[u]
         /\ Becomes(s, [op |-> "fill", up |-> u, gen |-> gens[u], body |-> body,
                        digest |-> digest])
         /\ Share(u)
    /\ UNCHANGED <<data, gens, there, blob, answered, metaVars>>

\* A frame of the body is appended to the open file, wherever it is by now.
Write(s) ==
    /\ req[s].op \in {"patch", "fill"} /\ req[s].body # <<>>
    /\ LET u == req[s].up
           g == req[s].gen
       IN  /\ Len(data[u][g]) < MaxLen
           /\ data' = [data EXCEPT ![u][g] = Append(@, Head(req[s].body))]
    /\ Becomes(s, [req[s] EXCEPT !.body = Tail(@)])
    /\ UNCHANGED <<gens, there, blob, answered, shared, metaVars>>

\* The body of a patch is written, or the client goes away.
EndPatch(s) ==
    /\ At(s, "patch") \/ (At(s, "fill") /\ req[s].body # <<>>)
    /\ Becomes(s, Idle)
    /\ UNCHANGED <<metaVars, fileVars>>

\* The body of complete_upload is written.
EndFill(s) ==
    /\ At(s, "fill") /\ req[s].body = <<>>
    /\ Becomes(s, [op |-> "hash", up |-> req[s].up, digest |-> req[s].digest])
    /\ UNCHANGED <<metaVars, fileVars>>

\* Mutant: the digest the client gives is believed.
HashBelieved(s) ==
    /\ At(s, "hash")
    /\ Becomes(s, [req[s] EXCEPT !.op = "place"])
    /\ UNCHANGED <<metaVars, fileVars>>

\* sha256_file: the file of the upload is read; a wrong one is removed.
Hash(s) ==
    /\ At(s, "hash")
    /\ LET u == req[s].up
           matches == there[u] /\ data[u][gens[u]] = req[s].digest
       IN  /\ there' = [there EXCEPT ![u] = matches]
           /\ Becomes(s, IF matches THEN [req[s] EXCEPT !.op = "place"] ELSE Idle)
    /\ UNCHANGED <<data, gens, blob, answered, shared, metaVars>>

\* A blob that exists is kept, and the upload removed.
Place(s) ==
    /\ At(s, "place")
    /\ LET u == req[s].up
           d == req[s].digest
       IN  \/ /\ blob[d] # NoFile
              /\ there' = [there EXCEPT ![u] = FALSE]
              /\ answered' = answered \cup {d}
              /\ Becomes(s, Idle)
           \/ /\ blob[d] = NoFile
              /\ Becomes(s, [req[s] EXCEPT !.op = "rename"])
              /\ UNCHANGED <<there, answered>>
    /\ UNCHANGED <<data, gens, blob, shared, metaVars>>

\* The upload becomes the blob; it is an error if it has gone.
Rename(s) ==
    /\ At(s, "rename")
    /\ LET u == req[s].up
           d == req[s].digest
       IN  \/ /\ there[u]
              /\ blob' = [blob EXCEPT ![d] = [up |-> u, gen |-> gens[u]]]
              /\ there' = [there EXCEPT ![u] = FALSE]
              /\ answered' = answered \cup {d}
           \/ ~there[u] /\ UNCHANGED <<blob, there, answered>>
    /\ Becomes(s, Idle)
    /\ UNCHANGED <<data, gens, shared, metaVars>>

FileStep(s) ==
    \/ StartUpload(s) \/ OpenPatch(s) \/ OpenComplete(s)
    \/ Write(s) \/ EndPatch(s) \/ EndFill(s)
    \/ Hash(s) \/ Place(s) \/ Rename(s)

-----------------------------------------------------------------------------
\* The master is killed: what was in progress stays half done.
Kill ==
    /\ \E s \in Slots : req[s] # Idle
    /\ req' = [s \in Slots |-> Idle]
    /\ crossed' = crossed \cup {req[s].m : s \in {t \in Slots : req[t].op \in {"scan", "sweep"}}}
    /\ loose' = loose \cup {req[s].m : s \in {t \in Slots : req[t].op \in {"tag", "check", "drop"}}}
    /\ UNCHANGED <<manifests, tags, fileVars>>

Next ==
    \/ \E s \in Slots : MetaStep(s)
    \/ \E s \in Slots : FileStep(s)
    \/ Kill

Spec == Init /\ [][Next]_vars

-----------------------------------------------------------------------------
\* Reading.  tags_list shows the tags, resolve_manifest finds the manifest of
\* one, and registry_repo_tags_handler fails for all if one has none.
ListedTags == {ref \in References : tags[ref] # None}
Resolves(ref) == tags[ref] \in manifests
Missing == {ref \in ListedTags : ~Resolves(ref)}
\* head_blob and get_blob: what is under a digest, if anything.
Stored(d) == blob[d] # NoFile
BlobContent(d) == data[blob[d].up][blob[d].gen]

\* Manifests that may be referred to and not be stored.
Torn(m) ==
    \/ m \in crossed
    \/ \E s \in Slots : req[s].op \in {"scan", "sweep"} /\ req[s].m = m

(* put_manifest, delete_manifest, registry_repo_tag_delete_handler: the     *)
(* tags of a repository can be listed and pulled, in every interleaving of  *)
(* the routes and after a kill at any step, but for two cases: a manifest   *)
(* is put while it is deleted, or its deletion by digest is under way or    *)
(* was cut by a kill.                                                       *)
TagsResolve == \A ref \in Missing : Torn(tags[ref])

\* The strengthening of TagsResolve, for manifests that are not crossed.  A
\* put meets no deletion; the manifest of a put is there until its tag is; a
\* manifest that will be dropped has no tags; a sweep has all tags it leaves.
PutsApart == \A m \in Manifests \ crossed : ~(Putting(m) /\ Deleting(m))
PutsStored == \A m \in Manifests \ crossed : Putting(m) => m \in manifests
DropsUnreferred ==
    \A s \in Slots : At(s, "drop") /\ req[s].m \notin crossed => Referring(req[s].m) = {}
SweepsAll ==
    \A s \in Slots : At(s, "sweep") /\ req[s].m \notin crossed
                        => Referring(req[s].m) \subseteq req[s].refs

TagsInv == PutsApart /\ PutsStored /\ DropsUnreferred /\ SweepsAll /\ TagsResolve

(* registry_repo_tag_delete_handler: when the last tag of a manifest is     *)
(* deleted the manifest goes too, also when its tags are deleted at the     *)
(* same time; no request can then be left that finds it unreferenced.       *)
LastTagTakesManifest ==
    \A m \in manifests \ (loose \cup crossed) :
        ~Putting(m) /\ ~Deleting(m) => Referring(m) # {}

\* The strengthening of LastTagTakesManifest.  A manifest without tags is held
\* by a request that will refer to it, or will find it unreferenced; a deletion
\* by digest has removed its manifest.
Held(m) == \E s \in Slots : req[s].op \in {"tag", "check", "drop"} /\ req[s].m = m
UnreferredHeld ==
    \A m \in manifests \ (loose \cup crossed) : Referring(m) # {} \/ Held(m)
DeletedGone ==
    \A s \in Slots : req[s].op \in {"scan", "sweep"} /\ req[s].m \notin crossed
                        => req[s].m \notin manifests

LastTagInv == UnreferredHeld /\ DeletedGone

(* complete_upload: an upload that was answered is stored under its digest, *)
(* with that content, whatever other uploads, kills and clients that go     *)
(* away do, unless two requests wrote to the upload at the same time.       *)
AnsweredStored ==
    \A d \in answered :
        Stored(d) /\ (blob[d].up \notin shared => BlobContent(d) = d)

\* The strengthening of AnsweredStored, for uploads with a request at a time.
\* The file open is the last of its upload, a digest found holds until the
\* upload is moved, and a blob is no file that can be opened.
UploadsApart ==
    \A s, t \in Slots :
        /\ req[s].op \in FileOps /\ req[t].op \in FileOps
        /\ s # t /\ req[s].up = req[t].up
        => req[s].up \in shared
OpenIsLast ==
    \A s \in Slots :
        req[s].op \in {"patch", "fill"} /\ req[s].up \notin shared
        => there[req[s].up] /\ req[s].gen = gens[req[s].up]
MatchKept ==
    \A s \in Slots :
        req[s].op \in {"place", "rename"} /\ req[s].up \notin shared
        => there[req[s].up] /\ data[req[s].up][gens[req[s].up]] = req[s].digest
BlobsClosed ==
    \A d \in Digests :
        Stored(d) /\ blob[d].up \notin shared =>
            /\ BlobContent(d) = d
            /\ blob[d].gen < gens[blob[d].up]
                 \/ (blob[d].gen = gens[blob[d].up] /\ ~there[blob[d].up])

AnsweredInv ==
    /\ UploadsApart /\ OpenIsLast /\ MatchKept /\ BlobsClosed
    /\ \A d \in answered : Stored(d)
=============================================================================
