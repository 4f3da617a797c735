------------------------------ MODULE PageCache ------------------------------
(***************************************************************************)
(* The durable page cache of one cache identity (cache namespace, source   *)
(* hash, pipeline revision): a manifest on disk that points at immutable,  *)
(* content-addressed objects.  The Go API reads it, and rewrites it for a  *)
(* metadata edit (handlers.go handlePatchCacheMetaByHash, cache.go         *)
(* UpdateMetadataBySourceHash); every Python worker rewrites it when a job *)
(* ends (page_cache.py store_page).  No lock is shared by the writers, so  *)
(* a step below is one file-system call or one Redis command.              *)
(*                                                                         *)
(* Data is abstracted to what the properties compare.  A metadata document *)
(* is the text it shows plus a flag saying whether the layout fields were  *)
(* measured by a renderer; its content hash is the document itself.  A     *)
(* rendered image is named by the text drawn in it.  The source image and  *)
(* the cleanup base are one object each.  The job queue is two counters.   *)
(***************************************************************************)
EXTENDS Integers, FiniteSets

CONSTANTS
    MachineText,   \* texts a full pipeline run can produce
    EditText,      \* texts a reader can type into an edit
    Editors,       \* concurrent PATCH requests in the API
    Workers,       \* worker processes
    NoDoc,         \* "no document": an omitted base_content_hash
    Rerenderable,  \* FALSE for book_furigana pages, TRUE for the other pipelines
    MaxPosts,      \* bound: page submissions that reach the queue
    MaxEdits,      \* bound: accepted PATCH requests
    MaxFaults      \* bound: crashes, Redis failures and failed jobs

Text == MachineText \cup EditText
Doc  == [text: Text, measured: BOOLEAN]

ASSUME PageCacheAssumption ==
    /\ NoDoc \notin Doc
    /\ IsFiniteSet(Workers)
    /\ Rerenderable \in BOOLEAN
    /\ MaxPosts \in Nat /\ MaxEdits \in Nat /\ MaxFaults \in Nat

VARIABLES
    source,     \* status of the source image object
    base,       \* status of the cleanup base object
    image,      \* image[t]: status of the rendered image showing t
    metadata,   \* metadata[d]: status of the canonical document d
    manifest,   \* manifest.json
    editor,     \* editor[e]: a PATCH request in the API
    worker,     \* worker[w]: the job a worker process is on
    queued,     \* queued[k]: jobs of kind k waiting in Redis
    posts, edits, faults,   \* counters for the bounds
    abandoned   \* history: a rerender was lost to a fault

objects == <<source, base, image, metadata>>
bounds  == <<posts, edits, faults>>
vars    == <<objects, manifest, editor, worker, queued, bounds, abandoned>>

(***************************************************************************)
(* "volatile" is written without fsync (Go), "durable" with it (Python),   *)
(* "corrupt" is a file whose bytes no longer hash to its name.             *)
(***************************************************************************)
Status   == {"absent", "volatile", "durable", "corrupt"}
Intact(s) == s \in {"volatile", "durable"}

(* StoreObject and _store_object: an intact file is left as it is, and not *)
(* synced again; an absent one is written.  A corrupt one is an error.     *)
Stored(s, written) == IF s = "absent" THEN written ELSE s

NoManifest == [present |-> FALSE]
Garbage    == [present |-> FALSE, garbage |-> TRUE]
ManifestOf(d, t, stale, synced) ==
    [present |-> TRUE, doc |-> d, img |-> t, stale |-> stale, synced |-> synced]
Manifests  ==
    [present: {TRUE}, doc: Doc, img: Text, stale: BOOLEAN, synced: BOOLEAN]

Kinds == {"normal", "rerender"}

EditorStates ==
    [pc: {"idle"}, seen: Doc \cup {NoDoc}] \cup
    [pc: {"loaded", "stored", "written"}, seen: Doc \cup {NoDoc},
     base: Doc \cup {NoDoc}, new: Doc, copy: Manifests]
WorkerStates ==
    [pc: {"idle"}] \cup
    [pc: {"base", "source", "image", "meta", "manifest", "ack"}, kind: Kinds, out: Doc]

IdleEditor == [pc |-> "idle", seen |-> NoDoc]
IdleWorker == [pc |-> "idle"]

(* The step a worker takes after storing each object, in store_page's order.*)
NextStepSkipsMetadata == [base |-> "source", source |-> "image",
                          image |-> "manifest", meta |-> "manifest"]

NextStep == [base |-> "source", source |-> "image",
             image |-> "meta", meta |-> "manifest"]

TypeOK ==
    /\ source \in Status /\ base \in Status
    /\ image \in [Text -> Status] /\ metadata \in [Doc -> Status]
    /\ manifest \in Manifests \cup {NoManifest, Garbage}
    /\ editor \in [Editors -> EditorStates]
    /\ worker \in [Workers -> WorkerStates]
    /\ queued \in [Kinds -> Nat]
    /\ posts \in Nat /\ edits \in Nat /\ faults \in Nat
    /\ abandoned \in BOOLEAN

Init ==
    /\ source = "absent" /\ base = "absent"
    /\ image = [t \in Text |-> "absent"]
    /\ metadata = [d \in Doc |-> "absent"]
    /\ manifest = NoManifest
    /\ editor = [e \in Editors |-> IdleEditor]
    /\ worker = [w \in Workers |-> IdleWorker]
    /\ queued = [k \in Kinds |-> 0]
    /\ posts = 0 /\ edits = 0 /\ faults = 0
    /\ abandoned = FALSE

-----------------------------------------------------------------------------
(* Reads.  Objects are immutable, so a read that loads the manifest and    *)
(* then an object sees what one step over both would see.                  *)

LookupImage    == manifest.present /\ Intact(image[manifest.img]) /\ ~manifest.stale
LookupMetadata == manifest.present /\ Intact(metadata[manifest.doc])
LookupSource   == manifest.present /\ Intact(source)

(* serveMetadataByHash answering an editor from disk: the content_hash it  *)
(* returns is the one a later PATCH may carry.                             *)
ReadMetadata(e) ==
    /\ editor[e].pc = "idle" /\ edits < MaxEdits
    /\ LookupMetadata
    /\ editor[e].seen # manifest.doc
    /\ editor' = [editor EXCEPT ![e].seen = manifest.doc]
    /\ UNCHANGED <<objects, manifest, worker, queued, bounds, abandoned>>

(* handleCreateJob for this page: the source object is stored before       *)
(* anything else, and the page is queued unless the image is served from   *)
(* the cache; force skips the lookup.                                      *)
PostPage(force) ==
    /\ posts < MaxPosts
    /\ source' = Stored(source, "volatile")
    /\ force \/ ~LookupImage
    /\ queued' = [queued EXCEPT !["normal"] = @ + 1]
    /\ posts' = posts + 1
    /\ UNCHANGED <<base, image, metadata, manifest, editor, worker, edits, faults, abandoned>>

-----------------------------------------------------------------------------
(* PATCH .../meta, one action per file-system call.                        *)

(* Load the manifest, check the optimistic-concurrency base, and check     *)
(* that the artifacts the document refers to are readable.                 *)
PatchLoad(e, t, b) ==
    /\ editor[e].pc = "idle" /\ edits < MaxEdits
    /\ manifest.present
    /\ b \in {NoDoc, editor[e].seen}
    /\ b = NoDoc \/ b = manifest.doc
    /\ Intact(base)
    /\ edits' = edits + 1
    /\ editor' = [editor EXCEPT ![e] =
          [pc |-> "loaded", seen |-> @.seen, base |-> b,
           new |-> [text |-> t, measured |-> FALSE], copy |-> manifest]]
    /\ UNCHANGED <<objects, manifest, worker, queued, posts, faults, abandoned>>

PatchStore(e) ==
    /\ editor[e].pc = "loaded"
    /\ LET d == editor[e].new IN
       \/ /\ metadata[d] # "corrupt"
          /\ metadata' = [metadata EXCEPT ![d] = Stored(@, "volatile")]
          /\ editor' = [editor EXCEPT ![e].pc = "stored"]
       \/ /\ metadata[d] = "corrupt"     \* "existing object corrupted": HTTP 500
          /\ editor' = [editor EXCEPT ![e] = [pc |-> "idle", seen |-> @.seen]]
          /\ UNCHANGED metadata
    /\ UNCHANGED <<source, base, image, manifest, worker, queued, bounds, abandoned>>

(* The manifest written is the copy read by PatchLoad, re-pointed.         *)
EditedManifestStaysFresh(e) ==
    ManifestOf(editor[e].new, editor[e].copy.img, editor[e].copy.stale, FALSE)

EditedManifest(e) ==
    ManifestOf(editor[e].new, editor[e].copy.img, TRUE, FALSE)

PatchWrite(e) ==
    /\ editor[e].pc = "stored"
    /\ manifest' = EditedManifest(e)
    /\ editor' = [editor EXCEPT ![e].pc = "written"]
    /\ UNCHANGED <<objects, worker, queued, bounds, abandoned>>

Answered(e) == [editor EXCEPT ![e] = [pc |-> "idle", seen |-> @.seen]]

(* LookupSourceBySourceHash and the forced SubmitJob.                      *)
PatchEnqueueDeduplicates(e) ==
    /\ editor[e].pc = "written"
    /\ LookupSource
    /\ queued' = [queued EXCEPT !["rerender"] =
                    IF queued["normal"] > 0 THEN @ ELSE @ + 1]
    /\ editor' = Answered(e)
    /\ UNCHANGED <<objects, manifest, worker, bounds, abandoned>>

PatchEnqueue(e) ==
    /\ editor[e].pc = "written"
    /\ LookupSource
    /\ queued' = [queued EXCEPT !["rerender"] = @ + 1]
    /\ editor' = Answered(e)
    /\ UNCHANGED <<objects, manifest, worker, bounds, abandoned>>

(* HTTP 404 or 500 after the manifest was written: nothing is rolled back. *)
PatchEnqueueFails(e) ==
    /\ editor[e].pc = "written"
    /\ \/ ~LookupSource /\ UNCHANGED faults
       \/ LookupSource /\ faults < MaxFaults /\ faults' = faults + 1
    /\ abandoned' = TRUE
    /\ editor' = Answered(e)
    /\ UNCHANGED <<objects, manifest, worker, queued, posts, edits>>

-----------------------------------------------------------------------------
(* Worker.                                                                 *)

TakeUndelivered(w, k, out) ==
    /\ worker[w].pc = "idle"
    /\ queued' = [queued EXCEPT ![k] = @ - 1]
    /\ worker' = [worker EXCEPT ![w] = [pc |-> "base", kind |-> k, out |-> out]]
    /\ UNCHANGED <<objects, manifest, editor, bounds, abandoned>>

Take(w, k, out) ==
    /\ worker[w].pc = "idle" /\ queued[k] > 0
    /\ queued' = [queued EXCEPT ![k] = @ - 1]
    /\ worker' = [worker EXCEPT ![w] = [pc |-> "base", kind |-> k, out |-> out]]
    /\ UNCHANGED <<objects, manifest, editor, bounds, abandoned>>

(* A full pipeline run: the source bytes travel with the job.              *)
RunPipeline(w, t) == Take(w, "normal", [text |-> t, measured |-> TRUE])

(* A rerender reads the metadata when the job runs, not when it was        *)
(* queued; drawing may replace the layout fields by measured ones.         *)
RunRerender(w, measured) ==
    /\ Rerenderable /\ LookupMetadata /\ Intact(base)
    /\ measured \/ ~manifest.doc.measured
    /\ Take(w, "rerender", [manifest.doc EXCEPT !.measured = measured])

(* "Metadata not found for rerender", unreadable artifacts, or a book page, *)
(* which cannot be rendered from its metadata: failed and acknowledged.     *)
RerenderImpossible(w) ==
    /\ worker[w].pc = "idle" /\ queued["rerender"] > 0
    /\ ~(Rerenderable /\ LookupMetadata /\ Intact(base))
    /\ queued' = [queued EXCEPT !["rerender"] = @ - 1]
    /\ abandoned' = TRUE
    /\ UNCHANGED <<objects, manifest, editor, worker, bounds>>

(* process_job ends in "failed", or the result is not cacheable.           *)
JobFails(w) ==
    /\ worker[w].pc = "base" /\ faults < MaxFaults
    /\ faults' = faults + 1
    /\ abandoned' = (abandoned \/ worker[w].kind = "rerender")
    /\ worker' = [worker EXCEPT ![w] = IdleWorker]
    /\ UNCHANGED <<objects, manifest, editor, queued, posts, edits>>

StatusAt(w) ==
    CASE worker[w].pc = "base"   -> base
      [] worker[w].pc = "source" -> source
      [] worker[w].pc = "image"  -> image[worker[w].out.text]
      [] worker[w].pc = "meta"   -> metadata[worker[w].out]

(* One _store_object call of store_page, with fsync.                       *)
StoreObject(w) ==
    /\ worker[w].pc \in DOMAIN NextStep
    /\ StatusAt(w) # "corrupt"
    /\ LET at == worker[w].pc  out == worker[w].out IN
       /\ base'   = IF at = "base" THEN Stored(base, "durable") ELSE base
       /\ source' = IF at = "source" THEN Stored(source, "durable") ELSE source
       /\ image'  = IF at = "image"
                    THEN [image EXCEPT ![out.text] = Stored(@, "durable")] ELSE image
       /\ metadata' = IF at = "meta"
                      THEN [metadata EXCEPT ![out] = Stored(@, "durable")] ELSE metadata
       /\ worker' = [worker EXCEPT ![w].pc = NextStep[at]]
    /\ UNCHANGED <<manifest, editor, queued, bounds, abandoned>>

(* _cache_to_v2 swallows the exception: the job completes uncached.        *)
StoreObjectFails(w) ==
    /\ worker[w].pc \in DOMAIN NextStep
    /\ StatusAt(w) = "corrupt"
    /\ abandoned' = (abandoned \/ worker[w].kind = "rerender")
    /\ worker' = [worker EXCEPT ![w].pc = "ack"]
    /\ UNCHANGED <<objects, manifest, editor, queued, bounds>>

(* The manifest of store_page takes only reader references from the        *)
(* previous one: its content hash is not compared.                         *)
RenderedManifest(w) == ManifestOf(worker[w].out, worker[w].out.text, FALSE, TRUE)

StoreManifest(w) ==
    /\ worker[w].pc = "manifest"
    /\ manifest' = RenderedManifest(w)
    /\ worker' = [worker EXCEPT ![w].pc = "ack"]
    /\ UNCHANGED <<objects, editor, queued, bounds, abandoned>>

(* Result stored in Redis and stream entry acknowledged.                   *)
Acknowledge(w) ==
    /\ worker[w].pc = "ack"
    /\ worker' = [worker EXCEPT ![w] = IdleWorker]
    /\ UNCHANGED <<objects, manifest, editor, queued, bounds, abandoned>>

-----------------------------------------------------------------------------
(* Faults.  A job whose worker dies is claimed again from the stream.      *)

RedeliveredNever(ws) == [k \in Kinds |-> queued[k] + 0 * Cardinality(ws)]

Redelivered(ws) ==
    [k \in Kinds |-> queued[k] +
        Cardinality({w \in ws : worker[w].pc # "idle" /\ worker[w].kind = k})]

WorkerCrash(w) ==
    /\ worker[w].pc # "idle" /\ faults < MaxFaults
    /\ faults' = faults + 1
    /\ queued' = Redelivered({w})
    /\ worker' = [worker EXCEPT ![w] = IdleWorker]
    /\ UNCHANGED <<objects, manifest, editor, posts, edits, abandoned>>

(* XAUTOCLAIM takes an entry idle for 60 s although its worker still runs:   *)
(* the same job runs twice.                                                *)
SlowJobReclaimed(w) ==
    /\ worker[w].pc # "idle" /\ faults < MaxFaults
    /\ faults' = faults + 1
    /\ queued' = [queued EXCEPT ![worker[w].kind] = @ + 1]
    /\ UNCHANGED <<objects, manifest, editor, worker, posts, edits, abandoned>>

EditorsGone == [e \in Editors |-> [pc |-> "idle", seen |-> editor[e].seen]]
EditUnqueued == \E e \in Editors : editor[e].pc = "written"

ApiCrash ==
    /\ \E e \in Editors : editor[e].pc # "idle"
    /\ faults < MaxFaults /\ faults' = faults + 1
    /\ editor' = EditorsGone
    /\ abandoned' = (abandoned \/ EditUnqueued)
    /\ UNCHANGED <<objects, manifest, worker, queued, posts, edits>>

(* The host loses power: files that were never synced may be damaged.      *)
SurvivesPowerLoss(s, damaged) ==
    IF s = "volatile" THEN (IF damaged THEN "corrupt" ELSE "durable") ELSE s

PowerLoss(sourceDamaged, docsDamaged, manifestDamaged) ==
    /\ faults < MaxFaults /\ faults' = faults + 1
    /\ source' = SurvivesPowerLoss(source, sourceDamaged)
    /\ metadata' = [d \in Doc |-> SurvivesPowerLoss(metadata[d], d \in docsDamaged)]
    /\ IF manifest.present /\ ~manifest.synced
       THEN manifest' = IF manifestDamaged THEN Garbage
                        ELSE [manifest EXCEPT !.synced = TRUE]
       ELSE ~manifestDamaged /\ UNCHANGED manifest
    /\ editor' = EditorsGone
    /\ queued' = Redelivered(Workers)
    /\ worker' = [w \in Workers |-> IdleWorker]
    /\ abandoned' = (abandoned \/ EditUnqueued)
    /\ UNCHANGED <<base, image, posts, edits>>

-----------------------------------------------------------------------------
Patch(e) ==
    \/ \E t \in EditText, b \in {NoDoc, editor[e].seen} : PatchLoad(e, t, b)
    \/ PatchStore(e) \/ PatchWrite(e) \/ PatchEnqueue(e) \/ PatchEnqueueFails(e)

WorkerStep(w) ==
    \/ \E t \in MachineText : RunPipeline(w, t)
    \/ \E m \in BOOLEAN : RunRerender(w, m)
    \/ RerenderImpossible(w) \/ JobFails(w)
    \/ StoreObject(w) \/ StoreObjectFails(w) \/ StoreManifest(w) \/ Acknowledge(w)

Fault ==
    \/ \E w \in Workers : WorkerCrash(w) \/ SlowJobReclaimed(w)
    \/ ApiCrash
    \/ \E s, m \in BOOLEAN, ds \in SUBSET {d \in Doc : metadata[d] = "volatile"} :
          PowerLoss(s, ds, m)

Next ==
    \/ \E force \in BOOLEAN : PostPage(force)
    \/ \E e \in Editors : ReadMetadata(e) \/ Patch(e)
    \/ \E w \in Workers : WorkerStep(w)
    \/ Fault

Spec == Init /\ [][Next]_vars

(* A request handler that was started runs on, and a worker keeps taking   *)
(* jobs; readers, faults and new requests are never forced to happen.      *)
Fairness ==
    /\ \A e \in Editors : WF_vars(PatchStore(e) \/ PatchWrite(e) \/
                                  PatchEnqueue(e) \/ PatchEnqueueFails(e))
    /\ \A w \in Workers : WF_vars(WorkerStep(w))

FairSpec == Spec /\ Fairness

-----------------------------------------------------------------------------
(* Whatever the interleaving of edits, full runs, rerenders and crashes,   *)
(* an image the cache is willing to serve shows the text of the metadata   *)
(* the same manifest points at (cache.go 679-692, 759-763).                *)
FreshImageShowsMetadata ==
    LookupImage => manifest.img = manifest.doc.text

(* A readable manifest never points at an object nobody wrote, and its     *)
(* image survives a power loss, whichever process rewrote the manifest     *)
(* last and from however old a copy (page_cache.py 384-423, cache.go 755). *)
ManifestClosed ==
    manifest.present =>
        /\ image[manifest.img] = "durable" /\ base = "durable"
        /\ metadata[manifest.doc] # "absent" /\ source # "absent"

(* A stale page always has someone left to repair it: a queued or running  *)
(* rerender, or a PATCH that has yet to queue one.  Only a fault that the  *)
(* history variable records can strand it (handlers.go 493-538).           *)
StaleHasRerender ==
    manifest.present /\ manifest.stale /\ ~abandoned =>
        \/ queued["rerender"] > 0
        \/ \E w \in Workers : worker[w].pc # "idle" /\ worker[w].kind = "rerender"
        \/ \E e \in Editors : editor[e].pc = "written"

(* An edited page is eventually served again.                              *)
StaleIsRepaired ==
    (manifest.present /\ manifest.stale) ~>
        (~manifest.present \/ ~manifest.stale \/ abandoned)

(* docs/cache_metadata_v2.md 144-157, the flow of PATCH for every pipeline  *)
(* listed there: "write the fresh image and clear the stale flag".  So,    *)
(* where nothing fails, an accepted edit is followed by a fresh image.     *)
EditIsRendered ==
    \A e \in Editors : editor[e].pc = "written" ~> LookupImage

(* docs/cache_metadata_v2.md: image_stale is "true after a metadata edit   *)
(* until rerender completes".  So the flag is cleared only by an image     *)
(* that shows the edit.                                                    *)
StaleUntilRerendered ==
    [][manifest.present /\ manifest.stale /\ manifest'.present /\ ~manifest'.stale
          => manifest'.img = manifest.doc.text]_vars

=============================================================================
