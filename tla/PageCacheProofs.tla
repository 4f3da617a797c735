--------------------------- MODULE PageCacheProofs ---------------------------
(***************************************************************************)
(* Proofs about PageCache, for every set of editors, workers and texts and *)
(* every bound.                                                            *)
(***************************************************************************)
EXTENDS PageCache, FiniteSetTheorems, TLAPS

-----------------------------------------------------------------------------
(* Lemmas about the operators of the model.                                *)

(* Storing an object leaves a status, and never leaves it absent.          *)
LEMMA StoredStatus ==
    ASSUME NEW s \in Status, NEW t \in {"volatile", "durable"}
    PROVE  /\ Stored(s, t) \in Status
           /\ Stored(s, t) # "absent"
           /\ s # "absent" => Stored(s, t) = s
           /\ s = "absent" => Stored(s, t) = t
BY DEF Stored, Status

(* A power loss turns statuses into statuses and creates no object.        *)
LEMMA PowerLossStatus ==
    ASSUME NEW s \in Status, NEW damaged \in BOOLEAN
    PROVE  /\ SurvivesPowerLoss(s, damaged) \in Status
           /\ SurvivesPowerLoss(s, damaged) = "absent" <=> s = "absent"
BY DEF SurvivesPowerLoss, Status

(* The jobs of crashed workers that return to the queue are finitely many. *)
LEMMA RedeliveredType ==
    ASSUME queued \in [Kinds -> Nat], NEW ws \in SUBSET Workers
    PROVE  Redelivered(ws) \in [Kinds -> Nat]
<1> SUFFICES ASSUME NEW k \in Kinds
             PROVE  Cardinality({w \in ws : worker[w].pc # "idle" /\ worker[w].kind = k}) \in Nat
  BY DEF Redelivered
<1>1. IsFiniteSet(Workers)
  BY PageCacheAssumption
<1>2. IsFiniteSet({w \in ws : worker[w].pc # "idle" /\ worker[w].kind = k})
  BY <1>1, FS_Subset
<1> QED
  BY <1>2, FS_CardinalityType

(* What the records of a busy editor and a busy worker hold.               *)
LEMMA BusyEditor ==
    ASSUME TypeOK, NEW e \in Editors, editor[e].pc # "idle"
    PROVE  /\ editor[e] \in [pc: {"loaded", "stored", "written"}, seen: Doc \cup {NoDoc},
                             base: Doc \cup {NoDoc}, new: Doc, copy: Manifests]
           /\ editor[e].new \in Doc /\ editor[e].copy \in Manifests
           /\ editor[e].copy.img \in Text
<1>1. editor[e] \in EditorStates
  BY DEF TypeOK
<1>2. editor[e] \notin [pc: {"idle"}, seen: Doc \cup {NoDoc}]
  OBVIOUS
<1>3. editor[e] \in [pc: {"loaded", "stored", "written"}, seen: Doc \cup {NoDoc},
                     base: Doc \cup {NoDoc}, new: Doc, copy: Manifests]
  BY <1>1, <1>2 DEF EditorStates
<1>4. editor[e].new \in Doc /\ editor[e].copy \in Manifests
  BY <1>3
<1> QED
  BY <1>3, <1>4 DEF Manifests

LEMMA BusyWorker ==
    ASSUME TypeOK, NEW w \in Workers, worker[w].pc # "idle"
    PROVE  /\ worker[w] \in [pc: {"base", "source", "image", "meta", "manifest", "ack"},
                             kind: Kinds, out: Doc]
           /\ worker[w].kind \in Kinds
           /\ worker[w].out \in Doc /\ worker[w].out.text \in Text
<1>1. worker[w] \in WorkerStates
  BY DEF TypeOK
<1>2. worker[w] \in [pc: {"base", "source", "image", "meta", "manifest", "ack"},
                     kind: Kinds, out: Doc]
  BY <1>1 DEF WorkerStates
<1>3. worker[w].out \in Doc /\ worker[w].kind \in Kinds
  BY <1>2
<1> QED
  BY <1>2, <1>3 DEF Doc

(* Every editor state keeps the content hash its reader last saw.          *)
LEMMA EditorSeen ==
    ASSUME TypeOK, NEW e \in Editors
    PROVE  editor[e].seen \in Doc \cup {NoDoc}
<1>1. editor[e] \in EditorStates
  BY DEF TypeOK
<1> QED
  BY <1>1 DEF EditorStates

(* The manifests a PATCH and a worker write are manifests.                 *)
LEMMA EditedManifestType ==
    ASSUME TypeOK, NEW e \in Editors, editor[e].pc # "idle"
    PROVE  EditedManifest(e) \in Manifests
BY BusyEditor DEF EditedManifest, Manifests, ManifestOf

LEMMA RenderedManifestType ==
    ASSUME TypeOK, NEW w \in Workers, worker[w].pc # "idle"
    PROVE  RenderedManifest(w) \in Manifests
BY BusyWorker DEF RenderedManifest, Manifests, ManifestOf

-----------------------------------------------------------------------------
(* Type correctness.                                                       *)

LEMMA TypeInit ==
    ASSUME Init PROVE TypeOK
<1>1. editor \in [Editors -> EditorStates] /\ worker \in [Workers -> WorkerStates]
  BY DEF Init, IdleEditor, EditorStates, IdleWorker, WorkerStates
<1>2. image \in [Text -> Status] /\ metadata \in [Doc -> Status]
  BY DEF Init, Status
<1>3. queued \in [Kinds -> Nat]
  BY DEF Init
<1> QED
  BY <1>1, <1>2, <1>3 DEF Init, TypeOK, Status

LEMMA TypePatch ==
    ASSUME TypeOK, NEW e \in Editors, Patch(e)
    PROVE  TypeOK'
<1> USE DEF objects, bounds
<1> editor[e].seen \in Doc \cup {NoDoc}
  BY EditorSeen
<1>1. ASSUME NEW t \in EditText, NEW b \in {NoDoc, editor[e].seen}, PatchLoad(e, t, b)
      PROVE  TypeOK'
  <2>1. manifest \in Manifests
    BY <1>1 DEF PatchLoad, TypeOK, NoManifest, Garbage
  <2>2. [text |-> t, measured |-> FALSE] \in Doc
    BY DEF Doc, Text
  <2>3. editor' \in [Editors -> EditorStates]
    BY <1>1, <2>1, <2>2 DEF PatchLoad, TypeOK, EditorStates
  <2> QED
    BY <1>1, <2>3 DEF PatchLoad, TypeOK
<1>2. CASE PatchStore(e)
  <2>1. editor[e].new \in Doc
    BY <1>2, BusyEditor DEF PatchStore
  <2>2. metadata' \in [Doc -> Status]
    BY <1>2, <2>1, StoredStatus DEF PatchStore, TypeOK
  <2>3. editor' \in [Editors -> EditorStates]
    BY <1>2, BusyEditor DEF PatchStore, TypeOK, EditorStates
  <2> QED
    BY <1>2, <2>2, <2>3 DEF PatchStore, TypeOK
<1>3. CASE PatchWrite(e)
  <2>1. manifest' \in Manifests
    BY <1>3, EditedManifestType DEF PatchWrite
  <2>2. editor' \in [Editors -> EditorStates]
    BY <1>3, BusyEditor DEF PatchWrite, TypeOK, EditorStates
  <2> QED
    BY <1>3, <2>1, <2>2 DEF PatchWrite, TypeOK
<1>4. ASSUME PatchEnqueue(e) \/ PatchEnqueueFails(e)
      PROVE  TypeOK'
  <2>1. editor' \in [Editors -> EditorStates]
    BY <1>4 DEF PatchEnqueue, PatchEnqueueFails, Answered, TypeOK, EditorStates
  <2>2. queued' \in [Kinds -> Nat]
    BY <1>4 DEF PatchEnqueue, PatchEnqueueFails, TypeOK, Kinds
  <2>3. faults' \in Nat
    BY <1>4 DEF PatchEnqueue, PatchEnqueueFails, TypeOK
  <2>4. abandoned' \in BOOLEAN
    BY <1>4 DEF PatchEnqueue, PatchEnqueueFails, TypeOK
  <2> QED
    BY <1>4, <2>1, <2>2, <2>3, <2>4 DEF PatchEnqueue, PatchEnqueueFails, TypeOK
<1> QED
  BY <1>1, <1>2, <1>3, <1>4 DEF Patch

LEMMA TypeTake ==
    ASSUME TypeOK, NEW w \in Workers, NEW k \in Kinds, NEW out \in Doc, Take(w, k, out)
    PROVE  TypeOK'
<1> USE DEF objects, bounds
<1>1. worker' \in [Workers -> WorkerStates]
  BY DEF Take, TypeOK, WorkerStates
<1>2. queued' \in [Kinds -> Nat]
  BY DEF Take, TypeOK
<1> QED
  BY <1>1, <1>2 DEF Take, TypeOK

LEMMA TypeWorkerStep ==
    ASSUME TypeOK, NEW w \in Workers, WorkerStep(w)
    PROVE  TypeOK'
<1> USE DEF objects, bounds
<1>1. ASSUME NEW t \in MachineText, RunPipeline(w, t)
      PROVE  TypeOK'
  <2>1. [text |-> t, measured |-> TRUE] \in Doc /\ "normal" \in Kinds
    BY DEF Doc, Text, Kinds
  <2> QED
    BY <1>1, <2>1, TypeTake DEF RunPipeline
<1>2. ASSUME NEW m \in BOOLEAN, RunRerender(w, m)
      PROVE  TypeOK'
  <2>1. manifest \in Manifests
    BY <1>2 DEF RunRerender, LookupMetadata, TypeOK, NoManifest, Garbage
  <2>2. [manifest.doc EXCEPT !.measured = m] \in Doc /\ "rerender" \in Kinds
    BY <2>1 DEF Manifests, Doc, Kinds
  <2> QED
    BY <1>2, <2>2, TypeTake DEF RunRerender
<1>3. CASE RerenderImpossible(w)
  BY <1>3 DEF RerenderImpossible, TypeOK, Kinds
<1>4. ASSUME JobFails(w) \/ Acknowledge(w)
      PROVE  TypeOK'
  <2>1. worker' \in [Workers -> WorkerStates]
    BY <1>4 DEF JobFails, Acknowledge, TypeOK, IdleWorker, WorkerStates
  <2>2. faults' \in Nat
    BY <1>4 DEF JobFails, Acknowledge, TypeOK
  <2>3. abandoned' \in BOOLEAN
    BY <1>4, Zenon DEF JobFails, Acknowledge, TypeOK
  <2> QED
    BY <1>4, <2>1, <2>2, <2>3 DEF JobFails, Acknowledge, TypeOK
<1>5. CASE StoreObject(w)
  <2>1. worker[w].out \in Doc /\ worker[w].out.text \in Text
    BY <1>5, BusyWorker DEF StoreObject, NextStep
  <2>2. worker' \in [Workers -> WorkerStates]
    <3>1. NextStep[worker[w].pc] \in {"source", "image", "meta", "manifest"}
      BY <1>5 DEF StoreObject, NextStep
    <3> QED
      BY <1>5, <3>1, BusyWorker DEF StoreObject, NextStep, TypeOK, WorkerStates
  <2>3. base' \in Status /\ source' \in Status
    BY <1>5, StoredStatus DEF StoreObject, TypeOK
  <2>4. image' \in [Text -> Status]
    BY <1>5, <2>1, StoredStatus DEF StoreObject, TypeOK
  <2>5. metadata' \in [Doc -> Status]
    BY <1>5, <2>1, StoredStatus DEF StoreObject, TypeOK
  <2> QED
    BY <1>5, <2>2, <2>3, <2>4, <2>5 DEF StoreObject, TypeOK
<1>6. CASE StoreObjectFails(w)
  <2>1. worker' \in [Workers -> WorkerStates]
    BY <1>6, BusyWorker DEF StoreObjectFails, NextStep, TypeOK, WorkerStates
  <2> QED
    BY <1>6, <2>1 DEF StoreObjectFails, TypeOK
<1>7. CASE StoreManifest(w)
  <2>1. manifest' \in Manifests
    BY <1>7, RenderedManifestType DEF StoreManifest
  <2>2. worker' \in [Workers -> WorkerStates]
    BY <1>7, BusyWorker DEF StoreManifest, TypeOK, WorkerStates
  <2> QED
    BY <1>7, <2>1, <2>2 DEF StoreManifest, TypeOK
<1> QED
  BY <1>1, <1>2, <1>3, <1>4, <1>5, <1>6, <1>7 DEF WorkerStep

LEMMA TypeFault ==
    ASSUME TypeOK, Fault
    PROVE  TypeOK'
<1> USE DEF objects, bounds
<1>1. ASSUME NEW w \in Workers, WorkerCrash(w)
      PROVE  TypeOK'
  <2>1. worker' \in [Workers -> WorkerStates]
    BY <1>1 DEF WorkerCrash, TypeOK, IdleWorker, WorkerStates
  <2>2. queued' \in [Kinds -> Nat]
    BY <1>1, RedeliveredType DEF WorkerCrash, TypeOK
  <2> QED
    BY <1>1, <2>1, <2>2 DEF WorkerCrash, TypeOK
<1>2. ASSUME NEW w \in Workers, SlowJobReclaimed(w)
      PROVE  TypeOK'
  <2>1. worker[w].kind \in Kinds
    BY <1>2, BusyWorker DEF SlowJobReclaimed
  <2> QED
    BY <1>2, <2>1 DEF SlowJobReclaimed, TypeOK
<1>3. EditorsGone \in [Editors -> EditorStates]
  BY EditorSeen DEF EditorsGone, EditorStates
<1>4. CASE ApiCrash
  <2>1. abandoned' \in BOOLEAN
    BY <1>4 DEF ApiCrash, EditUnqueued, TypeOK
  <2> QED
    BY <1>3, <1>4, <2>1 DEF ApiCrash, TypeOK
<1>5. ASSUME NEW s \in BOOLEAN, NEW m \in BOOLEAN,
             NEW ds \in SUBSET {d \in Doc : metadata[d] = "volatile"}, PowerLoss(s, ds, m)
      PROVE  TypeOK'
  <2>1. manifest' \in Manifests \cup {NoManifest, Garbage}
    BY <1>5 DEF PowerLoss, TypeOK, Manifests, NoManifest, Garbage
  <2>2. source' \in Status
    BY <1>5, PowerLossStatus DEF PowerLoss, TypeOK
  <2>3. metadata' \in [Doc -> Status]
    <3>1. ASSUME NEW d \in Doc
          PROVE  SurvivesPowerLoss(metadata[d], d \in ds) \in Status
      <4>1. (d \in ds) \in BOOLEAN /\ metadata[d] \in Status
        BY DEF TypeOK
      <4> QED
        BY <4>1, PowerLossStatus, Zenon
    <3> QED
      BY <1>5, <3>1 DEF PowerLoss
  <2>4. queued' \in [Kinds -> Nat]
    BY <1>5, RedeliveredType DEF PowerLoss, TypeOK
  <2>5. worker' \in [Workers -> WorkerStates]
    BY <1>5 DEF PowerLoss, IdleWorker, WorkerStates
  <2>6. faults' \in Nat /\ abandoned' \in BOOLEAN
    BY <1>5 DEF PowerLoss, EditUnqueued, TypeOK
  <2> QED
    BY <1>3, <1>5, <2>1, <2>2, <2>3, <2>4, <2>5, <2>6 DEF PowerLoss, TypeOK
<1> QED
  BY <1>1, <1>2, <1>4, <1>5 DEF Fault

LEMMA TypeNext ==
    ASSUME TypeOK, [Next]_vars
    PROVE  TypeOK'
<1> USE DEF objects, bounds
<1>1. ASSUME NEW force \in BOOLEAN, PostPage(force)
      PROVE  TypeOK'
  BY <1>1, StoredStatus DEF PostPage, TypeOK, Kinds
<1>2. ASSUME NEW e \in Editors, ReadMetadata(e)
      PROVE  TypeOK'
  <2>1. manifest \in Manifests
    BY <1>2 DEF ReadMetadata, LookupMetadata, TypeOK, NoManifest, Garbage
  <2>2. editor[e] \in [pc: {"idle"}, seen: Doc \cup {NoDoc}]
    BY <1>2 DEF ReadMetadata, TypeOK, EditorStates
  <2>3. editor' \in [Editors -> EditorStates]
    BY <1>2, <2>1, <2>2 DEF ReadMetadata, TypeOK, EditorStates, Manifests
  <2> QED
    BY <1>2, <2>3 DEF ReadMetadata, TypeOK
<1>3. CASE UNCHANGED vars
  BY <1>3 DEF vars, TypeOK
<1> QED
  BY <1>1, <1>2, <1>3, TypePatch, TypeWorkerStep, TypeFault DEF Next

(* In every reachable state every variable has its type: each record an    *)
(* editor or a worker holds, the manifest, and every object status.        *)
THEOREM TypeCorrect == Spec => []TypeOK
<1>1. Init => TypeOK
  BY TypeInit
<1>2. TypeOK /\ [Next]_vars => TypeOK'
  BY TypeNext
<1> QED
  BY <1>1, <1>2, PTL DEF Spec

-----------------------------------------------------------------------------
(* The invariant that carries the two safety properties of the cache.  It  *)
(* says of every process what it has already written, or read from a       *)
(* closed manifest, and may therefore point a manifest at.                 *)

(* Only workers write images and the base, and they sync them.             *)
Synced ==
    /\ base \in {"absent", "durable"}
    /\ \A t \in Text : image[t] \in {"absent", "durable"}

(* The copy of the manifest that a PATCH holds was closed when read, and   *)
(* what it points at has stayed.                                           *)
EditorClosed(e) ==
    /\ editor[e].pc # "idle" =>
          /\ image[editor[e].copy.img] = "durable" /\ base = "durable"
          /\ source # "absent"
    /\ editor[e].pc = "stored" => metadata[editor[e].new] # "absent"

(* At each step of store_page the objects of the earlier steps exist.      *)
WorkerClosed(w) ==
    /\ worker[w].pc \in {"source", "image", "meta", "manifest"} => base = "durable"
    /\ worker[w].pc \in {"image", "meta", "manifest"} => source # "absent"
    /\ worker[w].pc \in {"meta", "manifest"} => image[worker[w].out.text] = "durable"
    /\ worker[w].pc = "manifest" => metadata[worker[w].out] # "absent"

Closed ==
    /\ TypeOK /\ Synced /\ ManifestClosed
    /\ \A e \in Editors : EditorClosed(e)
    /\ \A w \in Workers : WorkerClosed(w)

(* What a step can do to the objects: nothing that exists disappears, and  *)
(* what is durable stays durable.                                          *)
ObjectsKept ==
    /\ base = "durable" => base' = "durable"
    /\ source # "absent" => source' # "absent"
    /\ \A t \in Text : image[t] = "durable" => image'[t] = "durable"
    /\ \A d \in Doc : metadata[d] # "absent" => metadata'[d] # "absent"

LEMMA KeepObjects ==
    ASSUME TypeOK, Synced, [Next]_vars
    PROVE  ObjectsKept /\ Synced'
<1> USE DEF objects
<1>1. ASSUME UNCHANGED objects
      PROVE  ObjectsKept /\ Synced'
  BY <1>1 DEF ObjectsKept, Synced
<1>2. ASSUME NEW force \in BOOLEAN, PostPage(force)
      PROVE  ObjectsKept /\ Synced'
  BY <1>2, StoredStatus DEF PostPage, TypeOK, ObjectsKept, Synced
<1>3. ASSUME NEW e \in Editors, PatchStore(e)
      PROVE  ObjectsKept /\ Synced'
  <2>1. \A d \in Doc : metadata[d] # "absent" => metadata'[d] # "absent"
    BY <1>3, StoredStatus DEF PatchStore, TypeOK
  <2> QED
    BY <1>3, <2>1 DEF PatchStore, ObjectsKept, Synced
<1>4. ASSUME NEW w \in Workers, StoreObject(w)
      PROVE  ObjectsKept /\ Synced'
  <2>1. worker[w].out \in Doc /\ worker[w].out.text \in Text
    BY <1>4, BusyWorker DEF StoreObject, NextStep
  <2>2. base' \in {"absent", "durable"} /\ (base = "durable" => base' = "durable")
    BY <1>4, StoredStatus DEF StoreObject, TypeOK, Synced, Stored
  <2>3. source # "absent" => source' # "absent"
    BY <1>4, StoredStatus DEF StoreObject, TypeOK
  <2>4. \A t \in Text : /\ image'[t] \in {"absent", "durable"}
                        /\ image[t] = "durable" => image'[t] = "durable"
    BY <1>4, <2>1 DEF StoreObject, TypeOK, Synced, Stored
  <2>5. \A d \in Doc : metadata[d] # "absent" => metadata'[d] # "absent"
    BY <1>4, <2>1, StoredStatus DEF StoreObject, TypeOK
  <2> QED
    BY <2>2, <2>3, <2>4, <2>5 DEF ObjectsKept, Synced
<1>5. ASSUME NEW s \in BOOLEAN, NEW m \in BOOLEAN,
             NEW ds \in SUBSET {d \in Doc : metadata[d] = "volatile"}, PowerLoss(s, ds, m)
      PROVE  ObjectsKept /\ Synced'
  <2>1. source # "absent" => source' # "absent"
    BY <1>5, PowerLossStatus DEF PowerLoss, TypeOK
  <2>2. ASSUME NEW d \in Doc, metadata[d] # "absent"
        PROVE  metadata'[d] # "absent"
    BY <1>5, <2>2 DEF PowerLoss, SurvivesPowerLoss
  <2> QED
    BY <1>5, <2>1, <2>2 DEF PowerLoss, ObjectsKept, Synced
<1>6. ASSUME NEW w \in Workers, WorkerStep(w), ~StoreObject(w)
      PROVE  UNCHANGED objects
  BY <1>6 DEF WorkerStep, RunPipeline, RunRerender, Take, RerenderImpossible, JobFails,
              StoreObjectFails, StoreManifest, Acknowledge
<1>7. ASSUME NEW e \in Editors, ReadMetadata(e) \/ Patch(e), ~PatchStore(e)
      PROVE  UNCHANGED objects
  BY <1>7 DEF ReadMetadata, Patch, PatchLoad, PatchWrite, PatchEnqueue, PatchEnqueueFails
<1>8. ASSUME ApiCrash \/ \E w \in Workers : WorkerCrash(w) \/ SlowJobReclaimed(w)
      PROVE  UNCHANGED objects
  BY <1>8 DEF ApiCrash, WorkerCrash, SlowJobReclaimed
<1>9. CASE UNCHANGED vars
  BY <1>1, <1>9 DEF vars
<1> QED
  BY <1>1, <1>2, <1>3, <1>4, <1>5, <1>6, <1>7, <1>8, <1>9 DEF Next, Fault

(* Who is where after a step: an editor or a worker that moves on          *)
(* establishes what its next step relies on.                               *)
LEMMA KeepEditorClosed ==
    ASSUME Closed, [Next]_vars, NEW e \in Editors
    PROVE  EditorClosed(e)'
<1> USE DEF objects, bounds
<1>1. ObjectsKept /\ TypeOK'
  BY KeepObjects, TypeNext DEF Closed
<1>2. EditorClosed(e) /\ TypeOK
  BY DEF Closed
<1>3. ASSUME editor'[e] = editor[e]
      PROVE  EditorClosed(e)'
  BY <1>1, <1>2, <1>3, BusyEditor DEF EditorClosed, ObjectsKept
<1>4. ASSUME editor'[e].pc = "idle"
      PROVE  EditorClosed(e)'
  BY <1>4 DEF EditorClosed
<1>5. ASSUME NEW t \in EditText, NEW b \in {NoDoc, editor[e].seen}, PatchLoad(e, t, b)
      PROVE  EditorClosed(e)'
  BY <1>5 DEF PatchLoad, Closed, ManifestClosed, EditorClosed, TypeOK
<1>6. CASE PatchStore(e)
  <2>1. editor[e].new \in Doc /\ editor[e].copy.img \in Text
    BY <1>2, <1>6, BusyEditor DEF PatchStore
  <2>2. CASE metadata[editor[e].new] # "corrupt" /\ editor' = [editor EXCEPT ![e].pc = "stored"]
             /\ metadata' = [metadata EXCEPT ![editor[e].new] = Stored(@, "volatile")]
    <3>1. editor'[e].pc = "stored" /\ editor'[e].new = editor[e].new
          /\ editor'[e].copy = editor[e].copy
      BY <2>2, <1>2 DEF TypeOK
    <3>2. metadata'[editor[e].new] # "absent"
      BY <2>1, <2>2, <1>2, StoredStatus DEF TypeOK
    <3> QED
      BY <1>1, <1>2, <1>6, <2>1, <3>1, <3>2 DEF PatchStore, EditorClosed, ObjectsKept
  <2>3. CASE editor' = [editor EXCEPT ![e] = [pc |-> "idle", seen |-> @.seen]]
    BY <1>2, <1>4, <2>3 DEF TypeOK
  <2> QED
    BY <1>6, <2>2, <2>3 DEF PatchStore
<1>7. CASE PatchWrite(e)
  <2>1. editor'[e].pc = "written" /\ editor'[e].copy = editor[e].copy
    BY <1>7, <1>2 DEF PatchWrite, TypeOK
  <2>2. editor[e].copy.img \in Text
    BY <1>2, <1>7, BusyEditor DEF PatchWrite
  <2> QED
    BY <1>1, <1>2, <1>7, <2>1, <2>2 DEF PatchWrite, EditorClosed, ObjectsKept
<1>8. ASSUME ReadMetadata(e) \/ PatchEnqueue(e) \/ PatchEnqueueFails(e)
      PROVE  editor'[e].pc = "idle"
  <2>1. CASE ReadMetadata(e)
    BY <1>2, <2>1 DEF ReadMetadata, TypeOK
  <2>2. CASE PatchEnqueue(e) \/ PatchEnqueueFails(e)
    <3>1. editor' = Answered(e)
      BY <2>2 DEF PatchEnqueue, PatchEnqueueFails
    <3> QED
      BY <1>2, <3>1 DEF Answered, TypeOK
  <2> QED
    BY <1>8, <2>1, <2>2
<1>9. ASSUME Fault
      PROVE  editor'[e].pc = "idle" \/ editor'[e] = editor[e]
  <2>1. editor' = EditorsGone \/ editor' = editor
    BY <1>9 DEF Fault, WorkerCrash, SlowJobReclaimed, ApiCrash, PowerLoss
  <2> QED
    BY <2>1 DEF EditorsGone
<1>10. ASSUME NEW f \in Editors, f # e, ReadMetadata(f) \/ Patch(f)
       PROVE  editor'[e] = editor[e]
  BY <1>2, <1>10 DEF ReadMetadata, Patch, PatchLoad, PatchStore, PatchWrite, PatchEnqueue,
                     PatchEnqueueFails, Answered, TypeOK
<1>11. ASSUME \/ \E force \in BOOLEAN : PostPage(force)
              \/ \E w \in Workers : WorkerStep(w)
              \/ UNCHANGED vars
       PROVE  editor'[e] = editor[e]
  BY <1>11 DEF PostPage, WorkerStep, RunPipeline, RunRerender, Take, RerenderImpossible,
               JobFails, StoreObject, StoreObjectFails, StoreManifest, Acknowledge, vars
<1> QED
  BY <1>3, <1>4, <1>5, <1>6, <1>7, <1>8, <1>9, <1>10, <1>11 DEF Next, Patch

LEMMA KeepWorkerClosed ==
    ASSUME Closed, [Next]_vars, NEW w \in Workers
    PROVE  WorkerClosed(w)'
<1> USE DEF objects, bounds
<1>1. ObjectsKept /\ TypeOK'
  BY KeepObjects, TypeNext DEF Closed
<1>2. WorkerClosed(w) /\ TypeOK /\ Synced
  BY DEF Closed
<1>3. ASSUME worker'[w] = worker[w]
      PROVE  WorkerClosed(w)'
  BY <1>1, <1>2, <1>3, BusyWorker DEF WorkerClosed, ObjectsKept
<1>4. ASSUME worker'[w].pc \in {"idle", "base", "ack"}
      PROVE  WorkerClosed(w)'
  BY <1>4 DEF WorkerClosed
<1>5. CASE StoreObject(w)
  <2>1. worker[w].out \in Doc /\ worker[w].out.text \in Text
    BY <1>2, <1>5, BusyWorker DEF StoreObject, NextStep
  <2>2. worker'[w].pc = NextStep[worker[w].pc] /\ worker'[w].out = worker[w].out
    BY <1>2, <1>5 DEF StoreObject, TypeOK
  <2>3. CASE worker[w].pc = "base"
    <3>1. worker'[w].pc = "source" /\ base' = "durable"
      BY <1>2, <1>5, <2>2, <2>3
         DEF StoreObject, NextStep, StatusAt, Stored, Synced
    <3> QED
      BY <3>1 DEF WorkerClosed
  <2>4. CASE worker[w].pc = "source"
    <3>1. worker'[w].pc = "image" /\ source' # "absent"
      BY <1>2, <1>5, <2>2, <2>4 DEF StoreObject, NextStep, Stored
    <3> QED
      BY <1>1, <1>2, <2>4, <3>1 DEF WorkerClosed, ObjectsKept
  <2>5. CASE worker[w].pc = "image"
    <3>1. worker'[w].pc = "meta"
      BY <2>2, <2>5 DEF NextStep
    <3>2. image'[worker[w].out.text] = "durable"
      BY <1>2, <1>5, <2>1, <2>5 DEF StoreObject, Stored, TypeOK, Synced
    <3> QED
      BY <1>1, <1>2, <2>2, <2>5, <3>1, <3>2 DEF WorkerClosed, ObjectsKept
  <2>6. CASE worker[w].pc = "meta"
    <3>1. worker'[w].pc = "manifest"
      BY <2>2, <2>6 DEF NextStep
    <3>2. metadata'[worker[w].out] # "absent"
      BY <1>2, <1>5, <2>1, <2>6 DEF StoreObject, Stored, TypeOK
    <3> QED
      BY <1>1, <1>2, <2>1, <2>2, <2>6, <3>1, <3>2 DEF WorkerClosed, ObjectsKept
  <2> QED
    BY <1>5, <2>3, <2>4, <2>5, <2>6 DEF StoreObject, NextStep
<1>6. ASSUME NEW k \in Kinds, NEW out, Take(w, k, out)
      PROVE  worker'[w].pc = "base"
  BY <1>2, <1>6 DEF Take, TypeOK
<1>7. ASSUME JobFails(w) \/ Acknowledge(w)
      PROVE  worker'[w].pc = "idle"
  BY <1>2, <1>7 DEF JobFails, Acknowledge, IdleWorker, TypeOK
<1>8. ASSUME StoreObjectFails(w) \/ StoreManifest(w)
      PROVE  worker'[w].pc = "ack"
  <2>1. worker[w].pc # "idle" /\ worker' = [worker EXCEPT ![w].pc = "ack"]
    BY <1>8 DEF StoreObjectFails, StoreManifest, NextStep
  <2> QED
    BY <1>2, <2>1, BusyWorker DEF TypeOK
<1>9. CASE WorkerStep(w)
  <2>1. ASSUME \/ \E t \in MachineText : RunPipeline(w, t)
               \/ \E m \in BOOLEAN : RunRerender(w, m)
        PROVE  worker'[w].pc = "base"
    BY <1>6, <2>1 DEF RunPipeline, RunRerender, Kinds
  <2>2. ASSUME RerenderImpossible(w)
        PROVE  worker'[w] = worker[w]
    BY <2>2 DEF RerenderImpossible
  <2> QED
    BY <1>3, <1>4, <1>5, <1>7, <1>8, <1>9, <2>1, <2>2 DEF WorkerStep
<1>10. ASSUME NEW v \in Workers, v # w, WorkerStep(v)
       PROVE  worker'[w] = worker[w]
  BY <1>2, <1>10 DEF WorkerStep, RunPipeline, RunRerender, Take, RerenderImpossible, JobFails,
                     StoreObject, StoreObjectFails, StoreManifest, Acknowledge, TypeOK
<1>11. ASSUME Fault
       PROVE  worker'[w].pc = "idle" \/ worker'[w] = worker[w]
  <2>1. ASSUME NEW v \in Workers, WorkerCrash(v)
        PROVE  worker'[w].pc = "idle" \/ worker'[w] = worker[w]
    BY <1>2, <2>1 DEF WorkerCrash, IdleWorker, TypeOK
  <2>2. ASSUME \E s, m \in BOOLEAN, ds \in SUBSET {d \in Doc : metadata[d] = "volatile"} :
                  PowerLoss(s, ds, m)
        PROVE  worker'[w].pc = "idle"
    BY <2>2 DEF PowerLoss, IdleWorker
  <2>3. ASSUME ApiCrash \/ \E v \in Workers : SlowJobReclaimed(v)
        PROVE  worker'[w] = worker[w]
    BY <2>3 DEF ApiCrash, SlowJobReclaimed
  <2> QED
    BY <1>11, <2>1, <2>2, <2>3 DEF Fault
<1>12. ASSUME \/ \E force \in BOOLEAN : PostPage(force)
              \/ \E e \in Editors : ReadMetadata(e) \/ Patch(e)
              \/ UNCHANGED vars
       PROVE  worker'[w] = worker[w]
  BY <1>12 DEF PostPage, ReadMetadata, Patch, PatchLoad, PatchStore, PatchWrite, PatchEnqueue,
               PatchEnqueueFails, vars
<1> QED
  BY <1>3, <1>4, <1>9, <1>10, <1>11, <1>12 DEF Next

(* The manifest: a PATCH re-points a closed copy at a stored document, a   *)
(* worker points at what it stored; no other step changes what it says.    *)
ManifestSays(m) == m.present /\ manifest.present /\ m.doc = manifest.doc
                   /\ m.img = manifest.img /\ m.stale = manifest.stale

LEMMA ManifestSteps ==
    ASSUME Closed, [Next]_vars
    PROVE  \/ \E e \in Editors : PatchWrite(e)
           \/ \E w \in Workers : StoreManifest(w)
           \/ manifest' = manifest
           \/ ~manifest'.present
           \/ ManifestSays(manifest')
<1> USE DEF objects, bounds
<1>1. ASSUME NEW s \in BOOLEAN, NEW m \in BOOLEAN,
             NEW ds \in SUBSET {d \in Doc : metadata[d] = "volatile"}, PowerLoss(s, ds, m)
      PROVE  \/ manifest' = manifest
             \/ ~manifest'.present
             \/ ManifestSays(manifest')
  <2>1. CASE manifest.present /\ ~manifest.synced /\ ~m
    <3>1. manifest \in Manifests
      BY <2>1 DEF Closed, TypeOK, NoManifest, Garbage
    <3>2. manifest' = [manifest EXCEPT !.synced = TRUE]
      BY <1>1, <2>1 DEF PowerLoss
    <3> QED
      BY <2>1, <3>1, <3>2 DEF ManifestSays, Manifests
  <2>2. CASE ~(manifest.present /\ ~manifest.synced /\ ~m)
    BY <1>1, <2>2 DEF PowerLoss, Garbage
  <2> QED
    BY <2>1, <2>2
<1>2. ASSUME NEW w \in Workers, WorkerStep(w), ~StoreManifest(w)
      PROVE  manifest' = manifest
  BY <1>2 DEF WorkerStep, RunPipeline, RunRerender, Take, RerenderImpossible, JobFails,
              StoreObject, StoreObjectFails, Acknowledge
<1>3. ASSUME NEW e \in Editors, ReadMetadata(e) \/ Patch(e), ~PatchWrite(e)
      PROVE  manifest' = manifest
  BY <1>3 DEF ReadMetadata, Patch, PatchLoad, PatchStore, PatchEnqueue, PatchEnqueueFails
<1>4. ASSUME \/ \E force \in BOOLEAN : PostPage(force)
             \/ ApiCrash \/ \E w \in Workers : WorkerCrash(w) \/ SlowJobReclaimed(w)
             \/ UNCHANGED vars
      PROVE  manifest' = manifest
  BY <1>4 DEF PostPage, ApiCrash, WorkerCrash, SlowJobReclaimed, vars
<1> QED
  BY <1>1, <1>2, <1>3, <1>4 DEF Next, Fault

LEMMA KeepManifestClosed ==
    ASSUME Closed, [Next]_vars
    PROVE  ManifestClosed'
<1>1. ObjectsKept /\ TypeOK /\ Synced
  BY KeepObjects DEF Closed
<1>2. CASE manifest' = manifest \/ ManifestSays(manifest')
  <2>1. ASSUME manifest.present
        PROVE  manifest.img \in Text /\ manifest.doc \in Doc
    <3>1. manifest \in Manifests
      BY <1>1, <2>1 DEF TypeOK, NoManifest, Garbage
    <3> QED
      BY <3>1 DEF Manifests
  <2> QED
    BY <1>1, <1>2, <2>1 DEF Closed, ManifestClosed, ManifestSays, ObjectsKept
<1>3. ASSUME NEW e \in Editors, PatchWrite(e)
      PROVE  ManifestClosed'
  <2>1. manifest'.img = editor[e].copy.img /\ manifest'.doc = editor[e].new
    BY <1>3 DEF PatchWrite, EditedManifest, ManifestOf
  <2>2. UNCHANGED objects
    BY <1>3 DEF PatchWrite
  <2>3. EditorClosed(e) /\ editor[e].pc = "stored"
    BY <1>3 DEF Closed, PatchWrite
  <2> QED
    BY <2>1, <2>2, <2>3 DEF ManifestClosed, EditorClosed, objects
<1>4. ASSUME NEW w \in Workers, StoreManifest(w)
      PROVE  ManifestClosed'
  <2>1. manifest'.img = worker[w].out.text /\ manifest'.doc = worker[w].out
    BY <1>4 DEF StoreManifest, RenderedManifest, ManifestOf
  <2>2. UNCHANGED objects
    BY <1>4 DEF StoreManifest
  <2>3. WorkerClosed(w) /\ worker[w].pc = "manifest"
    BY <1>4 DEF Closed, StoreManifest
  <2> QED
    BY <2>1, <2>2, <2>3 DEF ManifestClosed, WorkerClosed, objects
<1>5. ASSUME ~manifest'.present
      PROVE  ManifestClosed'
  BY <1>5 DEF ManifestClosed
<1> QED
  BY <1>2, <1>3, <1>4, <1>5, ManifestSteps

LEMMA ClosedInit ==
    ASSUME Init PROVE Closed
<1>1. TypeOK
  BY TypeInit
<1>2. Synced /\ ManifestClosed
  BY DEF Init, Synced, ManifestClosed, NoManifest
<1>3. \A e \in Editors : EditorClosed(e)
  BY DEF Init, EditorClosed, IdleEditor
<1>4. \A w \in Workers : WorkerClosed(w)
  BY DEF Init, WorkerClosed, IdleWorker
<1> QED
  BY <1>1, <1>2, <1>3, <1>4 DEF Closed

LEMMA ClosedNext ==
    ASSUME Closed, [Next]_vars PROVE Closed'
<1>1. TypeOK' /\ Synced'
  BY KeepObjects, TypeNext DEF Closed
<1>2. \A e \in Editors : EditorClosed(e)'
  BY KeepEditorClosed
<1>3. \A w \in Workers : WorkerClosed(w)'
  BY KeepWorkerClosed
<1> QED
  BY <1>1, <1>2, <1>3, KeepManifestClosed DEF Closed

LEMMA ClosedAlways == Spec => []Closed
<1>1. Init => Closed
  BY ClosedInit
<1>2. Closed /\ [Next]_vars => Closed'
  BY ClosedNext
<1> QED
  BY <1>1, <1>2, PTL DEF Spec

-----------------------------------------------------------------------------
(* A readable manifest never points at an object nobody wrote, and its     *)
(* image and base are synced: whatever the numbers of editors and workers, *)
(* the faults and the interleaving of cache.go 720-768 with page_cache.py  *)
(* 354-431.                                                                *)
THEOREM ManifestIsClosed == Spec => []ManifestClosed
<1>1. Closed => ManifestClosed
  BY DEF Closed
<1> QED
  BY <1>1, ClosedAlways, PTL

(* The flag alone decides: a manifest that is not stale shows its own      *)
(* document.  Only an edit breaks the match, and it raises the flag.       *)
Matching ==
    manifest.present /\ ~manifest.stale => manifest.img = manifest.doc.text

LEMMA MatchingNext ==
    ASSUME Closed, Matching, [Next]_vars PROVE Matching'
<1>1. CASE manifest' = manifest \/ ManifestSays(manifest') \/ ~manifest'.present
  BY <1>1 DEF Matching, ManifestSays
<1>2. ASSUME NEW e \in Editors, PatchWrite(e)
      PROVE  Matching'
  BY <1>2 DEF PatchWrite, EditedManifest, ManifestOf, Matching
<1>3. ASSUME NEW w \in Workers, StoreManifest(w)
      PROVE  Matching'
  BY <1>3 DEF StoreManifest, RenderedManifest, ManifestOf, Matching
<1> QED
  BY <1>1, <1>2, <1>3, ManifestSteps

(* The cache never serves an image that shows another text than the        *)
(* metadata of the same manifest (cache.go 679-692, 759-763).              *)
THEOREM FreshImageIsCurrent == Spec => []FreshImageShowsMetadata
<1>1. Init => Matching
  BY DEF Init, Matching, NoManifest
<1>2. Closed /\ Matching /\ [Next]_vars => Matching'
  BY MatchingNext
<1>3. Matching => FreshImageShowsMetadata
  BY DEF Matching, FreshImageShowsMetadata, LookupImage
<1> QED
  BY <1>1, <1>2, <1>3, ClosedAlways, PTL DEF Spec

-----------------------------------------------------------------------------
(* Repair of a stale page.  A worker that has stored its manifest, or has  *)
(* given up, no longer counts: what remains must be enough.                *)
Rerendering(w) == worker[w].pc \notin {"idle", "ack"} /\ worker[w].kind = "rerender"
PatchPending   == \E e \in Editors : editor[e].pc = "written"

RepairComing ==
    \/ queued["rerender"] > 0
    \/ \E w \in Workers : Rerendering(w)
    \/ PatchPending

RepairDue == manifest.present /\ manifest.stale /\ ~abandoned => RepairComing

(* A crashed worker's job is back in the queue.                            *)
LEMMA RedeliveredMore ==
    ASSUME queued \in [Kinds -> Nat], NEW ws \in SUBSET Workers, NEW k \in Kinds
    PROVE  /\ Redelivered(ws)[k] >= queued[k]
           /\ \A w \in ws : worker[w].pc # "idle" /\ worker[w].kind = k
                 => Redelivered(ws)[k] > 0
<1> DEFINE lost == {w \in ws : worker[w].pc # "idle" /\ worker[w].kind = k}
<1>1. IsFiniteSet(lost)
  BY PageCacheAssumption, FS_Subset
<1>2. Cardinality(lost) \in Nat /\ (lost # {} => Cardinality(lost) # 0)
  BY <1>1, FS_CardinalityType, FS_EmptySet
<1>3. Redelivered(ws)[k] = queued[k] + Cardinality(lost) /\ queued[k] \in Nat
  BY DEF Redelivered
<1>4. ASSUME NEW w \in ws, worker[w].pc # "idle", worker[w].kind = k
      PROVE  lost # {}
  BY <1>4
<1> HIDE DEF lost
<1> QED
  BY <1>2, <1>3, <1>4

LEMMA RepairPatch ==
    ASSUME TypeOK, RepairDue, NEW e \in Editors, ReadMetadata(e) \/ Patch(e)
    PROVE  RepairDue'
<1> SUFFICES ASSUME manifest'.present, manifest'.stale, ~abandoned'
             PROVE  RepairComing'
  BY DEF RepairDue
<1>1. ASSUME editor[e].pc # "written", UNCHANGED <<manifest, worker, queued, abandoned>>,
             \A f \in Editors : f # e => editor'[f] = editor[f]
      PROVE  RepairComing'
  BY <1>1 DEF RepairDue, RepairComing, Rerendering, PatchPending
<1>2. CASE ReadMetadata(e)
  BY <1>1, <1>2 DEF ReadMetadata, TypeOK, bounds
<1>3. ASSUME NEW t \in EditText, NEW b \in {NoDoc, editor[e].seen}, PatchLoad(e, t, b)
      PROVE  RepairComing'
  BY <1>1, <1>3 DEF PatchLoad, TypeOK
<1>4. CASE PatchStore(e)
  <2>1. \A f \in Editors : f # e => editor'[f] = editor[f]
    BY <1>4 DEF PatchStore, TypeOK
  <2> QED
    BY <1>1, <1>4, <2>1 DEF PatchStore, bounds
<1>5. CASE PatchWrite(e)
  <2>1. editor'[e].pc = "written"
    BY <1>5, BusyEditor DEF PatchWrite, TypeOK
  <2> QED
    BY <2>1 DEF RepairComing, PatchPending
<1>6. CASE PatchEnqueue(e)
  BY <1>6 DEF PatchEnqueue, TypeOK, Kinds, RepairComing
<1>7. CASE PatchEnqueueFails(e)
  BY <1>7 DEF PatchEnqueueFails
<1> QED
  BY <1>2, <1>3, <1>4, <1>5, <1>6, <1>7 DEF Patch

LEMMA RepairWorker ==
    ASSUME TypeOK, RepairDue, NEW w \in Workers, WorkerStep(w)
    PROVE  RepairDue'
<1> SUFFICES ASSUME manifest'.present, manifest'.stale, ~abandoned'
             PROVE  RepairComing'
  BY DEF RepairDue
<1>1. ASSUME ~Rerendering(w) \/ Rerendering(w)', UNCHANGED <<manifest, editor>>,
             queued'["rerender"] = queued["rerender"], ~abandoned,
             \A v \in Workers : v # w => worker'[v] = worker[v]
      PROVE  RepairComing'
  BY <1>1 DEF RepairDue, RepairComing, Rerendering, PatchPending
<1>2. ASSUME NEW t \in MachineText, RunPipeline(w, t)
      PROVE  RepairComing'
  <2>1. ~Rerendering(w) /\ \A v \in Workers : v # w => worker'[v] = worker[v]
    BY <1>2 DEF RunPipeline, Take, Rerendering, TypeOK
  <2>2. queued'["rerender"] = queued["rerender"]
    BY <1>2 DEF RunPipeline, Take, TypeOK, Kinds
  <2> QED
    BY <1>1, <1>2, <2>1, <2>2 DEF RunPipeline, Take
<1>3. ASSUME NEW m \in BOOLEAN, RunRerender(w, m)
      PROVE  RepairComing'
  <2>1. worker'[w].pc = "base" /\ worker'[w].kind = "rerender"
    BY <1>3 DEF RunRerender, Take, TypeOK
  <2> QED
    BY <2>1 DEF RepairComing, Rerendering
<1>4. CASE RerenderImpossible(w)
  BY <1>4 DEF RerenderImpossible
<1>5. CASE JobFails(w)
  <2>1. ~Rerendering(w) /\ ~abandoned
    BY <1>5 DEF JobFails, Rerendering
  <2>2. \A v \in Workers : v # w => worker'[v] = worker[v]
    BY <1>5 DEF JobFails, TypeOK
  <2> QED
    BY <1>1, <1>5, <2>1, <2>2 DEF JobFails
<1>6. CASE StoreObject(w)
  <2>1. worker[w].pc # "idle" /\ worker[w].pc \in DOMAIN NextStep
        /\ NextStep[worker[w].pc] \notin {"idle", "ack"}
    BY <1>6 DEF StoreObject, NextStep
  <2>2. worker'[w].kind = worker[w].kind /\ worker'[w].pc = NextStep[worker[w].pc]
    BY <1>6, <2>1, BusyWorker DEF StoreObject, TypeOK
  <2>3. \A v \in Workers : v # w => worker'[v] = worker[v]
    BY <1>6 DEF StoreObject, TypeOK
  <2> QED
    BY <1>1, <1>6, <2>1, <2>2, <2>3 DEF StoreObject, Rerendering
<1>7. CASE StoreObjectFails(w)
  <2>1. ~Rerendering(w) /\ ~abandoned
    BY <1>7 DEF StoreObjectFails, Rerendering
  <2>2. \A v \in Workers : v # w => worker'[v] = worker[v]
    BY <1>7 DEF StoreObjectFails, TypeOK
  <2> QED
    BY <1>1, <1>7, <2>1, <2>2 DEF StoreObjectFails
<1>8. CASE StoreManifest(w)
  BY <1>8 DEF StoreManifest, RenderedManifest, ManifestOf
<1>9. CASE Acknowledge(w)
  <2>1. ~Rerendering(w)
    BY <1>9 DEF Acknowledge, Rerendering
  <2>2. \A v \in Workers : v # w => worker'[v] = worker[v]
    BY <1>9 DEF Acknowledge, TypeOK
  <2> QED
    BY <1>1, <1>9, <2>1, <2>2 DEF Acknowledge
<1> QED
  BY <1>2, <1>3, <1>4, <1>5, <1>6, <1>7, <1>8, <1>9 DEF WorkerStep

LEMMA RepairFault ==
    ASSUME TypeOK, RepairDue, Fault
    PROVE  RepairDue'
<1> SUFFICES ASSUME manifest'.present, manifest'.stale, ~abandoned'
             PROVE  RepairComing'
  BY DEF RepairDue
<1> "rerender" \in Kinds /\ queued \in [Kinds -> Nat]
  BY DEF Kinds, TypeOK
<1>1. ASSUME NEW w \in Workers, WorkerCrash(w)
      PROVE  RepairComing'
  <2>1. RepairComing
    BY <1>1 DEF WorkerCrash, RepairDue
  <2>2. queued'["rerender"] >= queued["rerender"]
        /\ (Rerendering(w) => queued'["rerender"] > 0)
    BY <1>1, RedeliveredMore DEF WorkerCrash, Rerendering
  <2>3. \A v \in Workers : v # w => worker'[v] = worker[v]
    BY <1>1 DEF WorkerCrash, TypeOK
  <2>4. queued["rerender"] \in Nat /\ queued'["rerender"] \in Nat /\ editor' = editor
    BY <1>1, RedeliveredType DEF WorkerCrash
  <2> QED
    BY <2>1, <2>2, <2>3, <2>4 DEF RepairComing, Rerendering, PatchPending
<1>2. ASSUME NEW w \in Workers, SlowJobReclaimed(w)
      PROVE  RepairComing'
  <2>1. worker[w].kind \in Kinds
    BY <1>2, BusyWorker DEF SlowJobReclaimed
  <2>2. queued'["rerender"] >= queued["rerender"]
    BY <1>2, <2>1 DEF SlowJobReclaimed
  <2>3. queued["rerender"] \in Nat /\ queued'["rerender"] \in Nat
    BY <1>2, <2>1 DEF SlowJobReclaimed
  <2> QED
    BY <1>2, <2>2, <2>3
       DEF SlowJobReclaimed, RepairDue, RepairComing, Rerendering, PatchPending
<1>3. CASE ApiCrash
  <2>1. ~abandoned /\ ~PatchPending
    BY <1>3 DEF ApiCrash, EditUnqueued, PatchPending
  <2> QED
    BY <1>3, <2>1 DEF ApiCrash, RepairDue, RepairComing, Rerendering
<1>4. ASSUME NEW s \in BOOLEAN, NEW m \in BOOLEAN,
             NEW ds \in SUBSET {d \in Doc : metadata[d] = "volatile"}, PowerLoss(s, ds, m)
      PROVE  RepairComing'
  <2>1. ~abandoned /\ ~PatchPending
    BY <1>4 DEF PowerLoss, EditUnqueued, PatchPending
  <2>2. manifest.present /\ manifest.stale
    <3>1. CASE manifest.present /\ ~manifest.synced
      <4>1. manifest \in Manifests
        BY <3>1 DEF TypeOK, NoManifest, Garbage
      <4>2. manifest' = [manifest EXCEPT !.synced = TRUE]
        BY <1>4, <3>1 DEF PowerLoss, Garbage
      <4> QED
        BY <4>1, <4>2 DEF Manifests
    <3>2. CASE ~(manifest.present /\ ~manifest.synced)
      BY <1>4, <3>2 DEF PowerLoss
    <3> QED
      BY <3>1, <3>2
  <2>3. queued["rerender"] > 0 \/ \E w \in Workers : Rerendering(w)
    BY <2>1, <2>2 DEF RepairDue, RepairComing
  <2>4. queued' = Redelivered(Workers)
    BY <1>4 DEF PowerLoss
  <2>5. queued'["rerender"] >= queued["rerender"]
        /\ \A w \in Workers : Rerendering(w) => queued'["rerender"] > 0
    BY <2>4, RedeliveredMore DEF Rerendering
  <2>6. queued["rerender"] \in Nat /\ queued'["rerender"] \in Nat
    BY <2>4, RedeliveredType
  <2> QED
    BY <2>3, <2>5, <2>6 DEF RepairComing
<1> QED
  BY <1>1, <1>2, <1>3, <1>4 DEF Fault

LEMMA RepairNext ==
    ASSUME TypeOK, RepairDue, [Next]_vars
    PROVE  RepairDue'
<1>1. ASSUME NEW force \in BOOLEAN, PostPage(force)
      PROVE  RepairDue'
  <2>1. queued'["rerender"] = queued["rerender"]
    BY <1>1 DEF PostPage, TypeOK, Kinds
  <2> QED
    BY <1>1, <2>1 DEF PostPage, RepairDue, RepairComing, Rerendering, PatchPending
<1>2. CASE UNCHANGED vars
  BY <1>2 DEF vars, RepairDue, RepairComing, Rerendering, PatchPending
<1> QED
  BY <1>1, <1>2, RepairPatch, RepairWorker, RepairFault DEF Next

(* A stale page always has a rerender on its way, unless a recorded fault  *)
(* dropped it: PATCH raises the flag before it queues, and no worker that  *)
(* leaves a rerender behind leaves the flag up (handlers.go 493-538,       *)
(* page_cache.py 395-423).                                                 *)
THEOREM StalePageIsRerendered == Spec => []StaleHasRerender
<1>1. Init => RepairDue
  BY DEF Init, RepairDue, NoManifest
<1>2. TypeOK /\ RepairDue /\ [Next]_vars => RepairDue'
  BY RepairNext
<1>3. RepairDue => StaleHasRerender
  BY DEF RepairDue, StaleHasRerender, RepairComing, Rerendering, PatchPending
<1> QED
  BY <1>1, <1>2, <1>3, TypeCorrect, PTL DEF Spec

=============================================================================
