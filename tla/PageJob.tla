-------------------------------- MODULE PageJob --------------------------------
(***************************************************************************)
(* One page from its bytes to its image: process_job (worker/job.py) over    *)
(* detection, OCR, translation, cleanup, the document and the renderer, for  *)
(* the manga, webtoon and book pipelines, and the reader's edits that are    *)
(* rendered again from the document.                                         *)
(*                                                                         *)
(* A page is a record of what its pixels hold: pipeline, box, raw (the       *)
(* detector's inferences), and for each processing region its lines          *)
(* (webtoon), strokes and mask (<<>> or <<box>>); flat says that the         *)
(* background has one colour; book is the layout of a prose page.  Texts are *)
(* tokens: <<"text", i>> was read in unit i, Transformed of it is shown.     *)
(***************************************************************************)
EXTENDS Detection, BookLayout, Cleanup, PageDocument, PageTranslation

CONSTANTS
    Pages,           \* the pages that may be submitted
    InpaintEnabled,  \* INPAINT_ENABLED and MANGA_INPAINT_ENABLED
    MaxEdits         \* bound: edits of a delivered page

ASSUME PageJobAssumption == InpaintEnabled \in BOOLEAN /\ MaxEdits \in Nat

(* EasyOCR has read every region of a webtoon page.                          *)
ASSUME PagesAssumption ==
    \A p \in Pages :
        /\ p.raw \in Seq(RawDetection) /\ p.lines \in Seq(Seq(TextDetection))
        /\ p.pipeline \notin {"manga_translate", "manga_furigana", "book_furigana"} =>
             DOMAIN ProcessingRegions(Finalized(Adapted(p.raw), "vertical")) = DOMAIN p.lines

VARIABLES
    page,         \* the page of this job
    stage,        \* what the job does next, or "completed" or "failed"
    why,          \* of a failure: "backend", "refused" (by its own checks), "not prose"
    sems,         \* the semantic detections in reading order
    units,        \* the texts read
    plans,        \* their identities and orders
    transformed,  \* a text for each unit, or NoText
    outcomes,     \* the cleanup of each unit
    document,     \* the regions of the page document
    changed,      \* where the cleanup base differs from the source
    image,        \* the items drawn on the base
    cacheable,    \* whether the cache may keep the result
    edits         \* edits so far

job == <<page, stage, why, sems, units, plans, transformed, outcomes, document, changed,
         image, cacheable, edits>>

vars == <<job, translation>>

Transformed(source) == <<"transformed", source>>

IsManga == page.pipeline \in {"manga_translate", "manga_furigana"}
IsFurigana == page.pipeline = "manga_furigana"

PageJobTypeOK ==
    /\ stage \in {"detect", "ocr", "transform", "translating", "cleanup", "build", "render",
                  "rerender", "completed", "failed"}
    /\ why \in {"none", "backend", "refused", "not prose"}
    /\ Len(plans) \in {0, Len(units)} /\ Len(transformed) \in {0, Len(units)}
    /\ Len(outcomes) \in {0, Len(units)}
    /\ cacheable \in BOOLEAN /\ edits \in 0..MaxEdits
    /\ TranslationTypeOK

PageJobInit ==
    /\ page \in Pages /\ stage = "detect" /\ why = "none"
    /\ sems = <<>> /\ units = <<>> /\ plans = <<>> /\ transformed = <<>> /\ outcomes = <<>>
    /\ document = <<>> /\ changed = {} /\ image = {} /\ cacheable = FALSE /\ edits = 0
    /\ TranslationInit

(* process_job turns every exception into a failed result. *)
Fails(reason) ==
    /\ stage' = "failed" /\ why' = reason
    /\ UNCHANGED <<page, sems, units, plans, transformed, outcomes, document, changed, image,
                   cacheable, edits, translation>>

BackendFails ==
    /\ stage \in {"detect", "ocr", "transform", "cleanup", "render"}
    /\ Fails("backend")

Goes(next) ==
    /\ stage' = next
    /\ UNCHANGED <<page, why, edits>>

-----------------------------------------------------------------------------
(* Detection and OCR.                                                       *)

Detect ==
    /\ stage = "detect" /\ page.pipeline # "book_furigana"
    /\ sems' = Finalized(Adapted(page.raw), IF IsManga THEN "manga" ELSE "vertical")
    /\ Goes("ocr")
    /\ UNCHANGED <<units, plans, transformed, outcomes, document, changed, image, cacheable,
                   translation>>

SemOf(region) == Selected(sems, {i \in DOMAIN sems : sems[i].id = region.sem})

Unit(i, region, box, lines, text, valid, degraded, sfx) ==
    [region |-> i, box |-> box, sem |-> SemOf(region), artwork |-> region.artwork,
     lines |-> lines, text |-> text, valid |-> valid, degraded |-> degraded, sfx |-> sfx]

(* ocr_bubble: whether the reading is valid, and whether a call it needed did *)
(* not answer, are results of Routed.                                        *)
OcrManga ==
    LET regions == ProcessingRegions(sems)  i == Len(units) + 1 IN
    /\ stage = "ocr" /\ IsManga /\ i <= Len(regions)
    /\ \E valid, degraded \in BOOLEAN :
        units' = Append(units, Unit(i, regions[i], regions[i].box, <<>>, <<"text", i>>,
                                    valid, degraded, FALSE))
    /\ Goes("ocr")
    /\ UNCHANGED <<sems, plans, transformed, outcomes, document, changed, image, cacheable,
                   translation>>

(* ocr_detected_regions and prepare_translation_regions: the regions of the   *)
(* bubbles, then the sound effects, one for each line read in artwork.       *)
WebtoonUnits ==
    LET regions == ProcessingRegions(sems)
        texts(i) == PrepareRegions(page.lines[i])
        bubble(i) ==
            IF regions[i].artwork THEN <<>>
            ELSE [k \in DOMAIN texts(i) |->
                    Unit(i, regions[i], regions[i].box, texts(i)[k].lines, <<"text", i, k>>,
                         texts(i)[k].valid, FALSE, FALSE)]
        sfx(i) ==
            IF ~regions[i].artwork THEN <<>>
            ELSE [k \in DOMAIN page.lines[i] |->
                    Unit(i, [regions[i] EXCEPT !.sem = <<>>], page.lines[i][k].box,
                         <<page.lines[i][k]>>, <<"text", i, k>>,
                         IsHangul(page.lines[i][k].text), FALSE, TRUE)]
    IN  FlattenSeq([i \in DOMAIN regions |-> bubble(i)])
        \o FlattenSeq([i \in DOMAIN regions |-> sfx(i)])

(* The identities are fixed before the translation, which is joined by them. *)
Plan ==
    /\ stage = "ocr"
    /\ IsManga => Len(units) = Len(ProcessingRegions(sems))
    /\ units' = IF IsManga THEN units ELSE WebtoonUnits
    /\ plans' = IF IsManga THEN PlanManga(units', sems) ELSE PlanWebtoon(units', sems)
    /\ transformed' = [i \in DOMAIN units' |-> NoText]
    /\ Goes("transform")
    /\ UNCHANGED <<sems, outcomes, document, changed, image, cacheable, translation>>

-----------------------------------------------------------------------------
(* Transformation.                                                          *)

Eligible == {i \in DOMAIN units : units[i].valid}

(* transform_furigana: a valid text without kanji keeps its pixels. *)
Annotate ==
    /\ stage = "transform" /\ IsFurigana
    /\ \E kanji \in SUBSET Eligible :
        transformed' = [i \in DOMAIN units |->
                            IF i \in kanji THEN Transformed(units[i].text) ELSE NoText]
    /\ Goes("cleanup")
    /\ UNCHANGED <<sems, units, plans, outcomes, document, changed, image, cacheable,
                   translation>>

(* The items of the request, by reading order. *)
RequestItems == LET asked == Ranked(Eligible, LAMBDA i, j : plans[i].order < plans[j].order)
                IN  [k \in DOMAIN asked |-> plans[asked[k]].id]

Request ==
    /\ stage = "transform" /\ ~IsFurigana /\ Eligible # {}
    /\ IF Distinct(RequestItems)
       THEN /\ Submit(RequestItems)
            /\ Goes("translating")
            /\ UNCHANGED <<sems, units, plans, transformed, outcomes, document, changed, image,
                           cacheable>>
       ELSE Fails("refused")

NothingToTranslate ==
    /\ stage = "transform" /\ ~IsFurigana /\ Eligible = {}
    /\ Goes("cleanup")
    /\ UNCHANGED <<sems, units, plans, transformed, outcomes, document, changed, image,
                   cacheable, translation>>

Translate == stage = "translating" /\ Recover /\ UNCHANGED job

(* What the provider was asked under an identity. *)
AskedText(id) == units[CHOOSE i \in Eligible : plans[i].id = id].text

(* Mutant: the answers are joined by their place in the request. *)
JoinByPlace ==
    [i \in DOMAIN units |->
        IF i \notin Eligible THEN NoText
        ELSE Transformed(AskedText(request[Cardinality({j \in Eligible : j <= i})]))]

JoinTexts ==
    [i \in DOMAIN units |->
        IF i \in Eligible THEN Transformed(AskedText(plans[i].id)) ELSE NoText]

Join ==
    /\ stage = "translating" /\ asking = "done"
    /\ transformed' = JoinTexts
    /\ Goes("cleanup")
    /\ UNCHANGED <<sems, units, plans, outcomes, document, changed, image, cacheable,
                   translation>>

TranslationFails == stage = "translating" /\ asking = "broken" /\ Fails("backend")

-----------------------------------------------------------------------------
(* Cleanup.                                                                 *)

Left == Outcome(FALSE, "none", FALSE, {}, {})

Lucks == {[uniform |-> u, memory |-> TRUE, model |-> m] : u, m \in BOOLEAN}

Bubble(u) == [box |-> u.box, boundary |-> page.masks[u.region] # <<>>,
              mask |-> page.masks[u.region]]

(* Manga text is cleaned where it has been transformed, artwork by the model; *)
(* a webtoon bubble once, when one of its regions has a text; a sound effect  *)
(* is drawn over.                                                            *)
CleanUnit(i, luck) ==
    LET u == units[i]
        replaced == \E j \in DOMAIN units : /\ units[j].region = u.region
                                            /\ transformed[j] # NoText
    IN  IF u.sfx \/ ~replaced THEN Left
        ELSE IF ~IsManga
             THEN CleanBubble(page.lines[u.region], page.strokes[u.region], Bubble(u),
                              InpaintEnabled, page.box, luck)
        ELSE IF u.artwork /\ ~IsFurigana
             THEN CleanArtwork(u.box, InpaintEnabled, page.box, luck)
        ELSE ClearStrokes(page.strokes[u.region], u.box, page.masks[u.region], page.box)

(* Where the base differs: painting a flat background changes the strokes only. *)
Visible(painted) ==
    IF page.flat THEN UNION {Clipped(UNION Range(page.strokes), b) : b \in painted} ELSE painted

CleanPage ==
    /\ stage = "cleanup"
    /\ \E luck \in [1..Len(ProcessingRegions(sems)) -> Lucks] :
        outcomes' = [i \in DOMAIN units |-> CleanUnit(i, luck[units[i].region])]
    /\ changed' = Visible(UNION {outcomes'[i].painted : i \in DOMAIN units})
    /\ Goes("build")
    /\ UNCHANGED <<sems, units, plans, transformed, document, image, cacheable, translation>>

-----------------------------------------------------------------------------
(* The document.                                                            *)

MaskOf(sem) ==
    UNION {Range(page.masks[i]) : i \in {j \in DOMAIN ProcessingRegions(sems) :
                sem.kind = "balloon" /\ ProcessingRegions(sems)[j].sem = sem.id}}

RegionOf(i) ==
    LET u == units[i]  p == plans[i]
        masks == IF p.sem = <<>> \/ u.sfx THEN {} ELSE MaskOf(p.sem[1])
        placed == IF IsManga \/ u.sfx THEN [box |-> u.box, sources |-> <<>>]
                  ELSE [box |-> RenderBox(u.lines, Bubble(u), page.box),
                        sources |-> SourceBoxes(u.lines, Bubble(u))]
    IN  [id |-> p.id, kind |-> p.kind, order |-> p.order, parent |-> ParentOf(p.sem, sems),
         box |-> IF u.sfx THEN u.box
                 ELSE EnclosingRegionBox(u.box, p.sem, outcomes[i].mask \cup masks, page.box),
         text |-> u.text, valid |-> u.valid \/ u.sfx, translation |-> transformed[i],
         masks |-> masks, cleanup |-> outcomes[i].mask, render |-> <<placed>>,
         manual |-> NoText]

(* Mutant: the cleanup is forgotten. *)
OcrDegraded == \E i \in DOMAIN units : IsManga /\ units[i].degraded

(* A degraded stage keeps the result out of the cache. *)
Degraded ==
    \E i \in DOMAIN units : (IsManga /\ units[i].degraded) \/ outcomes[i].degraded

Built ==
    [i \in DOMAIN units |-> RegionOf(i)]
        \o UnprocessedRegions(plans, sems, [s \in Range(sems) |-> MaskOf(s)])

Build ==
    /\ stage = "build"
    /\ IF ValidDocument(Built, page.box)
       THEN /\ document' = Built
            /\ Goes("render")
            /\ UNCHANGED <<sems, units, plans, transformed, outcomes, changed, image,
                           cacheable, translation>>
       ELSE Fails("refused")

(* _rerender_from_metadata, also for the first image. *)
Render ==
    /\ stage = "render"
    /\ IF ValidArtifacts(document, changed)
       THEN /\ image' = DrawnItems(document)
            /\ cacheable' = ~Degraded
            /\ Goes("completed")
            /\ UNCHANGED <<sems, units, plans, transformed, outcomes, document, changed,
                           translation>>
       ELSE Fails("refused")

(* _process_book: the columns, with the kana in the gutters; nothing is       *)
(* cleaned, and nothing is rendered again.                                   *)
ProcessBook ==
    /\ stage = "detect" /\ page.pipeline = "book_furigana"
    /\ LET columns == Columns(page.book)
           built == [i \in DOMAIN columns |->
                [id |-> NextRegionId({}, "text_column", columns[i].box), kind |-> "text_column",
                 box |-> columns[i].box, order |-> i - 1, parent |-> NoText,
                 text |-> <<"text", i>>, valid |-> TRUE,
                 translation |-> Transformed(<<"text", i>>), masks |-> {}, cleanup |-> {},
                 render |-> <<[box |-> columns[i].box, sources |-> <<>>]>>, manual |-> NoText]]
       IN  IF ~IsProse(columns) THEN Fails("not prose")
           ELSE IF ~ValidDocument(built, page.box) THEN Fails("refused")
           ELSE /\ document' = built /\ image' = DrawnItems(built) /\ cacheable' = TRUE
                /\ Goes("completed")
                /\ UNCHANGED <<sems, units, plans, transformed, outcomes, changed, translation>>

-----------------------------------------------------------------------------
(* Edits of a page that the cache kept.                                      *)

Editable == stage = "completed" /\ cacheable /\ page.pipeline # "book_furigana"

(* The reader writes a text for a region, or takes it back. *)
Edit ==
    /\ Editable /\ edits < MaxEdits
    /\ \E i \in DOMAIN document, text \in {NoText, <<"manual">>} :
        /\ text # document[i].manual
        /\ document' = [document EXCEPT ![i].manual = text]
    /\ edits' = edits + 1 /\ stage' = "rerender"
    /\ UNCHANGED <<page, why, sems, units, plans, transformed, outcomes, changed, image,
                   cacheable, translation>>

(* The job of the edit; when it fails the old image stays. *)
Rerender ==
    /\ stage = "rerender"
    /\ \/ ValidArtifacts(document, changed) /\ image' = DrawnItems(document)
       \/ UNCHANGED image
    /\ Goes("completed")
    /\ UNCHANGED <<sems, units, plans, transformed, outcomes, document, changed, cacheable,
                   translation>>

JobStep ==
    \/ Detect \/ OcrManga \/ Plan \/ Annotate \/ Request \/ NothingToTranslate
    \/ Translate \/ Join \/ TranslationFails \/ CleanPage \/ Build \/ Render
    \/ ProcessBook \/ Rerender

PageJobNext == JobStep \/ BackendFails \/ Edit

Spec == PageJobInit /\ [][PageJobNext]_vars

Ended == stage \in {"completed", "failed"}

(* Every stage is a bounded call of one thread, so the job's own steps go on; *)
(* nobody has to edit.  This is WF_vars(JobStep) with ENABLED <<JobStep>>_vars *)
(* written as ~Ended, which is what it comes to.                             *)
FairSpec == Spec /\ ([]<>Ended \/ []<><<JobStep>>_vars)

-----------------------------------------------------------------------------
(* Properties.                                                              *)

(* The checks a job runs on its own work never fail it: the translation      *)
(* request names every item once, and the document it builds (identities,    *)
(* orders, parents, boxes and masks, from four different places) and the     *)
(* cleanup base pass PageDocument and _validate_render_artifacts.            *)
OwnDocumentAccepted == why # "refused"

(* What the checks compare across regions agrees whatever was read: no two    *)
(* items of a request and no two regions of the document built have one      *)
(* identity or one reading order, though these come from detections, groups  *)
(* of lines, sound effects and geometry twins; and every parent is in the    *)
(* document (make_region_id, _ReadingOrderAllocator, PageDocument).          *)
IdentitiesAgree ==
    /\ stage = "transform" /\ ~IsFurigana =>
        /\ \A i, j \in Eligible : i # j => plans[i].order # plans[j].order
        /\ Distinct(RequestItems)
    /\ stage = "build" => OwnIdentities(Built) /\ ParentsExist(Built) /\ Acyclic(Built)

ShownIds == {item.id : item \in image}

(* Erasing and drawing go together on a page the cache keeps: where source   *)
(* text was erased something is drawn, and a text is drawn over its source   *)
(* only when that was erased (a sound effect is drawn over its artwork).     *)
ErasedAndShownTogether ==
    stage = "completed" /\ cacheable /\ page.pipeline # "book_furigana" =>
        \A i \in DOMAIN units :
            /\ outcomes[i].painted # {} =>
                \E j \in DOMAIN units : /\ units[j].region = units[i].region
                                        /\ plans[j].id \in ShownIds
            /\ transformed[i] # NoText /\ ~units[i].sfx => outcomes[i].painted # {}

Status ==
    IF stage \in {"completed", "rerender"} THEN "completed"
    ELSE IF stage = "failed" THEN "failed" ELSE "running"

Entry(region, text) ==
    [id |-> region.id, source |-> region.text, text |-> text, edited |-> text = <<"manual">>]

Wanted ==
    IF Status # "completed" THEN {}
    ELSE {Entry(r, ShownText(r)) : r \in {s \in Range(document) : ShownText(s) # NoText}}

Shown ==
    {Entry(CHOOSE r \in Range(document) : r.id = item.id, item.text) : item \in image}

Contract == INSTANCE PageContract WITH status <- Status, wanted <- Wanted, shown <- Shown

(* The job implements PageContract: whatever the provider answers and in      *)
(* whatever order, the image shows each region the transformation of its own  *)
(* text, an edit changes its region only, and a failure delivers nothing.     *)
KeepsPromise == Contract!Promise

(* A job always ends, and so does the rerender of an edit: recovery by        *)
(* splitting and asking again is bounded.                                    *)
JobEnds == []<>Ended

=============================================================================
