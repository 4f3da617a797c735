----------------------------- MODULE PageDocument -----------------------------
(***************************************************************************)
(* The document of a page (pipeline/document.py) and how a job builds it     *)
(* (worker/job.py): identities and reading orders, the box around a region   *)
(* and its masks, and what PageDocument and the renderer refuse.             *)
(*                                                                         *)
(* A unit is a text a pipeline has read: [box, sem, text, ...], sem being    *)
(* <<>> or the semantic detection it is taken for.  A region is              *)
(* [id, kind, box, order, parent, text, valid, translation, masks, cleanup,  *)
(* render, manual]; masks are sets of boxes, render is <<>> or               *)
(* <<[box, sources]>>.  JSON, digests, provenance and polygons are left out. *)
(***************************************************************************)
EXTENDS Geometry

NoText == <<>>

(* The identities of regions. *)
RegionKinds == {"balloon", "text", "sfx", "panel", "bubble", "artwork_text", "text_column"}

RegionIds == [kind : RegionKinds, box : BoxSet, of : Seq(Int), copy : Nat]

(* make_region_id: the digest is taken to be injective.  The discriminator   *)
(* is the identity of the detection, or the number of a geometry twin.       *)
SemanticId(sem) == [kind |-> sem.kind, box |-> sem.box, of |-> sem.id, copy |-> 0]

(* Mutant: the twins are not counted. *)
GeometryId(taken, kind, box) == [kind |-> kind, box |-> box, of |-> <<>>, copy |-> 1]

(* _next_region_id *)
NextRegionId(taken, kind, box) ==
    [kind |-> kind, box |-> box, of |-> <<>>,
     copy |-> 1 + Cardinality({t \in taken : t.kind = kind /\ t.box = box /\ t.of = <<>>})]

(* A plan is [id, order, kind, sem]: one unit after the other takes the       *)
(* identity and the order of its detection, or what is free behind them       *)
(* (_ReadingOrderAllocator).                                                 *)
FirstExtra(sems) == Max({-1} \cup {sems[i].order : i \in DOMAIN sems}) + 1

Planned(plans, kind, sem, box, sems) ==
    LET ids == {plans[i].id : i \in DOMAIN plans}
        extras == {i \in DOMAIN plans : plans[i].sem = <<>>}
    IN  IF sem # <<>>
        THEN [id |-> SemanticId(sem[1]), order |-> sem[1].order, kind |-> kind, sem |-> sem]
        ELSE [id |-> NextRegionId(ids, kind, box), kind |-> kind, sem |-> <<>>,
              order |-> FirstExtra(sems) + Cardinality(extras)]

Represented(plans) == {plans[i].sem[1].id : i \in {j \in DOMAIN plans : plans[j].sem # <<>>}}

(* _process_manga: every unit is a detection of its own. *)
MangaPlan(plans, u, sems) ==
    Planned(plans, IF u.artwork THEN "artwork_text"
                   ELSE IF u.sem = <<>> THEN "bubble" ELSE u.sem[1].kind,
            u.sem, u.box, sems)

PlanManga(units, sems) ==
    FoldLeft(LAMBDA plans, u : Append(plans, MangaPlan(plans, u, sems)), <<>>, units)

(* _process_webtoon: the first region of a bubble is its detection; a sound   *)
(* effect is the first free one whose box holds its center.                  *)
MatchedSfx(u, plans, sems) ==
    LET free == {i \in DOMAIN sems : /\ sems[i].kind = "sfx"
                                     /\ sems[i].id \notin Represented(plans)
                                     /\ ContainsCenter(sems[i].box, u.box)}
    IN  IF free = {} THEN <<>> ELSE <<sems[Min(free)]>>

(* Mutant: every region of a bubble takes its detection. *)
WebtoonPlanTwice(plans, u, sems) ==
    IF u.sfx THEN Planned(plans, "sfx", MatchedSfx(u, plans, sems), u.box, sems)
    ELSE IF u.sem # <<>> THEN Planned(plans, u.sem[1].kind, u.sem, u.box, sems)
    ELSE Planned(plans, "bubble", <<>>, u.box, sems)

WebtoonPlan(plans, u, sems) ==
    LET first == u.sem # <<>> /\ u.sem[1].id \notin Represented(plans)
    IN  IF u.sfx THEN Planned(plans, "sfx", MatchedSfx(u, plans, sems), u.box, sems)
        ELSE IF first THEN Planned(plans, u.sem[1].kind, u.sem, u.box, sems)
        ELSE Planned(plans, "bubble", <<>>, u.box, sems)

PlanWebtoon(units, sems) ==
    FoldLeft(LAMBDA plans, u : Append(plans, WebtoonPlan(plans, u, sems)), <<>>, units)

(* _enclosing_region_bbox *)
EnclosingRegionBox(box, sem, masks, page) ==
    Meet(Hull({box} \cup (IF sem = <<>> THEN {} ELSE {sem[1].box}) \cup masks), page)

(* _build_region; a parent is the identity of the balloon of a text.          *)
ParentOf(sem, sems) ==
    IF sem = <<>> \/ sem[1].parent = <<>> THEN NoText
    ELSE LET i == CHOOSE i \in DOMAIN sems : sems[i].id = sem[1].parent
         IN  SemanticId(sems[i])

(* _append_unprocessed_semantic_regions *)
UnprocessedRegions(plans, sems, maskOf) ==
    LET rest == Selected(sems, {i \in DOMAIN sems : sems[i].id \notin Represented(plans)}) IN
    [i \in DOMAIN rest |->
        [id |-> SemanticId(rest[i]), kind |-> rest[i].kind, box |-> rest[i].box,
         order |-> rest[i].order, parent |-> ParentOf(<<rest[i]>>, sems),
         text |-> NoText, valid |-> FALSE, translation |-> NoText, masks |-> maskOf[rest[i]],
         cleanup |-> {}, render |-> <<>>, manual |-> NoText]]

-----------------------------------------------------------------------------
(* What is refused.                                                          *)

ValidRegion(r, page) ==
    /\ ValidBox(r.box) /\ Encloses(page, r.box)
    /\ r.render # <<>> =>
        /\ ValidBox(r.render[1].box) /\ Encloses(r.box, r.render[1].box)
        /\ \A b \in Range(r.render[1].sources) : ValidBox(b) /\ Encloses(r.box, b)

(* Identities and orders are used once, and parents exist.                   *)
OwnIdentities(document) ==
    \A i, j \in DOMAIN document : i # j =>
        document[i].id # document[j].id /\ document[i].order # document[j].order

ParentsExist(document) ==
    \A i \in DOMAIN document : document[i].parent # NoText =>
        \E j \in DOMAIN document : document[j].id = document[i].parent

(* The parent graph has no cycle when every chain of parents ends.           *)
Acyclic(document) ==
    LET parent(ids) == {document[i].parent : i \in {j \in DOMAIN document :
                            document[j].id \in ids}} \ {NoText}
        reached[n \in Nat] == IF n = 0 THEN {document[i].id : i \in DOMAIN document}
                              ELSE parent(reached[n - 1])
    IN  reached[Len(document)] = {}

ValidDocument(document, page) ==
    /\ OwnIdentities(document) /\ ParentsExist(document) /\ Acyclic(document)
    /\ \A i \in DOMAIN document : ValidRegion(document[i], page)

(* A box is inside a union of boxes when the first pixel of every cell the    *)
(* edges cut it into is.                                                     *)
Covers(mask, b) ==
    LET xs == {x \in {b.x1} \cup {m.x1 : m \in mask} \cup {m.x2 : m \in mask} :
                    b.x1 <= x /\ x < b.x2}
        ys == {y \in {b.y1} \cup {m.y1 : m \in mask} \cup {m.y2 : m \in mask} :
                    b.y1 <= y /\ y < b.y2}
    IN  \A x \in xs, y \in ys : \E m \in mask : Encloses(m, Box(x, y, x + 1, y + 1))

(* _validate_render_artifacts: no mask leaves its region, and the cleanup     *)
(* base differs from the source inside the cleanup masks only.               *)
ValidArtifacts(document, changed) ==
    /\ \A i \in DOMAIN document : \A m \in document[i].masks \cup document[i].cleanup :
            Encloses(document[i].box, m)
    /\ \A c \in changed : Covers(UNION {document[i].cleanup : i \in DOMAIN document}, c)

-----------------------------------------------------------------------------
(* Rendering from the document (_rerender_from_metadata): a manual text       *)
(* replaces the translation; without a text a region is left as it is.        *)
ShownText(r) == IF r.manual # NoText THEN r.manual ELSE r.translation

Container(r, document) ==
    IF r.parent = NoText THEN r
    ELSE document[CHOOSE i \in DOMAIN document : document[i].id = r.parent]

(* The box a text is drawn in, and the mask that bounds it: the region's own  *)
(* or its container's.                                                       *)
DrawnItem(r, document) ==
    [id |-> r.id, text |-> ShownText(r),
     box |-> IF r.render = <<>> THEN r.box ELSE r.render[1].box,
     masks |-> IF r.masks # {} THEN r.masks ELSE Container(r, document).masks]

DrawnItems(document) ==
    {DrawnItem(document[i], document) :
        i \in {j \in DOMAIN document : ShownText(document[j]) # NoText}}

=============================================================================
