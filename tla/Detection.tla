------------------------------- MODULE Detection -------------------------------
(***************************************************************************)
(* The semantic detections of a page                                        *)
(* (pipeline/detection.py): thresholds, class-aware suppression, the text- *)
(* balloon links, the reading order, and the processing regions derived    *)
(* from them.  A box is [x1, y1, x2, y2] in pixels, half open.  Scores are *)
(* percentages.  An identity is a sequence: the digest of kind, box and    *)
(* label (a number), its collision suffix, and the offset of its strip.     *)
(***************************************************************************)
EXTENDS Geometry

-----------------------------------------------------------------------------
(* Adapting the detector's output.                                          *)

KindOf == [bubble |-> "balloon", text_bubble |-> "text", text_free |-> "sfx",
           panel |-> "panel", frame |-> "panel"]

Threshold == [text |-> 35, sfx |-> 60, balloon |-> 35, panel |-> 50]

DuplicateOverlap == 50

Before(a, b) ==
    \E n \in DOMAIN b : /\ \A k \in 1..(n - 1) : k \in DOMAIN a /\ a[k] = b[k]
                        /\ n > Len(a) \/ a[n] < b[n]

RawDetection == [label : STRING, score : Int, box : BoxSet, digest : Int]

(* raw is the sequence of the raw detections of one inference. *)
Adapted(raw) ==
    LET kept == {i \in DOMAIN raw :
                    /\ raw[i].label \in DOMAIN KindOf
                    /\ raw[i].score >= Threshold[KindOf[raw[i].label]]}
        twins(i) == {j \in kept : raw[j].digest = raw[i].digest
                        /\ (raw[j].score > raw[i].score
                            \/ (raw[j].score = raw[i].score /\ j <= i))}
    IN  {[id |-> <<raw[i].digest, Cardinality(twins(i))>>,
          kind |-> KindOf[raw[i].label], box |-> raw[i].box,
          score |-> raw[i].score] : i \in kept}

(* The suppression is greedy by falling score: a detection is dropped when  *)
(* a kept one of its class covers, or is covered by, more than half of it.  *)
Duplicates(a, b) ==
    /\ a.kind = b.kind
    /\ 100 * Shared(a.box, b.box) > DuplicateOverlap * Smaller(Area(a.box), Area(b.box))

Stronger(a, b) == a.score > b.score \/ (a.score = b.score /\ Before(a.id, b.id))

DeduplicateByClass(dets) ==
    FoldLeft(LAMBDA kept, d : IF \E k \in kept : Duplicates(d, k)
                              THEN kept ELSE kept \cup {d},
             {}, Ranked(dets, Stronger))

(* The balloon of a text: overlap plus one for a contained center, the      *)
(* smaller balloon on a tie, then the smaller identity; 0 for none.         *)
LinkedBalloon(dets, text) ==
    LET candidates == {b \in dets : b.kind = "balloon" /\
                        (ContainsCenter(b.box, text.box)
                         \/ 2 * Shared(text.box, b.box) >= Area(text.box))}
        score(b) == Shared(text.box, b.box)
                    + IF ContainsCenter(b.box, text.box) THEN Area(text.box) ELSE 0
        better(a, b) ==
            \/ score(a) > score(b)
            \/ score(a) = score(b) /\ Area(a.box) < Area(b.box)
            \/ score(a) = score(b) /\ Area(a.box) = Area(b.box) /\ Before(a.id, b.id)
    IN  IF text.kind # "text" \/ candidates = {} THEN <<>>
        ELSE (CHOOSE b \in candidates : \A c \in candidates \ {b} : better(b, c)).id

-----------------------------------------------------------------------------
(* Reading order.                                                           *)

SameVisualRow(a, b) ==
    LET gap == Larger(a.box.y1, b.box.y1) - Smaller(a.box.y2, b.box.y2) IN
    gap <= Larger(4, Smaller(Height(a.box), Height(b.box)) \div 4)

(* The rows are the connected components of SameVisualRow. *)
RowOf(dets, seed) ==
    LET grown[n \in Nat] ==
            IF n = 0 THEN {seed}
            ELSE {d \in dets : \E m \in grown[n - 1] : d = m \/ SameVisualRow(d, m)}
    IN  grown[Cardinality(dets)]

LeastId(row) == (CHOOSE d \in row : \A e \in row \ {d} : Before(d.id, e.id)).id

RowBefore(r, s) ==
    LET top(row) == Min({d.box.y1 : d \in row})
        foot(row) == Min({d.box.y2 : d \in row})
    IN  \/ top(r) < top(s)
        \/ top(r) = top(s) /\ foot(r) < foot(s)
        \/ top(r) = top(s) /\ foot(r) = foot(s) /\ Before(LeastId(r), LeastId(s))

KindRank == [balloon |-> 1, panel |-> 2, sfx |-> 3, text |-> 4]  \* alphabetical

RightToLeft(a, b) ==
    \/ a.box.x2 > b.box.x2
    \/ /\ a.box.x2 = b.box.x2
       /\ \/ a.box.y1 < b.box.y1
          \/ /\ a.box.y1 = b.box.y1
             /\ \/ KindRank[a.kind] < KindRank[b.kind]
                \/ a.kind = b.kind /\ Before(a.id, b.id)

OrderVisualRows(dets) ==
    FlattenSeq([i \in 1..Cardinality({RowOf(dets, d) : d \in dets}) |->
        Ranked(Ranked({RowOf(dets, d) : d \in dets}, RowBefore)[i], RightToLeft)])

(* The smallest enclosing panel. *)
PanelOf(panels, d) ==
    LET enclosing == {p \in panels : ContainsCenter(p.box, d.box)} IN
    IF enclosing = {} THEN <<>>
    ELSE (CHOOSE p \in enclosing : \A q \in enclosing \ {p} :
            Area(p.box) < Area(q.box)
            \/ (Area(p.box) = Area(q.box) /\ Before(p.id, q.id))).id

(* Mutant: what lies in no panel is not ordered. *)
OrderPanels(dets) ==
    LET panels  == OrderVisualRows({d \in dets : d.kind = "panel"})
        members(id) == {d \in dets : d.kind # "panel" /\ PanelOf(Range(panels), d) = id}
    IN  FlattenSeq([i \in DOMAIN panels |->
                       <<panels[i]>> \o OrderVisualRows(members(panels[i].id))])

(* Each panel with its members; the rest comes last. *)
OrderManga(dets) ==
    LET panels  == {d \in dets : d.kind = "panel"}
        members(id) == {d \in dets \ panels : PanelOf(panels, d) = id}
        inOrder == OrderVisualRows(panels)
    IN  FlattenSeq([i \in DOMAIN inOrder |->
                       <<inOrder[i]>> \o OrderVisualRows(members(inOrder[i].id))])
        \o OrderVisualRows(members(<<>>))

VerticalRank == [panel |-> 0, balloon |-> 1, text |-> 2, sfx |-> 3]

TopToBottom(a, b) ==
    \/ a.box.y1 < b.box.y1
    \/ /\ a.box.y1 = b.box.y1
       /\ \/ a.box.x1 < b.box.x1
          \/ /\ a.box.x1 = b.box.x1
             /\ \/ VerticalRank[a.kind] < VerticalRank[b.kind]
                \/ a.kind = b.kind /\ Before(a.id, b.id)

(* Mutant: the texts are linked before the balloons are suppressed. *)
LinkedEarly(dets, direction) ==
    LET kept == DeduplicateByClass(dets)
        ordered == IF direction = "manga" THEN OrderManga(kept)
                                          ELSE Ranked(kept, TopToBottom)
    IN  [i \in DOMAIN ordered |->
            [id |-> ordered[i].id, kind |-> ordered[i].kind, box |-> ordered[i].box,
             score |-> ordered[i].score, order |-> i - 1,
             parent |-> LinkedBalloon(dets, ordered[i])]]

(* finalize_detections: the detections in reading order, with their parents. *)
Finalized(dets, direction) ==
    LET kept == DeduplicateByClass(dets)
        ordered == IF direction = "manga" THEN OrderManga(kept)
                                          ELSE Ranked(kept, TopToBottom)
    IN  [i \in DOMAIN ordered |->
            [id |-> ordered[i].id, kind |-> ordered[i].kind, box |-> ordered[i].box,
             score |-> ordered[i].score, order |-> i - 1,
             parent |-> LinkedBalloon(kept, ordered[i])]]

-----------------------------------------------------------------------------
(* A tall webtoon page is read in overlapping strips, each an inference of  *)
(* its own; the page's collection is finalized from what they found.        *)

(* split_tall_image: the offsets of the strips. *)
StripOffsets(height, maxHeight, overlap) ==
    {k * (maxHeight - overlap) : k \in
        {n \in 0..height : n = 0 \/ (n - 1) * (maxHeight - overlap) + maxHeight < height}}

(* _offset_semantic: a detection moves down by the offset of its strip. *)
Offset(dets, dy) ==
    {[d EXCEPT !.id = Append(@, dy), !.box.y1 = @ + dy, !.box.y2 = @ + dy] : d \in dets}

(* strips[dy] is the raw output for the strip at dy. *)
FinalizedStrips(strips) ==
    Finalized(UNION {Offset(Range(Finalized(Adapted(strips[dy]), "vertical")), dy) :
                        dy \in DOMAIN strips}, "vertical")

(* stitch_detections: EasyOCR lines of all strips, strongest first, without *)
(* those that share more than half of their union with a kept one.          *)
Twice(a, b) == 3 * Shared(a, b) > Area(a) + Area(b)

Stitched(lines) ==
    FoldLeft(LAMBDA kept, l : IF \E k \in Range(kept) : Twice(l.box, k.box)
                              THEN kept ELSE Append(kept, l),
             <<>>, Sorted(lines, LAMBDA a, b : a.score > b.score))

-----------------------------------------------------------------------------
(* validate_detection_collection: what a stage accepts from the one before. *)
ValidCollection(sems) ==
    /\ \A i, j \in DOMAIN sems : i # j =>
        sems[i].id # sems[j].id /\ sems[i].order # sems[j].order
    /\ \A i \in DOMAIN sems : sems[i].parent # <<>> =>
        /\ sems[i].kind = "text"
        /\ \E j \in DOMAIN sems : sems[j].id = sems[i].parent /\ sems[j].kind = "balloon"

(* legacy_processing_regions: what OCR reads.  A text inside a balloon is   *)
(* read with its balloon; panels are not read.                              *)
ProcessingRegions(sems) ==
    LET read == Selected(sems, {i \in DOMAIN sems : /\ sems[i].kind # "panel"
                                                    /\ sems[i].parent = <<>>}) IN
    [i \in DOMAIN read |->
        [sem |-> read[i].id, box |-> read[i].box, artwork |-> read[i].kind = "sfx"]]

=============================================================================
