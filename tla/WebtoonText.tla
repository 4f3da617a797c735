------------------------------ MODULE WebtoonText ------------------------------
(***************************************************************************)
(* The Korean lines of a webtoon page: the three passes of EasyOCR and the  *)
(* rescue of what they rejected (webtoon/ocr.py), and the regions that are  *)
(* translated, cleaned and drawn (webtoon/processor.py).                    *)
(*                                                                         *)
(* A line is [box, score, text]: the score is in thousandths, the text      *)
(* counts its characters by class as in OcrRouting.  Positions of a region  *)
(* are doubled or scaled where the code compares fractions.                 *)
(***************************************************************************)
EXTENDS Geometry, OcrRouting

TextDetection == [box : BoxSet, score : Int, text : [Classes -> Nat]]

AcceptedScore == 300
InvertedScore == 100
RescueScore   == 20
ClusterGap    == 40

(* _iou(a, b) > 0.3 *)
Overlapping(a, b) == 10 * Shared(a, b) > 3 * (Area(a) + Area(b) - Shared(a, b))

(* No line lies over another one. *)
Apart(lines) == \A i, j \in DOMAIN lines : i # j => ~Overlapping(lines[i].box, lines[j].box)

(* Mutant: a shared pixel makes two lines one. *)
MergeTouching(first, second) ==
    LET add(merged, line) ==
            LET met == {i \in DOMAIN merged : Shared(line.box, merged[i].box) > 0} IN
            IF met = {} THEN Append(merged, line)
            ELSE IF 2 * Area(line.box) > 3 * Area(merged[Min(met)].box)
                 THEN [merged EXCEPT ![Min(met)] = line]
            ELSE merged
    IN  FoldLeft(add, first, second)

(* _merge_detections: the first overlapped line is kept, or replaced when   *)
(* the new one has more than one and a half times its area.                 *)
MergeLines(first, second) ==
    LET add(merged, line) ==
            LET met == {i \in DOMAIN merged : Overlapping(line.box, merged[i].box)} IN
            IF met = {} THEN Append(merged, line)
            ELSE IF 2 * Area(line.box) > 3 * Area(merged[Min(met)].box)
                 THEN [merged EXCEPT ![Min(met)] = line]
            ELSE merged
    IN  FoldLeft(add, first, second)

(* _run_ocr: an inference is split by the threshold of its pass. *)
Accepted(lines, least) == SelectSeq(lines, LAMBDA l : l.score >= least)
Rejected(lines, least) == SelectSeq(lines, LAMBDA l : l.score < least)

(* _is_column_neighbor *)
ColumnNeighbors(a, b) ==
    LET apart == (a.x1 + a.x2) - (b.x1 + b.x2) IN
    /\ Larger(a.y1 - b.y2, b.y1 - a.y2) <= ClusterGap
    /\ Larger(apart, -apart) < Larger(Width(a), Width(b))

(* The accepted Korean lines, grouped by transitive neighbourhood; a group  *)
(* is the set of its indices.                                               *)
LineGroups(lines) ==
    LET korean == {i \in DOMAIN lines : ValidKorean(lines[i].text)}
        group(i) ==
            LET grown[n \in Nat] ==
                    IF n = 0 THEN {i}
                    ELSE {j \in korean : \E k \in grown[n - 1] :
                            j = k \/ ColumnNeighbors(lines[j].box, lines[k].box)}
            IN  grown[Cardinality(korean)]
    IN  {g \in {group(i) : i \in korean} : Cardinality(g) >= 2}

(* A rejected line joins the first group beside it, when its height agrees. *)
Rescued(lines, rejected) ==
    LET beside(r) == {g \in LineGroups(lines) :
                        \E i \in g : ColumnNeighbors(r.box, lines[i].box)}
        heights(g) == Ranked({<<Height(lines[i].box), i>> : i \in g},
                             LAMBDA a, b : a[1] < b[1] \/ (a[1] = b[1] /\ a[2] < b[2]))
        middle(g) == Larger(1, heights(g)[Cardinality(g) \div 2 + 1][1])
        agrees(r) ==
            LET g == CHOOSE h \in beside(r) : \A k \in beside(r) : Min(h) <= Min(k)
            IN  /\ 10 * Height(r.box) >= 7 * middle(g)
                /\ 10 * Height(r.box) <= 14 * middle(g)
    IN  SelectSeq(rejected, LAMBDA r :
            /\ r.score >= RescueScore /\ ValidKorean(r.text)
            /\ \A i \in DOMAIN lines : ~Overlapping(r.box, lines[i].box)
            /\ beside(r) # {} /\ agrees(r))

(* detect_and_read and ocr_within_bbox, which also moves the lines of a     *)
(* crop padded by 20 pixels back to the page.                               *)
ReadLines(plain, enhanced, inverted) ==
    LET merge(split(_, _)) ==
            MergeLines(MergeLines(split(plain, AcceptedScore), split(enhanced, AcceptedScore)),
                       split(inverted, InvertedScore))
    IN  merge(Accepted) \o Rescued(merge(Accepted), merge(Rejected))

CropOrigin(b) == [x |-> Larger(0, b.x1 - 20), y |-> Larger(0, b.y1 - 20)]

OnPage(lines, b) ==
    LET o == CropOrigin(b) IN
    [i \in DOMAIN lines |-> [lines[i] EXCEPT !.box =
        Box(@.x1 + o.x, @.y1 + o.y, @.x2 + o.x, @.y2 + o.y)]]

-----------------------------------------------------------------------------
(* The regions of a bubble.                                                 *)

TextOf(lines) == [c \in Classes |-> Total([i \in DOMAIN lines |-> lines[i].text[c]])]

IsHangul(text) == Holds(text, {"hangul"})

(* Large single characters: a title or logo, left as it is. *)
IsTitle(lines) ==
    /\ lines # <<>>
    /\ Total([i \in DOMAIN lines |-> Height(lines[i].box)]) > 60 * Len(lines)
    /\ Total([i \in DOMAIN lines |-> Length(lines[i].text)]) <= 2 * Len(lines)

(* _detect_subgroups: from the top down, a line starts a group of its own   *)
(* when it lies below and beside the last one, or far beside it.            *)
Subgroups(lines) ==
    LET sorted == Sorted(lines, LAMBDA a, b : a.box.y1 < b.box.y1)
        split(g, l) ==
            LET n   == Len(g)
                gap == l.box.y1 - Max({m.box.y2 : m \in Range(g)})
                off == n * (l.box.x1 + l.box.x2)
                       - Total([i \in DOMAIN g |-> g[i].box.x1 + g[i].box.x2])
                far == Larger(off, -off)
            IN  (gap > 20 /\ far > 2 * 50 * n) \/ far > 2 * 100 * n
        add(groups, l) ==
            IF split(Last(groups), l) THEN Append(groups, <<l>>)
            ELSE Append(Front(groups), Append(Last(groups), l))
    IN  IF Len(lines) <= 1 THEN <<lines>>
        ELSE FoldLeft(add, <<<<Head(sorted)>>>>, Tail(sorted))

Region(lines, valid) == [lines |-> lines, valid |-> valid]

(* prepare_translation_regions for one bubble; an invalid region keeps its  *)
(* bubble on the page as it is.                                             *)
PrepareRegions(lines) ==
    IF IsTitle(lines) \/ ~ValidKorean(TextOf(lines)) THEN <<Region(lines, FALSE)>>
    ELSE IF Len(Subgroups(lines)) = 1 THEN <<Region(lines, TRUE)>>
    ELSE [i \in DOMAIN Subgroups(lines) |->
            Region(Subgroups(lines)[i], ValidKorean(TextOf(Subgroups(lines)[i])))]

-----------------------------------------------------------------------------
(* Where a region is drawn.  A bubble is [box, boundary, mask]; mask is the *)
(* box its mask fills, or <<>> for no mask.                                 *)

Boxes(lines) == {lines[i].box : i \in DOMAIN lines}

TextBox(lines, page) ==
    IF lines = <<>> THEN page
    ELSE LET h == Hull(Boxes(lines))
         IN  Meet(Box(h.x1 - 14, h.y1 - 10, h.x2 + 14, h.y2 + 10), page)

(* _expand_render_bbox: a wide panel gives the translation more room. *)
ExpandRenderBox(text, bubble) ==
    LET reference == IF bubble.mask = <<>> THEN bubble.box ELSE bubble.mask[1]
        hidden == bubble.mask # <<>> /\ ~ValidBox(Meet(Box(reference.x1, text.y1, reference.x2,
                                                           text.y2), reference))
        inset  == IF bubble.boundary THEN 8 ELSE 0
        target == Smaller((85 * Width(reference)) \div 100, (13 * Width(text)) \div 10)
        middle == (text.x1 + text.x2) \div 2
    IN  IF hidden \/ 10 * Width(reference) < 12 * Width(text) THEN text
        ELSE Box(Larger(reference.x1 + inset, middle - target \div 2), text.y1,
                 Smaller(reference.x2 - inset, middle + target \div 2), text.y2)

(* Mutant: the drawing box is not kept inside the bubble. *)
RenderBoxAnywhere(lines, bubble, page) == ExpandRenderBox(TextBox(lines, page), bubble)

(* document_render_geometry: what the document keeps of it. *)
RenderBox(lines, bubble, page) ==
    LET contained == Meet(ExpandRenderBox(TextBox(lines, page), bubble), bubble.box)
    IN  IF Width(contained) <= 0 \/ Height(contained) <= 0 THEN bubble.box ELSE contained

SourceBoxes(lines, bubble) ==
    LET inside(i) == Meet(lines[i].box, bubble.box)
        kept == {i \in DOMAIN lines : Width(inside(i)) > 0 /\ Height(inside(i)) > 0}
    IN  Selected([i \in DOMAIN lines |-> inside(i)], kept)

=============================================================================
