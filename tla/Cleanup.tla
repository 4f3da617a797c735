------------------------------- MODULE Cleanup --------------------------------
(***************************************************************************)
(* Removing the source text of a region: pipeline/cleanup.py, cleanup_bubble *)
(* (webtoon/inpainter.py) with the solid fill it falls back to               *)
(* (webtoon/processor.py), and cleanup_region (kindle/inpainter.py) with the *)
(* fills of cleanup_page (kindle/processor.py).                              *)
(*                                                                         *)
(* A mask is a set of boxes, the pixels in any of them.  Which pixels of an  *)
(* OCR box are glyph strokes is the input strokes; colours and the pixels of *)
(* the model are left out.                                                   *)
(***************************************************************************)
EXTENDS WebtoonText

MaxTiles == 16
MaxTileSide == 1024
ContextPad == 20

(* build_cleanup_mask: the strokes, widened, inside the page and inside the  *)
(* eroded balloon; semantic is <<>> or <<box>>.  A side of the balloon on    *)
(* the border of the page is not eroded.                                     *)
Eroded(b, page, n) ==
    Box(IF b.x1 = page.x1 THEN b.x1 ELSE b.x1 + n, IF b.y1 = page.y1 THEN b.y1 ELSE b.y1 + n,
        IF b.x2 = page.x2 THEN b.x2 ELSE b.x2 - n, IF b.y2 = page.y2 THEN b.y2 ELSE b.y2 - n)

Positive(b) == Width(b) > 0 /\ Height(b) > 0

Clipped(boxes, b) == {c \in {Meet(m, b) : m \in boxes} : Positive(c)}

CleanupMask(strokes, semantic, page, widen, erosion) ==
    LET wide == Clipped({Padded(s, widen) : s \in Clipped(strokes, page)}, page)
    IN  IF semantic = <<>> THEN wide ELSE Clipped(wide, Eroded(semantic[1], page, erosion))

(* build_effective_cleanup_mask: never outside the bubble. *)
EffectiveMask(strokes, bubble, page) ==
    Clipped(CleanupMask(strokes, bubble.mask, page, 14 + 4, 3), bubble.box)

(* _tiles: one crop for each connected part of the mask, with its context.   *)
Touching(a, b) == a.x1 <= b.x2 /\ b.x1 <= a.x2 /\ a.y1 <= b.y2 /\ b.y1 <= a.y2

Blobs(mask) ==
    LET grown(m) ==
            LET g[n \in Nat] == IF n = 0 THEN {m}
                                ELSE {c \in mask : \E d \in g[n - 1] : Touching(c, d)}
            IN  g[Cardinality(mask)]
    IN  {grown(m) : m \in mask}

TileBefore(a, b) ==
    \/ a.y1 < b.y1
    \/ a.y1 = b.y1 /\ a.x1 < b.x1
    \/ a.y1 = b.y1 /\ a.x1 = b.x1 /\ a.y2 < b.y2
    \/ a.y1 = b.y1 /\ a.x1 = b.x1 /\ a.y2 = b.y2 /\ a.x2 < b.x2

(* Mutant: the context of a tile may reach over the border of the page. *)
TilesUnclipped(mask, page) ==
    Ranked({Padded(Hull(part), ContextPad) : part \in Blobs(mask)}, TileBefore)

Tiles(mask, page) ==
    Ranked({Meet(Padded(Hull(part), ContextPad), page) : part \in Blobs(mask)}, TileBefore)

OverBudget(mask, page) ==
    \/ Cardinality(Blobs(mask)) > MaxTiles
    \/ \E t \in Range(Tiles(mask, page)) : Width(t) > MaxTileSide \/ Height(t) > MaxTileSide

-----------------------------------------------------------------------------
(* What became of a region: applied, whether the result is degraded, how it  *)
(* was cleaned, the pixels painted, and the mask that is kept of it.         *)

Outcome(applied, method, degraded, painted, mask) ==
    [applied |-> applied, method |-> method, degraded |-> degraded,
     painted |-> painted, mask |-> mask]

(* luck is what the environment does to the call: uniform (the balloon has   *)
(* one colour), memory (enough of it), model (the supervised call answers).  *)
CleanupBubble(mask, enabled, page, luck) ==
    IF ~enabled THEN Outcome(FALSE, "disabled", FALSE, {}, {})
    ELSE IF mask = {} THEN Outcome(FALSE, "none", TRUE, {}, {})
    ELSE IF OverBudget(mask, page) THEN Outcome(TRUE, "uniform_fill", TRUE, mask, mask)
    ELSE IF luck.uniform THEN Outcome(TRUE, "uniform_fill", FALSE, mask, mask)
    ELSE IF ~luck.memory \/ ~luck.model
         THEN Outcome(TRUE, "uniform_fill", TRUE, mask, mask)
    ELSE Outcome(TRUE, "lama_tiles", FALSE, mask, mask)

(* PIL draws a rectangle with its last row and column. *)
Drawn(b, page) == Meet(Box(b.x1, b.y1, b.x2 + 1, b.y2 + 1), page)

(* _clean_bubble_for_render and _clear_bubble_text: without a balloon mask    *)
(* the text box is drawn as a rectangle, and so is the padded box of every   *)
(* line; the mask kept of them ends one row and one column earlier.          *)
SolidFill(lines, bubble, enabled, page) ==
    LET text  == IF lines = <<>> THEN bubble.box ELSE TextBox(lines, page)
        boxes == {Meet(Padded(b, 18), bubble.box) : b \in Boxes(lines)}
        inside == IF bubble.mask = <<>> THEN {text} ELSE Clipped({text}, bubble.mask[1])
    IN  Outcome(FALSE, "uniform_fill", enabled,
                {Drawn(b, page) : b \in boxes}
                \cup (IF bubble.mask = <<>> THEN {Drawn(text, page)} ELSE inside),
                boxes \cup inside)

CleanBubble(lines, strokes, bubble, enabled, page, luck) ==
    LET tried == CleanupBubble(EffectiveMask(strokes, bubble, page), enabled, page, luck)
    IN  IF tried.applied THEN tried ELSE SolidFill(lines, bubble, enabled, page)

(* cleanup_region and the artwork branch of cleanup_page: a failed call       *)
(* leaves the artwork as it is but keeps the mask it was for.                *)
CleanArtwork(b, enabled, page, luck) ==
    LET mask == Clipped(CleanupMask({b}, <<>>, page, 4 + 2, 0), b) IN
    IF ~enabled THEN Outcome(TRUE, "region_fill", FALSE, {b}, {b})
    ELSE IF mask = {} THEN Outcome(FALSE, "none", TRUE, {}, {})
    ELSE IF OverBudget(mask, page) \/ ~luck.memory \/ ~luck.model
         THEN Outcome(FALSE, "none", TRUE, {}, mask)
    ELSE Outcome(TRUE, "lama_tiles", FALSE, mask, mask)

(* clear_text_strokes: the rectangle around the dark strokes becomes white,   *)
(* inside the balloon, or drawn with its last row and column; here the mask   *)
(* has them too.                                                             *)
ClearStrokes(strokes, b, mask, page) ==
    LET dark    == Clipped(strokes, b)
        cluster == Meet(Padded(Hull(dark), 2), b)
        cleared == IF dark = {} THEN {}
                   ELSE IF mask = <<>> THEN {Drawn(cluster, page)}
                   ELSE Clipped({cluster}, mask[1])
    IN  Outcome(TRUE, "text_strokes", FALSE, cleared, cleared)

=============================================================================
