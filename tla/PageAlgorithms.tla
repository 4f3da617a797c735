---------------------------- MODULE PageAlgorithms ----------------------------
(***************************************************************************)
(* The algorithms of a page, each against what its callers rely on.  A      *)
(* behaviour takes one input of one algorithm from a bounded set; the       *)
(* properties say what the algorithm makes of it.  The sets are parameters. *)
(***************************************************************************)
EXTENDS Detection, BookLayout, TextRenderer, Cleanup

CONSTANTS Inferences,     \* sequences of raw detections of one inference
          TallPages,      \* [height, max, overlap, strips]: a page read in strips
          Units,          \* OCR units, as ChooseRoute takes them
          Fallbacks,      \* what the fallback engine answers
          LinePairs,      \* pairs of sequences of lines, the readings of two passes
          Bubbles,        \* [box, boundary, mask]
          BubbleLines,    \* sequences of the lines of a bubble
          Masks,          \* sets of boxes
          PageBox,        \* the page these lie on
          WordLists,      \* sequences of word lengths
          Rooms,          \* boxes a text is fitted into
          FuriganaTexts,  \* sequences of [chars, kana]
          SourceSizes,    \* sequences of estimated source sizes of a page
          BookPages,      \* [width, height, ink]
          ColumnReadings  \* sequences of chunks [y0, y1, text] of a column

(* What the algorithms are given.  A detector may report any box and score;  *)
(* the strips of a page overlap without being equal; OCR boxes may lie       *)
(* outside of their bubble, but the bubbles and the mask lie on the page.    *)
(* EasyOCR reads no two lines of a pass over each other.                     *)
ASSUME InferencesAssumption == \A raw \in Inferences : raw \in Seq(RawDetection)

ASSUME TallPagesAssumption ==
    \A p \in TallPages :
        /\ p.height \in Nat /\ p.max \in Nat /\ p.overlap \in Nat
        /\ 0 < p.overlap /\ p.overlap < p.max
        /\ DOMAIN p.strips \in SUBSET Int /\ IsFiniteSet(DOMAIN p.strips)
        /\ p.strips \in [DOMAIN p.strips -> Seq(RawDetection)]

ASSUME LinePairsAssumption ==
    \A p \in LinePairs : p[1] \in Seq(TextDetection) /\ p[2] \in Seq(TextDetection) /\ Apart(p[2])

ASSUME PageAssumption == PageBox \in BoxSet /\ ValidBox(PageBox)

ASSUME MasksAssumption ==
    \A m \in Masks : /\ IsFiniteSet(m)
                     /\ \A b \in m : b \in BoxSet /\ ValidBox(b) /\ Encloses(PageBox, b)

ASSUME BubblesAssumption ==
    /\ \A b \in Bubbles : b.box \in BoxSet /\ ValidBox(b.box) /\ b.mask \in Seq(BoxSet)
    /\ \A lines \in BubbleLines : lines \in Seq(TextDetection)

(* No word is empty, no segment without characters, and no size negative;   *)
(* rooms may be of any shape, and ink lies on its page.                     *)
ASSUME WordListsAssumption == \A ws \in WordLists : ws \in Seq(Nat \ {0})

ASSUME RoomsAssumption == Rooms \in SUBSET BoxSet

ASSUME FuriganaAssumption ==
    /\ \A s \in FuriganaTexts : s \in Seq([chars : Nat \ {0}, kana : Nat])
    /\ \A sizes \in SourceSizes : sizes \in Seq(Nat)

ASSUME BookPagesAssumption ==
    \A p \in BookPages : /\ p.width \in Nat /\ p.height \in Nat
                         /\ p.ink \in [0..(p.width - 1) -> SUBSET (0..(p.height - 1))]

ASSUME ColumnReadingsAssumption ==
    \A c \in ColumnReadings : c \in Seq([y0 : Int, y1 : Int, text : Seq(Nat)])

VARIABLE sample

Init == sample = [of |-> "nothing"]

Take(input) == sample.of = "nothing" /\ sample' = input

FinalizePage ==
    \E raw \in Inferences, d \in {"manga", "vertical"} :
        Take([of |-> "page", raw |-> raw, direction |-> d])

FinalizeTallPage ==
    \E tall \in TallPages : Take([of |-> "tall", page |-> tall])

RouteCrop ==
    \E u \in Units, f \in Fallbacks, enabled \in BOOLEAN :
        Take([of |-> "crop", unit |-> u, fallback |-> f, enabled |-> enabled])

MergePasses == \E p \in LinePairs : Take([of |-> "passes", first |-> p[1], second |-> p[2]])

PlaceRegions ==
    \E b \in Bubbles, ls \in BubbleLines : Take([of |-> "bubble", bubble |-> b, lines |-> ls])

TileMask == \E m \in Masks : Take([of |-> "mask", mask |-> m])

FitEnglish ==
    \E ws \in WordLists, r \in Rooms, t \in {0, 14, 24}, masked \in BOOLEAN :
        Take([of |-> "english", words |-> ws, room |-> r, target |-> t, masked |-> masked])

FitFurigana ==
    \E s \in FuriganaTexts, r \in Rooms, g \in {10, 24, 60}, sizes \in SourceSizes :
        Take([of |-> "furigana", segments |-> s, room |-> r, source |-> g, sizes |-> sizes])

ReadBookPage == \E p \in BookPages : Take([of |-> "book", page |-> p])

AttachRuby ==
    \E c \in ColumnReadings : \E cut \in SUBSET (1..4) :
        Take([of |-> "ruby", chunks |-> c, cut |-> cut])

Next ==
    \/ FinalizePage \/ FinalizeTallPage \/ RouteCrop \/ MergePasses \/ PlaceRegions
    \/ TileMask \/ FitEnglish \/ FitFurigana \/ ReadBookPage \/ AttachRuby

Spec == Init /\ [][Next]_sample

-----------------------------------------------------------------------------
(* Detection.                                                               *)

(* What detection hands to the next stage passes that stage's validation    *)
(* (validate_detection_collection): identities and orders are unique and    *)
(* every parent is a balloon that is still there, also when the strips of a *)
(* tall page found the same thing twice or two strips found the same        *)
(* relative box.  A refusal fails the whole page.                           *)
CollectionIsAccepted ==
    /\ sample.of = "page" => ValidCollection(Finalized(Adapted(sample.raw), sample.direction))
    /\ sample.of = "tall" => ValidCollection(FinalizedStrips(sample.page.strips))

(* Nothing on the page stays unread.  A balloon no higher than the overlap   *)
(* of two strips is whole in one of them; what the detector finds appears    *)
(* once in the reading order or duplicates something that does; and what is  *)
(* not a panel is read, itself or within the balloon it is linked to         *)
(* (legacy_processing_regions drops the linked texts).                       *)
EveryDetectionIsRead ==
    /\ sample.of = "tall" =>
        LET p == sample.page
            offsets == StripOffsets(p.height, p.max, p.overlap)
            inside(y, o) == o <= y /\ y < o + p.max
        IN  \A y \in 0..(p.height - p.overlap) :
                \E o \in offsets : inside(y, o) /\ inside(y + p.overlap - 1, o)
    /\ sample.of = "page" =>
        LET found == Adapted(sample.raw)
            sems  == Finalized(found, sample.direction)
            read  == {r.sem : r \in Range(ProcessingRegions(sems))}
        IN  /\ \A d \in found : \/ Cardinality({i \in DOMAIN sems : sems[i].id = d.id}) = 1
                                \/ \E k \in Range(sems) : Duplicates(d, k)
            /\ \A d \in Range(sems) : d.kind # "panel" =>
                    d.id \in read \/ d.parent \in read

-----------------------------------------------------------------------------
(* Reading.                                                                 *)

(* The fallback of Japanese OCR only ever adds: a reading that was trusted  *)
(* stays valid whatever the fallback does, a region is valid only with a    *)
(* text some stage may translate, and a page is degraded exactly when an    *)
(* answer it needed did not come (route_japanese_crop).                     *)
FallbackOnlyImproves ==
    sample.of = "crop" =>
        LET routed == Routed(sample.unit, sample.enabled, sample.fallback) IN
        /\ Trusted(sample.unit) => routed.valid
        /\ routed.valid => \/ ValidJapanese(routed.text)
                           \/ Meaningful(routed.text) > 0
                           \/ Length(routed.text) >= 2
        /\ routed.engine = "manga" => routed.text = sample.unit.text
        /\ routed.degraded <=> /\ NeedsFallback(sample.unit, sample.enabled)
                               /\ sample.fallback.status = "transient"

(* Merging the readings of two passes loses nothing the first one read:     *)
(* each of its lines is kept or overlapped by a larger one that took its    *)
(* place, and the second pass loses a line only where the first had read    *)
(* something, when its own lines do not overlap each other                  *)
(* (_merge_detections).  Taken as the lines of two strips instead, what     *)
(* stitching leaves out duplicates a line it keeps, and what it keeps are   *)
(* no duplicates (stitch_detections).                                       *)
LinesSurviveMerging ==
    sample.of = "passes" =>
        LET merged   == Range(MergeLines(sample.first, sample.second))
            stitched == Stitched(sample.first \o sample.second)
            met(l, lines) == \E m \in lines : m = l \/ Overlapping(m.box, l.box)
        IN  /\ \A l \in Range(sample.first) : met(l, merged)
            /\ \A l \in Range(sample.second) : l \in merged \/ met(l, Range(sample.first))
            /\ \A l \in Range(sample.first \o sample.second) \ Range(stitched) :
                    \E k \in Range(stitched) : Twice(l.box, k.box) /\ k.score >= l.score
            /\ \A i, j \in DOMAIN stitched :
                    i # j => ~Twice(stitched[i].box, stitched[j].box)

(* The slices of a book column cover every glyph run, cut no run out and do *)
(* not overlap, so no glyph is read twice or never (column_chunks).         *)
ChunksTileTheColumn ==
    sample.of = "book" =>
        \A column \in Range(Columns(sample.page)) :
            LET chunks == ColumnChunks(column)
                rows(c) == c.y0..(c.y1 - 1)
            IN  /\ UNION {rows(chunks[i]) : i \in DOMAIN chunks}
                        = UNION {r.from..(r.to - 1) : r \in Range(column.runs)}
                /\ \A i, j \in DOMAIN chunks : i < j => chunks[i].y1 <= chunks[j].y0

(* The words the tokenizer makes of a text: cut says after which character  *)
(* a word ends; white space, 0, belongs to no word.                         *)
WordsOf(text, cut) ==
    LET ends == {i \in DOMAIN text : text[i] # 0 /\
                    (i = Len(text) \/ text[i + 1] = 0 \/ i \in cut)}
        start(e) == Max({i \in 1..e : i = 1 \/ text[i - 1] = 0 \/ i - 1 \in ends} \ {0})
    IN  [k \in 1..Cardinality(ends) |->
            LET e == CHOOSE e \in ends : Cardinality({f \in ends : f <= e}) = k
            IN  [from |-> start(e), to |-> e]]

(* A reading is drawn beside its own characters and nowhere else: white      *)
(* space the tokenizer dropped does not move the readings after it (_ruby_for *)
(* searches for each word instead of adding up lengths), and what is drawn   *)
(* in the gutter of a column touches neither that column nor any other.      *)
RubyBesideItsText ==
    /\ sample.of = "ruby" =>
        LET text  == ColumnText(sample.chunks)
            spans == CharacterSpans(sample.chunks)
            words == WordsOf(text, sample.cut)
            ruby  == RubyFor(text, spans, [k \in DOMAIN words |->
                        [text |-> SubSeq(text, words[k].from, words[k].to), furigana |-> k]])
        IN  ruby = [k \in DOMAIN words |->
                        [kana |-> k, y0 |-> spans[words[k].from].y0, y1 |-> spans[words[k].to].y1]]
    /\ sample.of = "book" =>
        LET columns == Columns(sample.page) IN
        \A i \in DOMAIN columns, y \in {0, 20, 50} : \A b \in
                RubyBoxes(sample.page, columns, i, <<[kana |-> 2, y0 |-> y, y1 |-> y + 30]>>) :
            /\ \A c \in Range(columns) : b.x2 <= c.box.x1 \/ c.box.x2 < b.x1
            /\ b.x2 <= sample.page.width

-----------------------------------------------------------------------------
(* Cleaning and drawing.                                                    *)

(* Every masked pixel lies in a tile the model is asked to fill, with its   *)
(* context or the border of the page around it, and no tile leaves the page *)
(* (pipeline/cleanup.py _tiles).                                            *)
TilesCoverTheMask ==
    sample.of = "mask" =>
        LET tiles == Range(Tiles(sample.mask, PageBox)) IN
        /\ \A m \in sample.mask : \E t \in tiles :
                Encloses(t, Meet(Padded(m, ContextPad), PageBox))
        /\ \A t \in tiles : ValidBox(t) /\ Encloses(PageBox, t)

(* The document takes the place of a region: the box a translation is drawn *)
(* in, widened for a wide panel, lies inside its bubble and is not empty,   *)
(* and so do the boxes of its source lines (document_render_geometry        *)
(* against the checks of PageRegion).                                       *)
RegionFitsItsBubble ==
    sample.of = "bubble" =>
        \A region \in Range(PrepareRegions(sample.lines)) :
            LET placed == RenderBox(region.lines, sample.bubble, PageBox)
                source == SourceBoxes(region.lines, sample.bubble)
            IN  /\ ValidBox(placed) /\ Encloses(sample.bubble.box, placed)
                /\ \A b \in Range(source) : ValidBox(b) /\ Encloses(sample.bubble.box, b)

(* The binary searches find the largest size that fits, although a larger   *)
(* font wraps differently and nothing in the code says that it needs more   *)
(* room: the size fits and no larger one does, or none does and it is the   *)
(* minimum.  What the other regions of a page and its source glyphs ask for *)
(* never pushes a text past that size.                                      *)
BestSize(size, Fits(_), high) ==
    \/ Fits(size) /\ \A s \in (size + 1)..high : ~Fits(s)
    \/ size = MinFont /\ \A s \in MinFont..high : ~Fits(s)

SizeIsLargestThatFits ==
    /\ sample.of = "english" /\ ~TooSmall(Inner(sample.room)) =>
        LET room == Inner(sample.room)
            high == Min({MaxFont, room.h, IF sample.target = 0 THEN MaxFont ELSE sample.target})
            fits(s) == HorizontalFits(sample.words, room, s)
        IN  BestSize(HorizontalSize(sample.words, room, sample.target), fits, high)
    /\ sample.of = "furigana" /\ ~TooSmall(Inner(sample.room)) =>
        LET room  == Inner(sample.room)
            chars == Characters(sample.segments)
            fits(s) == ColumnsFit(chars, room, s)
            size == ColumnSize(chars, room)
        IN  /\ BestSize(size, fits, Smaller(MaxFont, room.h \div 2))
            /\ \A count \in {1, 6} :
                    FuriganaSize(size, 0, sample.source, PageLimits(sample.sizes), count)
                        <= Larger(size, MinFont)

(* A rendering that says "fit" has drawn every letter: the size was chosen  *)
(* by estimating, the placing drops what it finds no room for, and the      *)
(* status is what the document records.  A safe box too small to draw in is *)
(* left out: see the README.                                                *)
SafeBox ==
    IF sample.masked THEN MaskSafeBox(sample.room, sample.room, FALSE) ELSE sample.room

FitShowsEveryLetter ==
    sample.of = "english" =>
        /\ ~TooSmall(Inner(SafeBox)) => \A stacked \in BOOLEAN :
            LET drawn == RenderEnglish(sample.words, stacked, sample.room, SafeBox, sample.target)
            IN  drawn.status = "fit" => drawn.shown = Total(sample.words)
        /\ LET drawn == RenderDialogue(sample.words, sample.room)
           IN  drawn.status = "fit" => drawn.shown = Total(sample.words)

=============================================================================
