----------------------------- MODULE TextRenderer -----------------------------
(***************************************************************************)
(* How a text is fitted into a region: kindle/text_renderer.py and the      *)
(* dialogue and SFX renderers of webtoon/processor.py.                      *)
(*                                                                         *)
(* A text is the sequence of the lengths of its words; a line is the number *)
(* of characters it shows (spaces and hyphens included) and of letters of   *)
(* the text it carries.  Colours, overlays and glyph outlines are left out; *)
(* the fonts are Advance and the cell heights.  A rendering is              *)
(* [size, lines, status, shown], shown being the letters it draws.          *)
(***************************************************************************)
EXTENDS Geometry

MinFont == 10
MaxFont == 60
Margin  == 2          \* TEXT_MARGIN
BubblePadding == 5

(* The fonts: half an em for a Latin letter; Japanese glyphs are square,    *)
(* with the white background the code asks for around each.                 *)
Advance(letters, size) == (letters * size) \div 2
CellHeight(size) == Larger((105 * size) \div 100, size + 6)
KanaCellHeight(size) == size + 3

Inner(b) == [w |-> Width(b) - 2 * Margin, h |-> Height(b) - 2 * Margin]

TooSmall(room) == room.w < 10 \/ room.h < 10

(* Mutant: the lower bound stays on the size that was tried. *)
LargestStuck(fits, low, high) ==
    LET search[n \in 0..15] ==
            IF n = 0 THEN [lo |-> low, hi |-> high, best |-> low]
            ELSE LET s == search[n - 1]  mid == (s.lo + s.hi) \div 2 IN
                 IF fits[mid] THEN [lo |-> mid, hi |-> s.hi, best |-> mid]
                              ELSE [s EXCEPT !.hi = mid - 1]
    IN  search[15].best

(* Fifteen halvings, which go on when the bounds have crossed. *)
Largest(fits, low, high) ==
    LET search[n \in 0..15] ==
            IF n = 0 THEN [lo |-> low, hi |-> high, best |-> low]
            ELSE LET s == search[n - 1]  mid == (s.lo + s.hi) \div 2 IN
                 IF fits[mid] THEN [lo |-> mid + 1, hi |-> s.hi, best |-> mid]
                              ELSE [s EXCEPT !.hi = mid - 1]
    IN  search[15].best

-----------------------------------------------------------------------------
(* English.                                                                 *)

Line(shown, letters) == [shown |-> shown, letters |-> letters]

(* Mutant: the hyphen takes the place of a letter. *)
FragmentsLossy(word, size, width) ==
    LET rest[n \in 0..word] ==
            IF n = 0 THEN <<>>
            ELSE LET hyphen(k) == IF k < n THEN 1 ELSE 0
                     fits == {k \in 1..n : Advance(k + hyphen(k), size) <= width}
                 IN  IF fits = {} THEN <<Line(1, 1)>> \o rest[n - 1]
                     ELSE <<Line(Max(fits) + hyphen(Max(fits)), Max(fits))>>
                          \o rest[n - Max(fits) - hyphen(Max(fits))]
    IN  rest[word]

(* _break_word_to_fit: the longest prefix that fits with its hyphen; a      *)
(* single letter is forced.                                                 *)
Fragments(word, size, width) ==
    LET rest[n \in 0..word] ==
            IF n = 0 THEN <<>>
            ELSE LET hyphen(k) == IF k < n THEN 1 ELSE 0
                     fits == {k \in 1..n : Advance(k + hyphen(k), size) <= width}
                 IN  IF fits = {} THEN <<Line(1, 1)>> \o rest[n - 1]
                     ELSE <<Line(Max(fits) + hyphen(Max(fits)), Max(fits))>>
                          \o rest[n - Max(fits)]
    IN  rest[word]

Joined(line, word) ==
    Line(line.shown + word + (IF line.shown = 0 THEN 0 ELSE 1), line.letters + word)

NoLine == Line(0, 0)

(* _word_wrap: a word wider than a line is broken. *)
WordWrap(words, size, width) ==
    LET add(s, word) ==
            IF Advance(Joined(s.line, word).shown, size) <= width
            THEN [s EXCEPT !.line = Joined(s.line, word)]
            ELSE LET done  == IF s.line = NoLine THEN s.lines ELSE Append(s.lines, s.line)
                     parts == IF Advance(word, size) > width THEN Fragments(word, size, width)
                                                             ELSE <<Line(word, word)>>
                 IN  [lines |-> done \o Front(parts), line |-> Last(parts)]
        after[i \in 0..Len(words)] ==
            IF i = 0 THEN [lines |-> <<>>, line |-> NoLine] ELSE add(after[i - 1], words[i])
        wrapped == after[Len(words)]
    IN  IF wrapped.line = NoLine THEN wrapped.lines ELSE Append(wrapped.lines, wrapped.line)

LineHeight(size) == (12 * size) \div 10

HorizontalFits(words, room, size) ==
    Len(WordWrap(words, size, room.w)) * LineHeight(size) <= room.h /\ words # <<>>

(* target is the size of the page, or 0. *)
HorizontalSize(words, room, target) ==
    LET bound == IF target = 0 THEN room.h ELSE Smaller(target, room.h)
        fits[size \in Int] == HorizontalFits(words, room, size)
    IN  Largest(fits, MinFont, Smaller(bound, MaxFont))

VerticalFits(letters, room, size) ==
    letters * ((11 * size) \div 10) <= room.h /\ size <= room.w

VerticalSize(letters, room) ==
    LET fits[size \in Int] == VerticalFits(letters, room, size)
    IN  Largest(fits, MinFont, Min({MaxFont, room.w, room.h}))

Nothing == [size |-> MinFont, lines |-> 1, status |-> "overflow", shown |-> 0]

Fit(fits) == IF fits THEN "fit" ELSE "overflow"

(* A sound effect is stacked; the stack is cut at the foot of the box. *)
RenderStacked(words, b) ==
    LET room == Inner(b)
        n    == Total(words)
        size == VerticalSize(n, room)
        cell == (11 * size) \div 10
        top  == b.y1 + Margin + Larger(0, (room.h - n * cell) \div 2)
    IN  [size |-> size, lines |-> n, status |-> Fit(n * cell <= room.h),
         shown |-> Cardinality({k \in 1..n : k = 1 \/ top + k * cell <= b.y2 - Margin})]

(* render_english: safe is the box _mask_safe_bbox found, or b without a    *)
(* mask.  The report is computed for safe even when safe is too small to    *)
(* draw in.                                                                 *)
RenderEnglish(words, stacked, b, safe, target) ==
    IF TooSmall(Inner(b)) \/ words = <<>> THEN Nothing
    ELSE IF stacked THEN RenderStacked(words, b)
    ELSE LET size  == HorizontalSize(words, Inner(safe), target)
             lines == WordWrap(words, size, Inner(safe).w)
         IN  [size |-> size, lines |-> Len(lines),
              status |-> Fit(Len(lines) * LineHeight(size) <= Inner(safe).h),
              shown |-> IF TooSmall(Inner(safe)) THEN 0
                        ELSE Total([i \in DOMAIN lines |-> lines[i].letters])]

(* _compute_normalized_font_sizes: one cap for the page, 1.4 times the      *)
(* upper median, when at least three regions have a size; 0 is no size.     *)
PageCap(sizes) ==
    LET known == SortSeq(SelectSeq(sizes, LAMBDA s : s # 0), LAMBDA a, b : a < b) IN
    IF Len(known) < 3 THEN 0 ELSE (14 * known[Len(known) \div 2 + 1]) \div 10

NormalizedSizes(sizes) ==
    [i \in DOMAIN sizes |-> IF PageCap(sizes) = 0 \/ sizes[i] = 0 THEN sizes[i]
                            ELSE Smaller(sizes[i], PageCap(sizes))]

(* _mask_safe_bbox for a mask that is the rectangle m: the union with the   *)
(* mask, capped, then the rows and columns of it that are safe.             *)
MaskSafeBox(b, m, vertical) ==
    LET pad(n) == Larger(6, Larger(1, n) \div 3)
        u == Box(Larger(Smaller(b.x1, m.x1), b.x1 - pad(Width(b))),
                 Larger(Smaller(b.y1, m.y1), b.y1 - pad(Height(b))),
                 Smaller(Larger(b.x2, m.x2), b.x2 + pad(Width(b))),
                 Smaller(Larger(b.y2, m.y2), b.y2 + pad(Height(b))))
        seen  == Meet(u, m)
        inset == Larger(2, (Height(seen) * (IF vertical THEN 5 ELSE 15)) \div 100)
        top   == seen.y1 + inset
        foot  == seen.y2 - 1 - inset
    IN  IF \/ Height(u) < 4 \/ Width(u) < 4 \/ ~ValidBox(seen) \/ Height(seen) < 4
           \/ top >= foot \/ seen.x1 >= seen.x2 - 1
        THEN b ELSE Box(seen.x1, top, seen.x2, foot + 1)

-----------------------------------------------------------------------------
(* Furigana.  A segment is [chars, kana]; kana 0 is no reading.             *)

(* The share of the reading of a segment above its i-th character. *)
KanaOf(segment, i) ==
    (i * segment.kana) \div segment.chars - ((i - 1) * segment.kana) \div segment.chars

Characters(segments) ==
    FlattenSeq([s \in DOMAIN segments |->
        [i \in 1..segments[s].chars |->
            [kana |-> KanaOf(segments[s], i), first |-> i = 1, of |-> segments[s].chars]]])

Annotated(chars) == \E i \in DOMAIN chars : chars[i].kana > 0

KanaSize(size) == Larger(IF size >= 18 THEN 12 ELSE MinFont, size \div 2)

ColumnsFor(n, perColumn) == (n + perColumn - 1) \div perColumn

ColumnsFit(chars, room, size) ==
    LET kana == IF Annotated(chars) THEN KanaSize(size) + 2 ELSE 0
        per  == Larger(1, room.h \div CellHeight(size))
    IN  ColumnsFor(Len(chars), per) * (size + kana) <= room.w

ColumnSize(chars, room) ==
    LET fits[size \in Int] == ColumnsFit(chars, room, size)
    IN  Largest(fits, MinFont, Smaller(MaxFont, room.h \div 2))

(* The caps and the floor of a page and of the source glyphs; 0 is None.    *)
PageLimits(sizes) ==
    LET known  == Selected(sizes, {i \in DOMAIN sizes : sizes[i] > 0})
        median == TwiceMedian(known) \div 2
    IN  IF Len(known) < 3 THEN [cap |-> 0, outlier |-> 0, floor |-> 0]
        ELSE [cap |-> Larger(MinFont, Smaller(RoundDiv(120 * median, 100), median + 5)),
              outlier |-> Larger(MinFont, Larger(RoundDiv(155 * median, 100), median + 10)),
              floor |-> Larger(MinFont, Larger(RoundDiv(88 * median, 100), median - 4))]

(* _cap_expanded_furigana_font_size and _cap_furigana_to_source_scale. *)
CapToScale(size, source) ==
    IF source <= 0 \/ size <= source THEN size
    ELSE Larger(MinFont, Min({size, RoundDiv(115 * source, 100), source + 4}))

Outlier(source, limits) == source # 0 /\ limits.outlier # 0 /\ source >= limits.outlier

CapToPage(size, source, limits) ==
    IF limits.cap = 0 \/ Outlier(source, limits) THEN size
    ELSE Larger(MinFont, Smaller(size, limits.cap))

FloorToPage(size, geometric, source, limits, count) ==
    IF limits.floor = 0 \/ count < 6 \/ Outlier(source, limits) THEN size
    ELSE Larger(MinFont, Larger(size, Smaller(geometric, limits.floor)))

(* original is the size before the box was expanded, or 0 with a mask. *)
FuriganaSize(geometric, original, source, limits, count) ==
    FloorToPage(CapToPage(CapToScale(IF original = 0 THEN geometric
                                     ELSE CapToScale(geometric, original),
                                     source),
                          source, limits),
                geometric, source, limits, count)

(* _render_furigana_vertical_impl: columns from right to left; a segment    *)
(* that fits a column is not broken; what does not fit is dropped.          *)
Place(b, size, perColumn, s, ch) ==
    LET cell == CellHeight(size)
        foot == b.y2 - Margin
        next(t) == [t EXCEPT !.x = @ - (size + KanaSize(size) + 2), !.y = b.y1 + Margin,
                             !.columns = @ + 1]
        wrapped == IF s.y + cell > foot THEN next(s) ELSE s
        broken  == /\ ch.first /\ wrapped.y > b.y1 + Margin
                   /\ ch.of > Larger(1, (foot - wrapped.y) \div cell)
                   /\ ch.of <= perColumn
        at == IF broken THEN next(wrapped) ELSE wrapped
        readable == at.x + size + 1 + KanaSize(size) <= b.x2 - BubblePadding
    IN  IF s.full THEN s
        ELSE IF at.x < b.x1 + Margin /\ at.x # s.x THEN [s EXCEPT !.full = TRUE]
        ELSE [at EXCEPT !.y = @ + cell, !.shown = @ + 1,
                        !.kana = @ + (IF readable THEN ch.kana ELSE 0)]

RenderColumns(chars, b, size) ==
    LET room  == Inner(b)
        per   == Larger(1, room.h \div CellHeight(size))
        space == IF Annotated(chars) THEN KanaSize(size) + 2 ELSE 0
        block == size + space + Larger(0, ColumnsFor(Len(chars), per) - 1)
                                * (size + KanaSize(size) + 2)
        \* int(center - size - space + block / 2), rounded toward zero from a positive value
        start == (2 * (b.x1 + Margin + room.w \div 2 - size - space) + block) \div 2
        first == [x |-> Smaller(start, b.x2 - Margin - size - space), y |-> b.y1 + Margin,
                  shown |-> 0, kana |-> 0, columns |-> 1, full |-> FALSE]
        step(s, ch) == Place(b, size, per, s, ch)
        end   == FoldLeft(step, first, chars)
    IN  [size |-> size, lines |-> end.columns, kana |-> end.kana, shown |-> end.shown,
         status |-> Fit(end.shown = Len(chars))]

(* _render_furigana_horizontal, for a box 2.5 times as wide as it is high. *)
RowHeight(chars, size) ==
    size + 2 + (IF Annotated(chars) THEN KanaSize(size) + 2 ELSE 0)

RowsFit(chars, room, size) ==
    ColumnsFor(Len(chars), Larger(1, room.w \div size)) * RowHeight(chars, size) <= room.h

RenderRows(chars, b, source, limits) ==
    LET room == Inner(b)
        fits[size \in Int] == RowsFit(chars, room, size)
        size == Larger(MinFont,
                    CapToPage(CapToScale(Largest(fits, MinFont, Smaller(MaxFont, room.h)), source),
                              source, limits))
        rows == ColumnsFor(Len(chars), Larger(1, room.w \div size))
    IN  [size |-> size, lines |-> rows, shown |-> Len(chars),
         kana |-> Total([i \in DOMAIN chars |-> chars[i].kana]),
         status |-> Fit(RowsFit(chars, room, size))]

(* box is the region, laid is where the text is laid out: the mask's safe   *)
(* box, or what _no_mask_furigana_layout_bbox and the tightening chose.     *)
RenderFurigana(segments, box, laid, masked, source, limits) ==
    LET chars == Characters(segments)
        room  == Inner(IF masked THEN laid ELSE box)
        original == IF masked THEN 0 ELSE ColumnSize(chars, room)
        geometric == ColumnSize(chars, Inner(laid))
    IN  IF TooSmall(room) \/ chars = <<>> THEN Nothing @@ [kana |-> 0]
        ELSE IF 2 * room.w >= 5 * room.h
             THEN RenderRows(chars, IF masked THEN laid ELSE box, source, limits)
        ELSE IF TooSmall(Inner(laid)) THEN Nothing @@ [kana |-> 0]
        ELSE RenderColumns(chars, laid,
                FuriganaSize(geometric, original, source, limits, Len(chars)))

(* _expand_limited_no_mask_bbox, _cap_interval and _clamp_bbox: where the   *)
(* layout may go without a mask.                                            *)
ExpandLimited(b, page, row) ==
    LET padX == Smaller(16, Larger(6, Width(b) \div 4))
        padY == Smaller(24, Larger(8, Larger(1, row) \div 2))
    IN  IF ~ValidBox(b) THEN b
        ELSE Meet(Box(b.x1 - padX, b.y1 - padY, b.x2 + padX, b.y2 + padY), page)

CapInterval(from, to, low, high, length, least, most) ==
    LET start == (low + high) \div 2 - length \div 2
        moved == IF start < least
                 THEN [from |-> least, to |-> Smaller(most, least + length)]
                 ELSE [from |-> start, to |-> start + length]
    IN  IF to - from <= length THEN [from |-> from, to |-> to]
        ELSE IF moved.to > most THEN [from |-> Larger(least, most - length), to |-> most]
        ELSE moved

-----------------------------------------------------------------------------
(* Webtoon dialogue and SFX (webtoon/processor.py).                         *)

WrapWords(words, size, width) ==
    LET add(s, word) ==
            IF s.line = NoLine \/ Advance(Joined(s.line, word).shown, size) <= width
            THEN [s EXCEPT !.line = Joined(s.line, word)]
            ELSE [lines |-> Append(s.lines, s.line), line |-> Line(word, word)]
        after[i \in 0..Len(words)] ==
            IF i = 0 THEN [lines |-> <<>>, line |-> NoLine] ELSE add(after[i - 1], words[i])
        wrapped == after[Len(words)]
    IN  IF words = <<>> THEN <<>> ELSE Append(wrapped.lines, wrapped.line)

Spacing(size) == Larger(4, size \div 5)

BlockHeight(lines, size) == Len(lines) * size + Spacing(size) * (Len(lines) - 1)

BlockFits(lines, size, w, h) ==
    /\ BlockHeight(lines, size) <= h
    /\ \A i \in DOMAIN lines : Advance(lines[i].shown, size) <= w

(* The largest size that fits from at most 36; at 8 the lines that do not   *)
(* fit are cut, and the last one kept ends in "...".                        *)
RenderDialogue(words, b) ==
    LET w == Width(b) - 2 * Larger(10, (5 * Width(b)) \div 100)
        h == Height(b) - 2 * Larger(10, (5 * Height(b)) \div 100)
        sizes == {s \in 8..Clamp((7 * h) \div 10, 10, 36) :
                    BlockFits(WrapWords(words, s, w), s, w, h)}
        size  == IF sizes = {} THEN 8 ELSE Max(sizes)
        lines == WrapWords(words, size, w)
        cut   == sizes = {} /\ BlockHeight(lines, size) > h /\ Len(lines) > 1
        kept  == IF cut THEN SubSeq(lines, 1, Smaller(Len(lines),
                                        Larger(1, h \div (size + Spacing(size)))))
                 ELSE lines
        total == BlockHeight(kept, size)
        top   == Smaller(b.y1 + Larger(0, (Height(b) - total) \div 2), b.y2 - 2 - total)
        drawn == Selected(kept, {i \in DOMAIN kept :
                        top + i * size + (i - 1) * Spacing(size) <= b.y2 - 2})
    IN  IF Width(b) < 10 \/ Height(b) < 10 \/ words = <<>>
        THEN [Nothing EXCEPT !.size = 8]
        ELSE [size |-> size, lines |-> Len(kept),
              status |-> IF cut THEN "ellipsized"
                         ELSE Fit(sizes # {}),
              shown |-> Total([i \in DOMAIN drawn |-> drawn[i].letters])]

(* The whole glyph box with its outline must fit, or nothing is drawn. *)
RenderSfx(letters, b) ==
    LET sizes == {s \in 6..Clamp((9 * Height(b)) \div 10, 6, 120) :
                    Advance(letters, s) + 6 <= Width(b) - 12 /\ s + 6 <= Height(b) - 12}
    IN  IF sizes = {} THEN [Nothing EXCEPT !.size = 6]
        ELSE [size |-> Max(sizes), lines |-> 1, status |-> "fit", shown |-> letters]

=============================================================================
