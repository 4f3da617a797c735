------------------------------ MODULE BookLayout ------------------------------
(***************************************************************************)
(* The prose pipeline: the columns of a rasterised book page, their slices  *)
(* for OCR, the readings attached to their characters, and the kana drawn   *)
(* in the gutters (kindle/book_layout.py, book_processor.py,                *)
(* book_renderer.py).                                                       *)
(*                                                                         *)
(* A page is [width, height, ink] where ink[x] is the set of rows inked in  *)
(* pixel column x, the mask of ink_mask.  A text is a sequence of           *)
(* characters.  Colours, fonts and the supersampling scale are left out.    *)
(***************************************************************************)
EXTENDS Geometry

MinColumnWidth == 6
MinProseColumns == 5
GlyphsPerChunk == 12
FuriganaMin == 7
GutterGap == 2

(* Maximal stretches of the inked positions P: a gap is closed when the     *)
(* next inked position is at most reach further.                            *)
Stretches(P, reach) ==
    LET starts == {p \in P : \A q \in P : q < p => p - q > reach}
        ends   == {p \in P : \A q \in P : q > p => q - p > reach}
    IN  {[from |-> s, to |-> Min({e \in ends : e >= s}) + 1] : s \in starts}

InOrder(runs) == Ranked(runs, LAMBDA a, b : a.from < b.from)

InkRuns(P) == {r \in Stretches(P, 2) : r.to - r.from >= MinColumnWidth}

Rows(page, x1, x2) == UNION {page.ink[x] : x \in x1..(x2 - 1)}

ColumnRuns(page, x1, x2) ==
    LET pitch == x2 - x1 IN
    {r \in Stretches(Rows(page, x1, x2), 1 + Larger(2, pitch)) : r.to - r.from >= pitch \div 2}

Extent(P) == IF P = {} THEN 0 ELSE Max(P) - Min(P)

(* analyze: the body columns from left to right, each with its glyph runs. *)
Columns(page) ==
    LET height == Extent(Rows(page, 0, page.width))
        dense  == {x \in 0..(page.width - 1) :
                    Cardinality(page.ink[x]) > Larger(3, Larger(height, 1) \div 50)}
        tall   == InOrder({r \in InkRuns(dense) :
                    100 * Extent(Rows(page, r.from, r.to)) >= 35 * height})
        median == TwiceMedian([i \in DOMAIN tall |-> tall[i].to - tall[i].from])
        body   == Selected(tall, {i \in DOMAIN tall :
                    /\ 70 * median <= 200 * (tall[i].to - tall[i].from)
                    /\ 200 * (tall[i].to - tall[i].from) <= 145 * median
                    /\ ColumnRuns(page, tall[i].from, tall[i].to) # {}})
    IN  [i \in DOMAIN body |->
            LET runs == InOrder(ColumnRuns(page, body[i].from, body[i].to)) IN
            [box  |-> Box(body[i].from, runs[1].from, body[i].to, runs[Len(runs)].to),
             runs |-> runs]]

IsProse(columns) ==
    LET widths == [i \in DOMAIN columns |-> Width(columns[i].box)] IN
    /\ Len(columns) >= MinProseColumns
    /\ \A i \in DOMAIN widths :
        LET off == 2 * widths[i] - TwiceMedian(widths) IN
        100 * Larger(off, -off) <= 18 * TwiceMedian(widths)

GutterRightOf(page, columns, i) ==
    LET right == {c.box.x1 : c \in {d \in Range(columns) : d.box.x1 > columns[i].box.x2}}
    IN  [from |-> columns[i].box.x2, to |-> IF right = {} THEN page.width ELSE Min(right)]

-----------------------------------------------------------------------------
(* Reading.                                                                 *)

(* Mutant: the remainder of an uneven division is not read. *)
EqualChunks(run, pitch) ==
    LET span  == run.to - run.from
        count == Larger(1, RoundDiv(span, Larger(1, pitch * GlyphsPerChunk)))
        step  == span \div count
    IN  [i \in 1..count |->
            [y0 |-> run.from + (i - 1) * step, y1 |-> run.from + i * step]]

(* column_chunks: every run cut evenly into slices of about twelve glyphs. *)
RunChunks(run, pitch) ==
    LET span  == run.to - run.from
        count == Larger(1, RoundDiv(span, Larger(1, pitch * GlyphsPerChunk)))
    IN  [i \in 1..count |->
            [y0 |-> run.from + RoundDiv((i - 1) * span, count),
             y1 |-> IF i = count THEN run.to ELSE run.from + RoundDiv(i * span, count)]]

ColumnChunks(column) ==
    FlattenSeq([k \in DOMAIN column.runs |-> RunChunks(column.runs[k], Width(column.box))])

(* chunks that OCR read something in: [y0, y1, text]. *)
CharacterSpans(chunks) ==
    FlattenSeq([k \in DOMAIN chunks |->
        [i \in DOMAIN chunks[k].text |->
            LET n == Len(chunks[k].text)  h == chunks[k].y1 - chunks[k].y0 IN
            [y0 |-> chunks[k].y0 + ((i - 1) * h) \div n,
             y1 |-> chunks[k].y0 + (i * h) \div n]]])

ColumnText(chunks) == FlattenSeq([k \in DOMAIN chunks |-> chunks[k].text])

(* text.find(surface, cursor): the first place after cursor, or 0. *)
Find(text, surface, cursor) ==
    LET found == {p \in (cursor + 1)..(Len(text) - Len(surface) + 1) :
                    SubSeq(text, p, p + Len(surface) - 1) = surface}
    IN  IF found = {} THEN 0 ELSE Min(found)

(* Mutant: the segments are laid end to end. *)
RubyByLength(text, spans, segments) ==
    FoldLeft(LAMBDA done, s :
                LET p == done.cursor + 1
                    last == p + Len(s.text) - 1 IN
                [cursor |-> last,
                 ruby |-> IF s.furigana = 0 THEN done.ruby
                          ELSE Append(done.ruby, [kana |-> s.furigana,
                                   y0 |-> spans[p].y0, y1 |-> spans[last].y1])],
             [cursor |-> 0, ruby |-> <<>>], segments).ruby

(* The reading of each segment [text, furigana], furigana a number of kana  *)
(* or 0, on the span of the characters found for it.                        *)
RubyFor(text, spans, segments) ==
    FoldLeft(LAMBDA done, s :
                LET p == Find(text, s.text, done.cursor)
                    last == p + Len(s.text) - 1 IN
                IF s.text = <<>> \/ p = 0 THEN done
                ELSE [cursor |-> last,
                      ruby |-> IF s.furigana = 0 THEN done.ruby
                               ELSE Append(done.ruby, [kana |-> s.furigana,
                                        y0 |-> spans[p].y0, y1 |-> spans[last].y1])],
             [cursor |-> 0, ruby |-> <<>>], segments).ruby

-----------------------------------------------------------------------------
(* Drawing: the box of each reading that is drawn.                          *)

Occupied(page, b) ==
    LET seen == Meet(b, Box(0, 0, page.width, page.height)) IN
    \/ ~ValidBox(seen)
    \/ 50 * MapThenSumSet(LAMBDA x : Cardinality(page.ink[x] \cap (seen.y1..(seen.y2 - 1))),
                          seen.x1..(seen.x2 - 1)) > Area(seen)

RubyBoxes(page, columns, i, ruby) ==
    LET gutter == GutterRightOf(page, columns, i)
        room == gutter.to - gutter.from - GutterGap
        size == Larger(FuriganaMin, Smaller((45 * Width(columns[i].box)) \div 100, room))
        place(r) == LET top == (r.y0 + r.y1) \div 2 - (r.kana * size) \div 2
                        x   == gutter.from + GutterGap
                    IN  Box(x, top, x + size, top + r.kana * size)
    IN  IF room < FuriganaMin THEN {}
        ELSE {b \in {place(r) : r \in Range(ruby)} : ~Occupied(page, b)}

=============================================================================
