------------------------------- MODULE MCPageJob -------------------------------
EXTENDS PageJob

PageArea == Box(0, 0, 400, 160)

Raw(label, score, box, digest) ==
    [label |-> label, score |-> score, box |-> box, digest |-> digest]

Inset(b, n) == Box(b.x1 + n, b.y1 + n, b.x2 - n, b.y2 - n)

NoBook == [width |-> 0, height |-> 0, ink |-> <<>>]

Page(pipeline, direction, raw, flat, LinesIn(_, _)) ==
    LET regions == ProcessingRegions(Finalized(Adapted(raw), direction)) IN
    [pipeline |-> pipeline, box |-> PageArea, raw |-> raw, flat |-> flat, book |-> NoBook,
     lines |-> [i \in DOMAIN regions |-> LinesIn(regions[i].box, regions[i].artwork)],
     strokes |-> [i \in DOMAIN regions |-> {Inset(regions[i].box, 12)}],
     masks |-> [i \in DOMAIN regions |-> IF regions[i].artwork \/ regions[i].box.x1 = 0 THEN <<>>
                                         ELSE <<Inset(regions[i].box, 4)>>]]

(* Manga: a balloon at the corner of the page, a text inside it, a balloon    *)
(* that overlaps it, artwork, a panel, and a text without a balloon.         *)
MangaRaw ==
    <<Raw("bubble", 90, Box(0, 0, 80, 60), 1), Raw("text_bubble", 80, Box(10, 10, 60, 50), 2),
      Raw("text_free", 70, Box(150, 10, 220, 60), 3), Raw("panel", 60, Box(0, 0, 240, 80), 4),
      Raw("bubble", 70, Box(60, 40, 140, 120), 5)>>

Line(x1, y1, x2, y2, class, n) ==
    [box |-> Box(x1, y1, x2, y2), score |-> 500,
     text |-> [c \in Classes |-> IF c = class THEN n ELSE 0]]

(* Webtoon: a wide balloon with three groups of lines; a balloon whose reading  *)
(* is noise; two artworks whose crops hold the same line.                    *)
WebtoonLines(b, artwork) ==
    IF artwork THEN <<Line(120, 130, 160, 150, "hangul", 2)>>
    ELSE IF b.x1 = 0 THEN <<Line(10, 10, 60, 25, "latin", 2)>>
    ELSE <<Line(14, 76, 60, 90, "hangul", 4), Line(140, 80, 190, 96, "hangul", 3),
           Line(280, 84, 330, 98, "hangul", 4)>>

WebtoonRaw ==
    <<Raw("bubble", 90, Box(20, 70, 350, 110), 1), Raw("bubble", 80, Box(0, 0, 80, 40), 2),
      Raw("text_free", 70, Box(110, 120, 170, 158), 3),
      Raw("text_free", 65, Box(140, 125, 230, 159), 4)>>

NoLines(b, artwork) == <<>>

BookPage(columns) ==
    [pipeline |-> "book_furigana", box |-> PageArea, raw |-> <<>>, flat |-> TRUE,
     lines |-> <<>>, strokes |-> <<>>, masks |-> <<>>,
     book |-> [width |-> 40 * columns, height |-> 160,
               ink |-> [x \in 0..(40 * columns - 1) |-> IF x % 40 < 20 THEN 10..120 ELSE {}]]]

FlatPages ==
    {Page("manga_translate", "manga", MangaRaw, FALSE, NoLines),
     Page("manga_furigana", "manga", MangaRaw, FALSE, NoLines),
     Page("manga_translate", "manga", <<>>, FALSE, NoLines),
     Page("webtoon", "vertical", WebtoonRaw, TRUE, WebtoonLines),
     BookPage(5), BookPage(3)}

(* The same webtoon on a background that is not of one colour. *)
TexturedPages == {Page("webtoon", "vertical", WebtoonRaw, FALSE, WebtoonLines)}

=============================================================================
