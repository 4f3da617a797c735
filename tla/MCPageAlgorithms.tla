--------------------------- MODULE MCPageAlgorithms ---------------------------
EXTENDS PageAlgorithms

Raw(label, score, box, digest) ==
    [label |-> label, score |-> score, box |-> box, digest |-> digest]

(* Two nested balloons that duplicate each other, texts in and beside them,  *)
(* a sound effect, two panels, and an inference below its threshold.         *)
Detections ==
    {Raw("bubble", 90, Box(0, 0, 40, 40), 1), Raw("bubble", 60, Box(0, 0, 40, 36), 2),
     Raw("bubble", 50, Box(20, 20, 90, 90), 3), Raw("text_bubble", 80, Box(5, 5, 30, 30), 4),
     Raw("text_bubble", 40, Box(22, 22, 38, 38), 5), Raw("text_free", 70, Box(50, 10, 80, 30), 6),
     Raw("text_free", 30, Box(50, 60, 80, 90), 7), Raw("frame", 60, Box(0, 0, 100, 50), 8),
     Raw("panel", 60, Box(0, 40, 60, 100), 9)}

MCInferences == UNION {[1..n -> Detections] : n \in 0..3}

Few == {d \in Detections : d.digest \in {1, 3, 4}}

MCTallPages ==
    {[height |-> h, max |-> 50, overlap |-> v,
      strips |-> [dy \in {0, 50 - v} |-> IF dy = 0 THEN a ELSE b]] :
        h \in {40, 50, 51, 80, 130}, v \in {10, 20},
        a \in UNION {[1..n -> Few] : n \in 1..2}, b \in [1..2 -> Few]}

Chars(k, h, l, d, m) ==
    [c \in Classes |-> CASE c = "kana" -> k [] c = "hangul" -> h [] c = "latin" -> l
                         [] c = "digit" -> d [] c = "mark" -> m [] OTHER -> 0]

JapaneseTexts ==
    {Chars(k, 0, l, d, m) : k \in {0, 1, 2, 15}, l \in {0, 1}, d \in {0, 1}, m \in {0, 2}}

MCUnits == [text : JapaneseTexts, artwork : BOOLEAN, horizontal : BOOLEAN,
            consistency : {"unchecked", "consistent", "inconsistent"}]

MCFallbacks == {[status |-> "transient", text |-> Chars(0, 0, 0, 0, 0)]} \cup
    [status : {"ok"}, text : {Chars(0, 0, 0, 0, 0), Chars(2, 0, 0, 0, 0), Chars(0, 0, 1, 0, 0),
                              Chars(0, 0, 0, 0, 2)}]

KoreanLine(box, n) == [box |-> box, score |-> 400 + 50 * n, text |-> Chars(0, n, 0, 0, 0)]

LineBoxes == {Box(x, y, x + w, y + 20) : x \in {0, 12}, y \in {0, 8}, w \in {24, 40}}

OnePass ==
    {<<>>} \cup {<<KoreanLine(b, 2)>> : b \in LineBoxes}
    \cup {<<KoreanLine(p[1], 2), KoreanLine(p[2], 3)>> :
            p \in {q \in LineBoxes \X LineBoxes : ~Overlapping(q[1], q[2])}}

MCLinePairs == OnePass \X OnePass

MCPageBox == Box(0, 0, 200, 200)

MCBubbles ==
    {[box |-> b, boundary |-> e, mask |-> m] :
        b \in {Box(0, 0, 60, 60), Box(40, 100, 150, 200), Box(150, 20, 200, 50)},
        e \in BOOLEAN, m \in {<<>>, <<Box(40, 20, 160, 120)>>}}

(* OCR lines may reach outside of their bubble: the crop is padded. *)
MCBubbleLines ==
    {[i \in DOMAIN bs |-> KoreanLine(bs[i], 2)] :
        bs \in UNION {[1..n -> {Box(0, 0, 30, 20), Box(60, 110, 100, 120), Box(140, 40, 190, 60),
                                Box(20, 160, 120, 180), Box(0, 100, 40, 110)}] : n \in 0..3}}

MCMasks ==
    SUBSET {Box(0, 0, 20, 10), Box(20, 10, 40, 60), Box(40, 60, 70, 70), Box(90, 0, 100, 100),
            Box(180, 150, 200, 200), Box(101, 100, 130, 110), Box(0, 190, 5, 195)}

MCWordLists == {<<1>>, <<5>>, <<2, 3>>, <<12>>, <<4, 4, 4>>, <<3, 9, 2, 5>>, <<7, 1, 8, 8, 3>>}

MCRooms == {Box(5, 5, 5 + w, 5 + h) : w \in {14, 24, 51, 64, 94},
                                      h \in {14, 16, 24, 52, 74}}

Segment(chars, kana) == [chars |-> chars, kana |-> kana]

MCFuriganaTexts ==
    {<<Segment(2, 3)>>, <<Segment(4, 0)>>,
     <<Segment(2, 4), Segment(3, 0), Segment(1, 3)>>,
     <<Segment(3, 7), Segment(3, 5), Segment(4, 0)>>}

MCSourceSizes == {<<>>, <<12, 14, 13>>, <<24, 30, 26>>, <<58, 40, 60, 60>>}

(* Pages of columns 6 or 20 wide, short or long enough for several slices,    *)
(* with or without art in the last gutter.                                   *)
MCBookPages ==
    {[width |-> n * (w + g), height |-> 240,
      ink |-> [x \in 0..(n * (w + g) - 1) |->
                IF x % (w + g) < w THEN (10..top) \cup (205..230)
                ELSE IF art /\ x > (n - 1) * (w + g) + w + 3 THEN 20..60 ELSE {}]] :
        w \in {6, 20}, g \in {6, 10, 16}, n \in {2, 5}, top \in {40, 190}, art \in BOOLEAN}

Chunk(i, text) == [y0 |-> 10 + 50 * (i - 1), y1 |-> 60 * i, text |-> text]

(* Two characters, repeated so that a search can find the wrong place, and   *)
(* white space, in one slice or two.                                         *)
Readings == UNION {[1..n -> 0..2] : n \in 1..5}

MCColumnReadings ==
    {<<Chunk(1, t)>> : t \in Readings}
    \cup {<<Chunk(1, SubSeq(t, 1, 2)), Chunk(2, SubSeq(t, 3, Len(t)))>> :
            t \in {r \in Readings : Len(r) > 2}}

=============================================================================
