----------------------------- MODULE OcrRouting -----------------------------
(***************************************************************************)
(* Which reading of a Japanese region the page uses: pipeline/ocr.py, the  *)
(* validation of kindle/ocr.py and webtoon/ocr.py, ocr_bubble of           *)
(* kindle/processor.py, and the child process of kindle/hayai_ocr.py.      *)
(*                                                                         *)
(* A text is the number of its characters of each class; white space at    *)
(* its ends is already stripped.  Overlaps are percentages.                *)
(***************************************************************************)
EXTENDS Integers, Sequences, FiniteSets, FiniteSetsExt, Functions

(* kana: kana and ideographs; dot: the katakana middle dot, content of the *)
(* validation but not alphanumeric; wide: fullwidth digits; cjk: Japanese  *)
(* punctuation and fullwidth forms; mark: ASCII punctuation; sign: any     *)
(* other symbol.                                                           *)
Classes == {"kana", "dot", "hangul", "latin", "digit", "wide", "cjk", "mark", "sign"}

Count(text, classes) == FoldFunctionOnSet(+, 0, text, classes)

Length(text) == Count(text, Classes)

Meaningful(text) == Count(text, {"kana", "hangul", "latin", "digit", "wide"})

Holds(text, classes) == Count(text, classes) > 0

ValidJapanese(text) ==
    LET content == Count(text, {"kana", "dot"})
        other   == Count(text, {"hangul", "latin", "digit", "mark", "sign"})
    IN  Length(text) >= 2 /\ content >= 1 /\ content > other

ValidKorean(text) ==
    LET content == Count(text, {"hangul"})
        other   == Count(text, {"kana", "dot", "latin", "digit", "sign"})
    IN  Length(text) >= 2 /\ content >= 2 /\ content > other

-----------------------------------------------------------------------------
(* The primary reading: Manga OCR, checked against the center of the crop   *)
(* when it is valid and short.  overlap is what the second reading shares   *)
(* with the first; a crop of less than 20 pixels a side is not read again.  *)

ShortTextLimit == 15
MinCropSide == 20
MinOverlap == 35

Consistency(text, box, overlap) ==
    IF ~ValidJapanese(text) \/ Length(text) >= ShortTextLimit THEN "unchecked"
    ELSE IF box.x2 - box.x1 < MinCropSide \/ box.y2 - box.y1 < MinCropSide
            \/ overlap >= MinOverlap
         THEN "consistent" ELSE "inconsistent"

(* unit: [text, artwork, horizontal, consistency] *)
Trusted(unit) == ValidJapanese(unit.text) /\ unit.consistency # "inconsistent"

ChooseRoute(unit) ==
    CASE unit.artwork -> "stylized_or_sfx"
      [] ~unit.artwork /\ Holds(unit.text, {"latin", "hangul"}) -> "multilingual"
      [] OTHER ->
            IF Holds(unit.text, {"digit", "wide"}) THEN "numeric"
            ELSE IF Length(unit.text) > 0 /\ Meaningful(unit.text) = 0 THEN "punctuation"
            ELSE IF ~ValidJapanese(unit.text) THEN "primary_invalid"
            ELSE IF unit.consistency = "inconsistent" THEN "crop_inconsistent"
            ELSE IF unit.horizontal THEN "horizontal"
            ELSE "primary_ordinary"

FallbackUsable(text, route) ==
    /\ Length(text) > 0
    /\ CASE route \in {"multilingual", "numeric"} -> Meaningful(text) > 0
         [] route = "punctuation" -> Meaningful(text) = 0 /\ Length(text) >= 2
         [] route = "stylized_or_sfx" -> ValidJapanese(text) \/ Meaningful(text) > 0
         [] OTHER -> ValidJapanese(text)

(* route_japanese_crop.  fallback: [status, text], what the call of Hayai   *)
(* did; status "transient" stands for its unavailable, timeout and          *)
(* out-of-memory errors.                                                    *)
NeedsFallback(unit, enabled) == enabled /\ ChooseRoute(unit) # "primary_ordinary"

Primary(unit, others, degraded) ==
    [engine |-> "manga", text |-> unit.text, valid |-> Trusted(unit),
     alternatives |-> others, degraded |-> degraded]

(* Mutant: an answer that did not come is taken for a useless one. *)
RoutedQuietly(unit, enabled, fallback) ==
    IF ~NeedsFallback(unit, enabled) \/ ~FallbackUsable(fallback.text, ChooseRoute(unit))
    THEN Primary(unit, <<>>, FALSE)
    ELSE [engine |-> "hayai", text |-> fallback.text, valid |-> TRUE,
          alternatives |-> <<unit.text>>, degraded |-> FALSE]

Routed(unit, enabled, fallback) ==
    IF ~NeedsFallback(unit, enabled) THEN Primary(unit, <<>>, FALSE)
    ELSE IF fallback.status = "transient" THEN Primary(unit, <<>>, TRUE)
    ELSE IF ~FallbackUsable(fallback.text, ChooseRoute(unit))
         THEN Primary(unit, <<fallback.text>>, FALSE)
    ELSE [engine |-> "hayai", text |-> fallback.text, valid |-> TRUE,
          alternatives |-> <<unit.text>>, degraded |-> FALSE]

-----------------------------------------------------------------------------
(* One call of the Hayai backend.  reader is its child: "none", "alive", or *)
(* "gone" (it died, the parent has not noticed).  The outcomes are the pairs *)
(* of what the caller sees and the child that is left.  A child that dies    *)
(* before it has read its request resets the pipe: only EOFError is caught,  *)
(* so the OSError leaves the call as "error" does, and the parent keeps it.  *)
HayaiOutcomes ==
    {[status |-> "ok", reader |-> "alive"],
     [status |-> "transient", reader |-> "none"],     \* unavailable, timeout, oom, EOF
     [status |-> "error", reader |-> "none"],         \* RuntimeError of the worker
     [status |-> "error", reader |-> "gone"]}         \* ConnectionResetError, EPIPE

-----------------------------------------------------------------------------
(* Properties of the routing, over every text of at most n characters of    *)
(* the classes cs.                                                          *)

Texts(cs, n) ==
    {t \in [Classes -> 0..n] : Length(t) <= n /\ \A c \in Classes \ cs : t[c] = 0}

=============================================================================
