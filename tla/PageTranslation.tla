--------------------------- MODULE PageTranslation ---------------------------
(***************************************************************************)
(* Translating the items of one page: translate_page (kindle/translator.py) *)
(* over translate_with_recovery (pipeline/translation.py).  The request is  *)
(* cut into chunks; a chunk is asked for as one structured batch, answered  *)
(* in part, split in halves when it is refused, and what is left when the   *)
(* attempts are spent is translated item by item.                           *)
(*                                                                         *)
(* The recursion of resolve is the stack todo of the calls that have not   *)
(* begun, next one first.  An item stands for its identity; its translation *)
(* is a token the composing module chooses.  Prompts, JSON and the schema   *)
(* are left out: an answer is the set of items whose text it holds, or a    *)
(* refusal (a contract error, a context limit, a timeout), or another error *)
(* (connection, HTTP status), which nothing recovers.                       *)
(***************************************************************************)
EXTENDS Integers, Sequences, Functions

CONSTANTS
    Items,       \* what a page may ask for
    MaxItems,    \* MAX_TRANSLATION_ITEMS
    MaxAttempts  \* MAX_BATCH_ATTEMPTS

ASSUME TranslationAssumption ==
    /\ MaxItems \in Nat \ {0}
    /\ MaxAttempts \in Nat \ {0}

VARIABLES
    asking,      \* "idle", "verify", "batches", "done" or "broken"
    request,     \* the items of the page in reading order
    rest,        \* the items of the chunks not begun
    todo,        \* the batches of this chunk still to ask for, next first
    singles,     \* items to translate one by one, before the next batch
    attempts,    \* batches asked for in this chunk
    translated   \* the items with a text

translation == <<asking, request, rest, todo, singles, attempts, translated>>

Distinct(s) == \A i, j \in DOMAIN s : i # j => s[i] # s[j]

TranslationTypeOK ==
    /\ asking \in {"idle", "verify", "batches", "done", "broken"}
    /\ request \in Seq(Items)
    /\ rest \in Seq(Items)
    /\ todo \in Seq(Seq(Items))
    /\ singles \in Seq(Items)
    /\ attempts \in 0..MaxAttempts
    /\ translated \subseteq Items

TranslationInit ==
    /\ asking = "idle" /\ request = <<>> /\ rest = <<>> /\ todo = <<>>
    /\ singles = <<>> /\ attempts = 0 /\ translated = {}

(* PageTranslationRequest refuses an empty page and items with one identity. *)
Submit(items) ==
    /\ asking = "idle" /\ items # <<>> /\ Distinct(items)
    /\ asking' = "verify" /\ request' = items /\ rest' = items
    /\ UNCHANGED <<todo, singles, attempts, translated>>

(* verify_ollama_model: the tag must resolve to the pinned bytes. *)
Verify ==
    /\ asking = "verify"
    /\ asking' \in {"batches", "broken"}
    /\ UNCHANGED <<request, rest, todo, singles, attempts, translated>>

NextChunk ==
    /\ asking = "batches" /\ todo = <<>> /\ singles = <<>> /\ rest # <<>>
    /\ LET n == IF Len(rest) < MaxItems THEN Len(rest) ELSE MaxItems IN
       /\ todo' = <<SubSeq(rest, 1, n)>>
       /\ rest' = SubSeq(rest, n + 1, Len(rest))
    /\ attempts' = 0
    /\ UNCHANGED <<asking, request, singles, translated>>

Finish ==
    /\ asking = "batches" /\ todo = <<>> /\ singles = <<>> /\ rest = <<>>
    /\ asking' = "done"
    /\ UNCHANGED <<request, rest, todo, singles, attempts, translated>>

Asking == asking = "batches" /\ singles = <<>> /\ todo # <<>>

(* What an answer may leave of a batch: some of its items, in their order. *)
Parts(batch) ==
    UNION {{[i \in 1..n |-> batch[at[i]]] :
                at \in {f \in [1..n -> DOMAIN batch] : \A i, j \in 1..n : i < j => f[i] < f[j]}} :
           n \in 0..Len(batch)}

Without(missing) == translated \cup (Range(Head(todo)) \ Range(missing))

(* Mutant: a partial answer is taken for a whole one. *)
AnswerAll ==
    /\ Asking /\ attempts < MaxAttempts
    /\ attempts' = attempts + 1
    /\ \E missing \in Parts(Head(todo)) : translated' = Without(missing)
    /\ todo' = Tail(todo)
    /\ UNCHANGED <<asking, request, rest, singles>>

(* Mutant: a partial answer is asked for again without counting. *)
AnswerUncounted ==
    /\ Asking
    /\ attempts' = attempts + 1
    /\ \E missing \in Parts(Head(todo)) :
        /\ translated' = Without(missing)
        /\ todo' = IF missing = <<>> THEN Tail(todo) ELSE <<missing>> \o Tail(todo)
    /\ UNCHANGED <<asking, request, rest, singles>>

(* The provider answers with the texts of some of the batch; the rest is     *)
(* asked for again.                                                          *)
Answer ==
    /\ Asking /\ attempts < MaxAttempts
    /\ attempts' = attempts + 1
    /\ \E missing \in Parts(Head(todo)) :
        /\ translated' = Without(missing)
        /\ todo' = IF missing = <<>> THEN Tail(todo) ELSE <<missing>> \o Tail(todo)
    /\ UNCHANGED <<asking, request, rest, singles>>

(* A refused batch is split; a refused item is translated by itself. *)
Refuse ==
    /\ Asking /\ attempts < MaxAttempts
    /\ attempts' = attempts + 1
    /\ LET batch == Head(todo)
           middle == Len(batch) \div 2 IN
       IF Len(batch) = 1
       THEN singles' = batch /\ todo' = Tail(todo)
       ELSE /\ todo' = <<SubSeq(batch, 1, middle)>>
                          \o (<<SubSeq(batch, middle + 1, Len(batch))>> \o Tail(todo))
            /\ UNCHANGED singles
    /\ UNCHANGED <<asking, request, rest, translated>>

(* Mutant: a page whose attempts are spent is taken as it is. *)
GiveUpEarly ==
    /\ Asking /\ attempts >= MaxAttempts
    /\ asking' = "done"
    /\ UNCHANGED <<request, rest, todo, singles, attempts, translated>>

(* Mutant: what is left is asked for again as a batch. *)
AskAgain ==
    /\ Asking /\ attempts >= MaxAttempts
    /\ attempts' = 0
    /\ UNCHANGED <<asking, request, rest, todo, singles, translated>>

Exhausted ==
    /\ Asking /\ attempts >= MaxAttempts
    /\ singles' = Head(todo) /\ todo' = Tail(todo)
    /\ UNCHANGED <<asking, request, rest, attempts, translated>>

TranslateSingle ==
    /\ asking = "batches" /\ singles # <<>>
    /\ translated' = translated \cup {Head(singles)}
    /\ singles' = Tail(singles)
    /\ UNCHANGED <<asking, request, rest, todo, attempts>>

(* A batch that fails in a way that is not recovered, or a single item that *)
(* gets no text: the exception leaves translate_page and nothing is kept.   *)
Break ==
    /\ (Asking /\ attempts < MaxAttempts) \/ (asking = "batches" /\ singles # <<>>)
    /\ asking' = "broken"
    /\ UNCHANGED <<request, rest, todo, singles, attempts, translated>>

Recover ==
    \/ Verify \/ NextChunk \/ Finish \/ Answer \/ Refuse \/ Exhausted
    \/ TranslateSingle \/ Break

TranslationNext == Recover \/ \E items \in Seq(Items) : Submit(items)

TranslationSpec == TranslationInit /\ [][TranslationNext]_translation

-----------------------------------------------------------------------------
(* Properties.                                                              *)

Batched == UNION {Range(todo[k]) : k \in DOMAIN todo}

(* Recovery loses nothing and does nothing twice: however the provider       *)
(* answers, splits and refuses, every item of the page is in exactly one     *)
(* place: translated, waiting by itself, in one batch, or in a later chunk.  *)
EveryItemOnce ==
    /\ Range(request) = translated \cup Range(singles) \cup Batched \cup Range(rest)
    /\ translated \cap (Range(singles) \cup Batched \cup Range(rest)) = {}
    /\ Range(singles) \cap (Batched \cup Range(rest)) = {}
    /\ Batched \cap Range(rest) = {}
    /\ Distinct(singles) /\ Distinct(rest)
    /\ \A k \in DOMAIN todo : todo[k] # <<>> /\ Distinct(todo[k])
    /\ \A k, l \in DOMAIN todo : k # l => Range(todo[k]) \cap Range(todo[l]) = {}

(* A page that reports its translations has all of them: the result is not  *)
(* built from a part of the items (the join would raise a KeyError).        *)
DoneIsComplete ==
    asking = "done" => translated = Range(request)

=============================================================================
