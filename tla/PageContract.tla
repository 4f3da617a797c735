----------------------------- MODULE PageContract -----------------------------
(***************************************************************************)
(* What a page job promises.  It ends once, with a page or with a failure.   *)
(* A page shows at most one text for each region, the transformation of what *)
(* that region says or what the reader wrote for it; a reader's edit changes *)
(* one region; and a redrawn page shows what its document says and nothing   *)
(* else.  PageJob implements it.                                             *)
(*                                                                         *)
(* An entry is [id, source, text, edited].                                   *)
(***************************************************************************)
VARIABLES
    status,   \* "running", "completed" or "failed"
    wanted,   \* the entries of the document
    shown     \* the entries of the image

contract == <<status, wanted, shown>>

(* The translation or the annotated form of a source text.                   *)
Transformed(source) == <<"transformed", source>>

OneTextEach(entries) == \A e, f \in entries : e.id = f.id => e = f

Faithful(entries) ==
    /\ OneTextEach(entries)
    /\ \A e \in entries : e.edited \/ e.text = Transformed(e.source)

PromiseInit == status = "running" /\ wanted = {} /\ shown = {}

Deliver ==
    /\ status = "running" /\ status' = "completed"
    /\ Faithful(wanted') /\ (\A e \in wanted' : ~e.edited)
    /\ shown' = wanted'

GiveUp == status = "running" /\ status' = "failed" /\ UNCHANGED <<wanted, shown>>

Revise ==
    /\ status = "completed" /\ Faithful(wanted')
    /\ \E id \in {e.id : e \in wanted \cup wanted'} :
        {e \in wanted : e.id # id} = {e \in wanted' : e.id # id}
    /\ UNCHANGED <<status, shown>>

Redraw == status = "completed" /\ shown' = wanted /\ UNCHANGED <<status, wanted>>

Promise == PromiseInit /\ [][Deliver \/ GiveUp \/ Revise \/ Redraw]_contract

=============================================================================
