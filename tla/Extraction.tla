------------------------------ MODULE Extraction ------------------------------
(***************************************************************************)
(* What of the language model's replies an extraction keeps: a document's  *)
(* chunks go to the model in batches, of each reply the requirements with  *)
(* a verified quote become items, and all of them are saved together.      *)
(* EvidenceReview has what the saving does to the items of before.         *)
(*                                                                         *)
(* Chunks are numbered in document order, sources within their batch.      *)
(***************************************************************************)
EXTENDS Integers, Sequences, FiniteSets

CONSTANTS
  Length,        (* chunks of the document                                  *)
  BatchSize,     (* _BATCH_SIZE                                             *)
  KeyOf,         (* of each requirement text: collapsed and case-folded     *)
  Blank,         (* the key of a text that is only white space              *)
  Supported,     (* <<quote, chunk>>: quote_supported                       *)
  Proposals      (* what a usable reply may propose                         *)

ASSUME ExtractionAssumption ==
  /\ Length \in Nat /\ BatchSize \in Nat \ {0}
  /\ \A proposal \in Proposals :
       proposal \in Seq([text : DOMAIN KeyOf, citations : Seq([quote : STRING, source : Int])])

VARIABLES
  start,         (* chunks of the batches behind                            *)
  found,         (* the items, keys seen and requirements dropped so far    *)
  proposed,      (* history: all requirements proposed, with their batch    *)
  saved,         (* the items of the document's last extraction             *)
  extraction     (* running, saved or failed                                *)

extraction_vars == <<start, found, proposed, saved, extraction>>

NothingFound == [items |-> <<>>, seen |-> {}, dropped |-> 0]
Older == <<[text |-> "older", citations |-> <<>>]>>

ExtractionInit ==
  /\ start = 0 /\ found = NothingFound /\ proposed = <<>>
  /\ saved = Older /\ extraction = "running"

-----------------------------------------------------------------------------
(* verify_batch                                                            *)

BatchEnd(first) == IF first + BatchSize <= Length THEN first + BatchSize ELSE Length

(* Fault: every number the model may give is taken for a chunk.            *)
HoldsAnywhere(citation, first) == <<citation.quote, citation.source>> \in Supported

(* Whether a citation made in a batch holds; by_index and quote_supported. *)
Holds(citation, first) ==
  /\ first + citation.source \in (first + 1)..BatchEnd(first)
  /\ <<citation.quote, first + citation.source>> \in Supported

(* The citations kept: verified, the first one of each chunk.              *)
VerifiedCitations(requirement, first) ==
  LET cites == requirement.citations
      kept == {k \in 1..Len(cites) :
                 /\ Holds(cites[k], first)
                 /\ \A j \in 1..(k - 1) :
                      Holds(cites[j], first) => cites[j].source # cites[k].source}
      upto[k \in 0..Len(cites)] ==
        IF k = 0 THEN <<>>
        ELSE IF k \in kept
        THEN Append(upto[k - 1], [chunk |-> first + cites[k].source, quote |-> cites[k].quote])
        ELSE upto[k - 1]
  IN upto[Len(cites)]

Item(requirement, first) ==
  [text |-> requirement.text, citations |-> VerifiedCitations(requirement, first)]

Drop(f) == [f EXCEPT !.dropped = @ + 1]

(* One requirement: blank, repeated, without evidence, or an item.         *)
Accept(f, requirement, first) ==
  LET key == KeyOf[requirement.text]
  IN IF key = Blank THEN Drop(f)
     ELSE IF key \in f.seen THEN f
     ELSE IF VerifiedCitations(requirement, first) = <<>> THEN Drop(f)
     ELSE [f EXCEPT !.items = Append(@, Item(requirement, first)), !.seen = @ \cup {key}]

(* Fault: every batch begins with nothing seen.                            *)
verify_batch_alone(f, proposal, first) ==
  LET upto[k \in 0..Len(proposal)] ==
        IF k = 0 THEN [f EXCEPT !.seen = {}] ELSE Accept(upto[k - 1], proposal[k], first)
  IN upto[Len(proposal)]

verify_batch(f, proposal, first) ==
  LET upto[k \in 0..Len(proposal)] ==
        IF k = 0 THEN f ELSE Accept(upto[k - 1], proposal[k], first)
  IN upto[Len(proposal)]

-----------------------------------------------------------------------------
(* The extraction, under its lock.                                         *)

Generating == extraction = "running" /\ start < Length

ReadReply(proposal) ==
  /\ Generating
  /\ found' = verify_batch(found, proposal, start)
  /\ proposed' = proposed \o [k \in 1..Len(proposal) |->
                                [requirement |-> proposal[k], first |-> start]]
  /\ start' = BatchEnd(start)
  /\ UNCHANGED <<saved, extraction>>

(* A reply that is not the JSON asked for is passed over with a warning.   *)
PassOverReply ==
  /\ Generating
  /\ start' = BatchEnd(start)
  /\ UNCHANGED <<found, proposed, saved, extraction>>

(* An error of the model ends the extraction, whatever was found.          *)
FailReply ==
  /\ Generating
  /\ extraction' = "failed"
  /\ UNCHANGED <<start, found, proposed, saved>>

Save ==
  /\ extraction = "running" /\ start = Length
  /\ extraction' = "saved" /\ saved' = found.items
  /\ UNCHANGED <<start, found, proposed>>

ExtractionNext ==
  \/ \E proposal \in Proposals : ReadReply(proposal)
  \/ PassOverReply \/ FailReply \/ Save

ExtractionSpec == ExtractionInit /\ [][ExtractionNext]_extraction_vars

-----------------------------------------------------------------------------
(* Properties.                                                             *)

Items == {found.items[k] : k \in 1..Len(found.items)}

(* services/evidence.py:150-152: an item rests on at least one quote that  *)
(* stands in the very chunk it points to, of whatever batch, and points to *)
(* no chunk twice.                                                         *)
ItemsAreQuoted ==
  \A item \in Items :
    /\ item.citations # <<>>
    /\ \A k \in 1..Len(item.citations) :
         /\ <<item.citations[k].quote, item.citations[k].chunk>> \in Supported
         /\ \A j \in 1..(k - 1) : item.citations[j].chunk # item.citations[k].chunk

Verified(p) == \E k \in 1..Len(p.requirement.citations) : Holds(p.requirement.citations[k], p.first)

Key(p) == KeyOf[p.requirement.text]

(* The document's items are replaced when all its chunks have been through *)
(* the model, or not at all; then every requirement that was ever proposed *)
(* with evidence, in whatever capitals, how often and in how many batches, *)
(* also after the model had proposed it without, is there exactly once.    *)
SavesEachOnce ==
  [][saved' # saved =>
       /\ start = Length
       /\ \A p \in {proposed[k] : k \in 1..Len(proposed)} :
            (Key(p) # Blank /\ Verified(p)) =>
              Cardinality({k \in 1..Len(saved') : KeyOf[saved'[k].text] = Key(p)}) = 1]_extraction_vars

=============================================================================
