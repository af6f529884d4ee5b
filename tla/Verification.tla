----------------------------- MODULE Verification -----------------------------
(***************************************************************************)
(* parse_llm_output and verify_answer: what of a completion survives.      *)
(*                                                                         *)
(* A completion is a sequence of symbols.  Some are inline markers, whose  *)
(* number IndexOf gives; Sentinel separates the answer from the claims     *)
(* block, which is the one symbol Json when it is well formed.  A claim is *)
(* the sequence of its citations; of a citation its source and whether     *)
(* quote_supported finds its quote there matter.                           *)
(***************************************************************************)
EXTENDS Integers, Sequences, FiniteSets, Listings

CONSTANTS
  Sentinel,   (* CLAIMS_SENTINEL                                            *)
  IndexOf,    (* the number of each marker symbol                           *)
  Json        (* a well-formed claims block                                 *)

ASSUME VerificationAssumption ==
  /\ Sentinel # <<>>
  /\ \A s \in DOMAIN IndexOf : IndexOf[s] \in Nat

IsMarker(s) == s \in DOMAIN IndexOf

(* raw.find(CLAIMS_SENTINEL), counted from 1.                              *)
SentinelAt(raw) ==
  {p \in 1..(Len(raw) - Len(Sentinel) + 1) :
     SubSeq(raw, p, p + Len(Sentinel) - 1) = Sentinel}

HasSentinel(raw) == SentinelAt(raw) # {}

FirstSentinel(raw) == CHOOSE p \in SentinelAt(raw) : \A q \in SentinelAt(raw) : p <= q

(* The two sides of partition.                                             *)
AnswerPart(raw) == IF HasSentinel(raw) THEN SubSeq(raw, 1, FirstSentinel(raw) - 1) ELSE raw

ClaimsPart(raw) ==
  IF HasSentinel(raw) THEN SubSeq(raw, FirstSentinel(raw) + Len(Sentinel), Len(raw)) ELSE <<>>

WellFormed(raw) == ClaimsPart(raw) = <<Json>>

-----------------------------------------------------------------------------
(* Evidence for the sources 1..n: of each source the best citation so far, *)
(* as its status and the citation quoted (0 for an excerpt of the chunk).  *)

Citations(claims) ==
  LET upto[k \in 0..Len(claims)] == IF k = 0 THEN <<>> ELSE upto[k - 1] \o claims[k]
  IN upto[Len(claims)]

Uncited == [status |-> "none", quote |-> 0]
Weak == [status |-> "weak", quote |-> 0]

(* Fault: a later quote that fails displaces the evidence there was.       *)
LatestEvidence(evidence, citation, k) ==
  IF citation.supported THEN [status |-> "validated", quote |-> k] ELSE Weak

BetterEvidence(evidence, citation, k) ==
  IF citation.supported
  THEN IF evidence.status = "validated" THEN evidence
       ELSE [status |-> "validated", quote |-> k]
  ELSE IF evidence = Uncited THEN Weak ELSE evidence

(* The loop over the claims.                                               *)
Cited(claims, n) ==
  LET cites == Citations(claims)
      best[k \in 0..Len(cites)] ==
        IF k = 0 THEN [i \in 1..n |-> Uncited]
        ELSE [i \in 1..n |-> IF i = cites[k].source
                             THEN BetterEvidence(best[k - 1][i], cites[k], k)
                             ELSE best[k - 1][i]]
  IN best[Len(cites)]

(* The loop over the markers of the answer.                                *)
Marked(best, answer) ==
  [i \in DOMAIN best |->
     IF best[i] = Uncited /\ \E p \in 1..Len(answer) : IsMarker(answer[p]) /\ IndexOf[answer[p]] = i
     THEN Weak ELSE best[i]]

Dropped(claims, answer, n) ==
  LET cites == Citations(claims)
  IN Cardinality({k \in 1..Len(cites) : cites[k].source \notin 1..n})
     + Cardinality({p \in 1..Len(answer) : IsMarker(answer[p]) /\ IndexOf[answer[p]] \notin 1..n})

(* Fault: a marker no claim cites is no weakness.                          *)
AnyWeakClaim(claims, answer, n) ==
  LET cites == Citations(claims)
  IN \E k \in 1..Len(cites) : cites[k].source \in 1..n /\ ~cites[k].supported

AnyWeak(claims, answer, n) ==
  LET cites == Citations(claims)
  IN \/ \E k \in 1..Len(cites) : cites[k].source \in 1..n /\ ~cites[k].supported
     \/ Marked(Cited(claims, n), answer) # Cited(claims, n)

(* Fault: markers stay.                                                    *)
StripNothing(answer, valid) == answer

(* _strip_invalid_markers                                                  *)
Strip(answer, valid) ==
  Without(answer, {m \in DOMAIN IndexOf : IndexOf[m] \notin valid})

(* NOT_FOUND_ANSWER                                                        *)
NotFoundAnswer == <<>>

NoCitations == [i \in {} |-> Uncited]

Withheld(status, citations) ==
  [status |-> status, not_found |-> TRUE, answer |-> NotFoundAnswer, citations |-> citations]

OnSources(best) == [i \in {j \in DOMAIN best : best[j] # Uncited} |-> best[i]]

(* block is a well-formed claims block, or None.                           *)
None == [not_found |-> FALSE, claims |-> <<>>, parsed |-> FALSE]

verify_answer(answer, block, n) ==
  LET citations == OnSources(Marked(Cited(block.claims, n), answer))
      sound == ~AnyWeak(block.claims, answer, n) /\ Dropped(block.claims, answer, n) = 0
  IN IF ~block.parsed THEN Withheld("unsupported", NoCitations)
     ELSE IF block.not_found
     THEN [status |-> "not_found", not_found |-> TRUE, answer |-> Strip(answer, {}),
           citations |-> NoCitations]
     ELSE IF \A i \in DOMAIN citations : citations[i].status # "validated"
     THEN Withheld("unsupported", citations)
     ELSE [status |-> IF sound THEN "verified" ELSE "partial", not_found |-> FALSE,
           answer |-> Strip(answer, DOMAIN citations), citations |-> citations]

=============================================================================
