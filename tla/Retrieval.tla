------------------------------- MODULE Retrieval -------------------------------
(***************************************************************************)
(* SearchService.search without its three calls: the fusion of the keyword *)
(* and the semantic leg, the gate on READY documents, and the order a      *)
(* reranker's reply gives.  A leg is the sequence of its chunks, best      *)
(* first; chunks are numbered in the order of their ids, the last          *)
(* tie-break.  A score is a fraction.                                      *)
(***************************************************************************)
EXTENDS Integers, Sequences, SequencesExt, Listings

CONSTANTS
  DocumentOf,   (* the document of each chunk                               *)
  RrfK,         (* RRF_K                                                    *)
  TopK          (* top_k of the request                                     *)

Chunks == DOMAIN DocumentOf

ASSUME RetrievalAssumption ==
  /\ Chunks \subseteq Nat
  /\ RrfK \in Nat \ {0} /\ TopK \in Nat \ {0}

Rank(leg, c) ==
  IF \E i \in 1..Len(leg) : leg[i] = c
  THEN CHOOSE i \in 1..Len(leg) : leg[i] = c /\ \A j \in 1..(i - 1) : leg[j] # c
  ELSE 0

Share(leg, c) == IF Rank(leg, c) = 0 THEN <<0, 1>> ELSE <<1, RrfK + Rank(leg, c)>>

Plus(a, b) == <<a[1] * b[2] + b[1] * a[2], a[2] * b[2]>>

(* Fault: the semantic leg replaces the share of the keyword leg.          *)
LastShare(keyword, semantic, c) ==
  IF Rank(semantic, c) # 0 THEN Share(semantic, c) ELSE Share(keyword, c)

(* reciprocal_rank_fusion                                                  *)
Fused(keyword, semantic, c) == Plus(Share(keyword, c), Share(semantic, c))

Exceeds(x, y) == x[1] * y[2] > y[1] * x[2]

(* By fused score, then by id.                                             *)
Better(keyword, semantic) ==
  LET score(c) == Fused(keyword, semantic, c)
  IN {p \in Chunks \X Chunks :
        \/ Exceeds(score(p[1]), score(p[2]))
        \/ ~Exceeds(score(p[2]), score(p[1])) /\ p[1] < p[2]}

ranked_ids(keyword, semantic) ==
  InOrder(ToSet(keyword) \cup ToSet(semantic), Better(keyword, semantic))

First(n, s) == SubSeq(s, 1, IF n <= Len(s) THEN n ELSE Len(s))

(* The first of them whose documents are READY when they are fetched.      *)
candidate_ids(ranked, count, ready) ==
  Without(First(count, ranked), {c \in Chunks : DocumentOf[c] \notin ready})

(* A reply is the candidates' positions, best first; those out of range    *)
(* are dropped.                                                            *)
InRange(reply, count) == Without(reply, {p \in ToSet(reply) : p \notin 1..count})

(* Where it puts a candidate; of a repeated one the first place counts.    *)
RerankRank(reply, position, count) ==
  LET place == Rank(InRange(reply, count), position)
  IN IF place = 0 THEN count + 1 ELSE place

(* The positions by rank, then as they were.                               *)
RerankOrder(reply, count) ==
  LET place(p) == RerankRank(reply, p, count)
      sooner == {p \in (1..count) \X (1..count) :
                   place(p[1]) < place(p[2]) \/ (place(p[1]) = place(p[2]) /\ p[1] < p[2])}
  IN InOrder(1..count, sooner)

Reranked(candidates, reply) ==
  LET order == RerankOrder(reply, Len(candidates))
  IN First(TopK, [i \in 1..Len(candidates) |-> candidates[order[i]]])

=============================================================================
