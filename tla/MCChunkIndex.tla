----------------------------- MODULE MCChunkIndex -----------------------------
(* Finite instances of ChunkIndex.                                         *)
EXTENDS ChunkIndex, TLC

CONSTANTS r1, r2

MCRuns == {r1, r2}
OneRun == {r1}

Limit(min, soft, max) == [min |-> min, soft |-> soft, max |-> max]

(* Lines of one and of four tokens fill, overfill and underfill these.     *)
MCReleases == <<Limit(2, 3, 4), Limit(1, 2, 3)>>

Clauses == {<<>>, <<1>>, <<1, 1>>}

(* Two lines to a page.                                                    *)
Line(n, size, clause) == [page |-> (n + 1) \div 2, tokens |-> size, clause |-> clause]

TextsOf(lengths, sizes, clauses) ==
  UNION {{[n \in 1..k |-> Line(n, f[n][1], f[n][2])] : f \in [1..k -> sizes \X clauses]} :
           k \in lengths}

MCTexts == TextsOf({3}, {1, 4}, Clauses)
FewTexts == TextsOf({2}, {1, 4}, {<<>>})

RunSymmetry == Permutations(MCRuns)

=============================================================================
