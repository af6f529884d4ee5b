---------------------------- MODULE ChunkIndexProofs ----------------------------
(***************************************************************************)
(* Proofs about the chunker and the runs that use it: for any text and any *)
(* limits, the chunks cover the text; for any runs and releases, a chunk   *)
(* marked as embedded has its point.                                       *)
(***************************************************************************)
EXTENDS ChunkIndex, NaturalFacts, SequenceTheorems, TLAPS

-----------------------------------------------------------------------------
(* Types.                                                                  *)

Clause == Seq(Nat)

LineType == [page : Nat \ {0}, tokens : Nat \ {0}, clause : Clause]

ChunkType == [from : Nat, to : Nat, tokens : Nat, page_start : Nat, page_end : Nat,
              clause : Clause]

DraftType == [from : Nat, to : Nat, tokens : Nat, page_start : Nat, page_end : Nat,
              clause : Clause, parent : Clause]

LoopType == [line : Nat \ {0}, drafts : Seq(DraftType), current : ChunkType,
             active : Clause, seen : SUBSET Clause]

(* What the loop of chunk_pages keeps.                                     *)
LoopOK(s) == s \in LoopType /\ Covers(s)

(* Of the printed ancestors of a clause one is the nearest.                *)
LEMMA ParentType ==
  ASSUME NEW clause \in Clause, NEW seen \in SUBSET Clause
  PROVE  LET known == clause_ancestors(clause) \cap seen
         IN /\ parent_clause(clause, seen) \in Clause
            /\ known = {} => parent_clause(clause, seen) = NoClause
            /\ known # {} => /\ parent_clause(clause, seen) \in known
                             /\ \A q \in known : Len(q) <= Len(parent_clause(clause, seen))
<1> DEFINE known == clause_ancestors(clause) \cap seen
           distance(q) == Len(clause) - Len(q)
<1>1. CASE known = {}
  BY <1>1, EmptySeq DEF parent_clause, NoClause, Clause
<1>2. CASE known # {}
  <2>1. Len(clause) \in Nat
    BY LenProperties DEF Clause
  <2>2. ASSUME NEW q \in known PROVE Len(q) \in Nat /\ Len(q) <= Len(clause)
    <3>1. PICK k \in 1..(Len(clause) - 1) : q = SubSeq(clause, 1, k)
      BY DEF clause_ancestors
    <3>2. \A i \in 1..k : clause[i] \in Nat
      BY <2>1, <3>1, ElementOfSeq DEF Clause
    <3>3. Len(q) = k
      BY <2>1, <3>1, <3>2, SubSeqProperties
    <3> QED BY <2>1, <3>1, <3>3
  <2>3. PICK d \in {distance(q) : q \in known} :
          \A e \in {distance(q) : q \in known} : d <= e
    <3>1. {distance(q) : q \in known} \in SUBSET Nat
      BY <2>1, <2>2
    <3>2. {distance(q) : q \in known} # {}
      BY <1>2
    <3> QED BY <3>1, <3>2, SmallestExists
  <2>4. PICK p \in known : d = distance(p)
    BY <2>3
  <2>5. ASSUME NEW q \in known PROVE Len(q) <= Len(p)
    <3>1. d <= distance(q)
      BY <2>3
    <3>2. Len(p) \in Nat /\ Len(q) \in Nat
      BY <2>2
    <3> QED BY <2>1, <2>4, <3>1, <3>2
  <2>6. parent_clause(clause, seen) \in known
        /\ \A q \in known : Len(q) <= Len(parent_clause(clause, seen))
    BY <1>2, <2>5 DEF parent_clause
  <2> QED BY <1>2, <2>6
<1> QED BY <1>1, <1>2

-----------------------------------------------------------------------------
(* The steps of the loop.                                                  *)

LEMMA StartOK == LoopOK(Start)
<1>1. <<>> \in Clause /\ <<>> \in Seq(DraftType) /\ Len(<<>>) = 0
  BY EmptySeq DEF Clause
<1>2. Start \in LoopType
  BY <1>1 DEF Start, Closed, LoopType, ChunkType, NoClause
<1>3. Covers(Start)
  BY <1>1 DEF Start, Closed, Covers, IsOpen, Following
<1> QED BY <1>2, <1>3 DEF LoopOK

(* A flush that emits the open chunk emits the lines after the last one.   *)
LEMMA FlushOK ==
  ASSUME NEW s, LoopOK(s)
  PROVE  LoopOK(Flush(s)) /\ ~IsOpen(Flush(s)) /\ Flush(s).line = s.line
<1>1. s \in LoopType /\ Covers(s)
  BY DEF LoopOK
<1>2. CASE ~IsOpen(s)
  BY <1>1, <1>2 DEF Flush, LoopOK
<1>3. CASE IsOpen(s)
  <2> DEFINE d == Draft(s)
             n == Len(s.drafts)
             t == Flush(s)
  <2>1. d \in DraftType /\ d.from = s.current.from /\ d.to = s.current.to
    BY <1>1, ParentType DEF LoopType, ChunkType, DraftType, Draft
  <2>2. /\ t = [s EXCEPT !.drafts = Append(s.drafts, d), !.current = Closed]
        /\ s.drafts \in Seq(DraftType) /\ n \in Nat
    BY <1>1, <1>3, LenProperties DEF Flush, LoopType
  <2>3. /\ Append(s.drafts, d) \in Seq(DraftType)
        /\ Len(Append(s.drafts, d)) = n + 1
        /\ Append(s.drafts, d)[n + 1] = d
        /\ \A k \in 1..n : Append(s.drafts, d)[k] = s.drafts[k]
    BY <2>1, <2>2, AppendProperties
  <2>4. Closed \in ChunkType
    BY EmptySeq DEF Closed, ChunkType, NoClause, Clause
  <2>5. /\ t.drafts = Append(s.drafts, d) /\ t.current = Closed /\ t.line = s.line
        /\ t.active = s.active /\ t.seen = s.seen /\ t \in LoopType
    BY <1>1, <2>2, <2>3, <2>4 DEF LoopType
  <2>6. ~IsOpen(t)
    BY <2>5 DEF IsOpen, Closed
  <2>7. /\ s.current.from = Following(s.drafts) /\ s.current.to = s.line - 1
        /\ s.current.from <= s.current.to
    BY <1>1, <1>3 DEF Covers
  <2>8. Following(s.drafts) = IF n = 0 THEN 1 ELSE s.drafts[n].to + 1
    BY <2>2, EmptySeq DEF Following
  <2>9. \A k \in 1..(n + 1) :
          /\ t.drafts[k].from <= t.drafts[k].to
          /\ t.drafts[k].from = IF k = 1 THEN 1 ELSE t.drafts[k - 1].to + 1
    <3> SUFFICES ASSUME NEW k \in 1..(n + 1)
                 PROVE  /\ t.drafts[k].from <= t.drafts[k].to
                        /\ t.drafts[k].from = IF k = 1 THEN 1 ELSE t.drafts[k - 1].to + 1
      OBVIOUS
    <3>1. CASE k = n + 1
      BY <2>1, <2>2, <2>3, <2>5, <2>7, <2>8, <3>1
    <3>2. CASE k \in 1..n
      BY <1>1, <2>2, <2>3, <2>5, <3>2 DEF Covers
    <3> QED BY <2>2, <3>1, <3>2
  <2>10. t.line = Following(t.drafts)
    <3>1. t.drafts # <<>>
      BY <2>2, <2>3, <2>5, EmptySeq
    <3>2. Following(t.drafts) = s.current.to + 1
      BY <2>1, <2>3, <2>5, <3>1 DEF Following
    <3> QED BY <1>1, <2>5, <2>7, <3>2 DEF LoopType
  <2> QED BY <2>3, <2>5, <2>6, <2>9, <2>10 DEF LoopOK, Covers
<1> QED BY <1>2, <1>3

LEMMA FlushIfOK ==
  ASSUME NEW s, LoopOK(s), NEW condition
  PROVE  LoopOK(FlushIf(condition, s)) /\ FlushIf(condition, s).line = s.line
BY FlushOK DEF FlushIf

(* A heading changes only what the next chunk will be called.              *)
LEMMA ReadHeadingOK ==
  ASSUME NEW s, LoopOK(s), NEW l \in LineType, NEW c
  PROVE  LoopOK(ReadHeading(s, l, c)) /\ ReadHeading(s, l, c).line = s.line
<1> DEFINE before == FlushIf(s.current.tokens >= c.min, s)
           t == [before EXCEPT !.active = l.clause, !.seen = s.seen \cup {l.clause}]
<1>1. LoopOK(before) /\ before.line = s.line
  BY FlushIfOK
<1>2. before \in LoopType /\ Covers(before) /\ s.seen \in SUBSET Clause /\ l.clause \in Clause
  BY <1>1 DEF LoopOK, LoopType, LineType
<1> HIDE DEF before
<1>3. /\ t \in LoopType /\ t.line = before.line
      /\ t.drafts = before.drafts /\ t.current = before.current
  BY <1>2 DEF LoopType
<1>4. Covers(t)
  BY <1>2, <1>3 DEF Covers, IsOpen
<1>5. CASE l.clause = NoClause
  BY <1>5 DEF ReadHeading
<1>6. CASE l.clause # NoClause
  BY <1>1, <1>3, <1>4, <1>6 DEF ReadHeading, LoopOK, before
<1> QED BY <1>5, <1>6

(* The line read joins the open chunk, or opens one.                       *)
LEMMA AddOK ==
  ASSUME NEW s, LoopOK(s), NEW l \in LineType
  PROVE  LoopOK(Add(Open(s, l), l)) /\ Add(Open(s, l), l).line = s.line + 1
<1> DEFINE o == Open(s, l)
           t == Add(o, l)
<1>1. s \in LoopType /\ Covers(s) /\ s.line \in Nat /\ s.line > 0
  BY DEF LoopOK, LoopType
<1>2. /\ o \in LoopType /\ o.line = s.line /\ o.drafts = s.drafts
      /\ o.active = s.active /\ o.seen = s.seen
  BY <1>1 DEF Open, LoopType, ChunkType, LineType
<1>3. /\ o.current.from = Following(s.drafts) /\ o.current.from <= s.line
      /\ o.current.from # 0
  <2>1. CASE IsOpen(s)
    BY <1>1, <2>1 DEF Open, Covers, IsOpen, LoopType, ChunkType
  <2>2. CASE ~IsOpen(s)
    BY <1>1, <2>2 DEF Open, Covers, LoopType
  <2> QED BY <2>1, <2>2
<1> HIDE DEF o
<1>4. /\ t \in LoopType /\ t.line = s.line + 1 /\ t.drafts = s.drafts
      /\ t.current.from = o.current.from /\ t.current.to = s.line
  <2> DEFINE chunk == [from |-> o.current.from, to |-> o.line,
                       tokens |-> o.current.tokens + l.tokens,
                       page_start |-> o.current.page_start, page_end |-> l.page,
                       clause |-> o.current.clause]
  <2>1. chunk \in ChunkType /\ chunk.from = o.current.from /\ chunk.to = s.line
    BY <1>1, <1>2 DEF LoopType, ChunkType, LineType
  <2>2. t = [o EXCEPT !.line = o.line + 1, !.current = chunk]
    BY DEF Add
  <2> HIDE DEF chunk, t
  <2>3. o.line + 1 \in Nat \ {0}
    BY <1>1, <1>2
  <2>4. t \in LoopType
    BY <1>2, <2>1, <2>2, <2>3 DEF LoopType
  <2>5. t.line = s.line + 1 /\ t.drafts = s.drafts /\ t.current = chunk
    BY <1>2, <2>2 DEF LoopType
  <2> QED BY <2>1, <2>4, <2>5
<1> HIDE DEF t
<1>5. IsOpen(t)
  BY <1>3, <1>4 DEF IsOpen
<1>6. Covers(t)
  BY <1>1, <1>3, <1>4, <1>5 DEF Covers
<1> QED BY <1>4, <1>6 DEF LoopOK, t, o

(* One turn of the loop, whatever the limits.                              *)
LEMMA ReadLineOK ==
  ASSUME NEW s, LoopOK(s), NEW l \in LineType, NEW c
  PROVE  LoopOK(ReadLine(s, l, c)) /\ ReadLine(s, l, c).line = s.line + 1
<1> DEFINE headed == ReadHeading(s, l, c)
           room == MakeRoom(headed, l, c)
           added == Add(Open(room, l), l)
<1>1. LoopOK(headed) /\ headed.line = s.line
  BY ReadHeadingOK
<1> HIDE DEF headed
<1>2. LoopOK(room) /\ room.line = s.line
  BY <1>1, FlushIfOK DEF MakeRoom
<1> HIDE DEF room
<1>3. LoopOK(added) /\ added.line = s.line + 1
  BY <1>2, AddOK
<1> HIDE DEF added
<1>4. /\ LoopOK(FlushIf(added.current.tokens >= c.soft, added))
      /\ FlushIf(added.current.tokens >= c.soft, added).line = s.line + 1
  BY <1>3, FlushIfOK
<1>5. ReadLine(s, l, c) = FlushIf(added.current.tokens >= c.soft, added)
  BY DEF ReadLine, added, room, headed
<1> QED BY <1>4, <1>5

-----------------------------------------------------------------------------
(* Every run of every release.                                             *)

LoopInv ==
  /\ text \in Seq(LineType)
  /\ DOMAIN loop = Runs /\ \A r \in Runs : LoopOK(loop[r])

LEMMA LoopInit == Init => LoopInv
<1> SUFFICES ASSUME Init PROVE LoopInv
  OBVIOUS
<1>1. text \in Seq(LineType)
  BY TextsAssumption DEF Init, LineType, Clause
<1>2. loop = [r \in Runs |-> Start]
  BY DEF Init
<1> QED BY <1>1, <1>2, StartOK DEF LoopInv

(* A run that ends leaves a fresh loop.                                    *)
LEMMA ForgetOK ==
  ASSUME LoopInv, NEW r \in Runs, Forget(r), UNCHANGED text
  PROVE  LoopInv'
<1>1. loop' = [loop EXCEPT ![r] = Start]
  BY DEF Forget
<1>2. \A q \in Runs : loop'[q] = IF q = r THEN Start ELSE loop[q]
  BY <1>1 DEF LoopInv
<1>3. \A q \in Runs : LoopOK(loop'[q])
  BY <1>2, StartOK DEF LoopInv
<1>4. DOMAIN loop' = Runs
  BY <1>1 DEF LoopInv
<1> QED BY <1>3, <1>4 DEF LoopInv, LoopOK, Covers, IsOpen, Following

LEMMA LoopNext == LoopInv /\ [Next]_vars => LoopInv'
<1> SUFFICES ASSUME LoopInv, [Next]_vars PROVE LoopInv'
  OBVIOUS
<1>1. ASSUME UNCHANGED <<text, loop>> PROVE LoopInv'
  BY <1>1 DEF LoopInv, LoopOK, Covers, IsOpen, Following
<1>2. ASSUME NEW r \in Runs, ChunkLine(r) PROVE LoopInv'
  <2> DEFINE after == ReadLine(loop[r], text[loop[r].line], Releases[runs_on[r]])
  <2>1. loop' = [loop EXCEPT ![r] = after] /\ text' = text
    BY <1>2 DEF ChunkLine, document
  <2>2. text[loop[r].line] \in LineType
    BY <1>2, ElementOfSeq, LenProperties DEF ChunkLine, LoopInv, LoopOK, LoopType
  <2>3. LoopOK(after)
    BY <2>2, ReadLineOK DEF LoopInv
  <2> HIDE DEF after
  <2>4. \A q \in Runs : LoopOK(loop'[q])
    BY <2>1, <2>3 DEF LoopInv
  <2> QED BY <2>1, <2>4 DEF LoopInv, LoopOK, Covers, IsOpen, Following
<1>3. ASSUME NEW r \in Runs, ListChunks(r) PROVE LoopInv'
  <2> DEFINE after == Flush(loop[r])
  <2>1. loop' = [loop EXCEPT ![r] = after] /\ text' = text
    BY <1>3 DEF ListChunks, document
  <2>2. LoopOK(after)
    BY FlushOK DEF LoopInv
  <2> HIDE DEF after
  <2>3. \A q \in Runs : LoopOK(loop'[q])
    BY <2>1, <2>2 DEF LoopInv
  <2> QED BY <2>1, <2>3 DEF LoopInv, LoopOK, Covers, IsOpen, Following
<1>4. ASSUME NEW r \in Runs, Finish(r) \/ Fail(r) \/ Crash(r) PROVE LoopInv'
  <2>1. Forget(r) /\ UNCHANGED text
    BY <1>4 DEF Finish, Fail, Crash, Lost
  <2> QED BY <2>1, ForgetOK
<1>5. ASSUME NEW r \in Runs,
             \/ Begin(r) \/ ReplaceChunks(r) \/ DeleteVectors(r) \/ EmbedNothing(r)
             \/ Embed(r) \/ MarkEmbedded(r)
      PROVE  LoopInv'
  <2>1. UNCHANGED <<text, loop>>
    BY <1>5 DEF Begin, ReplaceChunks, DeleteVectors, EmbedNothing, Embed, MarkEmbedded, document
  <2> QED BY <1>1, <2>1
<1>6. CASE Deploy \/ RollBack \/ UNCHANGED vars
  <2>1. UNCHANGED <<text, loop>>
    BY <1>6 DEF Deploy, RollBack, vars, document, locals
  <2> QED BY <1>1, <2>1
<1> QED BY <1>2, <1>3, <1>4, <1>5, <1>6 DEF Next

(* In every run of every release, over any text and with any limits, the   *)
(* chunks and the open chunk are all lines read so far, each in one place  *)
(* and in order (chunk_pages).                                             *)
THEOREM ChunksCover == Spec => []ChunksCoverText
<1>1. LoopInv => ChunksCoverText
  BY DEF LoopInv, LoopOK, ChunksCoverText
<1> QED BY <1>1, LoopInit, LoopNext, PTL DEF Spec

-----------------------------------------------------------------------------
(* What a run's transaction holds, and where its vectors are.              *)

Places == {"idle", "chunking", "listed", "written", "replaced", "embedded", "indexed"}
Writing == {"written", "replaced", "embedded", "indexed"}
Deleting == {"replaced", "embedded", "indexed"}

LocalsAreFunctions ==
  /\ at \in [Runs -> Places]
  /\ DOMAIN runs_on = Runs /\ DOMAIN loop = Runs
  /\ DOMAIN existing = Runs /\ DOMAIN pending = Runs

(* What a transaction has written follows from what its run has listed and *)
(* drafted; only after the mark it may have marked all it was to embed.    *)
TransactionsFollow ==
  \A r \in Runs :
    \/ at[r] \notin Writing /\ pending[r] = Nothing
    \/ /\ at[r] \in Writing
       /\ \E m \in {{}, ToEmbed(r)} :
            /\ m # {} => at[r] = "indexed"
            /\ pending[r] = [removed |-> IdsOf(Stale(r)), refreshed |-> Refreshed(r),
                             inserted |-> New(r), marked |-> m]

(* No two transactions hold rows or keys of one index.                     *)
HeldApart == \A r, s \in Runs : r # s => Held(r) \cap Held(s) = {}

(* What a run is about to mark, or has marked, has its point.              *)
UpsertedIsThere ==
  \A r \in Runs :
    /\ at[r] = "embedded" => ToEmbed(r) \subseteq points \cup orphaned
    /\ pending[r].marked \subseteq points \cup orphaned

(* A row marked as embedded has its point, or is to be deleted by a run    *)
(* that has deleted the point already.                                     *)
MarkedIsThere ==
  \A x \in rows : x.embedded =>
    \/ x.id \in points \cup orphaned
    \/ \E r \in Runs : at[r] \in Deleting /\ x.id \in IdsOf(Stale(r))

IndexInv ==
  LocalsAreFunctions /\ TransactionsFollow /\ HeldApart /\ UpsertedIsThere /\ MarkedIsThere

(* A step of one run leaves what the others keep alone.                    *)
Alone(r) ==
  \A s \in Runs \ {r} :
    /\ at'[s] = at[s] /\ runs_on'[s] = runs_on[s] /\ loop'[s] = loop[s]
    /\ existing'[s] = existing[s] /\ pending'[s] = pending[s]

(* Of the places a run can be in, each step leaves one for another.        *)
Moves(r, from, to) ==
  /\ at[r] \in from /\ at'[r] = to
  /\ existing'[r] = existing[r] /\ loop'[r] = loop[r] /\ pending'[r] = pending[r]

(* What a run works on is a function of its own variables.                 *)
LEMMA SameWork ==
  ASSUME NEW r \in Runs, existing'[r] = existing[r], loop'[r] = loop[r]
  PROVE  /\ Drafted(r)' = Drafted(r) /\ Stale(r)' = Stale(r) /\ New(r)' = New(r)
         /\ Refreshed(r)' = Refreshed(r) /\ ToEmbed(r)' = ToEmbed(r)
BY DEF Drafted, Stale, New, Refreshed, ToEmbed, IdsOf, RowsOf

LEMMA SameHolding ==
  ASSUME NEW r \in Runs, pending'[r] = pending[r]
  PROVE  Held(r)' = Held(r)
BY DEF Held, IdsOf

(* What each step of a run does to the run's own variables.                *)
LEMMA IndexSteps ==
  ASSUME LocalsAreFunctions, NEW r \in Runs
  PROVE  /\ Begin(r) => /\ Alone(r) /\ LocalsAreFunctions'
                        /\ Moves(r, {"idle"}, "chunking")
         /\ ChunkLine(r) => /\ Alone(r) /\ LocalsAreFunctions'
                            /\ at[r] = "chunking" /\ at'[r] = "chunking"
                            /\ pending'[r] = pending[r]
         /\ ListChunks(r) => /\ Alone(r) /\ LocalsAreFunctions'
                             /\ at[r] = "chunking" /\ at'[r] = "listed"
                             /\ pending'[r] = pending[r] /\ existing'[r] = rows
                             /\ loop'[r] = Flush(loop[r])
         /\ ReplaceChunks(r) => /\ Alone(r) /\ LocalsAreFunctions'
                                /\ at[r] = "listed" /\ at'[r] = "written"
                                /\ existing'[r] = existing[r] /\ loop'[r] = loop[r]
                                /\ pending'[r] = [removed |-> IdsOf(Stale(r)),
                                                  refreshed |-> Refreshed(r),
                                                  inserted |-> New(r), marked |-> {}]
         /\ DeleteVectors(r) => /\ Alone(r) /\ LocalsAreFunctions'
                                /\ Moves(r, {"written"}, "replaced")
         /\ EmbedNothing(r) => /\ Alone(r) /\ LocalsAreFunctions'
                               /\ Moves(r, {"replaced"}, "indexed")
         /\ Embed(r) => /\ Alone(r) /\ LocalsAreFunctions'
                        /\ Moves(r, {"replaced"}, "embedded")
         /\ MarkEmbedded(r) => /\ Alone(r) /\ LocalsAreFunctions'
                               /\ at[r] = "embedded" /\ at'[r] = "indexed"
                               /\ existing'[r] = existing[r] /\ loop'[r] = loop[r]
                               /\ pending'[r] = [pending[r] EXCEPT !.marked = ToEmbed(r)]
         /\ Forget(r) => /\ Alone(r) /\ LocalsAreFunctions'
                         /\ at'[r] = "idle" /\ pending'[r] = Nothing
<1> USE DEF LocalsAreFunctions, Alone, Moves, Places
<1>1. Begin(r) => /\ Alone(r) /\ LocalsAreFunctions' /\ Moves(r, {"idle"}, "chunking")
  BY DEF Begin
<1>2. ChunkLine(r) => /\ Alone(r) /\ LocalsAreFunctions'
                      /\ at[r] = "chunking" /\ at'[r] = "chunking" /\ pending'[r] = pending[r]
  BY DEF ChunkLine
<1>3. ListChunks(r) => /\ Alone(r) /\ LocalsAreFunctions'
                       /\ at[r] = "chunking" /\ at'[r] = "listed" /\ pending'[r] = pending[r]
                       /\ existing'[r] = rows /\ loop'[r] = Flush(loop[r])
  BY DEF ListChunks
<1>4. ReplaceChunks(r) => /\ Alone(r) /\ LocalsAreFunctions'
                          /\ at[r] = "listed" /\ at'[r] = "written"
                          /\ existing'[r] = existing[r] /\ loop'[r] = loop[r]
                          /\ pending'[r] = [removed |-> IdsOf(Stale(r)),
                                            refreshed |-> Refreshed(r),
                                            inserted |-> New(r), marked |-> {}]
  BY DEF ReplaceChunks
<1>5. DeleteVectors(r) => /\ Alone(r) /\ LocalsAreFunctions'
                          /\ Moves(r, {"written"}, "replaced")
  BY DEF DeleteVectors
<1>6. EmbedNothing(r) => /\ Alone(r) /\ LocalsAreFunctions'
                         /\ Moves(r, {"replaced"}, "indexed")
  BY DEF EmbedNothing
<1>7. Embed(r) => /\ Alone(r) /\ LocalsAreFunctions' /\ Moves(r, {"replaced"}, "embedded")
  BY DEF Embed
<1>8. MarkEmbedded(r) => /\ Alone(r) /\ LocalsAreFunctions'
                         /\ at[r] = "embedded" /\ at'[r] = "indexed"
                         /\ existing'[r] = existing[r] /\ loop'[r] = loop[r]
                         /\ pending'[r] = [pending[r] EXCEPT !.marked = ToEmbed(r)]
  BY DEF MarkEmbedded
<1>9. Forget(r) => /\ Alone(r) /\ LocalsAreFunctions'
                   /\ at'[r] = "idle" /\ pending'[r] = Nothing
  BY DEF Forget
<1> QED BY <1>1, <1>2, <1>3, <1>4, <1>5, <1>6, <1>7, <1>8, <1>9

LEMMA IndexInit == Init => IndexInv
<1> SUFFICES ASSUME Init PROVE IndexInv
  OBVIOUS
<1>1. \A r \in Runs : at[r] = "idle" /\ pending[r] = Nothing
  BY DEF Init
<1>2. LocalsAreFunctions
  BY DEF Init, LocalsAreFunctions, Places
<1>3. TransactionsFollow
  BY <1>1 DEF TransactionsFollow, Writing
<1>4. \A r \in Runs : Held(r) = {}
  BY <1>1 DEF Held, Nothing, IdsOf
<1>5. HeldApart
  BY <1>4 DEF HeldApart
<1>6. UpsertedIsThere
  BY <1>1 DEF UpsertedIsThere, Nothing
<1>7. MarkedIsThere
  <2>1. CASE rows = {}
    BY <2>1 DEF MarkedIsThere
  <2>2. ASSUME NEW embedded \in BOOLEAN,
               rows = {[x EXCEPT !.parent = NoClause, !.embedded = embedded] :
                         x \in Chunks(text, 1)},
               points = IF embedded THEN IdsOf(rows) ELSE {}
        PROVE  MarkedIsThere
    <3>1. \A x \in rows : x.embedded = embedded
      BY <2>2 DEF Chunks, RowsOf
    <3>2. \A x \in rows : x.id \in IdsOf(rows)
      BY DEF IdsOf
    <3> QED BY <2>2, <3>1, <3>2 DEF MarkedIsThere
  <2> QED BY <2>1, <2>2 DEF Init
<1> QED BY <1>2, <1>3, <1>5, <1>6, <1>7 DEF IndexInv

(* The transaction of a run that has one.                                  *)
LEMMA WritingFollows ==
  ASSUME TransactionsFollow, NEW r \in Runs, at[r] \in Writing
  PROVE  \E m \in {{}, ToEmbed(r)} :
           /\ m # {} => at[r] = "indexed"
           /\ pending[r] = [removed |-> IdsOf(Stale(r)), refreshed |-> Refreshed(r),
                            inserted |-> New(r), marked |-> m]
BY DEF TransactionsFollow

(* A step keeps the transactions of the runs it leaves alone.              *)
LEMMA OthersFollow ==
  ASSUME TransactionsFollow, NEW r \in Runs, Alone(r), NEW s \in Runs \ {r}
  PROVE  \/ (at[s] \notin Writing /\ pending[s] = Nothing)'
         \/ /\ (at[s] \in Writing)'
            /\ (\E m \in {{}, ToEmbed(s)} :
                  /\ m # {} => at[s] = "indexed"
                  /\ pending[s] = [removed |-> IdsOf(Stale(s)), refreshed |-> Refreshed(s),
                                   inserted |-> New(s), marked |-> m])'
<1>1. at'[s] = at[s] /\ loop'[s] = loop[s] /\ existing'[s] = existing[s] /\ pending'[s] = pending[s]
  BY DEF Alone
<1>2. /\ Stale(s)' = Stale(s) /\ New(s)' = New(s)
      /\ Refreshed(s)' = Refreshed(s) /\ ToEmbed(s)' = ToEmbed(s)
  BY <1>1, SameWork
<1>3. IdsOf(Stale(s))' = IdsOf(Stale(s))
  BY <1>2 DEF IdsOf
<1>4. CASE at[s] \notin Writing
  BY <1>1, <1>4 DEF TransactionsFollow
<1>5. CASE at[s] \in Writing
  <2>1. PICK m \in {{}, ToEmbed(s)} :
          /\ m # {} => at[s] = "indexed"
          /\ pending[s] = [removed |-> IdsOf(Stale(s)), refreshed |-> Refreshed(s),
                           inserted |-> New(s), marked |-> m]
    BY <1>5, WritingFollows
  <2> QED BY <1>1, <1>2, <1>3, <1>5, <2>1
<1> QED BY <1>4, <1>5

LEMMA TransactionsFollowNext ==
  ASSUME LocalsAreFunctions, TransactionsFollow, [Next]_vars
  PROVE  LocalsAreFunctions' /\ TransactionsFollow'
<1> DEFINE Follows(r) ==
             \/ at[r] \notin Writing /\ pending[r] = Nothing
             \/ /\ at[r] \in Writing
                /\ \E m \in {{}, ToEmbed(r)} :
                     /\ m # {} => at[r] = "indexed"
                     /\ pending[r] = [removed |-> IdsOf(Stale(r)), refreshed |-> Refreshed(r),
                                      inserted |-> New(r), marked |-> m]
<1>1. ASSUME NEW r \in Runs, Alone(r), LocalsAreFunctions', Follows(r)'
      PROVE  LocalsAreFunctions' /\ TransactionsFollow'
  <2>1. \A s \in Runs \ {r} : Follows(s)'
    BY <1>1, OthersFollow
  <2> HIDE DEF Follows
  <2>2. \A s \in Runs : Follows(s)'
    BY <1>1, <2>1
  <2> QED BY <1>1, <2>2 DEF TransactionsFollow, Follows
<1>2. ASSUME UNCHANGED locals PROVE LocalsAreFunctions' /\ TransactionsFollow'
  <2>1. \A r \in Runs : Follows(r)' <=> Follows(r)
    BY <1>2 DEF locals, Stale, New, Refreshed, ToEmbed, Drafted, IdsOf, RowsOf
  <2> HIDE DEF Follows
  <2>2. \A r \in Runs : Follows(r)
    BY DEF TransactionsFollow, Follows
  <2>3. TransactionsFollow'
    BY <2>1, <2>2 DEF TransactionsFollow, Follows
  <2> QED BY <1>2, <2>3 DEF LocalsAreFunctions, locals
<1>3. ASSUME NEW r \in Runs, Begin(r) \/ ChunkLine(r) \/ ListChunks(r) \/ Forget(r)
      PROVE  LocalsAreFunctions' /\ TransactionsFollow'
  <2>1. /\ Alone(r) /\ LocalsAreFunctions' /\ at'[r] \notin Writing
        /\ at[r] \notin Writing => pending[r] = Nothing
    BY <1>3, IndexSteps DEF Moves, Writing, TransactionsFollow
  <2>2. pending'[r] = Nothing
    <3>1. CASE Forget(r)
      BY <3>1, IndexSteps
    <3>2. CASE Begin(r) \/ ChunkLine(r) \/ ListChunks(r)
      BY <2>1, <3>2, IndexSteps DEF Moves, Writing
    <3> QED BY <1>3, <3>1, <3>2
  <2> QED BY <1>1, <2>1, <2>2
<1>4. ASSUME NEW r \in Runs, ReplaceChunks(r) PROVE LocalsAreFunctions' /\ TransactionsFollow'
  <2>1. /\ Alone(r) /\ LocalsAreFunctions' /\ at'[r] \in Writing
        /\ pending'[r] = [removed |-> IdsOf(Stale(r)), refreshed |-> Refreshed(r),
                          inserted |-> New(r), marked |-> {}]
        /\ existing'[r] = existing[r] /\ loop'[r] = loop[r]
    BY <1>4, IndexSteps DEF Writing
  <2>2. Stale(r)' = Stale(r) /\ New(r)' = New(r) /\ Refreshed(r)' = Refreshed(r)
    BY <2>1, SameWork
  <2>3. IdsOf(Stale(r))' = IdsOf(Stale(r))
    BY <2>2 DEF IdsOf
  <2>4. Follows(r)'
    BY <2>1, <2>2, <2>3
  <2> QED BY <1>1, <2>1, <2>4
<1>5. ASSUME NEW r \in Runs,
             DeleteVectors(r) \/ EmbedNothing(r) \/ Embed(r) \/ MarkEmbedded(r)
      PROVE  LocalsAreFunctions' /\ TransactionsFollow'
  <2>1. /\ Alone(r) /\ LocalsAreFunctions' /\ at'[r] \in Writing
        /\ at[r] \in Writing /\ at[r] # "indexed"
        /\ existing'[r] = existing[r] /\ loop'[r] = loop[r]
    BY <1>5, IndexSteps DEF Moves, Writing
  <2>2. pending[r] = [removed |-> IdsOf(Stale(r)), refreshed |-> Refreshed(r),
                      inserted |-> New(r), marked |-> {}]
    BY <2>1, WritingFollows
  <2>3. /\ Stale(r)' = Stale(r) /\ New(r)' = New(r)
        /\ Refreshed(r)' = Refreshed(r) /\ ToEmbed(r)' = ToEmbed(r)
    BY <2>1, SameWork
  <2>4. IdsOf(Stale(r))' = IdsOf(Stale(r))
    BY <2>3 DEF IdsOf
  <2>5. CASE MarkEmbedded(r)
    <3>1. /\ pending'[r] = [removed |-> IdsOf(Stale(r)), refreshed |-> Refreshed(r),
                            inserted |-> New(r), marked |-> ToEmbed(r)]
          /\ at'[r] = "indexed"
      BY <2>2, <2>5, IndexSteps
    <3> QED BY <1>1, <2>1, <2>3, <2>4, <3>1
  <2>6. CASE DeleteVectors(r) \/ EmbedNothing(r) \/ Embed(r)
    <3>1. pending'[r] = pending[r]
      BY <2>6, IndexSteps DEF Moves
    <3> QED BY <1>1, <2>1, <2>2, <2>3, <2>4, <3>1
  <2> QED BY <1>5, <2>5, <2>6
<1>6. CASE Deploy \/ RollBack \/ UNCHANGED vars
  BY <1>2, <1>6 DEF Deploy, RollBack, vars
<1> QED BY <1>3, <1>4, <1>5, <1>6 DEF Next, Finish, Fail, Crash, Lost

(* A transaction takes rows and keys only where no other one holds any.    *)
LEMMA HeldApartNext ==
  ASSUME LocalsAreFunctions, TransactionsFollow, HeldApart, [Next]_vars
  PROVE  HeldApart'
<1>1. ASSUME NEW r \in Runs, Alone(r),
             \A s \in Runs \ {r} : Held(r)' \cap Held(s) = {}
      PROVE  HeldApart'
  <2>1. \A s \in Runs \ {r} : Held(s)' = Held(s)
    BY <1>1, SameHolding DEF Alone
  <2>2. ASSUME NEW p \in Runs, NEW q \in Runs, p # q
        PROVE  Held(p)' \cap Held(q)' = {}
    <3>1. CASE p = r
      BY <1>1, <2>1, <2>2, <3>1
    <3>2. CASE q = r
      BY <1>1, <2>1, <2>2, <3>2
    <3>3. CASE p # r /\ q # r
      BY <2>1, <2>2, <3>3 DEF HeldApart
    <3> QED BY <3>1, <3>2, <3>3
  <2> QED BY <2>2 DEF HeldApart
<1>2. ASSUME NEW r \in Runs, Alone(r), pending'[r] = pending[r]
      PROVE  HeldApart'
  <2>1. Held(r)' = Held(r)
    BY <1>2, SameHolding
  <2> QED BY <1>1, <1>2, <2>1 DEF HeldApart
<1>3. ASSUME NEW r \in Runs, Forget(r) PROVE HeldApart'
  <2>1. Alone(r) /\ pending'[r] = Nothing
    BY <1>3, IndexSteps
  <2>2. Held(r)' = {}
    BY <2>1 DEF Held, Nothing, IdsOf
  <2> QED BY <1>1, <2>1, <2>2
<1>4. ASSUME NEW r \in Runs, ReplaceChunks(r) PROVE HeldApart'
  <2>1. /\ Alone(r)
        /\ pending'[r] = [removed |-> IdsOf(Stale(r)), refreshed |-> Refreshed(r),
                          inserted |-> New(r), marked |-> {}]
    BY <1>4, IndexSteps
  <2>2. Held(r)' \subseteq {i[1] : i \in Touched(r)}
    BY <2>1 DEF Held, Touched, IdsOf
  <2>3. Free(r, Touched(r))
    BY <1>4 DEF ReplaceChunks
  <2>4. \A s \in Runs \ {r} : {i[1] : i \in Touched(r)} \cap Held(s) = {}
    BY <2>3 DEF Free
  <2> QED BY <1>1, <2>1, <2>2, <2>4
<1>5. ASSUME NEW r \in Runs, MarkEmbedded(r) PROVE HeldApart'
  <2>1. /\ Alone(r) /\ pending'[r] = [pending[r] EXCEPT !.marked = ToEmbed(r)]
        /\ at[r] \in Writing
    BY <1>5, IndexSteps DEF Writing
  <2>2. PICK m : pending[r] = [removed |-> IdsOf(Stale(r)), refreshed |-> Refreshed(r),
                               inserted |-> New(r), marked |-> m]
    BY <2>1, WritingFollows
  <2>3. /\ pending'[r].removed = pending[r].removed
        /\ pending'[r].refreshed = pending[r].refreshed
        /\ pending'[r].inserted = pending[r].inserted
        /\ pending'[r].marked = ToEmbed(r)
    BY <2>1, <2>2
  <2>4. Held(r)' \subseteq Held(r) \cup {i[1] : i \in ToEmbed(r)}
    BY <2>3 DEF Held, IdsOf
  <2>5. Free(r, ToEmbed(r))
    BY <1>5 DEF MarkEmbedded
  <2>6. \A s \in Runs \ {r} : {i[1] : i \in ToEmbed(r)} \cap Held(s) = {}
    BY <2>5 DEF Free
  <2> QED BY <1>1, <2>1, <2>4, <2>6 DEF HeldApart
<1>6. ASSUME NEW r \in Runs,
             \/ Begin(r) \/ ChunkLine(r) \/ ListChunks(r) \/ DeleteVectors(r)
             \/ EmbedNothing(r) \/ Embed(r)
      PROVE  HeldApart'
  <2>1. Alone(r) /\ pending'[r] = pending[r]
    BY <1>6, IndexSteps DEF Moves
  <2> QED BY <1>2, <2>1
<1>7. CASE Deploy \/ RollBack \/ UNCHANGED vars
  <2>1. pending' = pending
    BY <1>7 DEF Deploy, RollBack, vars, locals
  <2>2. \A r \in Runs : Held(r)' = Held(r)
    BY <2>1, SameHolding
  <2> QED BY <2>2 DEF HeldApart
<1> QED BY <1>3, <1>4, <1>5, <1>6, <1>7 DEF Next, Finish, Fail, Crash, Lost

(* An id a run has marked is none another run deletes.                     *)
LEMMA MarksAreHeld ==
  ASSUME TransactionsFollow, HeldApart, NEW r \in Runs, NEW s \in Runs, r # s,
         at[s] \in Writing
  PROVE  pending[r].marked \cap IdsOf(Stale(s)) = {}
<1> SUFFICES ASSUME NEW i \in pending[r].marked, i \in IdsOf(Stale(s)) PROVE FALSE
  OBVIOUS
<1>1. i[1] \in Held(r)
  BY DEF Held
<1>2. i \in pending[s].removed
  <2>1. PICK m : pending[s] = [removed |-> IdsOf(Stale(s)), refreshed |-> Refreshed(s),
                               inserted |-> New(s), marked |-> m]
    BY WritingFollows
  <2> QED BY <2>1
<1>3. i[1] \in Held(s)
  BY <1>2 DEF Held
<1> QED BY <1>1, <1>3 DEF HeldApart

LEMMA UpsertedNext ==
  ASSUME LocalsAreFunctions, TransactionsFollow, HeldApart, UpsertedIsThere, [Next]_vars
  PROVE  UpsertedIsThere'
<1> DEFINE There(r) == /\ at[r] = "embedded" => ToEmbed(r) \subseteq points \cup orphaned
                       /\ pending[r].marked \subseteq points \cup orphaned
<1>1. ASSUME NEW r \in Runs, Alone(r), There(r)',
             points \cup orphaned \subseteq points' \cup orphaned'
      PROVE  UpsertedIsThere'
  <2>1. ASSUME NEW s \in Runs \ {r} PROVE There(s)'
    <3>1. ToEmbed(s)' = ToEmbed(s) /\ at'[s] = at[s] /\ pending'[s] = pending[s]
      BY <1>1, SameWork DEF Alone
    <3> QED BY <1>1, <3>1 DEF UpsertedIsThere
  <2> HIDE DEF There
  <2>2. \A s \in Runs : There(s)'
    BY <1>1, <2>1
  <2> QED BY <2>2 DEF UpsertedIsThere, There
<1>2. ASSUME NEW r \in Runs, Forget(r), points' = points, orphaned \subseteq orphaned'
      PROVE  UpsertedIsThere'
  <2>1. Alone(r) /\ at'[r] = "idle" /\ pending'[r] = Nothing
    BY <1>2, IndexSteps
  <2>2. There(r)'
    BY <2>1 DEF Nothing
  <2> QED BY <1>1, <1>2, <2>1, <2>2
<1>3. ASSUME NEW r \in Runs,
             Begin(r) \/ ChunkLine(r) \/ ListChunks(r) \/ ReplaceChunks(r) \/ EmbedNothing(r)
      PROVE  UpsertedIsThere'
  <2>1. /\ Alone(r) /\ at'[r] # "embedded"
        /\ pending'[r].marked \subseteq pending[r].marked
    <3>1. CASE ReplaceChunks(r)
      <4>1. /\ Alone(r) /\ at'[r] = "written"
            /\ pending'[r] = [removed |-> IdsOf(Stale(r)), refreshed |-> Refreshed(r),
                              inserted |-> New(r), marked |-> {}]
        BY <3>1, IndexSteps
      <4> QED BY <4>1
    <3>2. CASE Begin(r) \/ EmbedNothing(r)
      BY <3>2, IndexSteps DEF Moves
    <3>3. CASE ChunkLine(r)
      BY <3>3, IndexSteps
    <3>4. CASE ListChunks(r)
      BY <3>4, IndexSteps
    <3> QED BY <1>3, <3>1, <3>2, <3>3, <3>4
  <2>2. points \subseteq points' /\ orphaned' = orphaned
    BY <1>3 DEF Begin, ChunkLine, ListChunks, ReplaceChunks, EmbedNothing, document
  <2> QED BY <1>1, <2>1, <2>2 DEF UpsertedIsThere
<1>4. ASSUME NEW r \in Runs, Embed(r) PROVE UpsertedIsThere'
  <2>1. Alone(r) /\ Moves(r, {"replaced"}, "embedded")
    BY <1>4, IndexSteps
  <2>2. ToEmbed(r)' = ToEmbed(r)
    BY <2>1, SameWork DEF Moves
  <2>3. points' = points \cup ToEmbed(r) /\ orphaned' = orphaned
    BY <1>4 DEF Embed
  <2> QED BY <1>1, <2>1, <2>2, <2>3 DEF UpsertedIsThere, Moves
<1>5. ASSUME NEW r \in Runs, MarkEmbedded(r) PROVE UpsertedIsThere'
  <2>1. /\ Alone(r) /\ at[r] = "embedded" /\ at'[r] = "indexed"
        /\ pending'[r] = [pending[r] EXCEPT !.marked = ToEmbed(r)]
    BY <1>5, IndexSteps
  <2>2. pending'[r].marked = ToEmbed(r)
    BY <2>1, WritingFollows DEF Writing
  <2>3. points' = points /\ orphaned' = orphaned
    BY <1>5 DEF MarkEmbedded, document
  <2> QED BY <1>1, <2>1, <2>2, <2>3 DEF UpsertedIsThere
<1>6. ASSUME NEW r \in Runs, DeleteVectors(r) PROVE UpsertedIsThere'
  <2>1. Alone(r) /\ Moves(r, {"written"}, "replaced")
    BY <1>6, IndexSteps
  <2>2. /\ points \ IdsOf(Stale(r)) \subseteq points' /\ points' \subseteq points
        /\ orphaned' = orphaned \cup ((points \ points') \cap Unmarked(r))
    BY <1>6 DEF DeleteVectors
  <2>3. ASSUME NEW s \in Runs \ {r} PROVE There(s)'
    <3>1. ToEmbed(s)' = ToEmbed(s) /\ at'[s] = at[s] /\ pending'[s] = pending[s]
      BY <2>1, SameWork DEF Alone
    <3>2. at[s] = "embedded" => ToEmbed(s) \subseteq Unmarked(r)
      BY DEF Unmarked
    <3>3. pending[s].marked \cap IdsOf(Stale(r)) = {}
      BY <2>1, MarksAreHeld DEF Moves, Writing
    <3> QED BY <2>2, <3>1, <3>2, <3>3 DEF UpsertedIsThere
  <2>4. There(r)'
    <3>1. PICK m : /\ m # {} => at[r] = "indexed"
                   /\ pending[r] = [removed |-> IdsOf(Stale(r)), refreshed |-> Refreshed(r),
                                    inserted |-> New(r), marked |-> m]
      BY <2>1, WritingFollows DEF Moves, Writing
    <3>2. pending[r].marked = {}
      BY <2>1, <3>1 DEF Moves
    <3> QED BY <2>1, <3>2 DEF Moves
  <2> HIDE DEF There
  <2>5. \A s \in Runs : There(s)'
    BY <2>3, <2>4
  <2> QED BY <2>5 DEF UpsertedIsThere, There
<1>7. CASE Deploy \/ RollBack \/ UNCHANGED vars
  <2>1. UNCHANGED <<locals, points, orphaned>>
    BY <1>7 DEF Deploy, RollBack, vars, document
  <2>2. ASSUME NEW r \in Runs PROVE There(r)'
    <3>1. ToEmbed(r)' = ToEmbed(r)
      BY <2>1, SameWork DEF locals
    <3> QED BY <2>1, <3>1 DEF UpsertedIsThere, locals
  <2> HIDE DEF There
  <2>3. \A r \in Runs : There(r)'
    BY <2>2
  <2> QED BY <2>3 DEF UpsertedIsThere, There
<1>8. ASSUME NEW r \in Runs, Finish(r) \/ Fail(r) \/ Crash(r) PROVE UpsertedIsThere'
  <2>1. Forget(r) /\ points' = points /\ orphaned \subseteq orphaned'
    BY <1>8 DEF Finish, Fail, Crash, Lost
  <2> QED BY <1>2, <2>1
<1> QED BY <1>3, <1>4, <1>5, <1>6, <1>7, <1>8 DEF Next

(* The rows a commit leaves: old ones it has not removed and new ones, and *)
(* none is marked but those that were and those the run has marked.        *)
LEMMA CommitKeeps ==
  ASSUME TransactionsFollow, NEW r \in Runs, at[r] \in Writing, NEW x \in Committed(r)
  PROVE  \E y \in rows \cup New(r) :
           /\ x.id = y.id
           /\ y \in rows => y.id \notin IdsOf(Stale(r)) \/ y \in New(r)
           /\ x.embedded = (y.embedded \/ y.id \in pending[r].marked)
<1>1. PICK m : pending[r] = [removed |-> IdsOf(Stale(r)), refreshed |-> Refreshed(r),
                             inserted |-> New(r), marked |-> m]
  BY WritingFollows
<1>2. PICK y \in {z \in rows : z.id \notin IdsOf(Stale(r))} \cup New(r) :
        x.id = y.id /\ x.embedded = (y.embedded \/ y.id \in m)
  BY <1>1 DEF Committed
<1> QED BY <1>1, <1>2

LEMMA MarkedNext ==
  ASSUME IndexInv, [Next]_vars
  PROVE  MarkedIsThere'
<1> USE DEF IndexInv
<1>1. ASSUME rows' = rows, points \cup orphaned \subseteq points' \cup orphaned',
             \A s \in Runs : at[s] \in Deleting =>
                \/ at'[s] \in Deleting /\ existing'[s] = existing[s] /\ loop'[s] = loop[s]
                \/ IdsOf(Stale(s)) \subseteq points' \cup orphaned'
      PROVE  MarkedIsThere'
  <2>1. ASSUME NEW s \in Runs, at[s] \in Deleting
        PROVE  \/ at'[s] \in Deleting /\ IdsOf(Stale(s))' = IdsOf(Stale(s))
               \/ IdsOf(Stale(s)) \subseteq points' \cup orphaned'
    BY <1>1, <2>1, SameWork DEF IdsOf
  <2> QED BY <1>1, <2>1 DEF MarkedIsThere
<1>2. ASSUME NEW r \in Runs,
             \/ Begin(r) \/ ChunkLine(r) \/ ListChunks(r) \/ ReplaceChunks(r)
      PROVE  MarkedIsThere'
  <2>1. Alone(r) /\ at[r] \notin Deleting
    <3>1. CASE Begin(r)
      BY <3>1, IndexSteps DEF Moves, Deleting
    <3>2. CASE ChunkLine(r) \/ ListChunks(r) \/ ReplaceChunks(r)
      BY <3>2, IndexSteps DEF Deleting
    <3> QED BY <1>2, <3>1, <3>2
  <2>2. UNCHANGED <<rows, points, orphaned>>
    BY <1>2 DEF Begin, ChunkLine, ListChunks, ReplaceChunks, document
  <2> QED BY <1>1, <2>1, <2>2 DEF Alone
<1>3. ASSUME NEW r \in Runs, EmbedNothing(r) \/ Embed(r) \/ MarkEmbedded(r)
      PROVE  MarkedIsThere'
  <2>1. /\ Alone(r) /\ at'[r] \in Deleting
        /\ existing'[r] = existing[r] /\ loop'[r] = loop[r]
    <3>1. CASE MarkEmbedded(r)
      BY <3>1, IndexSteps DEF Deleting
    <3>2. CASE EmbedNothing(r) \/ Embed(r)
      BY <3>2, IndexSteps DEF Moves, Deleting
    <3> QED BY <1>3, <3>1, <3>2
  <2>2. rows' = rows /\ points \subseteq points' /\ orphaned' = orphaned
    BY <1>3 DEF EmbedNothing, Embed, MarkEmbedded, document
  <2> QED BY <1>1, <2>1, <2>2 DEF Alone
<1>4. ASSUME NEW r \in Runs, DeleteVectors(r) PROVE MarkedIsThere'
  <2>1. Alone(r) /\ Moves(r, {"written"}, "replaced")
    BY <1>4, IndexSteps
  <2>2. /\ points \ IdsOf(Stale(r)) \subseteq points' /\ orphaned \subseteq orphaned'
        /\ rows' = rows
    BY <1>4 DEF DeleteVectors
  <2>3. ASSUME NEW s \in Runs
        PROVE  IdsOf(Stale(s))' = IdsOf(Stale(s))
    BY <2>1, SameWork DEF Alone, Moves, IdsOf
  <2>4. ASSUME NEW x \in rows, x.embedded
        PROVE  \/ x.id \in points' \cup orphaned'
               \/ \E s \in Runs : at'[s] \in Deleting /\ x.id \in IdsOf(Stale(s))
    <3>1. CASE x.id \in points \cup orphaned
      BY <2>1, <2>2, <3>1 DEF Moves, Deleting
    <3>2. ASSUME NEW s \in Runs, at[s] \in Deleting, x.id \in IdsOf(Stale(s))
          PROVE  \E q \in Runs : at'[q] \in Deleting /\ x.id \in IdsOf(Stale(q))
      BY <2>1, <3>2 DEF Alone, Moves, Deleting
    <3> QED BY <2>4, <3>1, <3>2 DEF MarkedIsThere
  <2> QED BY <2>2, <2>3, <2>4 DEF MarkedIsThere
<1>5. ASSUME NEW r \in Runs, Fail(r) \/ Crash(r) PROVE MarkedIsThere'
  <2>1. Lost(r)
    BY <1>5 DEF Fail, Crash
  <2>2. Alone(r)
    BY <2>1, IndexSteps DEF Lost
  <2>3. /\ rows' = rows /\ points' = points /\ orphaned \subseteq orphaned'
        /\ at[r] \in Deleting => IdsOf(Stale(r)) \subseteq points' \cup orphaned'
    BY <2>1 DEF Lost, Deleting
  <2> QED BY <1>1, <2>2, <2>3 DEF Alone
<1>6. ASSUME NEW r \in Runs, Finish(r) PROVE MarkedIsThere'
  <2>1. /\ Alone(r) /\ at[r] \in Writing
        /\ rows' = Committed(r) /\ points' = points /\ orphaned' = orphaned
    BY <1>6, IndexSteps DEF Finish, Writing
  <2>2. ASSUME NEW s \in Runs \ {r}
        PROVE  at'[s] = at[s] /\ IdsOf(Stale(s))' = IdsOf(Stale(s))
    BY <2>1, SameWork DEF Alone, IdsOf
  <2>3. ASSUME NEW x \in rows', x.embedded
        PROVE  \/ x.id \in points \cup orphaned
               \/ \E s \in Runs \ {r} : at[s] \in Deleting /\ x.id \in IdsOf(Stale(s))
    <3>1. PICK y \in rows \cup New(r) :
            /\ x.id = y.id
            /\ y \in rows => y.id \notin IdsOf(Stale(r)) \/ y \in New(r)
            /\ x.embedded = (y.embedded \/ y.id \in pending[r].marked)
      BY <2>1, <2>3, CommitKeeps
    <3>2. CASE y.id \in pending[r].marked
      BY <3>1, <3>2 DEF UpsertedIsThere
    <3>3. CASE y.id \notin pending[r].marked
      <4>1. y.embedded
        BY <2>3, <3>1, <3>3
      <4>2. y \notin New(r)
        BY <4>1 DEF New, Drafted, RowsOf
      <4> QED BY <3>1, <4>1, <4>2 DEF MarkedIsThere
    <3> QED BY <3>2, <3>3
  <2> QED BY <2>1, <2>2, <2>3 DEF MarkedIsThere
<1>7. CASE Deploy \/ RollBack \/ UNCHANGED vars
  <2>1. UNCHANGED <<locals, rows, points, orphaned>>
    BY <1>7 DEF Deploy, RollBack, vars, document
  <2> QED BY <1>1, <2>1 DEF locals
<1> QED BY <1>2, <1>3, <1>4, <1>5, <1>6, <1>7 DEF Next

(* The inductive invariant of the index: what a transaction has written    *)
(* follows from what its run listed and drafted, transactions hold         *)
(* different rows and keys, and marks mean vectors (_index_chunks).        *)
THEOREM IndexInvariant == Spec => []IndexInv
<1>1. IndexInv /\ [Next]_vars => IndexInv'
  BY TransactionsFollowNext, HeldApartNext, UpsertedNext, MarkedNext DEF IndexInv
<1> QED BY <1>1, IndexInit, PTL DEF Spec

(* Whatever overlaps, fails or dies, and whichever releases run: when      *)
(* nothing is in flight every chunk marked as embedded has its point, save *)
(* where a run was lost after it had deleted points, or deleted them       *)
(* between another run's upsert and its mark.                              *)
THEOREM MarksMeanVectors == Spec => []EmbeddedHasPoint
<1>1. IndexInv => EmbeddedHasPoint
  BY DEF IndexInv, MarkedIsThere, EmbeddedHasPoint, Deleting
<1> QED BY <1>1, IndexInvariant, PTL

(* A run whose embedding succeeded leaves none of its chunks unembedded,   *)
(* but for those that had been embedded when it listed them.               *)
THEOREM RepairsComplete == Spec => OutagesAreRepaired
<1> DEFINE Repairs(r) ==
      (Finish(r) /\ pending[r].marked # {}) =>
         \A x \in rows' : x.id \in IdsOf(Drafted(r)) =>
            \/ x.embedded
            \/ \E y \in existing[r] : y.id = x.id /\ y.embedded
<1>1. ASSUME IndexInv, NEW r \in Runs, Finish(r), pending[r].marked # {},
             NEW x \in rows', x.id \in IdsOf(Drafted(r))
      PROVE  x.embedded \/ \E y \in existing[r] : y.id = x.id /\ y.embedded
  <2>1. at[r] \in Writing /\ rows' = Committed(r) /\ TransactionsFollow
    BY <1>1 DEF Finish, Writing, IndexInv
  <2>2. PICK m \in {{}, ToEmbed(r)} :
          pending[r] = [removed |-> IdsOf(Stale(r)), refreshed |-> Refreshed(r),
                        inserted |-> New(r), marked |-> m]
    BY <2>1, WritingFollows
  <2>3. pending[r].marked = ToEmbed(r)
    BY <1>1, <2>2
  <2>4. PICK y : x.id = y.id /\ x.embedded = (y.embedded \/ y.id \in pending[r].marked)
    BY <1>1, <2>1, CommitKeeps
  <2>5. PICK d \in Drafted(r) : d.id = x.id
    BY <1>1 DEF IdsOf
  <2>6. CASE d.id \notin IdsOf(existing[r])
    <3>1. d \in New(r)
      BY <2>6 DEF New
    <3>2. x.id \in ToEmbed(r)
      BY <2>5, <3>1 DEF ToEmbed, IdsOf
    <3> QED BY <2>3, <2>4, <3>2
  <2>7. ASSUME NEW z \in existing[r], z.id = d.id, ~z.embedded PROVE x.embedded
    <3>1. x.id \in ToEmbed(r)
      BY <1>1, <2>5, <2>7 DEF ToEmbed
    <3> QED BY <2>3, <2>4, <3>1
  <2> QED BY <2>5, <2>6, <2>7 DEF IdsOf
<1>2. IndexInv => [\A r \in Runs : Repairs(r)]_vars
  BY <1>1
<1> QED BY <1>2, IndexInvariant, PTL DEF OutagesAreRepaired

-----------------------------------------------------------------------------
(* What the chunks of a text are, line by line: for a text, n lines of     *)
(* which have been looked at, and the limits.                              *)

(* The equations of a recursive sum; that they have a solution for every   *)
(* length is shown at the first length that would have none.               *)
LEMMA SumsAre ==
  ASSUME NEW t \in Seq(LineType)
  PROVE  /\ Sums(t)[0] = 0
         /\ \A n \in 1..Len(t) : Sums(t)[n] = Sums(t)[n - 1] + t[n].tokens
<1> DEFINE Is(f, m) == f = [n \in 0..m |-> IF n = 0 THEN 0 ELSE f[n - 1] + t[n].tokens]
           none == {m \in Nat : ~ \E f : Is(f, m)}
<1>1. none = {}
  <2> SUFFICES ASSUME none # {} PROVE FALSE
    OBVIOUS
  <2>1. PICK m \in none : \A k \in none : m <= k
    BY SmallestExists
  <2>2. CASE m = 0
    <3> DEFINE g == [n \in 0..0 |-> 0]
    <3>1. Is(g, 0)
      OBVIOUS
    <3> QED BY <2>2, <3>1
  <2>3. CASE m # 0
    <3>1. m \in Nat /\ m - 1 \in Nat /\ ~(m <= m - 1)
      BY <2>3
    <3>2. m - 1 \notin none
      BY <2>1, <3>1
    <3>3. PICK f : Is(f, m - 1)
      BY <3>1, <3>2
    <3> DEFINE g == [n \in 0..m |-> IF n = m THEN f[m - 1] + t[m].tokens ELSE f[n]]
    <3>4. \A n \in 0..(m - 1) : f[n] = IF n = 0 THEN 0 ELSE f[n - 1] + t[n].tokens
      BY <3>3
    <3>5. \A n \in 0..m : g[n] = IF n = 0 THEN 0 ELSE g[n - 1] + t[n].tokens
      BY <2>3, <3>1, <3>4
    <3>6. Is(g, m)
      BY <3>5
    <3> HIDE DEF Is
    <3> QED BY <2>1, <3>6
  <2> QED BY <2>2, <2>3
<1>2. \E f : Is(f, Len(t))
  BY <1>1, LenProperties
<1>3. Is(Sums(t), Len(t))
  BY <1>2, Zenon DEF Sums
<1>4. Len(t) \in Nat
  BY LenProperties
<1>5. Sums(t)[0] = 0
  BY <1>3, <1>4
<1>6. ASSUME NEW n \in 1..Len(t) PROVE Sums(t)[n] = Sums(t)[n - 1] + t[n].tokens
  BY <1>3, <1>4
<1> QED BY <1>5, <1>6

(* In the same way for the loop of chunk_pages.                            *)
LEMMA ReadLinesAre ==
  ASSUME NEW t \in Seq(LineType), NEW c
  PROVE  /\ ReadLines(t, c)[0] = Start
         /\ \A n \in 1..Len(t) :
              ReadLines(t, c)[n] = ReadLine(ReadLines(t, c)[n - 1], t[n], c)
<1> DEFINE Is(f, m) ==
             f = [n \in 0..m |-> IF n = 0 THEN Start ELSE ReadLine(f[n - 1], t[n], c)]
           none == {m \in Nat : ~ \E f : Is(f, m)}
<1>1. none = {}
  <2> SUFFICES ASSUME none # {} PROVE FALSE
    OBVIOUS
  <2>1. PICK m \in none : \A k \in none : m <= k
    BY SmallestExists
  <2>2. CASE m = 0
    <3> DEFINE g == [n \in 0..0 |-> Start]
    <3>1. Is(g, 0)
      OBVIOUS
    <3> QED BY <2>2, <3>1
  <2>3. CASE m # 0
    <3>1. m \in Nat /\ m - 1 \in Nat /\ ~(m <= m - 1)
      BY <2>3
    <3>2. m - 1 \notin none
      BY <2>1, <3>1
    <3>3. PICK f : Is(f, m - 1)
      BY <3>1, <3>2
    <3> DEFINE g == [n \in 0..m |-> IF n = m THEN ReadLine(f[m - 1], t[m], c) ELSE f[n]]
    <3>4. \A n \in 0..(m - 1) : f[n] = IF n = 0 THEN Start ELSE ReadLine(f[n - 1], t[n], c)
      BY <3>3
    <3>5. \A n \in 0..m : g[n] = IF n = 0 THEN Start ELSE ReadLine(g[n - 1], t[n], c)
      BY <2>3, <3>1, <3>4
    <3>6. Is(g, m)
      BY <3>5
    <3> HIDE DEF Is
    <3> QED BY <2>1, <3>6
  <2> QED BY <2>2, <2>3
<1>2. \E f : Is(f, Len(t))
  BY <1>1, LenProperties
<1>3. Is(ReadLines(t, c), Len(t))
  BY <1>2, Zenon DEF ReadLines
<1>4. Len(t) \in Nat
  BY LenProperties
<1>5. ReadLines(t, c)[0] = Start
  BY <1>3, <1>4
<1>6. ASSUME NEW n \in 1..Len(t)
      PROVE  ReadLines(t, c)[n] = ReadLine(ReadLines(t, c)[n - 1], t[n], c)
  BY <1>3, <1>4
<1> QED BY <1>5, <1>6

LEMMA SumsAreNumbers ==
  ASSUME NEW t \in Seq(LineType)
  PROVE  \A n \in 0..Len(t) : Sums(t)[n] \in Nat
<1> DEFINE odd == {n \in 0..Len(t) : Sums(t)[n] \notin Nat}
<1> SUFFICES ASSUME odd # {} PROVE FALSE
  OBVIOUS
<1>1. Len(t) \in Nat /\ odd \in SUBSET Nat
  BY LenProperties
<1>2. PICK n \in odd : \A m \in odd : n <= m
  BY <1>1, SmallestExists
<1>3. n # 0
  BY <1>2, SumsAre
<1>4. n \in 1..Len(t) /\ n - 1 \in 0..Len(t) /\ ~(n <= n - 1)
  BY <1>1, <1>2, <1>3
<1>5. Sums(t)[n - 1] \in Nat
  BY <1>2, <1>4
<1>6. t[n].tokens \in Nat
  <2>1. t[n] \in LineType
    BY <1>4, ElementOfSeq
  <2> QED BY <2>1 DEF LineType
<1> QED BY <1>2, <1>4, <1>5, <1>6, SumsAre

Headed(t, n) == {m \in 1..n : t[m].clause # NoClause}
Printed(t, n) == {t[m].clause : m \in Headed(t, n)}
InForce(t, n) ==
  IF Headed(t, n) = {} THEN NoClause
  ELSE t[CHOOSE m \in Headed(t, n) : \A k \in Headed(t, n) : k <= m].clause

Between(t, from, to) == Sums(t)[to] - Sums(t)[from - 1]

(* Of an open chunk, or one that was emitted.                              *)
SizedIn(t, d, c) ==
  /\ d.tokens = Between(t, d.from, d.to)
  /\ d.from < d.to =>
       /\ Between(t, d.from, d.to - 1) < c.soft
       /\ d.tokens > c.max => Between(t, d.from, d.to - 1) < c.min
  /\ \A n \in (d.from + 1)..d.to :
       t[n].clause # NoClause => Between(t, d.from, n - 1) < c.min

FiledIn(t, d) ==
  /\ d.clause = InForce(t, d.from)
  /\ d.page_start = t[d.from].page /\ d.page_end = t[d.to].page

DraftIn(t, d, c) ==
  /\ SizedIn(t, d, c) /\ FiledIn(t, d)
  /\ d.parent = parent_clause(d.clause, Printed(t, d.to))

(* The loop when the headings of n lines are known.                        *)
Knows(s, t, c, n) ==
  /\ LoopOK(s)
  /\ s.seen = Printed(t, n) /\ s.active = InForce(t, n)
  /\ \A k \in 1..Len(s.drafts) : DraftIn(t, s.drafts[k], c) /\ s.drafts[k].tokens >= c.min
  /\ IsOpen(s) => SizedIn(t, s.current, c) /\ FiledIn(t, s.current)

(* Between two lines.                                                      *)
Reading(s, t, c) ==
  /\ Knows(s, t, c, s.line - 1) /\ s.line <= Len(t) + 1
  /\ IsOpen(s) => s.current.tokens < c.soft

(* A heading is in force from its own line on.                             *)
LEMMA NextHeading ==
  ASSUME NEW t \in Seq(LineType), NEW n \in 1..Len(t)
  PROVE  /\ t[n].clause = NoClause =>
              Printed(t, n) = Printed(t, n - 1) /\ InForce(t, n) = InForce(t, n - 1)
         /\ t[n].clause # NoClause =>
              /\ Printed(t, n) = Printed(t, n - 1) \cup {t[n].clause}
              /\ InForce(t, n) = t[n].clause
<1>1. n \in Nat /\ n >= 1 /\ 1..n = (1..(n - 1)) \cup {n}
  BY LenProperties
<1>2. CASE t[n].clause = NoClause
  <2>1. Headed(t, n) = Headed(t, n - 1)
    BY <1>1, <1>2 DEF Headed
  <2> QED BY <1>2, <2>1 DEF Printed, InForce
<1>3. CASE t[n].clause # NoClause
  <2>1. Headed(t, n) = Headed(t, n - 1) \cup {n}
    BY <1>1, <1>3 DEF Headed
  <2>2. n \in Headed(t, n) /\ \A k \in Headed(t, n) : k \in Nat /\ k <= n
    BY <1>1, <2>1 DEF Headed
  <2>3. \A m \in Headed(t, n) : (\A k \in Headed(t, n) : k <= m) <=> m = n
    <3> SUFFICES ASSUME NEW m \in Headed(t, n)
                 PROVE  (\A k \in Headed(t, n) : k <= m) <=> m = n
      OBVIOUS
    <3>1. m = n => \A k \in Headed(t, n) : k <= m
      BY <2>2
    <3>2. n <= m => m = n
      BY <1>1, <2>2
    <3> QED BY <2>2, <3>1, <3>2
  <2>4. n = CHOOSE m \in Headed(t, n) : \A k \in Headed(t, n) : k <= m
    BY <2>1, <2>3
  <2>5. InForce(t, n) = t[n].clause
    BY <2>1, <2>4 DEF InForce
  <2> QED BY <1>3, <2>1, <2>5 DEF Printed
<1> QED BY <1>2, <1>3

(* What a flush emits is the open chunk, with its parent.                  *)
LEMMA FlushEmits ==
  ASSUME NEW s, LoopOK(s), IsOpen(s)
  PROVE  /\ Len(Flush(s).drafts) = Len(s.drafts) + 1
         /\ Flush(s).drafts[Len(s.drafts) + 1] = Draft(s)
         /\ \A k \in 1..Len(s.drafts) : Flush(s).drafts[k] = s.drafts[k]
         /\ Flush(s).seen = s.seen /\ Flush(s).active = s.active
<1>1. s \in LoopType
  BY DEF LoopOK
<1>2. Draft(s) \in DraftType
  BY <1>1, ParentType DEF LoopType, ChunkType, DraftType, Draft
<1>3. Flush(s) = [s EXCEPT !.drafts = Append(s.drafts, Draft(s)), !.current = Closed]
  BY DEF Flush
<1>4. /\ Flush(s).drafts = Append(s.drafts, Draft(s))
      /\ Flush(s).seen = s.seen /\ Flush(s).active = s.active
  BY <1>1, <1>3 DEF LoopType
<1>5. s.drafts \in Seq(DraftType)
  BY <1>1 DEF LoopType
<1> QED BY <1>2, <1>4, <1>5, AppendProperties

(* It is well formed if no heading was read since its last line.           *)
LEMMA DraftWellFormed ==
  ASSUME NEW s, NEW t, NEW c, NEW n, Knows(s, t, c, n), IsOpen(s),
         Printed(t, n) = Printed(t, s.current.to)
  PROVE  DraftIn(t, Draft(s), c) /\ Draft(s).tokens = s.current.tokens
<1> DEFINE d == Draft(s)
<1>1. /\ d.from = s.current.from /\ d.to = s.current.to /\ d.tokens = s.current.tokens
      /\ d.page_start = s.current.page_start /\ d.page_end = s.current.page_end
      /\ d.clause = s.current.clause
      /\ d.parent = parent_clause(s.current.clause, s.seen)
  BY DEF Draft
<1> HIDE DEF d
<1>2. SizedIn(t, d, c)
  BY <1>1 DEF Knows, SizedIn
<1>3. FiledIn(t, d)
  BY <1>1 DEF Knows, FiledIn
<1>4. d.parent = parent_clause(d.clause, Printed(t, d.to))
  BY <1>1 DEF Knows
<1> QED BY <1>1, <1>2, <1>3, <1>4 DEF DraftIn, d

LEMMA FlushKnows ==
  ASSUME NEW s, NEW t, NEW c, NEW n, Knows(s, t, c, n),
         IsOpen(s) => /\ s.current.tokens >= c.min
                      /\ Printed(t, n) = Printed(t, s.current.to)
  PROVE  /\ Knows(Flush(s), t, c, n)
         /\ ~IsOpen(Flush(s)) /\ Flush(s).line = s.line
<1>1. LoopOK(s)
  BY DEF Knows
<1>2. CASE ~IsOpen(s)
  BY <1>1, <1>2, FlushOK DEF Flush
<1>3. CASE IsOpen(s)
  <2>1. LoopOK(Flush(s)) /\ ~IsOpen(Flush(s)) /\ Flush(s).line = s.line
    BY <1>1, FlushOK
  <2>2. DraftIn(t, Draft(s), c) /\ Draft(s).tokens >= c.min
    BY <1>3, DraftWellFormed
  <2>3. Len(s.drafts) \in Nat
    BY <1>1, LenProperties DEF LoopOK, LoopType
  <2>4. ASSUME NEW k \in 1..Len(Flush(s).drafts)
        PROVE  DraftIn(t, Flush(s).drafts[k], c) /\ Flush(s).drafts[k].tokens >= c.min
    <3>1. k \in 1..Len(s.drafts) \/ k = Len(s.drafts) + 1
      BY <1>1, <1>3, <2>3, FlushEmits
    <3> QED BY <1>1, <1>3, <2>2, <3>1, FlushEmits DEF Knows
  <2>5. Flush(s).seen = s.seen /\ Flush(s).active = s.active
    BY <1>1, <1>3, FlushEmits
  <2> QED BY <2>1, <2>4, <2>5 DEF Knows
<1> QED BY <1>2, <1>3

(* After the heading of the line read: a chunk still open is small, and    *)
(* cannot stand alone if there was a heading.                              *)
LEMMA HeadingKnows ==
  ASSUME NEW t \in Seq(LineType), NEW c \in Limits, NEW s, Reading(s, t, c),
         s.line <= Len(t)
  PROVE  LET h == ReadHeading(s, t[s.line], c)
         IN /\ Knows(h, t, c, s.line) /\ h.line = s.line
            /\ IsOpen(h) => /\ h.current.tokens < c.soft
                            /\ t[s.line].clause # NoClause => h.current.tokens < c.min
<1> DEFINE l == t[s.line]
           h == ReadHeading(s, l, c)
<1>1. /\ Knows(s, t, c, s.line - 1) /\ LoopOK(s) /\ s \in LoopType /\ s.line \in 1..Len(t)
      /\ s.current.tokens \in Nat /\ c.min \in Nat /\ c.soft \in Nat
  BY LenProperties DEF Reading, Knows, LoopOK, LoopType, ChunkType, Limits
<1>2. l \in LineType
  BY <1>1, ElementOfSeq
<1>3. LoopOK(h) /\ h.line = s.line
  BY <1>1, <1>2, ReadHeadingOK
<1>4. CASE l.clause = NoClause
  <2>1. h = s
    BY <1>4 DEF ReadHeading
  <2>2. Knows(s, t, c, s.line)
    BY <1>1, <1>4, NextHeading DEF Knows
  <2> QED BY <1>3, <1>4, <2>1, <2>2 DEF Reading
<1>5. CASE l.clause # NoClause
  <2> DEFINE before == FlushIf(s.current.tokens >= c.min, s)
  <2>1. /\ Knows(before, t, c, s.line - 1)
        /\ IsOpen(before) => before.current.tokens < c.soft /\ before.current.tokens < c.min
    <3>1. CASE s.current.tokens >= c.min
      <4>1. IsOpen(s) => s.current.to = s.line - 1
        BY <1>1 DEF LoopOK, Covers
      <4>2. Knows(Flush(s), t, c, s.line - 1) /\ ~IsOpen(Flush(s))
        BY <1>1, <3>1, <4>1, FlushKnows
      <4> QED BY <3>1, <4>2 DEF FlushIf
    <3>2. CASE ~(s.current.tokens >= c.min)
      BY <1>1, <3>2 DEF FlushIf, Reading
    <3> QED BY <3>1, <3>2
  <2>2. h = [before EXCEPT !.active = l.clause, !.seen = s.seen \cup {l.clause}]
    BY <1>5 DEF ReadHeading
  <2> HIDE DEF before
  <2>3. before \in LoopType
    BY <2>1 DEF Knows, LoopOK
  <2>4. /\ h.active = l.clause /\ h.seen = s.seen \cup {l.clause}
        /\ h.drafts = before.drafts /\ h.current = before.current
    BY <2>2, <2>3 DEF LoopType
  <2> HIDE DEF h
  <2>5. h.seen = Printed(t, s.line) /\ h.active = InForce(t, s.line)
    BY <1>1, <1>5, <2>4, NextHeading DEF Knows
  <2>6. IsOpen(h) <=> IsOpen(before)
    BY <2>4 DEF IsOpen
  <2>7. Knows(h, t, c, s.line)
    BY <1>3, <2>1, <2>4, <2>5, <2>6 DEF Knows
  <2> QED BY <1>3, <2>1, <2>4, <2>6, <2>7 DEF h
<1> QED BY <1>4, <1>5

(* After room was made: the line fits what is open, or that cannot stand   *)
(* alone.                                                                  *)
LEMMA RoomKnows ==
  ASSUME NEW t \in Seq(LineType), NEW c \in Limits, NEW h, NEW n \in 1..Len(t),
         Knows(h, t, c, n), h.line = n,
         IsOpen(h) => /\ h.current.tokens < c.soft
                      /\ t[n].clause # NoClause => h.current.tokens < c.min
  PROVE  LET m == MakeRoom(h, t[n], c)
         IN /\ Knows(m, t, c, n) /\ m.line = n
            /\ IsOpen(m) => /\ m.current.tokens < c.soft
                            /\ t[n].clause # NoClause => m.current.tokens < c.min
                            /\ m.current.tokens + t[n].tokens > c.max => m.current.tokens < c.min
<1> DEFINE full == h.current.tokens + t[n].tokens > c.max /\ h.current.tokens >= c.min
<1>1. /\ LoopOK(h) /\ h.current.tokens \in Nat /\ c.min \in Nat
  BY DEF Knows, LoopOK, LoopType, ChunkType, Limits
<1>2. CASE full
  <2>1. IsOpen(h) => Printed(t, n) = Printed(t, h.current.to)
    <3> SUFFICES ASSUME IsOpen(h) PROVE Printed(t, n) = Printed(t, h.current.to)
      OBVIOUS
    <3>1. h.current.to = n - 1
      BY <1>1 DEF LoopOK, Covers
    <3>2. t[n].clause = NoClause
      BY <1>1, <1>2
    <3> QED BY <3>1, <3>2, NextHeading
  <2>2. Knows(Flush(h), t, c, n) /\ ~IsOpen(Flush(h)) /\ Flush(h).line = n
    BY <1>2, <2>1, FlushKnows
  <2> QED BY <1>2, <2>2 DEF MakeRoom, FlushIf
<1>3. CASE ~full
  <2>1. MakeRoom(h, t[n], c) = h
    BY <1>3 DEF MakeRoom, FlushIf
  <2>2. h.current.tokens + t[n].tokens > c.max => h.current.tokens < c.min
    BY <1>1, <1>3
  <2> QED BY <2>1, <2>2
<1> QED BY <1>2, <1>3

(* The line joins what is open, or is a chunk of its own.                  *)
LEMMA AddKnows ==
  ASSUME NEW t \in Seq(LineType), NEW c \in Limits, NEW m, NEW n \in 1..Len(t),
         Knows(m, t, c, n), m.line = n,
         IsOpen(m) => /\ m.current.tokens < c.soft
                      /\ t[n].clause # NoClause => m.current.tokens < c.min
                      /\ m.current.tokens + t[n].tokens > c.max => m.current.tokens < c.min
  PROVE  LET a == Add(Open(m, t[n]), t[n])
         IN Knows(a, t, c, n) /\ a.line = n + 1 /\ IsOpen(a)
<1> DEFINE l == t[n]
           o == Open(m, l)
           a == Add(o, l)
<1>1. /\ LoopOK(m) /\ m \in LoopType /\ n \in Nat /\ n >= 1 /\ n \in 0..Len(t)
      /\ n - 1 \in 0..Len(t) /\ Covers(m)
  BY LenProperties DEF Knows, LoopOK
<1>2. l \in LineType
  BY ElementOfSeq
<1>3. LoopOK(a) /\ a.line = n + 1
  BY <1>1, <1>2, AddOK
<1>4. /\ o \in LoopType /\ o.line = n /\ o.drafts = m.drafts
      /\ o.active = m.active /\ o.seen = m.seen
  BY <1>1, <1>2 DEF Open, LoopType, ChunkType, LineType
<1>5. /\ IsOpen(m) => o.current = m.current
      /\ ~IsOpen(m) => o.current = [from |-> n, to |-> n, tokens |-> 0, page_start |-> l.page,
                                    page_end |-> l.page, clause |-> m.active]
  BY <1>1 DEF Open, LoopType
<1> HIDE DEF o
<1> DEFINE d == [from |-> o.current.from, to |-> n, tokens |-> o.current.tokens + l.tokens,
                 page_start |-> o.current.page_start, page_end |-> l.page,
                 clause |-> o.current.clause]
<1>6. a = [o EXCEPT !.line = n + 1, !.current = d]
  BY <1>4 DEF Add
<1>7. /\ a.current = d /\ a.drafts = m.drafts /\ a.seen = m.seen /\ a.active = m.active
  BY <1>4, <1>6 DEF LoopType
<1>8. /\ Sums(t)[n] = Sums(t)[n - 1] + l.tokens /\ l.tokens \in Nat
      /\ Sums(t)[n] \in Nat /\ Sums(t)[n - 1] \in Nat
  BY <1>1, <1>2, SumsAre, SumsAreNumbers DEF LineType
<1>9. IsOpen(a) /\ SizedIn(t, d, c) /\ FiledIn(t, d)
  <2>1. CASE IsOpen(m)
    <3>1. /\ d.from = m.current.from /\ d.to = n /\ d.tokens = m.current.tokens + l.tokens
          /\ d.page_start = m.current.page_start /\ d.page_end = l.page
          /\ d.clause = m.current.clause
      BY <1>5, <2>1
    <3> DEFINE from == m.current.from
    <3>2. /\ from \in Nat /\ from # 0 /\ from <= n - 1 /\ m.current.to = n - 1
          /\ m.current.tokens \in Nat /\ c.min \in Nat /\ c.soft \in Nat /\ c.max \in Nat
      BY <1>1, <2>1 DEF Covers, IsOpen, LoopType, ChunkType, Limits
    <3>3. SizedIn(t, m.current, c) /\ FiledIn(t, m.current)
      BY <2>1 DEF Knows
    <3>4. m.current.tokens = Between(t, from, n - 1)
      BY <3>2, <3>3 DEF SizedIn
    <3>5. Sums(t)[from - 1] \in Nat
      BY <1>1, <3>2, SumsAreNumbers
    <3>6. d.tokens = Between(t, from, n)
      BY <1>8, <3>1, <3>4, <3>5 DEF Between
    <3>7. ASSUME NEW k \in (from + 1)..n, t[k].clause # NoClause
          PROVE  Between(t, from, k - 1) < c.min
      <4>1. CASE k = n
        BY <2>1, <3>4, <3>7, <4>1
      <4>2. CASE k # n
        <5>1. k \in (m.current.from + 1)..m.current.to
          BY <1>1, <3>2, <4>2
        <5> QED BY <3>3, <3>7, <5>1 DEF SizedIn
      <4> QED BY <4>1, <4>2
    <3> HIDE DEF d
    <3>8. SizedIn(t, d, c)
      BY <2>1, <3>1, <3>4, <3>6, <3>7 DEF SizedIn
    <3>9. FiledIn(t, d)
      BY <3>1, <3>3 DEF FiledIn
    <3> QED BY <1>7, <3>1, <3>2, <3>8, <3>9 DEF IsOpen
  <2>2. CASE ~IsOpen(m)
    <3>1. /\ d.from = n /\ d.to = n /\ d.tokens = 0 + l.tokens
          /\ d.page_start = l.page /\ d.page_end = l.page /\ d.clause = InForce(t, n)
      BY <1>5, <2>2 DEF Knows
    <3> HIDE DEF d
    <3>2. d.tokens = Between(t, n, n)
      BY <1>8, <3>1 DEF Between
    <3>3. (n + 1)..n = {} /\ ~(n < n)
      BY <1>1
    <3>4. SizedIn(t, d, c)
      BY <3>1, <3>2, <3>3 DEF SizedIn
    <3>5. FiledIn(t, d)
      BY <3>1 DEF FiledIn
    <3> QED BY <1>1, <1>7, <3>1, <3>4, <3>5 DEF IsOpen
  <2> QED BY <2>1, <2>2
<1> HIDE DEF a, d
<1>10. Knows(a, t, c, n)
  BY <1>3, <1>7, <1>9 DEF Knows
<1> QED BY <1>3, <1>9, <1>10 DEF a, o

(* One turn of the loop.                                                   *)
LEMMA ReadLineReads ==
  ASSUME NEW t \in Seq(LineType), NEW c \in Limits, NEW s, Reading(s, t, c),
         s.line <= Len(t)
  PROVE  /\ Reading(ReadLine(s, t[s.line], c), t, c)
         /\ ReadLine(s, t[s.line], c).line = s.line + 1
<1> DEFINE l == t[s.line]
           h == ReadHeading(s, l, c)
           m == MakeRoom(h, l, c)
           a == Add(Open(m, l), l)
           f == FlushIf(a.current.tokens >= c.soft, a)
<1>1. s.line \in 1..Len(t) /\ Len(t) \in Nat
  BY LenProperties DEF Reading, Knows, LoopOK, LoopType
<1>2. /\ Knows(h, t, c, s.line) /\ h.line = s.line
      /\ IsOpen(h) => /\ h.current.tokens < c.soft
                      /\ l.clause # NoClause => h.current.tokens < c.min
  BY HeadingKnows
<1> HIDE DEF h
<1>3. /\ Knows(m, t, c, s.line) /\ m.line = s.line
      /\ IsOpen(m) => /\ m.current.tokens < c.soft
                      /\ l.clause # NoClause => m.current.tokens < c.min
                      /\ m.current.tokens + l.tokens > c.max => m.current.tokens < c.min
  BY <1>1, <1>2, RoomKnows
<1> HIDE DEF m
<1>4. Knows(a, t, c, s.line) /\ a.line = s.line + 1 /\ IsOpen(a)
  BY <1>1, <1>3, AddKnows
<1> HIDE DEF a
<1>5. /\ a.current.tokens \in Nat /\ c.min \in Nat /\ c.soft \in Nat /\ c.min <= c.soft
      /\ a.current.to = s.line /\ LoopOK(a)
  BY <1>1, <1>4 DEF Knows, LoopOK, LoopType, ChunkType, Covers, Limits
<1>6. /\ Knows(f, t, c, s.line) /\ f.line = s.line + 1
      /\ IsOpen(f) => f.current.tokens < c.soft
  <2>1. CASE a.current.tokens >= c.soft
    <3>1. a.current.tokens >= c.min
      BY <1>5, <2>1
    <3>2. Knows(Flush(a), t, c, s.line) /\ ~IsOpen(Flush(a)) /\ Flush(a).line = a.line
      BY <1>4, <1>5, <3>1, FlushKnows
    <3> QED BY <1>4, <2>1, <3>2 DEF FlushIf
  <2>2. CASE ~(a.current.tokens >= c.soft)
    BY <1>4, <1>5, <2>2 DEF FlushIf
  <2> QED BY <2>1, <2>2
<1> HIDE DEF f
<1>7. Reading(f, t, c)
  BY <1>1, <1>6 DEF Reading
<1>8. ReadLine(s, l, c) = f
  BY DEF ReadLine, f, a, m, h
<1> QED BY <1>6, <1>7, <1>8

LEMMA StartReads ==
  ASSUME NEW t \in Seq(LineType), NEW c
  PROVE  Reading(Start, t, c)
<1>1. /\ Start.line = 1 /\ Start.seen = {} /\ Start.active = NoClause
      /\ Start.drafts = <<>> /\ ~IsOpen(Start)
  BY DEF Start, Closed, IsOpen
<1>2. Len(t) \in Nat
  BY LenProperties
<1>3. Headed(t, 0) = {}
  BY DEF Headed
<1>4. Printed(t, 0) = {} /\ InForce(t, 0) = NoClause
  BY <1>3 DEF Printed, InForce
<1>5. Knows(Start, t, c, 0)
  BY <1>1, <1>4, StartOK DEF Knows
<1> QED BY <1>1, <1>2, <1>5 DEF Reading

(* After each number of lines.                                             *)
LEMMA LoopReads ==
  ASSUME NEW t \in Seq(LineType), NEW c \in Limits
  PROVE  \A n \in 0..Len(t) :
           Reading(ReadLines(t, c)[n], t, c) /\ ReadLines(t, c)[n].line = n + 1
<1> DEFINE s(n) == ReadLines(t, c)[n]
           Good(n) == Reading(s(n), t, c) /\ s(n).line = n + 1
           bad == {n \in 0..Len(t) : ~Good(n)}
<1> SUFFICES ASSUME bad # {} PROVE FALSE
  OBVIOUS
<1>1. Len(t) \in Nat /\ bad \in SUBSET Nat
  BY LenProperties
<1>2. PICK n \in bad : \A m \in bad : n <= m
  BY <1>1, SmallestExists
<1>3. Good(0)
  <2>1. s(0) = Start
    BY ReadLinesAre
  <2>2. Start.line = 0 + 1
    BY DEF Start
  <2> QED BY <2>1, <2>2, StartReads
<1>4. n \in 1..Len(t) /\ n - 1 \in 0..Len(t) /\ ~(n <= n - 1)
  <2>1. n # 0
    BY <1>2, <1>3
  <2> QED BY <1>1, <1>2, <2>1
<1>5. Good(n - 1)
  BY <1>2, <1>4
<1>6. s(n) = ReadLine(s(n - 1), t[n], c)
  BY <1>4, ReadLinesAre
<1>7. s(n - 1).line = n
  BY <1>1, <1>4, <1>5
<1> HIDE DEF s
<1>8. /\ Reading(ReadLine(s(n - 1), t[n], c), t, c)
      /\ ReadLine(s(n - 1), t[n], c).line = n + 1
  BY <1>4, <1>5, <1>7, ReadLineReads
<1>9. Good(n)
  BY <1>6, <1>8
<1> QED BY <1>2, <1>9

(* The result of chunk_pages: no chunk is open, all lines are read, and    *)
(* every chunk but the last can stand alone.                               *)
LEMMA ChunkPagesAre ==
  ASSUME NEW t \in Seq(LineType), NEW c \in Limits
  PROVE  LET s == Flush(ReadLines(t, c)[Len(t)])
         IN /\ LoopOK(s) /\ ~IsOpen(s) /\ s.line = Len(t) + 1
            /\ s.drafts = chunk_pages(t, c)
            /\ \A k \in 1..Len(s.drafts) :
                 /\ DraftIn(t, s.drafts[k], c)
                 /\ k < Len(s.drafts) => s.drafts[k].tokens >= c.min
<1> DEFINE s == ReadLines(t, c)[Len(t)]
<1>1. Len(t) \in Nat /\ Len(t) \in 0..Len(t)
  BY LenProperties
<1>2. Reading(s, t, c) /\ s.line = Len(t) + 1
  BY <1>1, LoopReads
<1> HIDE DEF s
<1>3. Knows(s, t, c, Len(t)) /\ LoopOK(s)
  BY <1>1, <1>2 DEF Reading, Knows
<1>4. LoopOK(Flush(s)) /\ ~IsOpen(Flush(s)) /\ Flush(s).line = Len(t) + 1
  BY <1>2, <1>3, FlushOK
<1>5. \A k \in 1..Len(Flush(s).drafts) :
        /\ DraftIn(t, Flush(s).drafts[k], c)
        /\ k < Len(Flush(s).drafts) => Flush(s).drafts[k].tokens >= c.min
  <2>1. CASE ~IsOpen(s)
    BY <1>3, <2>1 DEF Flush, Knows
  <2>2. CASE IsOpen(s)
    <3>1. s.current.to = Len(t)
      BY <1>1, <1>2, <1>3, <2>2 DEF LoopOK, Covers
    <3>2. DraftIn(t, Draft(s), c)
      BY <1>3, <2>2, <3>1, DraftWellFormed
    <3>3. Len(s.drafts) \in Nat
      BY <1>3, LenProperties DEF LoopOK, LoopType
    <3>4. ASSUME NEW k \in 1..Len(Flush(s).drafts)
          PROVE  /\ DraftIn(t, Flush(s).drafts[k], c)
                 /\ k < Len(Flush(s).drafts) => Flush(s).drafts[k].tokens >= c.min
      <4>1. CASE k \in 1..Len(s.drafts)
        BY <1>3, <2>2, <4>1, FlushEmits DEF Knows
      <4>2. CASE k = Len(s.drafts) + 1
        BY <1>3, <2>2, <3>2, <3>3, <4>2, FlushEmits
      <4> QED BY <1>3, <2>2, <3>3, <3>4, <4>1, <4>2, FlushEmits
    <3> QED BY <3>4
  <2> QED BY <2>1, <2>2
<1>6. Flush(s).drafts = chunk_pages(t, c)
  BY DEF chunk_pages, s
<1> QED BY <1>4, <1>5, <1>6 DEF s

(* An ancestor is a number, so what no line prints is none.                *)
LEMMA AncestorsAreClauses ==
  ASSUME NEW clause \in Clause
  PROVE  NoClause \notin clause_ancestors(clause)
<1> SUFFICES ASSUME NEW k \in 1..(Len(clause) - 1), SubSeq(clause, 1, k) = NoClause
             PROVE  FALSE
  BY DEF clause_ancestors
<1>1. Len(clause) \in Nat
  BY LenProperties DEF Clause
<1>2. \A i \in 1..k : clause[i] \in Nat
  BY <1>1, ElementOfSeq DEF Clause
<1>3. Len(SubSeq(clause, 1, k)) = k
  BY <1>1, <1>2, SubSeqProperties
<1>4. Len(NoClause) = 0
  BY EmptySeq DEF NoClause
<1> QED BY <1>1, <1>3, <1>4

LEMMA DraftsAreWellFormed ==
  ASSUME text \in Seq(LineType), NEW c, NEW d \in DraftType, DraftIn(text, d, c),
         NEW last, ~last => d.tokens >= c.min
  PROVE  WellSized(d, c, last) /\ WellFiled(d)
<1>1. WellSized(d, c, last)
  BY DEF DraftIn, SizedIn, Between, WellSized, Tokens
<1>2. WellFiled(d)
  <2> DEFINE headed == {n \in 1..d.from : text[n].clause # NoClause}
             known == {text[n].clause : n \in 1..d.to} \cap clause_ancestors(d.clause)
  <2>1. headed = Headed(text, d.from)
    BY DEF Headed
  <2>2. d.clause = IF headed = {} THEN NoClause
                   ELSE text[CHOOSE n \in headed : \A m \in headed : m <= n].clause
    BY <2>1 DEF DraftIn, FiledIn, InForce
  <2>3. d.page_start = text[d.from].page /\ d.page_end = text[d.to].page
    BY DEF DraftIn, FiledIn
  <2>4. d.clause \in Clause /\ NoClause \notin clause_ancestors(d.clause)
    BY AncestorsAreClauses DEF DraftType
  <2>5. known = clause_ancestors(d.clause) \cap (Printed(text, d.to) \cap Clause)
    <3>1. \A q \in clause_ancestors(d.clause) :
            q \in {text[n].clause : n \in 1..d.to} <=> q \in Printed(text, d.to)
      BY <2>4 DEF Printed, Headed
    <3>2. clause_ancestors(d.clause) \subseteq Clause
      <4> SUFFICES ASSUME NEW k \in 1..(Len(d.clause) - 1)
                   PROVE  SubSeq(d.clause, 1, k) \in Clause
        BY DEF clause_ancestors
      <4>1. Len(d.clause) \in Nat
        BY <2>4, LenProperties DEF Clause
      <4>2. \A i \in 1..k : d.clause[i] \in Nat
        BY <2>4, <4>1, ElementOfSeq DEF Clause
      <4> QED BY <4>1, <4>2, SubSeqProperties DEF Clause
    <3> QED BY <3>1, <3>2
  <2>6. d.parent = parent_clause(d.clause, Printed(text, d.to) \cap Clause)
    <3>1. clause_ancestors(d.clause) \cap Printed(text, d.to) = known
      BY <2>5, <2>4 DEF Printed, Headed
    <3>2. clause_ancestors(d.clause) \cap (Printed(text, d.to) \cap Clause) = known
      BY <2>5
    <3> QED BY <3>1, <3>2 DEF DraftIn, parent_clause
  <2>7. /\ known = {} => d.parent = NoClause
        /\ known # {} => d.parent \in known /\ \A q \in known : Len(q) <= Len(d.parent)
    BY <2>4, <2>5, <2>6, ParentType
  <2> HIDE DEF known, headed
  <2>8. IF known = {} THEN d.parent = NoClause
        ELSE d.parent \in known /\ \A q \in known : Len(q) <= Len(d.parent)
    BY <2>7
  <2> QED BY <2>2, <2>3, <2>8 DEF WellFiled, known, headed
<1> QED BY <1>1, <1>2

-----------------------------------------------------------------------------
(* Every run reads the text with its release's limits.                     *)

LimitsOf(r) == Releases[runs_on[r]]

RunsRead ==
  /\ text \in Seq(LineType) /\ text # <<>>
  /\ release \in 1..Len(Releases)
  /\ \A r \in Runs :
       /\ runs_on[r] \in 1..Len(Releases)
       /\ \/ at[r] = "idle" /\ loop[r] = Start
          \/ /\ at[r] = "chunking"
             /\ \E n \in 0..Len(text) : loop[r] = ReadLines(text, LimitsOf(r))[n]
          \/ at[r] \notin {"idle", "chunking"} /\ loop[r].drafts = chunk_pages(text, LimitsOf(r))

LEMMA RunsReadInit == Init => RunsRead
<1> SUFFICES ASSUME Init PROVE RunsRead
  OBVIOUS
<1>1. text \in Seq(LineType) /\ text # <<>>
  BY TextsAssumption DEF Init, LineType, Clause
<1>2. 1 \in 1..Len(Releases)
  BY ReleasesAssumption, EmptySeq, LenProperties
<1> QED BY <1>1, <1>2 DEF Init, RunsRead

LEMMA RunsReadNext ==
  ASSUME LocalsAreFunctions, RunsRead, [Next]_vars
  PROVE  RunsRead'
<1> DEFINE Reads(r) ==
             /\ runs_on[r] \in 1..Len(Releases)
             /\ \/ at[r] = "idle" /\ loop[r] = Start
                \/ /\ at[r] = "chunking"
                   /\ \E n \in 0..Len(text) : loop[r] = ReadLines(text, LimitsOf(r))[n]
                \/ /\ at[r] \notin {"idle", "chunking"}
                   /\ loop[r].drafts = chunk_pages(text, LimitsOf(r))
<1>1. text' = text /\ Len(text) \in Nat
  <2>1. text' = text
    BY DEF Next, vars, document, Deploy, RollBack, Begin, ChunkLine, ListChunks, ReplaceChunks,
           DeleteVectors, EmbedNothing, Embed, MarkEmbedded, Finish, Fail, Crash, Lost
  <2> QED BY <2>1, LenProperties DEF RunsRead
<1>2. release' \in 1..Len(Releases)
  <2>1. CASE Deploy \/ RollBack
    BY <2>1, ReleasesAssumption, LenProperties DEF Deploy, RollBack, RunsRead
  <2>2. CASE ~(Deploy \/ RollBack)
    <3>1. release' = release
      BY <2>2 DEF Next, vars, document, Begin, ChunkLine, ListChunks, ReplaceChunks,
             DeleteVectors, EmbedNothing, Embed, MarkEmbedded, Finish, Fail, Crash, Lost
    <3> QED BY <3>1 DEF RunsRead
  <2> QED BY <2>1, <2>2
<1>3. ASSUME NEW r \in Runs, UNCHANGED <<at[r], runs_on[r], loop[r]>> PROVE Reads(r)'
  BY <1>1, <1>3 DEF RunsRead, LimitsOf
<1>4. ASSUME NEW r \in Runs, Alone(r), Reads(r)' PROVE RunsRead'
  <2>1. \A s \in Runs \ {r} : Reads(s)'
    BY <1>3, <1>4 DEF Alone
  <2> HIDE DEF Reads
  <2>2. \A s \in Runs : Reads(s)'
    BY <1>4, <2>1
  <2> QED BY <1>1, <1>2, <2>2 DEF RunsRead, Reads
<1>5. ASSUME UNCHANGED locals PROVE RunsRead'
  <2>1. \A s \in Runs : Reads(s)'
    BY <1>3, <1>5 DEF locals
  <2> QED BY <1>1, <1>2, <2>1 DEF RunsRead
<1>6. ASSUME NEW r \in Runs, Begin(r) PROVE RunsRead'
  <2>1. Alone(r) /\ Moves(r, {"idle"}, "chunking")
    BY <1>6, IndexSteps
  <2>2. runs_on'[r] = release
    BY <1>6 DEF Begin, LocalsAreFunctions
  <2>3. loop'[r] = Start
    BY <2>1 DEF RunsRead, Moves
  <2>4. ReadLines(text, Releases[release])[0] = Start /\ 0 \in 0..Len(text)
    BY <1>1, ReadLinesAre DEF RunsRead
  <2>5. Reads(r)'
    BY <1>1, <2>1, <2>2, <2>3, <2>4 DEF RunsRead, Moves, LimitsOf
  <2> QED BY <1>4, <2>1, <2>5
<1>7. ASSUME NEW r \in Runs, ChunkLine(r) \/ ListChunks(r) PROVE RunsRead'
  <2> DEFINE c == LimitsOf(r)
  <2>1. Alone(r) /\ at[r] = "chunking" /\ runs_on'[r] = runs_on[r]
    BY <1>7, IndexSteps DEF ChunkLine, ListChunks
  <2>2. c \in Limits
    BY ReleasesAssumption, ElementOfSeq DEF RunsRead, LimitsOf
  <2>3. PICK n \in 0..Len(text) : loop[r] = ReadLines(text, c)[n]
    BY <2>1 DEF RunsRead
  <2>4. loop[r].line = n + 1
    BY <2>2, <2>3, LoopReads DEF RunsRead
  <2>5. CASE ChunkLine(r)
    <3>1. /\ at'[r] = "chunking" /\ loop[r].line <= Len(text)
          /\ loop'[r] = ReadLine(loop[r], text[loop[r].line], c)
      BY <2>5 DEF ChunkLine, LocalsAreFunctions, LimitsOf
    <3>2. n + 1 \in 1..Len(text) /\ n + 1 \in 0..Len(text) /\ (n + 1) - 1 = n
      BY <1>1, <2>4, <3>1
    <3>3. ReadLines(text, c)[n + 1] = ReadLine(ReadLines(text, c)[n], text[n + 1], c)
      BY <3>2, ReadLinesAre DEF RunsRead
    <3>4. loop'[r] = ReadLines(text, c)[n + 1]
      BY <2>3, <2>4, <3>1, <3>3
    <3>5. Reads(r)'
      BY <1>1, <2>1, <3>1, <3>2, <3>4 DEF RunsRead, LimitsOf
    <3> QED BY <1>4, <2>1, <3>5
  <2>6. CASE ListChunks(r)
    <3>1. at'[r] = "listed" /\ loop[r].line > Len(text) /\ loop'[r] = Flush(loop[r])
      BY <2>6, IndexSteps DEF ListChunks
    <3>2. n = Len(text)
      BY <1>1, <2>4, <3>1
    <3>3. loop'[r].drafts = chunk_pages(text, c)
      BY <2>3, <3>1, <3>2 DEF chunk_pages
    <3>4. Reads(r)'
      BY <1>1, <2>1, <3>1, <3>3 DEF RunsRead, LimitsOf
    <3> QED BY <1>4, <2>1, <3>4
  <2> QED BY <1>7, <2>5, <2>6
<1>8. ASSUME NEW r \in Runs,
             ReplaceChunks(r) \/ DeleteVectors(r) \/ EmbedNothing(r) \/ Embed(r) \/ MarkEmbedded(r)
      PROVE  RunsRead'
  <2>1. /\ Alone(r) /\ at[r] \notin {"idle", "chunking"} /\ at'[r] \notin {"idle", "chunking"}
        /\ loop'[r] = loop[r]
    <3>1. CASE ReplaceChunks(r) \/ MarkEmbedded(r)
      BY <3>1, IndexSteps
    <3>2. CASE DeleteVectors(r) \/ EmbedNothing(r) \/ Embed(r)
      BY <3>2, IndexSteps DEF Moves
    <3> QED BY <1>8, <3>1, <3>2
  <2>2. runs_on'[r] = runs_on[r]
    BY <1>8 DEF ReplaceChunks, DeleteVectors, EmbedNothing, Embed, MarkEmbedded
  <2>3. Reads(r)'
    BY <1>1, <2>1, <2>2 DEF RunsRead, LimitsOf
  <2> QED BY <1>4, <2>1, <2>3
<1>9. ASSUME NEW r \in Runs, Forget(r) PROVE RunsRead'
  <2>1. Alone(r) /\ at'[r] = "idle"
    BY <1>9, IndexSteps
  <2>2. runs_on'[r] = 1 /\ loop'[r] = Start
    BY <1>9 DEF Forget, LocalsAreFunctions
  <2>3. 1 \in 1..Len(Releases)
    BY ReleasesAssumption, EmptySeq, LenProperties
  <2>4. Reads(r)'
    BY <2>1, <2>2, <2>3
  <2> QED BY <1>4, <2>1, <2>4
<1>10. CASE Deploy \/ RollBack \/ UNCHANGED vars
  BY <1>5, <1>10 DEF Deploy, RollBack, vars
<1> QED BY <1>6, <1>7, <1>8, <1>9, <1>10 DEF Next, Finish, Fail, Crash, Lost

LEMMA RunsReadAlways == Spec => [](LocalsAreFunctions /\ RunsRead)
<1>1. LocalsAreFunctions /\ RunsRead /\ TransactionsFollow /\ [Next]_vars
        => (LocalsAreFunctions /\ RunsRead /\ TransactionsFollow)'
  BY RunsReadNext, TransactionsFollowNext
<1>2. Init => LocalsAreFunctions /\ RunsRead /\ TransactionsFollow
  BY RunsReadInit, IndexInit DEF IndexInv
<1> QED BY <1>1, <1>2, PTL DEF Spec

(* The drafts of a run past chunking are those of its release.             *)
LEMMA DraftsOfRelease ==
  ASSUME RunsRead, NEW r \in Runs, at[r] \notin {"idle", "chunking"}
  PROVE  /\ LimitsOf(r) \in Limits /\ loop[r].drafts = chunk_pages(text, LimitsOf(r))
         /\ runs_on[r] \in 1..Len(Releases)
BY ReleasesAssumption, ElementOfSeq DEF RunsRead, LimitsOf

(* In every run of every release, over any text and with any limits: a     *)
(* chunk closes when it is large enough and not before it can stand alone, *)
(* only its last line takes it over the limits, and it is filed under the  *)
(* clause in force at its first line, below the nearest ancestor printed   *)
(* by then, on the pages of its lines (chunk_pages, clause_lineage).       *)
THEOREM ChunksFollowRules == Spec => []ChunksAreWellFormed
<1>1. RunsRead => ChunksAreWellFormed
  <2> SUFFICES ASSUME RunsRead, NEW r \in Runs, at[r] \notin {"idle", "chunking"},
                      NEW k \in 1..Len(loop[r].drafts)
               PROVE  /\ WellSized(loop[r].drafts[k], Releases[runs_on[r]],
                                   k = Len(loop[r].drafts))
                      /\ WellFiled(loop[r].drafts[k])
    BY DEF ChunksAreWellFormed
  <2> DEFINE c == LimitsOf(r)
             drafts == chunk_pages(text, c)
             s == Flush(ReadLines(text, c)[Len(text)])
  <2>1. c \in Limits /\ loop[r].drafts = drafts
    BY DraftsOfRelease
  <2>2. text \in Seq(LineType)
    BY DEF RunsRead
  <2>3. /\ LoopOK(s) /\ s.drafts = drafts
        /\ \A j \in 1..Len(s.drafts) :
             DraftIn(text, s.drafts[j], c) /\ (j < Len(s.drafts) => s.drafts[j].tokens >= c.min)
    BY <2>1, <2>2, ChunkPagesAre
  <2> HIDE DEF s, drafts, c
  <2>4. drafts \in Seq(DraftType)
    BY <2>3 DEF LoopOK, LoopType
  <2>5. k \in 1..Len(drafts) /\ Len(drafts) \in Nat
    BY <2>1, <2>4, LenProperties
  <2>6. drafts[k] \in DraftType
    BY <2>4, <2>5, ElementOfSeq
  <2>7. DraftIn(text, drafts[k], c) /\ (k # Len(drafts) => drafts[k].tokens >= c.min)
    BY <2>3, <2>5
  <2>8. WellSized(drafts[k], c, k = Len(drafts)) /\ WellFiled(drafts[k])
    BY <2>2, <2>6, <2>7, DraftsAreWellFormed
  <2> QED BY <2>1, <2>8 DEF c, LimitsOf
<1> QED BY <1>1, RunsReadAlways, PTL

-----------------------------------------------------------------------------
(* The rows of a document are one chunking, as long as runs of at most two *)
(* releases overlap, or none at all.                                       *)

FewOverlap == Len(Releases) <= 2 \/ \A r, s \in Runs : r = s

Ids(v) == IdsOf(Chunks(text, v))

(* The parent a passage has in every release.                              *)
ParentOf(t, id) == parent_clause(InForce(t, id[2]), Printed(t, id[3]))

Linked(rs) == \A x \in rs : x.parent = ParentOf(text, x.id)
Bare(rs) == \A x \in rs : x.parent = NoClause

HasListed(r) == at[r] \notin {"idle", "chunking"}

(* A run whose chunks are others than those it listed.                     *)
Replaces(r) == IdsOf(existing[r]) # IdsOf(Drafted(r))

WholeChunkings ==
  /\ rows = {} \/ \E v \in 1..Len(Releases) : IdsOf(rows) = Ids(v)
  /\ \A r \in Runs : HasListed(r) =>
       \/ existing[r] = {}
       \/ \E v \in 1..Len(Releases) : IdsOf(existing[r]) = Ids(v)

(* Rows without lineage are those the document began with.                 *)
LineageFollows ==
  \/ Linked(rows)
  \/ /\ Bare(rows)
     /\ \A r \in Runs : HasListed(r) => Identity(existing[r]) = Identity(rows)

(* A transaction that replaces chunks replaces those that are there.       *)
ReplacesWhatIsThere ==
  \A r \in Runs : at[r] \in Writing /\ Replaces(r) => IdsOf(rows) = IdsOf(existing[r])

(* Rows do not vanish, and a run without rivals knows what is there.       *)
ListsWhatIsThere ==
  \A r \in Runs : HasListed(r) =>
    /\ rows = {} => existing[r] = {}
    /\ (\A s \in Runs : r = s) => IdsOf(rows) = IdsOf(existing[r])

ChunkingInv == WholeChunkings /\ LineageFollows /\ ReplacesWhatIsThere /\ ListsWhatIsThere

(* The last chunk ends with the text, and no other one does.               *)
LEMMA LastChunk ==
  ASSUME NEW s, LoopOK(s), ~IsOpen(s), NEW N \in Nat, N >= 1, s.line = N + 1
  PROVE  /\ Len(s.drafts) \in Nat /\ Len(s.drafts) >= 1
         /\ s.drafts[Len(s.drafts)].to = N
         /\ \A k \in 1..Len(s.drafts) : s.drafts[k].to = N => k = Len(s.drafts)
<1> DEFINE n == Len(s.drafts)
           to(k) == s.drafts[k].to
<1>1. s.drafts \in Seq(DraftType) /\ n \in Nat /\ Covers(s)
  BY LenProperties DEF LoopOK, LoopType
<1>2. \A k \in 1..n : to(k) \in Nat /\ s.drafts[k].from \in Nat
  <2> SUFFICES ASSUME NEW k \in 1..n PROVE to(k) \in Nat /\ s.drafts[k].from \in Nat
    OBVIOUS
  <2>1. s.drafts[k] \in DraftType
    BY <1>1, ElementOfSeq
  <2> QED BY <2>1 DEF DraftType
<1>3. s.drafts # <<>> /\ to(n) + 1 = N + 1
  BY <1>1 DEF Covers, Following
<1>4. n >= 1
  BY <1>1, <1>3, EmptySeq
<1>5. to(n) = N
  BY <1>1, <1>2, <1>3, <1>4
<1>6. ASSUME NEW k \in 1..n, to(k) = N, k # n PROVE FALSE
  <2> DEFINE back == {j \in (k + 1)..n : to(j) <= N}
  <2>1. n \in back /\ back \in SUBSET Nat
    BY <1>1, <1>5, <1>6
  <2>2. PICK j \in back : \A i \in back : j <= i
    BY <2>1, SmallestExists
  <2>3. j - 1 \in k..n /\ j \in 2..n /\ ~(j <= j - 1)
    BY <1>1, <2>2
  <2>4. to(j - 1) \in Nat /\ to(j - 1) >= N
    <3>1. CASE j - 1 = k
      BY <1>2, <1>6, <3>1
    <3>2. CASE j - 1 # k
      <4>1. j - 1 \in (k + 1)..n
        BY <1>1, <2>3, <3>2
      <4>2. ~(to(j - 1) <= N)
        BY <2>2, <2>3, <4>1
      <4>3. to(j - 1) \in Nat
        BY <1>1, <1>2, <4>1
      <4> QED BY <4>2, <4>3
    <3> QED BY <3>1, <3>2
  <2>5. s.drafts[j].from = to(j - 1) + 1 /\ s.drafts[j].from <= to(j)
    BY <1>1, <2>3 DEF Covers
  <2>6. to(j) <= N /\ to(j) \in Nat /\ s.drafts[j].from \in Nat
    BY <1>1, <1>2, <2>2, <2>3
  <2> QED BY <2>4, <2>5, <2>6
<1> HIDE DEF to
<1>7. \A k \in 1..n : to(k) = N => k = n
  BY <1>6
<1> QED BY <1>1, <1>4, <1>5, <1>7 DEF to

LEMMA IdsAre ==
  ASSUME NEW v
  PROVE  LET d == chunk_pages(text, Releases[v])
         IN Ids(v) = {<<k, d[k].from, d[k].to>> : k \in 1..Len(d)}
<1> DEFINE d == chunk_pages(text, Releases[v])
           row(k) == [id |-> <<k, d[k].from, d[k].to>>, parent |-> d[k].parent,
                      embedded |-> FALSE]
<1>1. Chunks(text, v) = {row(k) : k \in 1..Len(d)}
  BY DEF Chunks, RowsOf
<1>2. \A k : row(k).id = <<k, d[k].from, d[k].to>>
  OBVIOUS
<1> HIDE DEF d, row
<1>3. Ids(v) = {row(k).id : k \in 1..Len(d)}
  BY <1>1 DEF Ids, IdsOf
<1>4. Ids(v) = {<<k, d[k].from, d[k].to>> : k \in 1..Len(d)}
  BY <1>2, <1>3
<1> QED BY <1>4 DEF d

(* What the rows of a release's chunks are.                                *)
LEMMA ChunksAre ==
  ASSUME RunsRead, NEW v \in 1..Len(Releases)
  PROVE  /\ Linked(Chunks(text, v))
         /\ \E i \in Ids(v) : i[1] = 1
         /\ \A x \in Chunks(text, v) : x.embedded = FALSE
<1> DEFINE c == Releases[v]
           s == Flush(ReadLines(text, c)[Len(text)])
<1>1. c \in Limits /\ text \in Seq(LineType) /\ Len(text) \in Nat /\ Len(text) >= 1
  BY ReleasesAssumption, ElementOfSeq, LenProperties, EmptySeq DEF RunsRead
<1>2. /\ LoopOK(s) /\ ~IsOpen(s) /\ s.line = Len(text) + 1
      /\ s.drafts = chunk_pages(text, c)
      /\ \A k \in 1..Len(s.drafts) : DraftIn(text, s.drafts[k], c)
  BY <1>1, ChunkPagesAre
<1> HIDE DEF s
<1>3. Len(s.drafts) \in Nat /\ Len(s.drafts) >= 1
  BY <1>1, <1>2, LastChunk
<1>4. Chunks(text, v) = {[id |-> <<k, s.drafts[k].from, s.drafts[k].to>>,
                          parent |-> s.drafts[k].parent, embedded |-> FALSE] :
                            k \in 1..Len(s.drafts)}
  BY <1>2 DEF Chunks, RowsOf
<1>5. Linked(Chunks(text, v))
  <2> SUFFICES ASSUME NEW k \in 1..Len(s.drafts)
               PROVE  s.drafts[k].parent =
                        ParentOf(text, <<k, s.drafts[k].from, s.drafts[k].to>>)
    BY <1>4 DEF Linked
  <2> QED BY <1>2 DEF DraftIn, FiledIn, ParentOf
<1>6. \E i \in Ids(v) : i[1] = 1
  <2>1. <<1, s.drafts[1].from, s.drafts[1].to>> \in Ids(v)
    BY <1>2, <1>3, IdsAre
  <2> QED BY <2>1
<1> QED BY <1>4, <1>5, <1>6

(* No chunking is a part of another one.                                   *)
LEMMA ChunkingsAreWhole ==
  ASSUME RunsRead, NEW v \in 1..Len(Releases), NEW w \in 1..Len(Releases),
         Ids(v) \subseteq Ids(w)
  PROVE  Ids(v) = Ids(w)
<1> DEFINE last(u) == Flush(ReadLines(text, Releases[u])[Len(text)])
           d(u) == last(u).drafts
           id(u, k) == <<k, d(u)[k].from, d(u)[k].to>>
<1>1. text \in Seq(LineType) /\ Len(text) \in Nat /\ Len(text) >= 1
  BY LenProperties, EmptySeq DEF RunsRead
<1>2. ASSUME NEW u \in 1..Len(Releases)
      PROVE  /\ LoopOK(last(u)) /\ ~IsOpen(last(u)) /\ last(u).line = Len(text) + 1
             /\ d(u) = chunk_pages(text, Releases[u])
  <2>1. Releases[u] \in Limits
    BY ReleasesAssumption, ElementOfSeq
  <2> QED BY <1>1, <2>1, ChunkPagesAre
<1>3. ASSUME NEW u \in 1..Len(Releases)
      PROVE  Ids(u) = {id(u, k) : k \in 1..Len(d(u))}
  BY <1>2, IdsAre
<1> HIDE DEF last
<1>4. ASSUME NEW u \in 1..Len(Releases)
      PROVE  /\ Len(d(u)) \in Nat /\ Len(d(u)) >= 1 /\ d(u)[Len(d(u))].to = Len(text)
             /\ \A k \in 1..Len(d(u)) : d(u)[k].to = Len(text) => k = Len(d(u))
  BY <1>1, <1>2, LastChunk
<1> HIDE DEF d
<1>5. ASSUME NEW k \in 1..Len(d(v))
      PROVE  k \in 1..Len(d(w)) /\ id(v, k) = id(w, k)
  <2>1. id(v, k) \in Ids(w)
    BY <1>3
  <2>2. PICK j \in 1..Len(d(w)) : id(v, k) = id(w, j)
    BY <1>3, <2>1
  <2> QED BY <2>2
<1>6. Len(d(v)) = Len(d(w))
  <2>1. Len(d(v)) \in 1..Len(d(v))
    BY <1>4
  <2>2. Len(d(v)) \in 1..Len(d(w)) /\ id(v, Len(d(v))) = id(w, Len(d(v)))
    BY <1>5, <2>1
  <2>3. d(w)[Len(d(v))].to = Len(text)
    BY <1>4, <2>2
  <2> QED BY <1>4, <2>2, <2>3
<1> QED BY <1>3, <1>5, <1>6

(* What a run drafts are the chunks of its release.                        *)
LEMMA DraftedAre ==
  ASSUME RunsRead, NEW r \in Runs, HasListed(r)
  PROVE  /\ runs_on[r] \in 1..Len(Releases) /\ Drafted(r) = Chunks(text, runs_on[r])
         /\ IdsOf(Drafted(r)) = Ids(runs_on[r])
<1>1. runs_on[r] \in 1..Len(Releases) /\ loop[r].drafts = chunk_pages(text, LimitsOf(r))
  BY DraftsOfRelease DEF HasListed
<1>2. Drafted(r) = Chunks(text, runs_on[r])
  BY <1>1 DEF Drafted, Chunks, LimitsOf
<1> QED BY <1>1, <1>2 DEF Ids

LEMMA WorkIds ==
  ASSUME NEW r \in Runs
  PROVE  /\ IdsOf(Stale(r)) = IdsOf(existing[r]) \ IdsOf(Drafted(r))
         /\ IdsOf(New(r)) = IdsOf(Drafted(r)) \ IdsOf(existing[r])
BY DEF IdsOf, Stale, New

(* What a commit makes of the rows.                                        *)
LEMMA CommittedIs ==
  ASSUME TransactionsFollow, NEW r \in Runs, at[r] \in Writing
  PROVE  /\ IdsOf(Committed(r)) = (IdsOf(rows) \ IdsOf(Stale(r))) \cup IdsOf(New(r))
         /\ \A x \in Committed(r) :
              \E y \in {z \in rows : z.id \notin IdsOf(Stale(r))} \cup New(r) :
                /\ x.id = y.id
                /\ x.parent = IF y.id \in IdsOf(Refreshed(r))
                              THEN (CHOOSE d \in Refreshed(r) : d.id = y.id).parent ELSE y.parent
<1>1. PICK m : pending[r] = [removed |-> IdsOf(Stale(r)), refreshed |-> Refreshed(r),
                             inserted |-> New(r), marked |-> m]
  BY WritingFollows
<1> DEFINE kept == {z \in rows : z.id \notin IdsOf(Stale(r))} \cup New(r)
           parent(y) == IF y.id \in IdsOf(Refreshed(r))
                        THEN (CHOOSE d \in Refreshed(r) : d.id = y.id).parent ELSE y.parent
           row(y) == [id |-> y.id, parent |-> parent(y), embedded |-> y.embedded \/ y.id \in m]
<1>2. Committed(r) = {row(y) : y \in kept}
  BY <1>1 DEF Committed
<1>3. \A y : row(y).id = y.id /\ row(y).parent = parent(y)
  OBVIOUS
<1>4. IdsOf(kept) = (IdsOf(rows) \ IdsOf(Stale(r))) \cup IdsOf(New(r))
  BY DEF IdsOf
<1> HIDE DEF row, kept
<1>5. IdsOf(Committed(r)) = IdsOf(kept)
  BY <1>2, <1>3 DEF IdsOf
<1>6. \A x \in Committed(r) : \E y \in kept : x.id = y.id /\ x.parent = parent(y)
  BY <1>2, <1>3
<1> QED BY <1>4, <1>5, <1>6 DEF kept

(* Whatever a run commits has its lineage.                                 *)
LEMMA CommitsAreLinked ==
  ASSUME TransactionsFollow, RunsRead, LineageFollows, NEW r \in Runs, at[r] \in Writing
  PROVE  Linked(Committed(r))
<1>1. HasListed(r)
  BY DEF Writing, HasListed
<1>2. Linked(Drafted(r))
  BY <1>1, DraftedAre, ChunksAre
<1> SUFFICES ASSUME NEW x \in Committed(r) PROVE x.parent = ParentOf(text, x.id)
  BY DEF Linked
<1>3. PICK y \in {z \in rows : z.id \notin IdsOf(Stale(r))} \cup New(r) :
        /\ x.id = y.id
        /\ x.parent = IF y.id \in IdsOf(Refreshed(r))
                      THEN (CHOOSE d \in Refreshed(r) : d.id = y.id).parent ELSE y.parent
  BY CommittedIs
<1>4. CASE y.id \in IdsOf(Refreshed(r))
  <2> DEFINE d == CHOOSE e \in Refreshed(r) : e.id = y.id
  <2>1. d \in Refreshed(r) /\ d.id = y.id
    BY <1>4 DEF IdsOf
  <2>2. d \in Drafted(r)
    BY <2>1 DEF Refreshed
  <2> QED BY <1>2, <1>3, <1>4, <2>1, <2>2 DEF Linked
<1>5. CASE y \in New(r) /\ y.id \notin IdsOf(Refreshed(r))
  BY <1>2, <1>3, <1>5 DEF New, Linked
<1>6. CASE y \in rows /\ y.id \notin IdsOf(Stale(r)) /\ y.id \notin IdsOf(Refreshed(r))
  <2>1. CASE Linked(rows)
    BY <1>3, <1>6, <2>1 DEF Linked
  <2>2. CASE Identity(existing[r]) = Identity(rows)
    <3>1. <<y.id, y.parent>> \in Identity(existing[r])
      BY <1>6, <2>2 DEF Identity
    <3>2. PICK e \in existing[r] : e.id = y.id /\ e.parent = y.parent
      BY <3>1 DEF Identity
    <3>3. e.id \in IdsOf(Drafted(r))
      BY <1>6, <3>2 DEF Stale, IdsOf
    <3>4. PICK d \in Drafted(r) : d.id = e.id
      BY <3>3 DEF IdsOf
    <3>5. d.parent = e.parent
      BY <1>6, <3>2, <3>4 DEF Refreshed, IdsOf
    <3> QED BY <1>2, <1>3, <1>6, <3>2, <3>4, <3>5 DEF Linked
  <2> QED BY <1>1, <2>1, <2>2 DEF LineageFollows
<1> QED BY <1>3, <1>4, <1>5, <1>6

(* The flush succeeds only where the listed chunks, or the run's own, are  *)
(* the ones that are there.                                                *)
LEMMA FlushMeetsListed ==
  ASSUME FewOverlap, RunsRead, WholeChunkings, ListsWhatIsThere, NEW r \in Runs,
         HasListed(r), Replaceable(r), Replaces(r)
  PROVE  IdsOf(rows) = IdsOf(existing[r])
<1> DEFINE v == runs_on[r]
<1>1. v \in 1..Len(Releases) /\ IdsOf(Drafted(r)) = Ids(v)
  BY DraftedAre
<1>2. CASE \A s, q \in Runs : s = q
  BY <1>2 DEF ListsWhatIsThere
<1>3. CASE rows = {}
  BY <1>3 DEF ListsWhatIsThere, IdsOf
<1>4. ASSUME NEW w \in 1..Len(Releases), IdsOf(rows) = Ids(w), Len(Releases) <= 2
      PROVE  IdsOf(rows) = IdsOf(existing[r])
  <2>1. \A i \in IdsOf(rows) : i \notin IdsOf(Stale(r)) =>
          \A j \in IdsOf(New(r)) : i[1] # j[1]
    BY DEF Replaceable, IdsOf, Stale
  <2>2. CASE existing[r] = {}
    <3>1. IdsOf(New(r)) = Ids(v) /\ IdsOf(Stale(r)) = {}
      BY <1>1, <2>2, WorkIds DEF IdsOf
    <3>2. (\E i \in Ids(v) : i[1] = 1) /\ (\E i \in Ids(w) : i[1] = 1)
      BY <1>1, ChunksAre
    <3> QED BY <1>4, <2>1, <3>1, <3>2
  <2>3. ASSUME NEW u \in 1..Len(Releases), IdsOf(existing[r]) = Ids(u)
        PROVE  IdsOf(rows) = IdsOf(existing[r])
    <3>1. Ids(u) # Ids(v)
      BY <1>1, <2>3 DEF Replaces
    <3>2. CASE w = u
      BY <1>4, <2>3, <3>2
    <3>3. CASE w # u
      <4>1. w = v
        <5>1. u # v
          BY <3>1
        <5>2. Len(Releases) \in Nat
          BY ReleasesAssumption, LenProperties
        <5> QED BY <1>1, <1>4, <3>3, <5>1, <5>2
      <4>2. ~(Ids(v) \subseteq Ids(u))
        BY <1>1, <3>1, ChunkingsAreWhole
      <4>3. PICK i \in Ids(v) : i \notin Ids(u)
        BY <4>2
      <4>4. i \in IdsOf(New(r)) /\ i \in IdsOf(rows) /\ i \notin IdsOf(Stale(r))
        BY <1>1, <1>4, <2>3, <4>1, <4>3, WorkIds
      <4> QED BY <2>1, <4>4
    <3> QED BY <3>2, <3>3
  <2> QED BY <2>2, <2>3 DEF WholeChunkings
<1> QED BY <1>2, <1>3, <1>4 DEF WholeChunkings, FewOverlap

(* Two transactions that replace what is there replace the same chunks.    *)
LEMMA OneReplaces ==
  ASSUME FewOverlap, RunsRead, TransactionsFollow, HeldApart, WholeChunkings,
         ReplacesWhatIsThere, ListsWhatIsThere, NEW r \in Runs, NEW s \in Runs, r # s,
         at[r] \in Writing, at[s] \in Writing, Replaces(r), Replaces(s)
  PROVE  FALSE
<1>1. HasListed(r) /\ HasListed(s)
  BY DEF Writing, HasListed
<1>2. IdsOf(existing[r]) = IdsOf(rows) /\ IdsOf(existing[s]) = IdsOf(rows)
  BY DEF ReplacesWhatIsThere
<1>3. /\ runs_on[r] \in 1..Len(Releases) /\ IdsOf(Drafted(r)) = Ids(runs_on[r])
      /\ runs_on[s] \in 1..Len(Releases) /\ IdsOf(Drafted(s)) = Ids(runs_on[s])
  BY <1>1, DraftedAre
<1>4. ASSUME NEW q \in Runs, at[q] \in Writing, NEW i \in IdsOf(New(q)) PROVE i[1] \in Held(q)
  <2>1. PICK m : pending[q] = [removed |-> IdsOf(Stale(q)), refreshed |-> Refreshed(q),
                               inserted |-> New(q), marked |-> m]
    BY <1>4, WritingFollows
  <2> QED BY <2>1 DEF Held, IdsOf
<1>5. \A i \in IdsOf(New(r)), j \in IdsOf(New(s)) : i[1] # j[1]
  BY <1>4 DEF HeldApart
<1>6. CASE rows = {}
  <2>1. IdsOf(rows) = {}
    BY <1>6 DEF IdsOf
  <2>2. IdsOf(New(r)) = Ids(runs_on[r]) /\ IdsOf(New(s)) = Ids(runs_on[s])
    BY <1>2, <1>3, <2>1, WorkIds
  <2> QED BY <1>3, <1>5, <2>2, ChunksAre
<1>7. ASSUME NEW u \in 1..Len(Releases), IdsOf(rows) = Ids(u) PROVE FALSE
  <2>1. Ids(u) # Ids(runs_on[r]) /\ Ids(u) # Ids(runs_on[s])
    BY <1>2, <1>3, <1>7 DEF Replaces
  <2>2. Len(Releases) <= 2 /\ Len(Releases) \in Nat
    BY ReleasesAssumption, LenProperties DEF FewOverlap
  <2>3. runs_on[r] = runs_on[s]
    <3>1. u # runs_on[r] /\ u # runs_on[s]
      BY <2>1
    <3> QED BY <1>3, <1>7, <2>2, <3>1
  <2>4. ~(Ids(runs_on[r]) \subseteq Ids(u))
    BY <1>3, <2>1, ChunkingsAreWhole
  <2>5. PICK i \in Ids(runs_on[r]) : i \notin Ids(u)
    BY <2>4
  <2>6. i \in IdsOf(New(r)) /\ i \in IdsOf(New(s))
    BY <1>2, <1>3, <1>7, <2>3, <2>5, WorkIds
  <2> QED BY <1>5, <2>6
<1> QED BY <1>6, <1>7 DEF WholeChunkings

LEMMA BareRows ==
  ASSUME NEW drafts, NEW embedded
  PROVE  \A x \in RowsOf(drafts) :
           LET y == [x EXCEPT !.parent = NoClause, !.embedded = embedded]
           IN y.id = x.id /\ y.parent = NoClause
<1> SUFFICES ASSUME NEW k \in 1..Len(drafts),
                    NEW x,
                    x = [id |-> <<k, drafts[k].from, drafts[k].to>>,
                         parent |-> drafts[k].parent, embedded |-> FALSE]
             PROVE  LET y == [x EXCEPT !.parent = NoClause, !.embedded = embedded]
                    IN y.id = x.id /\ y.parent = NoClause
  BY DEF RowsOf
<1> QED OBVIOUS

LEMMA FirstRelease == 1 \in 1..Len(Releases)
BY ReleasesAssumption, EmptySeq, LenProperties

LEMMA ChunkingInit == Init => ChunkingInv
<1> SUFFICES ASSUME Init PROVE ChunkingInv
  OBVIOUS
<1>1. \A r \in Runs : ~HasListed(r) /\ at[r] \notin Writing
  BY DEF Init, HasListed, Writing
<1>2. rows = {} \/ (1 \in 1..Len(Releases) /\ IdsOf(rows) = Ids(1) /\ Bare(rows))
  <2> SUFFICES ASSUME NEW embedded \in BOOLEAN,
                      rows = {[x EXCEPT !.parent = NoClause, !.embedded = embedded] :
                                x \in Chunks(text, 1)}
               PROVE  IdsOf(rows) = Ids(1) /\ Bare(rows)
    BY FirstRelease DEF Init
  <2> DEFINE bare(x) == [x EXCEPT !.parent = NoClause, !.embedded = embedded]
  <2>2. \A x \in Chunks(text, 1) : bare(x).id = x.id /\ bare(x).parent = NoClause
    BY BareRows DEF Chunks
  <2>3. rows = {bare(x) : x \in Chunks(text, 1)}
    OBVIOUS
  <2> HIDE DEF bare
  <2> DEFINE C == Chunks(text, 1)
  <2>4. \A x \in C : bare(x).id = x.id /\ bare(x).parent = NoClause
    BY <2>2
  <2>5. rows = {bare(x) : x \in C}
    BY <2>3
  <2> HIDE DEF C
  <2>6. IdsOf(rows) = {x.id : x \in C}
    <3>1. \A y \in rows : \E x \in C : y.id = x.id
      BY <2>4, <2>5
    <3>2. \A x \in C : \E y \in rows : y.id = x.id
      BY <2>4, <2>5
    <3>3. ASSUME NEW i \in IdsOf(rows) PROVE i \in {x.id : x \in C}
      <4>1. PICK y \in rows : i = y.id
        BY DEF IdsOf
      <4>2. PICK x \in C : y.id = x.id
        BY <3>1
      <4> QED BY <4>1, <4>2
    <3>4. ASSUME NEW i \in {x.id : x \in C} PROVE i \in IdsOf(rows)
      <4>1. PICK x \in C : i = x.id
        OBVIOUS
      <4>2. PICK y \in rows : y.id = x.id
        BY <3>2
      <4> QED BY <4>1, <4>2 DEF IdsOf
    <3> QED BY <3>3, <3>4
  <2>7. Bare(rows)
    BY <2>4, <2>5 DEF Bare
  <2> QED BY <2>6, <2>7 DEF Ids, IdsOf, C
<1>3. WholeChunkings
  BY <1>1, <1>2 DEF WholeChunkings
<1>4. LineageFollows
  BY <1>1, <1>2 DEF LineageFollows, Bare
<1> QED BY <1>1, <1>3, <1>4 DEF ChunkingInv, ReplacesWhatIsThere, ListsWhatIsThere

(* A step that leaves the rows alone, if what it lets be written replaces  *)
(* what is there.                                                          *)
LEMMA RowsStay ==
  ASSUME ChunkingInv, rows' = rows, text' = text,
         \A s \in Runs : HasListed(s)' =>
           /\ HasListed(s) /\ existing'[s] = existing[s] /\ loop'[s] = loop[s]
           /\ at'[s] \in Writing =>
                at[s] \in Writing \/ (Replaces(s) => IdsOf(rows) = IdsOf(existing[s]))
  PROVE  ChunkingInv'
<1>1. ASSUME NEW s \in Runs, HasListed(s)'
      PROVE  /\ HasListed(s) /\ existing'[s] = existing[s] /\ Drafted(s)' = Drafted(s)
             /\ at'[s] \in Writing =>
                  at[s] \in Writing \/ (Replaces(s) => IdsOf(rows) = IdsOf(existing[s]))
  BY <1>1, SameWork
<1>2. \A v : Ids(v)' = Ids(v)
  BY DEF Ids, Chunks
<1>3. WholeChunkings'
  BY <1>1, <1>2 DEF ChunkingInv, WholeChunkings
<1>4. LineageFollows'
  BY <1>1 DEF ChunkingInv, LineageFollows, Linked, Bare
<1>5. ListsWhatIsThere'
  BY <1>1 DEF ChunkingInv, ListsWhatIsThere
<1>6. ASSUME NEW s \in Runs, (at[s] \in Writing)', Replaces(s)'
      PROVE  (IdsOf(rows) = IdsOf(existing[s]))'
  <2>1. HasListed(s)'
    BY <1>6 DEF HasListed, Writing
  <2>2. Replaces(s)
    BY <1>1, <1>6, <2>1 DEF Replaces
  <2> QED BY <1>1, <1>6, <2>1, <2>2 DEF ChunkingInv, ReplacesWhatIsThere
<1>7. ReplacesWhatIsThere'
  BY <1>6 DEF ReplacesWhatIsThere
<1> QED BY <1>3, <1>4, <1>5, <1>7 DEF ChunkingInv

(* A run that lists the rows knows what is there.                          *)
LEMMA ListingKeeps ==
  ASSUME LocalsAreFunctions, ChunkingInv, NEW r \in Runs, ListChunks(r)
  PROVE  ChunkingInv'
<1>1. /\ Alone(r) /\ at'[r] = "listed" /\ existing'[r] = rows
      /\ rows' = rows /\ text' = text
  BY IndexSteps DEF ListChunks, document
<1>2. \A v : Ids(v)' = Ids(v)
  BY <1>1 DEF Ids, Chunks
<1>3. ASSUME NEW s \in Runs \ {r}
      PROVE  /\ HasListed(s)' <=> HasListed(s)
             /\ at'[s] = at[s] /\ existing'[s] = existing[s] /\ Drafted(s)' = Drafted(s)
  BY <1>1, SameWork DEF Alone, HasListed
<1>4. WholeChunkings'
  <2>1. ASSUME NEW s \in Runs, HasListed(s)'
        PROVE  (existing[s] = {} \/ \E v \in 1..Len(Releases) : IdsOf(existing[s]) = Ids(v))'
    BY <1>1, <1>2, <1>3, <2>1 DEF ChunkingInv, WholeChunkings
  <2> QED BY <1>1, <1>2, <2>1 DEF ChunkingInv, WholeChunkings
<1>5. LineageFollows'
  <2>1. CASE Linked(rows)
    BY <1>1, <2>1 DEF LineageFollows, Linked
  <2>2. CASE /\ Bare(rows)
             /\ \A s \in Runs : HasListed(s) => Identity(existing[s]) = Identity(rows)
    <3>1. \A s \in Runs : HasListed(s)' => Identity(existing'[s]) = Identity(rows)
      BY <1>1, <1>3, <2>2
    <3> QED BY <1>1, <2>2, <3>1 DEF LineageFollows, Bare
  <2> QED BY <2>1, <2>2 DEF ChunkingInv, LineageFollows
<1>6. ListsWhatIsThere'
  BY <1>1, <1>3 DEF ChunkingInv, ListsWhatIsThere
<1>7. ReplacesWhatIsThere'
  <2>1. ASSUME NEW s \in Runs, (at[s] \in Writing)', Replaces(s)'
        PROVE  (IdsOf(rows) = IdsOf(existing[s]))'
    <3>1. s # r
      BY <1>1, <2>1 DEF Writing
    <3>2. at[s] \in Writing /\ Replaces(s)
      BY <1>3, <2>1, <3>1 DEF Replaces
    <3> QED BY <1>1, <1>3, <3>1, <3>2 DEF ChunkingInv, ReplacesWhatIsThere
  <2> QED BY <2>1 DEF ReplacesWhatIsThere
<1> QED BY <1>4, <1>5, <1>6, <1>7 DEF ChunkingInv

(* A commit leaves the rows' chunking, or the run's own in its place.      *)
LEMMA CommitIds ==
  ASSUME TransactionsFollow, RunsRead, ReplacesWhatIsThere, NEW r \in Runs, at[r] \in Writing
  PROVE  /\ Replaces(r) => IdsOf(Committed(r)) = Ids(runs_on[r])
         /\ ~Replaces(r) => IdsOf(Committed(r)) = IdsOf(rows)
         /\ runs_on[r] \in 1..Len(Releases)
<1>1. /\ IdsOf(Drafted(r)) = Ids(runs_on[r]) /\ runs_on[r] \in 1..Len(Releases)
  BY DraftedAre DEF HasListed, Writing
<1>2. IdsOf(Committed(r)) = (IdsOf(rows) \ IdsOf(Stale(r))) \cup IdsOf(New(r))
  BY CommittedIs
<1>3. CASE Replaces(r)
  <2>1. IdsOf(rows) = IdsOf(existing[r])
    BY <1>3 DEF ReplacesWhatIsThere
  <2> QED BY <1>1, <1>2, <1>3, <2>1, WorkIds
<1>4. CASE ~Replaces(r)
  BY <1>1, <1>2, <1>4, WorkIds DEF Replaces
<1> QED BY <1>1, <1>3, <1>4

LEMMA FinishKeeps ==
  ASSUME FewOverlap, LocalsAreFunctions, TransactionsFollow, HeldApart, RunsRead, ChunkingInv,
         NEW r \in Runs, Finish(r)
  PROVE  ChunkingInv'
<1> USE DEF ChunkingInv
<1>1. /\ Alone(r) /\ at[r] \in Writing /\ HasListed(r) /\ at'[r] = "idle"
      /\ rows' = Committed(r) /\ text' = text
  BY IndexSteps DEF Finish, Writing, HasListed
<1>2. \A v : Ids(v)' = Ids(v)
  BY <1>1 DEF Ids, Chunks
<1>3. ASSUME NEW s \in Runs, HasListed(s)'
      PROVE  /\ s # r /\ HasListed(s) /\ at'[s] = at[s] /\ existing'[s] = existing[s]
             /\ Drafted(s)' = Drafted(s)
  <2>1. s # r
    BY <1>1, <1>3 DEF HasListed
  <2> QED BY <1>1, <1>3, <2>1, SameWork DEF Alone, HasListed
<1>4. /\ IdsOf(rows') = Ids(runs_on[r]) \/ (IdsOf(rows') = IdsOf(rows) /\ ~Replaces(r))
      /\ runs_on[r] \in 1..Len(Releases)
  BY <1>1, CommitIds
<1>5. rows' # {}
  <2>1. CASE IdsOf(rows') = Ids(runs_on[r])
    BY <1>4, <2>1, ChunksAre DEF IdsOf
  <2>2. CASE IdsOf(rows') = IdsOf(rows) /\ ~Replaces(r)
    <3>1. existing[r] # {}
      <4>1. IdsOf(existing[r]) = Ids(runs_on[r])
        BY <1>1, <2>2, DraftedAre DEF Replaces
      <4> QED BY <1>4, <4>1, ChunksAre DEF IdsOf
    <3>2. rows # {}
      BY <1>1, <3>1 DEF ListsWhatIsThere
    <3> QED BY <2>2, <3>2 DEF IdsOf
  <2> QED BY <1>4, <2>1, <2>2
<1>6. WholeChunkings'
  <2>1. rows' = {} \/ \E v \in 1..Len(Releases) : IdsOf(rows') = Ids(v)
    <3>1. CASE rows = {}
      <4>1. IdsOf(rows) = {} /\ IdsOf(rows') # {}
        BY <1>5, <3>1 DEF IdsOf
      <4> QED BY <1>4, <4>1
    <3>2. CASE rows # {}
      BY <1>4, <3>2 DEF WholeChunkings
    <3> QED BY <3>1, <3>2
  <2> QED BY <1>2, <1>3, <2>1 DEF WholeChunkings
<1>7. LineageFollows'
  <2>1. Linked(rows')
    BY <1>1, CommitsAreLinked
  <2> QED BY <1>1, <2>1 DEF LineageFollows, Linked
<1>8. ListsWhatIsThere'
  BY <1>3, <1>5 DEF ListsWhatIsThere
<1>9. ReplacesWhatIsThere'
  <2> SUFFICES ASSUME NEW s \in Runs, (at[s] \in Writing)', Replaces(s)'
               PROVE  (IdsOf(rows) = IdsOf(existing[s]))'
    BY DEF ReplacesWhatIsThere
  <2>1. HasListed(s)'
    BY DEF HasListed, Writing
  <2>2. s # r /\ at[s] \in Writing /\ Replaces(s) /\ existing'[s] = existing[s]
    BY <1>3, <2>1 DEF Replaces
  <2>3. ~Replaces(r)
    BY <1>1, <2>2, OneReplaces
  <2>4. IdsOf(rows') = IdsOf(rows)
    BY <1>1, <2>3, CommitIds
  <2> QED BY <2>2, <2>4 DEF ReplacesWhatIsThere
<1> QED BY <1>6, <1>7, <1>8, <1>9

LEMMA ChunkingNext ==
  ASSUME FewOverlap, LocalsAreFunctions, TransactionsFollow, HeldApart, RunsRead, ChunkingInv,
         [Next]_vars
  PROVE  ChunkingInv'
<1>1. ASSUME NEW r \in Runs, Begin(r) \/ ChunkLine(r) \/ Forget(r), rows' = rows, text' = text
      PROVE  ChunkingInv'
  <2>1. Alone(r) /\ at'[r] \in {"idle", "chunking"}
    <3>1. CASE Begin(r)
      BY <3>1, IndexSteps DEF Moves
    <3>2. CASE ChunkLine(r) \/ Forget(r)
      BY <3>2, IndexSteps
    <3> QED BY <1>1, <3>1, <3>2
  <2> QED BY <1>1, <2>1, RowsStay DEF Alone, HasListed
<1>2. ASSUME NEW r \in Runs, ReplaceChunks(r) PROVE ChunkingInv'
  <2>1. /\ Alone(r) /\ at[r] = "listed" /\ at'[r] = "written"
        /\ existing'[r] = existing[r] /\ loop'[r] = loop[r]
    BY <1>2, IndexSteps
  <2>2. rows' = rows /\ text' = text /\ Replaceable(r)
    BY <1>2 DEF ReplaceChunks, document
  <2>3. Replaces(r) => IdsOf(rows) = IdsOf(existing[r])
    BY <2>1, <2>2, FlushMeetsListed DEF HasListed, ChunkingInv
  <2> QED BY <2>1, <2>2, <2>3, RowsStay DEF Alone, HasListed
<1>3. ASSUME NEW r \in Runs,
             DeleteVectors(r) \/ EmbedNothing(r) \/ Embed(r) \/ MarkEmbedded(r)
      PROVE  ChunkingInv'
  <2>1. /\ Alone(r) /\ at[r] \in Writing /\ existing'[r] = existing[r] /\ loop'[r] = loop[r]
    <3>1. CASE MarkEmbedded(r)
      BY <3>1, IndexSteps DEF Writing
    <3>2. CASE DeleteVectors(r) \/ EmbedNothing(r) \/ Embed(r)
      BY <3>2, IndexSteps DEF Moves, Writing
    <3> QED BY <1>3, <3>1, <3>2
  <2>2. rows' = rows /\ text' = text
    BY <1>3 DEF DeleteVectors, EmbedNothing, Embed, MarkEmbedded, document
  <2> QED BY <2>1, <2>2, RowsStay DEF Alone, HasListed, Writing
<1>4. CASE Deploy \/ RollBack \/ UNCHANGED vars
  <2>1. UNCHANGED <<locals, rows, text>>
    BY <1>4 DEF Deploy, RollBack, vars, document
  <2> QED BY <2>1, RowsStay DEF locals, HasListed
<1>5. ASSUME NEW r \in Runs, Fail(r) \/ Crash(r) PROVE ChunkingInv'
  BY <1>1, <1>5 DEF Fail, Crash, Lost
<1>6. ASSUME NEW r \in Runs, Begin(r) \/ ChunkLine(r) PROVE ChunkingInv'
  BY <1>1, <1>6 DEF Begin, ChunkLine, document
<1> QED BY <1>2, <1>3, <1>4, <1>5, <1>6, ListingKeeps, FinishKeeps DEF Next

(* The committed rows are one release's chunking of the whole text, with   *)
(* or without lineage, as long as there are two releases or no two runs    *)
(* overlap: "a retried or re-run job overwrites cleanly"                   *)
(* (process_document).  Three releases can leave a mixture.                *)
THEOREM RowsStayWhole ==
  ASSUME FewOverlap
  PROVE  Spec => []RowsAreOneChunking
<1> DEFINE Inv == IndexInv /\ RunsRead /\ ChunkingInv
<1>1. Inv => RowsAreOneChunking
  <2> SUFFICES ASSUME Inv, NEW v \in 1..Len(Releases), IdsOf(rows) = Ids(v)
               PROVE  \/ Identity(rows) = Identity(Chunks(text, v))
                      \/ Identity(rows) = {<<x.id, NoClause>> : x \in Chunks(text, v)}
    BY DEF ChunkingInv, WholeChunkings, RowsAreOneChunking
  <2>1. Linked(Chunks(text, v))
    BY ChunksAre
  <2>2. CASE Linked(rows)
    <3>1. Identity(rows) = {<<i, ParentOf(text, i)>> : i \in IdsOf(rows)}
      BY <2>2 DEF Linked, Identity, IdsOf
    <3>2. Identity(Chunks(text, v)) = {<<i, ParentOf(text, i)>> : i \in Ids(v)}
      BY <2>1 DEF Linked, Identity, IdsOf, Ids
    <3> QED BY <3>1, <3>2
  <2>3. CASE Bare(rows)
    <3>1. Identity(rows) = {<<i, NoClause>> : i \in IdsOf(rows)}
      BY <2>3 DEF Bare, Identity, IdsOf
    <3>2. {<<x.id, NoClause>> : x \in Chunks(text, v)} = {<<i, NoClause>> : i \in Ids(v)}
      BY DEF Ids, IdsOf
    <3> QED BY <3>1, <3>2
  <2> QED BY <2>2, <2>3 DEF ChunkingInv, LineageFollows
<1>2. Inv /\ [Next]_vars => Inv'
  <2> SUFFICES ASSUME Inv, [Next]_vars PROVE Inv'
    OBVIOUS
  <2>1. IndexInv'
    BY TransactionsFollowNext, HeldApartNext, UpsertedNext, MarkedNext DEF IndexInv
  <2>2. RunsRead' /\ ChunkingInv'
    BY RunsReadNext, ChunkingNext DEF IndexInv
  <2> QED BY <2>1, <2>2
<1>3. Init => Inv
  BY IndexInit, RunsReadInit, ChunkingInit
<1> QED BY <1>1, <1>2, <1>3, PTL DEF Spec

=============================================================================
