------------------------------- MODULE Chunking -------------------------------
(***************************************************************************)
(* chunk_pages: the loop that cuts the extracted lines of a document into  *)
(* clause-aware chunks.  A text is the sequence of its lines that are not  *)
(* blank; of a line only its page, its estimated tokens and the clause it  *)
(* starts matter.  A clause number is the sequence of its parts, S14.8     *)
(* being <<14, 8>>, and <<>> is no clause.  The text of a chunk is the     *)
(* interval of lines it joins.                                             *)
(***************************************************************************)
EXTENDS Integers, Sequences

NoClause == <<>>

(* What of the chunker's constants a deployment can change: MIN_CHUNK_     *)
(* TOKENS, SOFT_TARGET_TOKENS and MAX_CHUNK_TOKENS.                        *)
Limits == {c \in [min: Nat, soft: Nat, max: Nat] : c.min <= c.soft /\ c.soft <= c.max}

clause_ancestors(clause) == {SubSeq(clause, 1, k) : k \in 1..(Len(clause) - 1)}

(* clause_lineage: the printed ancestors are the section path (with the    *)
(* clause itself), the nearest of them is the parent.                      *)
parent_clause(clause, headings_seen) ==
  LET known == clause_ancestors(clause) \cap headings_seen
  IN IF known = {} THEN NoClause
     ELSE CHOOSE p \in known : \A q \in known : Len(q) <= Len(p)

(* The chunk being filled; from = 0 when there is none.                    *)
Closed == [from |-> 0, to |-> 0, tokens |-> 0, page_start |-> 0, page_end |-> 0, clause |-> NoClause]

(* The variables of the loop; line is the next line to read.               *)
Start == [line |-> 1, drafts |-> <<>>, current |-> Closed, active |-> NoClause, seen |-> {}]

IsOpen(s) == s.current.from # 0

Draft(s) ==
  [from |-> s.current.from, to |-> s.current.to, tokens |-> s.current.tokens,
   page_start |-> s.current.page_start, page_end |-> s.current.page_end,
   clause |-> s.current.clause, parent |-> parent_clause(s.current.clause, s.seen)]

(* Fault: the chunk just emitted stays open.                               *)
FlushKeeping(s) ==
  IF IsOpen(s) THEN [s EXCEPT !.drafts = Append(s.drafts, Draft(s))] ELSE s

Flush(s) ==
  IF IsOpen(s) THEN [s EXCEPT !.drafts = Append(s.drafts, Draft(s)), !.current = Closed] ELSE s

FlushIf(condition, s) == IF condition THEN Flush(s) ELSE s

(* A heading closes a chunk that can stand alone, and names what follows.  *)
ReadHeading(s, l, c) ==
  IF l.clause = NoClause THEN s
  ELSE LET before == FlushIf(s.current.tokens >= c.min, s)
       IN [before EXCEPT !.active = l.clause, !.seen = s.seen \cup {l.clause}]

(* Fault: also a chunk that cannot stand alone.                            *)
MakeRoomAlways(s, l, c) == FlushIf(s.current.tokens + l.tokens > c.max, s)

(* So does a line that would not fit any more.                             *)
MakeRoom(s, l, c) ==
  FlushIf(s.current.tokens + l.tokens > c.max /\ s.current.tokens >= c.min, s)

Open(s, l) ==
  IF IsOpen(s) THEN s
  ELSE [s EXCEPT !.current =
          [from |-> s.line, to |-> s.line, tokens |-> 0,
           page_start |-> l.page, page_end |-> l.page, clause |-> s.active]]

Add(s, l) ==
  [s EXCEPT !.line = s.line + 1,
            !.current = [from |-> s.current.from, to |-> s.line,
                         tokens |-> s.current.tokens + l.tokens,
                         page_start |-> s.current.page_start, page_end |-> l.page,
                         clause |-> s.current.clause]]

(* One line of the text.                                                   *)
ReadLine(s, l, c) ==
  LET added == Add(Open(MakeRoom(ReadHeading(s, l, c), l, c), l), l)
  IN FlushIf(added.current.tokens >= c.soft, added)

(* The loop after each number of lines.                                    *)
ReadLines(text, c) ==
  LET loop[n \in 0..Len(text)] == IF n = 0 THEN Start ELSE ReadLine(loop[n - 1], text[n], c)
  IN loop

(* The whole text, and the last chunk flushed whatever its size.           *)
chunk_pages(text, c) == Flush(ReadLines(text, c)[Len(text)]).drafts

=============================================================================
