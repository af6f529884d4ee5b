---------------------------- MODULE QuoteHighlight ----------------------------
(***************************************************************************)
(* How the PDF viewer finds a quote on a page (pdf-viewer.tsx): the text   *)
(* layer is a list of line fragments without coordinates, and a fragment   *)
(* is marked by comparing its text with the quote's.  A text is a sequence *)
(* of characters, in lower case.                                           *)
(***************************************************************************)
EXTENDS Naturals, Sequences, SequencesExt, FiniteSetsExt

CONSTANTS
  Space,
  MinOverlap,   (* MIN_OVERLAP                                              *)
  MinItem       (* what a fragment inside the quote must have               *)

ASSUME OverlapAssumption == MinOverlap \in Nat \ {0} /\ MinItem \in 1..MinOverlap

AtBlank(t) == t = <<>> \/ t[Len(t)] = Space

Collapse(t, c) == IF c = Space /\ AtBlank(t) THEN t ELSE Append(t, c)

Trim(t) == IF t # <<>> /\ AtBlank(t) THEN Front(t) ELSE t

(* Whitespace at the ends goes, a run of it becomes one.                   *)
normalize(s) ==
  LET collapsed[k \in 0..Len(s)] == IF k = 0 THEN <<>> ELSE Collapse(collapsed[k - 1], s[k])
  IN Trim(collapsed[Len(s)])

Includes(s, t) ==
  \E k \in 0..Len(s) : k + Len(t) <= Len(s) /\ SubSeq(s, k + 1, k + Len(t)) = t

Leading(s, n) == SubSeq(s, 1, n)
Trailing(s, n) == SubSeq(s, Len(s) - n + 1, Len(s))

(* Fault: only the beginning of a quote is looked for.                     *)
headOverlap(item, quote) ==
  \E n \in MinOverlap..Len(item) : n <= Len(quote) /\ Trailing(item, n) = Leading(quote, n)

(* The end of the fragment begins the quote, or its start ends it.         *)
edgeOverlap(item, quote) ==
  \E n \in MinOverlap..Len(item) :
    n <= Len(quote) /\ (Trailing(item, n) = Leading(quote, n) \/ Leading(item, n) = Trailing(quote, n))

itemMatchesQuote(item, quote) ==
  \/ Len(item) >= MinItem /\ Includes(quote, item)
  \/ Includes(item, quote)
  \/ edgeOverlap(item, quote)

(* quote is normalized once, for all the fragments of a page.              *)
highlightQuote(str, quote) ==
  LET item == normalize(str)
  IN Len(quote) >= MinOverlap /\ item # <<>> /\ itemMatchesQuote(item, quote)

-----------------------------------------------------------------------------
(* The reference: a page is its fragments one after another, and a quote   *)
(* the stretch of it from one character to another.                        *)

PageText(lines) ==
  LET upto[k \in 0..Len(lines)] ==
        IF k = 0 THEN <<>> ELSE upto[k - 1] \o <<Space>> \o lines[k]
  IN upto[Len(lines)]

(* The characters of PageText that a fragment holds, and those it shares   *)
(* with the quote.                                                         *)
PlaceOf(lines, i) ==
  LET before == Len(PageText(SubSeq(lines, 1, i - 1))) + 1
  IN before + 1..before + Len(lines[i])

(* Fragments of the quote that the reader must see marked: enough of it, a *)
(* whole fragment that is not too short, or the whole quote.               *)
Evident(lines, i, from, to) ==
  LET text == PageText(lines)
      shared == PlaceOf(lines, i) \cap from..to
      quote == normalize(SubSeq(text, from, to))
      read == IF shared = {} THEN <<>> ELSE normalize(SubSeq(text, Min(shared), Max(shared)))
  IN /\ Len(quote) >= MinOverlap
     /\ \/ Len(read) >= MinOverlap
        \/ Len(read) >= MinItem /\ read = normalize(lines[i])
        \/ read = quote

(* What a mark on a fragment is worth: that many characters of the quote.  *)
Shares(line, quote) ==
  LET item == normalize(line)
  IN \E a \in 1..Len(item) :
       a + MinItem - 1 <= Len(item) /\ Includes(quote, SubSeq(item, a, a + MinItem - 1))

=============================================================================
