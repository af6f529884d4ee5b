----------------------------- MODULE AnswersProofs -----------------------------
(***************************************************************************)
(* Proofs about Answers and Extraction.  No sentinel, set of completions,  *)
(* or way to cut them into deltas makes a draft show the claims block or   *)
(* anything but the text in its order; no order of events changes an       *)
(* exchange that is settled; no set of claims makes an answer that is      *)
(* shown say more of its sources than was verified; no order of requests   *)
(* makes the limiter admit too many or name a wrong wait; no two legs and  *)
(* no reply of a reranker lose, repeat or misplace a candidate; no reply   *)
(* makes an extraction save an item without its quotes or one twice.       *)
(***************************************************************************)
EXTENDS Answers, Extraction, NaturalFacts, SequenceTheorems, FiniteSetTheorems, TLAPS

-----------------------------------------------------------------------------
(* Positions of the sentinel.                                              *)

(* raw.find(CLAIMS_SENTINEL) finds it, and no earlier one.                 *)
LEMMA FirstSentinelIsFirst ==
  ASSUME NEW text \in Seq(Symbols), HasSentinel(text)
  PROVE  /\ FirstSentinel(text) \in SentinelAt(text)
         /\ \A q \in SentinelAt(text) : FirstSentinel(text) <= q
<1>1. SentinelAt(text) \in SUBSET Nat
  BY AnswersAssumption DEF SentinelAt
<1>2. \E p \in SentinelAt(text) : \A q \in SentinelAt(text) : p <= q
  BY <1>1, SmallestExists DEF HasSentinel
<1> QED BY <1>2 DEF FirstSentinel

(* A delta changes nothing of the windows within what there was before.    *)
LEMMA OldWindow ==
  ASSUME NEW text \in Seq(Symbols), NEW delta \in Seq(Symbols), NEW p \in Nat, p >= 1,
         p + Len(Sentinel) - 1 <= Len(text)
  PROVE  p \in SentinelAt(text) <=> p \in SentinelAt(text \o delta)
<1> DEFINE L == Len(Sentinel)
           new == text \o delta
<1>1. L \in Nat /\ L > 0
  BY AnswersAssumption, VerificationAssumption, EmptySeq, LenProperties
<1>2. /\ new \in Seq(Symbols) /\ Len(new) = Len(text) + Len(delta)
      /\ \A i \in 1..Len(text) : new[i] = text[i]
  BY ConcatProperties, LenProperties
<1>3. p \in 1..(Len(text) - L + 1) /\ p \in 1..(Len(new) - L + 1)
  BY <1>1, <1>2, LenProperties
<1>4. SubSeq(text, p, p + L - 1) = SubSeq(new, p, p + L - 1)
  <2>1. \A i \in p..(p + L - 1) : new[i] = text[i] /\ text[i] \in Symbols
    BY <1>1, <1>2, <1>3, ElementOfSeq, LenProperties
  <2>2. /\ SubSeq(text, p, p + L - 1) \in Seq(Symbols)
        /\ Len(SubSeq(text, p, p + L - 1)) = L
        /\ \A i \in 1..L : SubSeq(text, p, p + L - 1)[i] = text[p + i - 1]
    BY <1>1, <2>1, SubSeqProperties
  <2>3. /\ SubSeq(new, p, p + L - 1) \in Seq(Symbols)
        /\ Len(SubSeq(new, p, p + L - 1)) = L
        /\ \A i \in 1..L : SubSeq(new, p, p + L - 1)[i] = new[p + i - 1]
    BY <1>1, <2>1, SubSeqProperties
  <2>4. \A i \in 1..L : SubSeq(text, p, p + L - 1)[i] = SubSeq(new, p, p + L - 1)[i]
    BY <1>1, <2>1, <2>2, <2>3
  <2> QED BY <2>2, <2>3, <2>4, SeqEqual
<1> QED BY <1>3, <1>4 DEF SentinelAt

(* A sentinel ends within its text.                                        *)
LEMMA SentinelEnds ==
  ASSUME NEW text \in Seq(Symbols), NEW p \in SentinelAt(text)
  PROVE  p \in Nat /\ p >= 1 /\ p + Len(Sentinel) - 1 <= Len(text)
BY AnswersAssumption, LenProperties DEF SentinelAt

-----------------------------------------------------------------------------
(* The inductive invariant.  What went out says nothing by itself of a     *)
(* sentinel that is not complete: that one begins in the tail held back    *)
(* needs that the text so far has none.                                    *)

BuffersOK ==
  /\ raw \in Seq(Symbols) /\ emitted \in 0..Len(raw) /\ answer_done \in BOOLEAN

ExchangeFields == {"mode", "status", "draft", "sources", "result", "code"}

(* The panel listens to the exchange it streams, and the server works on   *)
(* that one only.                                                          *)
OneExchange ==
  /\ DOMAIN exchange = ExchangeFields
  /\ connected = Streaming
  /\ ~Streaming => at = "idle"

(* The buffers are those of this request.                                  *)
FreshBuffers ==
  /\ at \notin {"generating", "ended"} => emitted = 0 /\ ~answer_done
  /\ at \notin {"generating", "ended", "idle"} => raw = <<>>

(* Before the sentinel is seen there is none, and a tail is held back.     *)
TailHeldBack ==
  (at = "generating" /\ ~answer_done) =>
    /\ ~HasSentinel(raw)
    /\ emitted = 0 \/ emitted <= Len(raw) - (Len(Sentinel) - 1)

(* What was seen stays.                                                    *)
SentinelSeen == answer_done => HasSentinel(raw)

StreamInv ==
  /\ BuffersOK /\ OneExchange /\ FreshBuffers
  /\ SentinelSeen /\ TailHeldBack /\ ClaimsNeverShown

(* The empty buffers.                                                      *)
LEMMA EmptyBuffers ==
  /\ <<>> \in Seq(Symbols) /\ 0 \in 0..Len(<<>>)
  /\ \A text \in Seq(Symbols) : 0 \in 0..Len(text)
<1>1. <<>> \in Seq(Symbols) /\ Len(<<>>) = 0
  BY EmptySeq
<1>2. \A text \in Seq(Symbols) : Len(text) \in Nat
  BY LenProperties
<1> QED BY <1>1, <1>2

(* The empty text has no sentinel.                                         *)
LEMMA EmptyHasNoSentinel == SentinelAt(<<>>) = {}
<1>1. Len(Sentinel) \in Nat \ {0}
  BY AnswersAssumption, VerificationAssumption, EmptySeq
<1> QED BY <1>1, EmptySeq DEF SentinelAt

LEMMA StreamInit == Init => StreamInv
<1> SUFFICES ASSUME Init PROVE StreamInv
  OBVIOUS
<1>0. raw = <<>> /\ emitted = 0 /\ answer_done = FALSE
  BY DEF Init
<1>1. BuffersOK
  <2>1. raw \in Seq(Symbols) /\ emitted \in 0..Len(raw)
    BY <1>0, EmptyBuffers, Zenon
  <2> QED BY <1>0, <2>1 DEF BuffersOK
<1>2. OneExchange
  BY DEF Init, OneExchange, NoExchange, ExchangeFields, Streaming
<1>3. FreshBuffers
  BY DEF Init, FreshBuffers
<1>4. TailHeldBack
  BY DEF Init, TailHeldBack
<1>5. ClaimsNeverShown
  BY EmptyHasNoSentinel DEF Init, ClaimsNeverShown
<1>6. SentinelSeen
  BY <1>0 DEF SentinelSeen
<1> QED BY <1>1, <1>2, <1>3, <1>4, <1>5, <1>6 DEF StreamInv

(* A step that touches no buffer and does not begin to generate.           *)
LEMMA KeepsBuffers ==
  ASSUME StreamInv, UNCHANGED <<raw, emitted, answer_done>>,
         at' = at \/ at' = "ended" \/ (at # "idle" /\ at # "generating" /\ at # "ended"
                                       /\ at' # "idle"),
         OneExchange'
  PROVE  StreamInv'
<1> USE DEF StreamInv
<1>1. BuffersOK'
  BY DEF BuffersOK
<1>2. FreshBuffers'
  BY DEF FreshBuffers
<1>3. TailHeldBack'
  BY EmptyHasNoSentinel DEF TailHeldBack, FreshBuffers, HasSentinel, SentinelAt
<1>4. ClaimsNeverShown'
  BY DEF ClaimsNeverShown, SentinelAt
<1>5. SentinelSeen'
  BY DEF SentinelSeen, HasSentinel, SentinelAt
<1> QED BY <1>1, <1>2, <1>3, <1>4, <1>5

(* The server's steps leave the panel alone.                               *)
LEMMA ServerKeepsExchange ==
  ASSUME OneExchange, UNCHANGED client, at # "idle" \/ at' = at
  PROVE  OneExchange'
BY DEF OneExchange, client, Streaming

(* An exchange that ends takes its request along.                          *)
LEMMA EndOfExchange ==
  ASSUME StreamInv, Forgotten, raw' = raw \/ raw' = <<>>,
         DOMAIN exchange' = ExchangeFields, exchange'.status # "streaming"
  PROVE  StreamInv'
<1> USE DEF StreamInv, Forgotten
<1>1. BuffersOK'
  <2>1. raw' \in Seq(Symbols) /\ 0 \in 0..Len(raw')
    BY EmptyBuffers, Zenon DEF BuffersOK
  <2> QED BY <2>1 DEF BuffersOK
<1>2. OneExchange'
  BY DEF OneExchange, Streaming
<1>3. FreshBuffers'
  BY DEF FreshBuffers
<1>4. TailHeldBack'
  BY DEF TailHeldBack
<1>5. ClaimsNeverShown'
  BY DEF ClaimsNeverShown, SentinelAt
<1>6. SentinelSeen'
  BY DEF SentinelSeen
<1> QED BY <1>1, <1>2, <1>3, <1>4, <1>5, <1>6

(* A new exchange starts with empty buffers.                               *)
LEMMA SubmitPreserves ==
  ASSUME StreamInv, NEW mode, Submit(mode)
  PROVE  StreamInv'
<1> USE DEF StreamInv, Submit, ForgetAnswer
<1>1. BuffersOK'
  BY EmptySeq DEF BuffersOK, FreshBuffers, OneExchange
<1>2. OneExchange'
  BY DEF OneExchange, Streaming, NoExchange, ExchangeFields
<1>3. FreshBuffers'
  BY DEF FreshBuffers, OneExchange
<1>4. TailHeldBack'
  BY DEF TailHeldBack
<1>5. ClaimsNeverShown'
  BY EmptyHasNoSentinel DEF ClaimsNeverShown, SentinelAt
<1>6. SentinelSeen'
  BY DEF SentinelSeen, OneExchange, FreshBuffers
<1> QED BY <1>1, <1>2, <1>3, <1>4, <1>5, <1>6

(* What a delta adds is of the model's alphabet.                           *)
LEMMA DeltaType ==
  ASSUME NEW text \in Seq(Symbols), NEW delta \in Deltas(text)
  PROVE  delta \in Seq(Symbols)
<1>1. PICK c \in Completions :
        \E n \in (Len(text) + 1)..Len(c) : delta = SubSeq(c, Len(text) + 1, n)
  BY DEF Deltas
<1>2. c \in Seq(Symbols)
  BY <1>1, AnswersAssumption
<1>3. PICK n \in (Len(text) + 1)..Len(c) : delta = SubSeq(c, Len(text) + 1, n)
  BY <1>1
<1>4. \A i \in (Len(text) + 1)..n : c[i] \in Symbols
  BY <1>2, <1>3, ElementOfSeq, LenProperties
<1> QED BY <1>2, <1>3, <1>4, SubSeqProperties, LenProperties

(* How far ReadDelta shows the text: never back, never past the text, and  *)
(* of a text without a sentinel all but the tail.                          *)
LEMMA VisibleBounds ==
  ASSUME NEW text \in Seq(Symbols), NEW sent \in 0..Len(text)
  PROVE  /\ Visible(text, sent) \in Nat /\ Visible(text, sent) <= Len(text)
         /\ HasSentinel(text) =>
              \A p \in SentinelAt(text) : Visible(text, sent) < p
         /\ ~HasSentinel(text) =>
              \/ Visible(text, sent) = sent
              \/ Visible(text, sent) = Len(text) - (Len(Sentinel) - 1)
<1>1. Len(Sentinel) \in Nat \ {0} /\ Len(text) \in Nat
  BY AnswersAssumption, VerificationAssumption, EmptySeq, LenProperties
<1>2. CASE HasSentinel(text)
  <2>1. /\ FirstSentinel(text) \in SentinelAt(text)
        /\ \A q \in SentinelAt(text) : FirstSentinel(text) <= q
    BY <1>2, FirstSentinelIsFirst
  <2>2. /\ FirstSentinel(text) \in 1..Len(text)
        /\ \A q \in SentinelAt(text) : q \in Nat
    BY <1>1, <2>1 DEF SentinelAt
  <2>3. Visible(text, sent) = FirstSentinel(text) - 1
    BY <1>2 DEF Visible
  <2> QED BY <1>1, <1>2, <2>1, <2>2, <2>3
<1>3. CASE ~HasSentinel(text)
  BY <1>1, <1>3 DEF Visible
<1> QED BY <1>2, <1>3

(* Every delta the model sends keeps the claims from the reader: before    *)
(* the sentinel is seen it can only begin in the tail that was held back,  *)
(* and after that nothing more is sent.                                    *)
LEMMA ReadDeltaPreserves ==
  ASSUME StreamInv, NEW delta \in Deltas(raw), ReadDelta(delta)
  PROVE  StreamInv'
<1> DEFINE text == raw \o delta
           L == Len(Sentinel)
           end == IF answer_done THEN emitted ELSE Visible(text, emitted)
<1>1. /\ raw \in Seq(Symbols) /\ emitted \in 0..Len(raw) /\ answer_done \in BOOLEAN
      /\ OneExchange /\ FreshBuffers /\ TailHeldBack /\ ClaimsNeverShown /\ SentinelSeen
      /\ at = "generating" /\ at' = at
  BY DEF StreamInv, BuffersOK, ReadDelta
<1>2. delta \in Seq(Symbols)
  BY <1>1, DeltaType
<1>3. /\ text \in Seq(Symbols) /\ Len(text) \in Nat /\ Len(raw) \in Nat
      /\ Len(raw) <= Len(text) /\ emitted \in 0..Len(text)
      /\ L \in Nat /\ L > 0
  BY <1>1, <1>2, ConcatProperties, LenProperties, AnswersAssumption, VerificationAssumption,
     EmptySeq
<1>4. raw' = text /\ answer_done' = (answer_done \/ HasSentinel(text))
  BY DEF ReadDelta
<1>5. emitted' = IF exchange.mode = "chat" /\ end > emitted THEN end ELSE emitted
  BY DEF ReadDelta
<1>6. /\ Visible(text, emitted) \in Nat /\ Visible(text, emitted) <= Len(text)
      /\ HasSentinel(text) => \A p \in SentinelAt(text) : Visible(text, emitted) < p
      /\ ~HasSentinel(text) => \/ Visible(text, emitted) = emitted
                               \/ Visible(text, emitted) = Len(text) - (L - 1)
  BY <1>3, VisibleBounds
<1> HIDE DEF text, L
<1>7. emitted' \in {emitted, end} /\ end \in 0..Len(text)
  BY <1>3, <1>5, <1>6
<1>8. BuffersOK'
  BY <1>1, <1>3, <1>4, <1>7 DEF BuffersOK
<1>9. OneExchange'
  <2>1. UNCHANGED client
    BY DEF ReadDelta
  <2> QED BY <1>1, <2>1, ServerKeepsExchange
<1>10. FreshBuffers'
  BY <1>1 DEF FreshBuffers
<1>11. \A p \in SentinelAt(text) : emitted < p
  <2> SUFFICES ASSUME NEW p \in SentinelAt(text) PROVE emitted < p
    OBVIOUS
  <2>0. p \in Nat /\ p >= 1
    BY <1>3, SentinelEnds
  <2>1. CASE p + L - 1 <= Len(raw)
    <3>1. p \in SentinelAt(raw)
      BY <1>1, <1>2, <2>0, <2>1, OldWindow DEF text, L
    <3> QED BY <1>1, <3>1 DEF ClaimsNeverShown
  <2>2. CASE p + L - 1 > Len(raw) /\ ~answer_done
    BY <1>1, <1>3, <2>0, <2>2 DEF TailHeldBack, L
  <2>3. CASE p + L - 1 > Len(raw) /\ answer_done
    <3>1. PICK q \in SentinelAt(raw) : TRUE
      BY <1>1, <2>3 DEF SentinelSeen, HasSentinel
    <3>2. emitted < q /\ q \in Nat /\ q + L - 1 <= Len(raw)
      BY <1>1, <3>1, SentinelEnds DEF ClaimsNeverShown, L
    <3> QED BY <1>3, <2>0, <2>3, <3>2
  <2> QED BY <1>1, <1>3, <2>0, <2>1, <2>2, <2>3
<1>12. ClaimsNeverShown'
  BY <1>4, <1>6, <1>7, <1>11 DEF ClaimsNeverShown, SentinelAt, HasSentinel
<1>13. TailHeldBack'
  <2> SUFFICES ASSUME ~answer_done' PROVE ~HasSentinel(text) /\ (emitted' = 0 \/ emitted' <= Len(text) - (L - 1))
    BY <1>4 DEF TailHeldBack, HasSentinel, SentinelAt, L
  <2>1. ~answer_done /\ ~HasSentinel(text)
    BY <1>4
  <2>2. emitted = 0 \/ emitted <= Len(text) - (L - 1)
    BY <1>1, <1>3, <2>1 DEF TailHeldBack, L
  <2>3. emitted' = emitted \/ emitted' = Len(text) - (L - 1)
    BY <1>6, <1>7, <2>1
  <2> QED BY <2>1, <2>2, <2>3, <1>3
<1>14. SentinelSeen'
  <2>1. CASE answer_done
    <3>1. PICK q \in SentinelAt(raw) : TRUE
      BY <1>1, <2>1 DEF SentinelSeen, HasSentinel
    <3>2. q \in SentinelAt(text)
      BY <1>1, <1>2, <3>1, OldWindow, SentinelEnds DEF text
    <3> QED BY <1>4, <3>2 DEF SentinelSeen, HasSentinel, SentinelAt
  <2>2. CASE ~answer_done
    BY <1>4, <2>2 DEF SentinelSeen, HasSentinel, SentinelAt
  <2> QED BY <1>1, <2>1, <2>2
<1> QED BY <1>8, <1>9, <1>10, <1>12, <1>13, <1>14 DEF StreamInv

(* The server's other steps.                                               *)
LEMMA ServerPreserves ==
  ASSUME StreamInv,
         \/ Admit \/ Refuse \/ GenerationDisabled \/ WorkspaceNotFound \/ Abort
         \/ SearchKeywords \/ SearchVectors \/ FetchCandidates \/ AnswerNothing \/ RankSources
         \/ GenerationFails \/ (\E b \in Blocks \cup {None} : Finalize(b))
  PROVE  StreamInv'
<1>1. UNCHANGED <<client, raw, emitted, answer_done>> /\ at # "idle"
  <2>1. CASE Admit
    BY <2>1 DEF Admit, completion
  <2>2. CASE Refuse
    BY <2>2 DEF Refuse, completion
  <2>3. CASE GenerationDisabled \/ WorkspaceNotFound \/ GenerationFails
    BY <2>3 DEF GenerationDisabled, WorkspaceNotFound, GenerationFails, Fail, completion
  <2>4. CASE Abort
    BY <2>4 DEF Abort, completion
  <2>5. CASE SearchKeywords \/ SearchVectors
    BY <2>5 DEF SearchKeywords, SearchVectors, completion
  <2>6. CASE FetchCandidates
    BY <2>6 DEF FetchCandidates, completion
  <2>7. CASE AnswerNothing
    BY <2>7 DEF AnswerNothing, Fetched, completion
  <2>8. CASE RankSources
    BY <2>8 DEF RankSources, Fetched, completion
  <2>9. CASE \E b \in Blocks \cup {None} : Finalize(b)
    BY <2>9 DEF Finalize
  <2> QED BY <2>1, <2>2, <2>3, <2>4, <2>5, <2>6, <2>7, <2>8, <2>9
<1>2. \/ at' = "ended"
      \/ at # "idle" /\ at # "generating" /\ at # "ended" /\ at' # "idle"
  <2>1. CASE Admit
    BY <2>1 DEF Admit
  <2>2. CASE Refuse
    BY <2>2 DEF Refuse, HttpError
  <2>3. CASE GenerationDisabled \/ WorkspaceNotFound \/ GenerationFails
    BY <2>3 DEF GenerationDisabled, WorkspaceNotFound, GenerationFails, Fail
  <2>4. CASE Abort
    BY <2>4 DEF Abort, HttpError
  <2>5. CASE SearchKeywords \/ SearchVectors
    BY <2>5 DEF SearchKeywords, SearchVectors
  <2>6. CASE FetchCandidates
    BY <2>6 DEF FetchCandidates
  <2>7. CASE AnswerNothing
    BY <2>7 DEF AnswerNothing
  <2>8. CASE RankSources
    BY <2>8 DEF RankSources, Fetched
  <2>9. CASE \E b \in Blocks \cup {None} : Finalize(b)
    BY <2>9 DEF Finalize
  <2> QED BY <2>1, <2>2, <2>3, <2>4, <2>5, <2>6, <2>7, <2>8, <2>9
<1>3. OneExchange'
  BY <1>1, ServerKeepsExchange DEF StreamInv
<1> QED BY <1>1, <1>2, <1>3, KeepsBuffers

(* The limiter's steps.                                                    *)
LEMMA LimiterPreserves ==
  ASSUME StreamInv, Tick \/ AskElsewhere
  PROVE  StreamInv'
<1>1. UNCHANGED <<client, at, raw, emitted, answer_done>>
  BY DEF Tick, AskElsewhere, completion
<1>2. OneExchange'
  BY <1>1, ServerKeepsExchange DEF StreamInv
<1> QED BY <1>1, <1>2, KeepsBuffers

(* The client's steps that leave the exchange open.                        *)
LEMMA ReceivePreserves ==
  ASSUME StreamInv, ReceiveSources \/ ReceiveToken
  PROVE  StreamInv'
<1>1. UNCHANGED <<connected, at, raw, emitted, answer_done>>
  BY DEF ReceiveSources, ReceiveToken, completion
<1>2. DOMAIN exchange' = ExchangeFields /\ exchange'.status = exchange.status
  BY DEF ReceiveSources, ReceiveToken, StreamInv, OneExchange, ExchangeFields
<1>3. OneExchange'
  BY <1>1, <1>2 DEF StreamInv, OneExchange, Streaming
<1> QED BY <1>1, <1>3, KeepsBuffers

(* The client's steps that end it.                                         *)
LEMMA SettlePreserves ==
  ASSUME StreamInv,
         ReceiveFinal \/ ReceiveError \/ LoseConnection \/ EndOfStream \/ Leave
  PROVE  StreamInv'
<1>1. CASE ReceiveFinal
  <2>1. DOMAIN exchange' = ExchangeFields /\ exchange'.status = "done"
    BY <1>1 DEF ReceiveFinal, StreamInv, OneExchange, ExchangeFields
  <2>2. Forgotten /\ raw' = raw
    BY <1>1 DEF ReceiveFinal
  <2> QED BY <2>1, <2>2, EndOfExchange
<1>2. CASE ReceiveError \/ LoseConnection \/ EndOfStream
  <2>1. PICK code : Settle(code)
    BY <1>2 DEF ReceiveError, LoseConnection, EndOfStream
  <2>2. DOMAIN exchange' = ExchangeFields /\ exchange'.status = "error"
    BY <2>1 DEF Settle, StreamInv, OneExchange, ExchangeFields
  <2>3. Forgotten /\ raw' = <<>>
    BY <2>1 DEF Settle, ForgetAnswer
  <2> QED BY <2>2, <2>3, EndOfExchange
<1>3. CASE Leave
  <2>1. DOMAIN exchange' = ExchangeFields /\ exchange'.status = "none"
    BY <1>3 DEF Leave, NoExchange, ExchangeFields
  <2>2. Forgotten /\ raw' = <<>>
    BY <1>3 DEF Leave, ForgetAnswer
  <2> QED BY <2>1, <2>2, EndOfExchange
<1> QED BY <1>1, <1>2, <1>3

(* Every step preserves the invariant.                                     *)
LEMMA StreamNext == StreamInv /\ [Next]_vars => StreamInv'
<1> SUFFICES ASSUME StreamInv, [Next]_vars PROVE StreamInv'
  OBVIOUS
<1>1. ASSUME NEW mode \in {"chat", "ask"}, Submit(mode) PROVE StreamInv'
  BY <1>1, SubmitPreserves
<1>2. CASE Tick \/ AskElsewhere
  BY <1>2, LimiterPreserves
<1>3. CASE ServerStep
  <2>1. ASSUME NEW delta \in Deltas(raw), ReadDelta(delta) PROVE StreamInv'
    BY <2>1, ReadDeltaPreserves
  <2> QED BY <1>3, <2>1, ServerPreserves DEF ServerStep
<1>4. CASE ClientStep \/ LoseConnection \/ Leave
  BY <1>4, ReceivePreserves, SettlePreserves DEF ClientStep
<1>5. CASE UNCHANGED vars
  <2>1. UNCHANGED <<client, at, raw, emitted, answer_done>>
    BY <1>5 DEF vars, completion
  <2>2. OneExchange'
    BY <2>1, ServerKeepsExchange DEF StreamInv
  <2> QED BY <2>1, <2>2, KeepsBuffers
<1> QED BY <1>1, <1>2, <1>3, <1>4, <1>5 DEF Next

-----------------------------------------------------------------------------
(* The theorems.                                                           *)

(* The invariant holds whatever the model writes and however it arrives.   *)
THEOREM StreamInvariant == Spec => []StreamInv
<1> QED BY StreamInit, StreamNext, PTL DEF Spec

(* services/rag.py:129: for any sentinel, any completions and any deltas,  *)
(* no token reaches into the sentinel or the claims block behind it.       *)
THEOREM ClaimsStayHidden == Spec => []ClaimsNeverShown
<1>1. StreamInv => ClaimsNeverShown
  BY DEF StreamInv
<1> QED BY <1>1, StreamInvariant, PTL

(* lib/api/stream.ts:95: a settled exchange does not change any more until *)
(* the panel asks again, in no order of events and failures.               *)
THEOREM SettledStays == Spec => SettledIsFinal
<1>1. ASSUME StreamInv, [Next]_vars,
             exchange.status \in {"done", "error"}, exchange' # exchange
      PROVE  exchange'.status = "streaming"
  <2>1. ~connected
    BY <1>1 DEF StreamInv, OneExchange, Streaming
  <2>2. ASSUME NEW mode \in {"chat", "ask"}, Submit(mode)
        PROVE  exchange'.status = "streaming"
    BY <2>2 DEF Submit, NoExchange
  <2>3. CASE Tick \/ AskElsewhere \/ UNCHANGED vars
    BY <1>1, <2>3 DEF Tick, AskElsewhere, client, vars
  <2>4. CASE ServerStep
    <3>1. at # "idle"
      BY <2>4 DEF ServerStep, Admit, Refuse, GenerationDisabled, WorkspaceNotFound, Abort,
                  SearchKeywords, SearchVectors, FetchCandidates, AnswerNothing, RankSources,
                  Fetched, ReadDelta, GenerationFails, Finalize
    <3> QED BY <1>1, <3>1 DEF StreamInv, OneExchange, Streaming
  <2>5. CASE ClientStep \/ LoseConnection \/ Leave
    BY <2>1, <2>5 DEF ClientStep, LoseConnection, Leave, ReceiveSources, ReceiveToken,
                      ReceiveFinal, ReceiveError, EndOfStream, Arrived
  <2> QED BY <1>1, <2>2, <2>3, <2>4, <2>5 DEF Next
<1>2. StreamInv /\ [Next]_vars =>
        [exchange.status \in {"done", "error"} /\ exchange' # exchange =>
           exchange'.status = "streaming"]_vars
  BY <1>1
<1> QED BY <1>2, StreamInvariant, PTL DEF Spec, SettledIsFinal

-----------------------------------------------------------------------------
(* The limiter.  A list of ages splits in one way only into the hits the   *)
(* loop pops and the live rest.                                            *)

Ages == 0..Window

LEMMA WindowType == Window \in Nat /\ Window > 0 /\ Limit \in Nat /\ Limit > 0 /\ Second \in Nat /\ Second > 0
BY RateAssumption

LEMMA ExpiredIs ==
  ASSUME NEW h \in Seq(Ages)
  PROVE  /\ Expired(h) \in 0..Len(h)
         /\ \A k \in 1..Expired(h) : h[k] >= Window
         /\ Expired(h) < Len(h) => h[Expired(h) + 1] < Window
<1> DEFINE Stops == {n \in 0..Len(h) : n < Len(h) => h[n + 1] < Window}
<1>1. Len(h) \in Nat /\ \A k \in 1..Len(h) : h[k] \in Nat
  BY LenProperties, ElementOfSeq, WindowType DEF Ages
<1>2. Stops \in SUBSET Nat /\ Len(h) \in Stops
  BY <1>1
<1>3. PICK n \in Stops : \A q \in Stops : n <= q
  <2> HIDE DEF Stops
  <2> QED BY <1>2, SmallestExists
<1>4. \A k \in 1..n : h[k] >= Window
  <2> SUFFICES ASSUME NEW k \in 1..n, h[k] < Window PROVE FALSE
    BY <1>1, <1>3, WindowType
  <2>1. n \in Nat /\ k - 1 \in 0..Len(h) /\ k - 1 + 1 = k /\ ~(n <= k - 1)
    BY <1>1, <1>3
  <2>2. k - 1 \in Stops
    BY <2>1
  <2> HIDE DEF Stops
  <2> QED BY <1>3, <2>1, <2>2
<1>5. \E m \in 0..Len(h) : /\ \A k \in 1..m : h[k] >= Window
                           /\ m < Len(h) => h[m + 1] < Window
  BY <1>3, <1>4
<1> HIDE DEF Stops
<1> QED BY <1>5 DEF Expired

LEMMA ExpiredIsOne ==
  ASSUME NEW h \in Seq(Ages), NEW n \in 0..Len(h), \A k \in 1..n : h[k] >= Window,
         n < Len(h) => h[n + 1] < Window
  PROVE  Expired(h) = n
<1>1. Len(h) \in Nat /\ \A k \in 1..Len(h) : h[k] \in Nat
  BY LenProperties, ElementOfSeq, WindowType DEF Ages
<1>2. CASE Expired(h) < n
  <2>1. h[Expired(h) + 1] < Window /\ Expired(h) + 1 \in 1..n /\ Expired(h) + 1 \in 1..Len(h)
    BY <1>1, <1>2, ExpiredIs
  <2> QED BY <1>1, <2>1, WindowType
<1>3. CASE n < Expired(h)
  <2>1. n + 1 \in 1..Expired(h) /\ n + 1 \in 1..Len(h) /\ h[n + 1] < Window
    BY <1>1, <1>3, ExpiredIs
  <2> QED BY <1>1, <2>1, ExpiredIs, WindowType
<1> QED BY <1>1, <1>2, <1>3, ExpiredIs

(* What is live is the rest.                                               *)
LEMMA LiveIs ==
  ASSUME NEW h \in Seq(Ages)
  PROVE  /\ Live(h) \in Seq(Ages) /\ Len(Live(h)) = Len(h) - Expired(h)
         /\ \A k \in 1..Len(Live(h)) : Live(h)[k] = h[Expired(h) + k]
         /\ Len(Live(h)) > 0 => Live(h)[1] < Window
<1>1. Len(h) \in Nat /\ Expired(h) \in 0..Len(h)
      /\ (Expired(h) < Len(h) => h[Expired(h) + 1] < Window)
  BY LenProperties, ExpiredIs
<1>2. \A i \in (Expired(h) + 1)..Len(h) : h[i] \in Ages
  BY <1>1, ElementOfSeq
<1>3. /\ Live(h) \in Seq(Ages)
      /\ Len(Live(h)) = IF Expired(h) + 1 <= Len(h) THEN Len(h) - (Expired(h) + 1) + 1 ELSE 0
      /\ \A i \in 1..(Len(h) - (Expired(h) + 1) + 1) : Live(h)[i] = h[(Expired(h) + 1) + i - 1]
  BY <1>1, <1>2, SubSeqProperties DEF Live
<1>4. Len(Live(h)) = Len(h) - Expired(h)
  BY <1>1, <1>3
<1>5. \A k \in 1..Len(Live(h)) : Live(h)[k] = h[Expired(h) + k]
  <2> SUFFICES ASSUME NEW k \in 1..Len(Live(h)) PROVE Live(h)[k] = h[Expired(h) + k]
    OBVIOUS
  <2>1. k \in 1..(Len(h) - (Expired(h) + 1) + 1) /\ (Expired(h) + 1) + k - 1 = Expired(h) + k
    BY <1>1, <1>4
  <2>2. Live(h)[k] = h[(Expired(h) + 1) + k - 1]
    BY <1>3, <2>1
  <2> QED BY <2>1, <2>2
<1>6. Len(Live(h)) > 0 => Live(h)[1] < Window
  BY <1>1, <1>4, <1>5
<1> QED BY <1>3, <1>4, <1>5, <1>6

(* A list whose first hit is live is live.                                 *)
LEMMA AllLive ==
  ASSUME NEW h \in Seq(Ages), Len(h) > 0 => h[1] < Window
  PROVE  Live(h) = h
<1>1. Len(h) \in Nat
  BY LenProperties
<1>2. Expired(h) = 0
  BY <1>1, ExpiredIsOne
<1>3. Len(Live(h)) = Len(h) /\ \A k \in 1..Len(h) : Live(h)[k] = h[k]
  BY <1>1, <1>2, LiveIs
<1> QED BY <1>3, LiveIs, SeqEqual

LEMMA LiveOfLive ==
  ASSUME NEW h \in Seq(Ages)
  PROVE  Live(Live(h)) = Live(h)
BY LiveIs, AllLive

(* A recorded hit is live, and so is what it is recorded behind.           *)
LEMMA LiveAndNew ==
  ASSUME NEW h \in Seq(Ages)
  PROVE  /\ Append(Live(h), 0) \in Seq(Ages)
         /\ Live(Append(Live(h), 0)) = Append(Live(h), 0)
<1>1. 0 \in Ages /\ Live(h) \in Seq(Ages) /\ Len(Live(h)) \in Nat
  BY WindowType, LiveIs, LenProperties DEF Ages
<1>2. /\ Append(Live(h), 0) \in Seq(Ages)
      /\ Len(Append(Live(h), 0)) = Len(Live(h)) + 1
      /\ \A k \in 1..Len(Live(h)) : Append(Live(h), 0)[k] = Live(h)[k]
      /\ Append(Live(h), 0)[Len(Live(h)) + 1] = 0
  BY <1>1, AppendProperties
<1>3. Append(Live(h), 0)[1] < Window
  BY <1>1, <1>2, LiveIs, WindowType
<1> QED BY <1>2, <1>3, AllLive

Descending(h) == \A i, j \in 1..Len(h) : i < j => h[i] >= h[j]

LEMMA AgedIs ==
  ASSUME NEW h \in Seq(Ages), NEW t \in Nat
  PROVE  /\ Aged(h, t) \in Seq(Ages) /\ Len(Aged(h, t)) = Len(h)
         /\ \A k \in 1..Len(h) :
              Aged(h, t)[k] = IF h[k] + t >= Window THEN Window ELSE h[k] + t
         /\ Descending(h) => Descending(Aged(h, t))
<1>1. Len(h) \in Nat /\ \A k \in 1..Len(h) : h[k] \in Ages
  BY LenProperties, ElementOfSeq
<1>2. Aged(h, t) \in [1..Len(h) -> Ages]
  BY <1>1, WindowType DEF Aged, Ages
<1>3. Aged(h, t) \in Seq(Ages) /\ Len(Aged(h, t)) = Len(h)
  BY <1>1, <1>2, SeqDef, LenProperties
<1>4. \A k \in 1..Len(h) :
        Aged(h, t)[k] = IF h[k] + t >= Window THEN Window ELSE h[k] + t
  BY DEF Aged
<1>5. ASSUME Descending(h) PROVE Descending(Aged(h, t))
  <2> SUFFICES ASSUME NEW i \in 1..Len(h), NEW j \in 1..Len(h), i < j
               PROVE  Aged(h, t)[i] >= Aged(h, t)[j]
    BY <1>3 DEF Descending
  <2>1. h[i] >= h[j] /\ h[i] \in Nat /\ h[j] \in Nat
    BY <1>1, <1>5, WindowType DEF Descending, Ages
  <2> QED BY <1>4, <2>1, WindowType
<1> QED BY <1>3, <1>4, <1>5

(* Popping before time passes makes no difference afterwards.              *)
LEMMA LiveLater ==
  ASSUME NEW h \in Seq(Ages), NEW t \in Nat
  PROVE  /\ Live(Aged(Live(h), t)) = Live(Aged(h, t))
         /\ Len(Live(Aged(h, t))) <= Len(Live(h))
<1> DEFINE a == Aged(h, t)
           g == Aged(Live(h), t)
           e == Expired(h)
           n == Expired(a)
<1>1. /\ Len(h) \in Nat /\ \A k \in 1..Len(h) : h[k] \in Nat
      /\ Live(h) \in Seq(Ages)
  BY LenProperties, ElementOfSeq, WindowType, LiveIs DEF Ages
<1>2. /\ a \in Seq(Ages) /\ Len(a) = Len(h)
      /\ \A k \in 1..Len(h) : a[k] = IF h[k] + t >= Window THEN Window ELSE h[k] + t
  BY AgedIs
<1>3. /\ Len(Live(h)) = Len(h) - e /\ \A k \in 1..(Len(h) - e) : Live(h)[k] = h[e + k]
      /\ e \in 0..Len(h) /\ \A k \in 1..e : h[k] >= Window
  BY LiveIs, ExpiredIs
<1>4. /\ g \in Seq(Ages) /\ Len(g) = Len(h) - e
      /\ \A k \in 1..(Len(h) - e) : g[k] = a[e + k]
  <2>1. /\ g \in Seq(Ages) /\ Len(g) = Len(h) - e
        /\ \A k \in 1..(Len(h) - e) :
             g[k] = IF Live(h)[k] + t >= Window THEN Window ELSE Live(h)[k] + t
    BY <1>1, <1>3, AgedIs
  <2>2. ASSUME NEW k \in 1..(Len(h) - e) PROVE g[k] = a[e + k]
    <3>1. e + k \in 1..Len(h)
      BY <1>1, <1>3
    <3>2. a[e + k] = IF h[e + k] + t >= Window THEN Window ELSE h[e + k] + t
      BY <1>2, <3>1
    <3>3. g[k] = IF h[e + k] + t >= Window THEN Window ELSE h[e + k] + t
      BY <1>3, <2>1
    <3> QED BY <3>2, <3>3
  <2> QED BY <2>1, <2>2
<1>5. /\ n \in 0..Len(h) /\ \A k \in 1..n : a[k] >= Window
      /\ n < Len(h) => a[n + 1] < Window
  BY <1>2, ExpiredIs
<1>6. \A k \in 1..e : a[k] = Window
  BY <1>1, <1>2, <1>3, WindowType
<1> HIDE DEF a, g, e, n
<1>7. e <= n
  <2> SUFFICES ASSUME n < e PROVE FALSE
    BY <1>3, <1>5
  <2>1. n + 1 \in 1..e /\ n < Len(h)
    BY <1>1, <1>3, <1>5
  <2>2. a[n + 1] = Window /\ a[n + 1] < Window
    BY <1>5, <1>6, <2>1
  <2> QED BY <2>2, WindowType
<1>8. Expired(g) = n - e
  <2>1. n - e \in 0..Len(g)
    BY <1>1, <1>3, <1>4, <1>5, <1>7
  <2>2. ASSUME NEW k \in 1..(n - e) PROVE g[k] >= Window
    <3>1. k \in 1..(Len(h) - e) /\ e + k \in 1..n
      BY <1>1, <1>3, <1>5, <1>7
    <3>2. g[k] = a[e + k] /\ a[e + k] >= Window
      BY <1>4, <1>5, <3>1
    <3> QED BY <3>2
  <2>3. ASSUME n - e < Len(g) PROVE g[(n - e) + 1] < Window
    <3>1. n < Len(h) /\ (n - e) + 1 \in 1..(Len(h) - e) /\ e + ((n - e) + 1) = n + 1
      BY <1>1, <1>3, <1>4, <1>5, <1>7, <2>3
    <3>2. g[(n - e) + 1] = a[e + ((n - e) + 1)] /\ a[n + 1] < Window
      BY <1>4, <1>5, <3>1
    <3> QED BY <3>1, <3>2
  <2> QED BY <1>4, <2>1, <2>2, <2>3, ExpiredIsOne
<1>9. /\ Live(g) \in Seq(Ages) /\ Len(Live(g)) = Len(h) - n
      /\ \A k \in 1..(Len(h) - n) : Live(g)[k] = a[n + k]
  <2>1. /\ Live(g) \in Seq(Ages) /\ Len(Live(g)) = Len(g) - (n - e)
        /\ \A k \in 1..Len(Live(g)) : Live(g)[k] = g[(n - e) + k]
    BY <1>4, <1>8, LiveIs
  <2> QED BY <1>1, <1>3, <1>4, <1>5, <1>7, <2>1
<1>10. /\ Live(a) \in Seq(Ages) /\ Len(Live(a)) = Len(h) - n
       /\ \A k \in 1..(Len(h) - n) : Live(a)[k] = a[n + k]
  BY <1>2, LiveIs DEF n
<1>11. Live(g) = Live(a)
  BY <1>9, <1>10, SeqEqual
<1>12. Len(Live(a)) <= Len(Live(h))
  BY <1>1, <1>3, <1>5, <1>7, <1>10
<1> QED BY <1>11, <1>12 DEF a, g

LEMMA LiveDescends ==
  ASSUME NEW h \in Seq(Ages), Descending(h)
  PROVE  Descending(Live(h))
<1> SUFFICES ASSUME NEW i \in 1..Len(Live(h)), NEW j \in 1..Len(Live(h)), i < j
             PROVE  Live(h)[i] >= Live(h)[j]
  BY DEF Descending
<1>1. Len(h) \in Nat /\ Expired(h) \in 0..Len(h) /\ Len(Live(h)) = Len(h) - Expired(h)
  BY LenProperties, ExpiredIs, LiveIs
<1>2. /\ Expired(h) + i \in 1..Len(h) /\ Expired(h) + j \in 1..Len(h)
      /\ Expired(h) + i < Expired(h) + j
  BY <1>1
<1>3. h[Expired(h) + i] >= h[Expired(h) + j]
  BY <1>2 DEF Descending
<1>4. Live(h)[i] = h[Expired(h) + i] /\ Live(h)[j] = h[Expired(h) + j]
  BY LiveIs
<1> QED BY <1>3, <1>4

(* The deque is in the order of arrival and never holds more live hits     *)
(* than the limit, and these are the requests that were admitted.          *)
LimiterInv ==
  /\ hits \in Seq(Ages) /\ Descending(hits)
  /\ admitted = Live(hits) /\ Len(Live(hits)) <= Limit

LEMMA LimiterInit == Init => LimiterInv
<1> SUFFICES ASSUME Init PROVE LimiterInv
  OBVIOUS
<1>1. hits = <<>> /\ admitted = <<>>
  BY DEF Init
<1>2. <<>> \in Seq(Ages) /\ Len(<<>>) = 0
  BY EmptySeq
<1>3. Live(<<>>) = <<>>
  <2>1. Len(<<>>) > 0 => <<>>[1] < Window
    BY <1>2
  <2> QED BY <1>2, <2>1, AllLive, Zenon
<1>4. Descending(<<>>)
  BY <1>2 DEF Descending
<1> QED BY <1>1, <1>2, <1>3, <1>4, WindowType DEF LimiterInv

LEMMA CountPreserves ==
  ASSUME LimiterInv, Count
  PROVE  LimiterInv'
<1>1. /\ hits \in Seq(Ages) /\ Descending(hits) /\ admitted = Live(hits)
      /\ Len(Live(hits)) <= Limit /\ Len(hits) \in Nat
  BY LenProperties DEF LimiterInv
<1>2. Live(hits) \in Seq(Ages) /\ Descending(Live(hits)) /\ Live(Live(hits)) = Live(hits)
  <2> QED BY <1>1, LiveDescends, LiveIs, LiveOfLive
<1>3. CASE Refuses(hits)
  <2>1. hits' = Live(hits) /\ admitted' = admitted
    BY <1>3 DEF Count, check
  <2> QED BY <1>1, <1>2, <2>1 DEF LimiterInv
<1>4. CASE ~Refuses(hits)
  <2> DEFINE new == Append(Live(hits), 0)
  <2>1. hits' = new /\ admitted' = new
    BY <1>1, <1>2, <1>4 DEF Count, check
  <2>2. new \in Seq(Ages) /\ Live(new) = new
    BY <1>1, LiveAndNew
  <2>3. /\ Len(new) = Len(Live(hits)) + 1 /\ Len(Live(hits)) \in Nat
        /\ \A k \in 1..Len(Live(hits)) : new[k] = Live(hits)[k] /\ new[k] \in Nat
        /\ new[Len(Live(hits)) + 1] = 0
    <3>1. 0 \in Ages
      BY WindowType DEF Ages
    <3>2. \A k \in 1..Len(Live(hits)) : Live(hits)[k] \in Nat
      BY <1>2, ElementOfSeq, WindowType DEF Ages
    <3> QED BY <1>2, <3>1, <3>2, AppendProperties, LenProperties
  <2>4. Len(new) <= Limit
    BY <1>4, <2>3, WindowType DEF Refuses
  <2> HIDE DEF new
  <2>5. Descending(new)
    BY <1>2, <2>3 DEF Descending
  <2> QED BY <2>1, <2>2, <2>4, <2>5 DEF LimiterInv
<1> QED BY <1>3, <1>4

LEMMA TickPreserves ==
  ASSUME LimiterInv, Tick
  PROVE  LimiterInv'
<1>1. hits' = Aged(hits, 1) /\ admitted' = Live(Aged(Live(hits), 1))
  BY DEF LimiterInv, Tick
<1>2. Aged(hits, 1) \in Seq(Ages) /\ Descending(Aged(hits, 1))
  BY AgedIs DEF LimiterInv
<1>3. /\ Live(Aged(Live(hits), 1)) = Live(Aged(hits, 1))
      /\ Len(Live(Aged(hits, 1))) <= Len(Live(hits))
  BY LiveLater DEF LimiterInv
<1>4. Len(Live(Aged(hits, 1))) \in Nat /\ Len(Live(hits)) \in Nat
  BY <1>2, LiveIs, LenProperties DEF LimiterInv
<1>5. Len(Live(Aged(hits, 1))) <= Limit
  BY <1>3, <1>4, WindowType DEF LimiterInv
<1> QED BY <1>1, <1>2, <1>3, <1>5 DEF LimiterInv

LEMMA LimiterNext == LimiterInv /\ [Next]_vars => LimiterInv'
<1> SUFFICES ASSUME LimiterInv, [Next]_vars PROVE LimiterInv'
  OBVIOUS
<1>1. CASE UNCHANGED limiter
  BY <1>1 DEF limiter, LimiterInv
<1>2. CASE Count
  BY <1>2, CountPreserves
<1>3. CASE Tick
  BY <1>3, TickPreserves
<1>4. Count \/ Tick \/ UNCHANGED limiter
  <2>1. ASSUME NEW mode \in {"chat", "ask"}, Submit(mode) PROVE UNCHANGED limiter
    BY <2>1 DEF Submit
  <2>2. CASE AskElsewhere
    BY <2>2 DEF AskElsewhere
  <2>3. CASE ServerStep
    <3>1. CASE Admit \/ Refuse
      BY <3>1 DEF Admit, Refuse
    <3>2. CASE GenerationDisabled \/ WorkspaceNotFound \/ GenerationFails \/ Abort
      BY <3>2 DEF GenerationDisabled, WorkspaceNotFound, GenerationFails, Fail, Abort
    <3>3. CASE SearchKeywords \/ SearchVectors \/ FetchCandidates \/ AnswerNothing
      BY <3>3 DEF SearchKeywords, SearchVectors, FetchCandidates, AnswerNothing
    <3>4. CASE RankSources
      BY <3>4 DEF RankSources
    <3>5. ASSUME NEW delta \in Deltas(raw), ReadDelta(delta) PROVE UNCHANGED limiter
      BY <3>5 DEF ReadDelta
    <3>6. ASSUME NEW b \in Blocks \cup {None}, Finalize(b) PROVE UNCHANGED limiter
      BY <3>6 DEF Finalize
    <3> QED BY <2>3, <3>1, <3>2, <3>3, <3>4, <3>5, <3>6 DEF ServerStep
  <2>4. CASE ClientStep \/ LoseConnection \/ Leave
    BY <2>4 DEF ClientStep, LoseConnection, Leave, ReceiveSources, ReceiveToken, ReceiveFinal,
                ReceiveError, EndOfStream, Settle
  <2>5. CASE UNCHANGED vars
    BY <2>5 DEF vars
  <2> QED BY <2>1, <2>2, <2>3, <2>4, <2>5 DEF Next
<1> QED BY <1>1, <1>2, <1>3, <1>4

(* Rounded up: the last second is needed, and it is enough.                *)
LEMMA RoundedUp ==
  ASSUME NEW w \in Nat, w > 0, NEW s \in Nat, s > 0
  PROVE  LET n == (w + s - 1) \div s IN n \in Nat /\ n > 0 /\ s * n >= w /\ s * (n - 1) < w
         /\ s * n \in Nat /\ s * (n - 1) \in Nat
<1> DEFINE n == (w + s - 1) \div s
<1>1. /\ n \in Int /\ s * n <= w + s - 1 /\ w + s - 1 < s * n + s
  BY SMTT(60)
<1>2. s * n \in Int /\ s * (n - 1) = s * n - s
  BY <1>1, SMTT(60)
<1> HIDE DEF n
<1>3. n > 0
  <2> SUFFICES ASSUME n <= 0 PROVE FALSE
    BY <1>1
  <2>1. s * n <= 0
    BY <1>1, SMTT(60)
  <2> QED BY <1>1, <2>1
<1>4. s * (n - 1) >= 0
  BY <1>1, <1>3, SMTT(60)
<1> QED BY <1>1, <1>2, <1>3, <1>4 DEF n

(* ratelimit.py:40-41: of a full window the oldest hit is the first to     *)
(* leave, after exactly the seconds the refusal names.                     *)
LEMMA RetryIsHonest ==
  ASSUME NEW h \in Seq(Ages), Descending(h), Len(Live(h)) <= Limit, Refuses(h)
  PROVE  /\ ~Refuses(Aged(h, Second * retry_after(h)))
         /\ Refuses(Aged(h, Second * (retry_after(h) - 1)))
<1> DEFINE L == Live(h)
           w == Window - L[1]
           n == retry_after(h)
<1>1. /\ L \in Seq(Ages) /\ Len(L) \in Nat /\ Len(L) = Limit /\ Len(L) > 0
      /\ L[1] \in Nat /\ L[1] < Window /\ Descending(L)
  <2>1. L \in Seq(Ages) /\ Len(L) \in Nat /\ Len(L) = Limit /\ Len(L) > 0 /\ L[1] < Window
    BY LiveIs, LenProperties, WindowType DEF Refuses
  <2>2. L[1] \in Nat
    BY <2>1, ElementOfSeq, WindowType DEF Ages
  <2>3. Descending(L)
    BY LiveDescends
  <2> QED BY <2>1, <2>2, <2>3
<1>2. w \in Nat /\ w > 0
  BY <1>1, WindowType
<1>3. /\ Second * n >= w /\ Second * (n - 1) < w
      /\ Second * n \in Nat /\ Second * (n - 1) \in Nat
  <2>1. n = (w + Second - 1) \div Second
    BY DEF retry_after
  <2> HIDE DEF n, w
  <2> QED BY <1>2, <2>1, RoundedUp, WindowType
<1>4. ASSUME NEW t \in Nat PROVE Live(Aged(h, t)) = Live(Aged(L, t))
  BY <1>4, LiveLater
<1> HIDE DEF n, L
<1>5. ~Refuses(Aged(h, Second * n))
  <2> DEFINE a == Aged(L, Second * n)
  <2>1. a \in Seq(Ages) /\ Len(a) = Len(L) /\ a[1] = Window
    <3>1. 1 \in 1..Len(L) /\ L[1] + Second * n >= Window
      BY <1>1, <1>3, WindowType DEF L
    <3>2. a[1] = IF L[1] + Second * n >= Window THEN Window ELSE L[1] + Second * n
      BY <1>1, <1>3, <3>1, AgedIs
    <3> QED BY <1>1, <1>3, <3>1, <3>2, AgedIs
  <2> HIDE DEF a
  <2>2. Expired(a) # 0
    BY <1>1, <2>1, ExpiredIs, WindowType
  <2>3. Len(Live(a)) < Limit
    <3>1. Expired(a) \in 0..Len(a) /\ Len(Live(a)) = Len(a) - Expired(a)
      BY <2>1, ExpiredIs, LiveIs
    <3> QED BY <1>1, <2>1, <2>2, <3>1
  <2>4. Live(Aged(h, Second * n)) = Live(a)
    BY <1>3, <1>4 DEF a
  <2> QED BY <2>1, <2>3, <2>4, LiveIs, LenProperties, WindowType DEF Refuses
<1>6. Refuses(Aged(h, Second * (n - 1)))
  <2> DEFINE a == Aged(L, Second * (n - 1))
  <2>1. a \in Seq(Ages) /\ Len(a) = Len(L) /\ a[1] < Window
    <3>1. 1 \in 1..Len(L) /\ L[1] + Second * (n - 1) < Window
      BY <1>1, <1>3, WindowType DEF L
    <3>2. a[1] = IF L[1] + Second * (n - 1) >= Window THEN Window
                 ELSE L[1] + Second * (n - 1)
      BY <1>1, <1>3, <3>1, AgedIs
    <3> QED BY <1>1, <1>3, <3>1, <3>2, AgedIs, WindowType
  <2>2. Live(a) = a
    BY <2>1, AllLive
  <2>3. Live(Aged(h, Second * (n - 1))) = a
    BY <1>3, <1>4, <2>2
  <2> QED BY <1>1, <2>1, <2>3, WindowType DEF Refuses
<1> QED BY <1>5, <1>6 DEF n

(* The limiter's inductive invariant holds in whatever rhythm clients ask. *)
THEOREM LimiterInvariant == Spec => []LimiterInv
<1> QED BY LimiterInit, LimiterNext, PTL DEF Spec

(* ratelimit.py:1: for every limit, window and unit of Retry-After, no     *)
(* client exceeds the limit, and what a refusal says of the wait is exact. *)
THEOREM LimitsAreHonest == Spec => []LimitIsHonest
<1>1. LimiterInv => LimitIsHonest
  BY RetryIsHonest DEF LimiterInv, LimitIsHonest
<1> QED BY <1>1, LimiterInvariant, PTL

-----------------------------------------------------------------------------
(* The text without what cites no source.                                  *)

(* f[k] is what the first k symbols leave.                                 *)
LeftOver(f, text, gone, T) ==
  /\ f \in [0..Len(text) -> Seq(T)] /\ f[0] = <<>> /\ f[Len(text)] = Without(text, gone)
  /\ \A k \in 1..Len(text) :
       f[k] = IF text[k] \in gone THEN f[k - 1] ELSE Append(f[k - 1], text[k])

LEMMA LeftOverExists ==
  ASSUME NEW T, NEW text \in Seq(T), NEW gone
  PROVE  \E f : LeftOver(f, text, gone, T)
<1> DEFINE m == Len(text)
           Is(f) == f = [k \in 0..Len(text) |->
                           IF k = 0 THEN <<>>
                           ELSE IF text[k] \in gone THEN f[k - 1] ELSE Append(f[k - 1], text[k])]
           step == [k \in 1..m |-> [s \in Seq(T) |-> IF text[k] \in gone THEN s ELSE Append(s, text[k])]]
           g == CHOOSE f : Is(f)
<1>1. m \in Nat /\ (\A k \in 1..m : text[k] \in T) /\ <<>> \in Seq(T)
  BY LenProperties, ElementOfSeq, EmptySeq
<1>2. step \in [1..m -> [Seq(T) -> Seq(T)]]
  BY <1>1, AppendProperties
<1>3. PICK f \in [0..m -> Seq(T)] : f[0] = <<>> /\ \A k \in 1..m : f[k] = step[k][f[k - 1]]
  <2> DEFINE S == Seq(T)
  <2>1. <<>> \in S /\ m \in Nat /\ step \in [1..m -> [S -> S]]
    BY <1>1, <1>2
  <2> HIDE DEF m, step, S
  <2>2. \E h : IsFold(h, <<>>, step, m, S)
    BY <2>1, FoldExists
  <2> QED BY <2>2 DEF IsFold, S
<1>4. \A k \in 1..m : f[k] = IF text[k] \in gone THEN f[k - 1] ELSE Append(f[k - 1], text[k])
  <2> SUFFICES ASSUME NEW k \in 1..m
               PROVE  f[k] = IF text[k] \in gone THEN f[k - 1] ELSE Append(f[k - 1], text[k])
    OBVIOUS
  <2>1. k - 1 \in 0..m
    BY <1>1
  <2>2. f[k - 1] \in Seq(T)
    BY <1>3, <2>1
  <2>3. f[k] = step[k][f[k - 1]]
    BY <1>3
  <2> QED BY <2>2, <2>3
<1>5. Is(f)
  <2> HIDE DEF step
  <2>1. \A k \in 0..m : f[k] = IF k = 0 THEN <<>>
                               ELSE IF text[k] \in gone THEN f[k - 1] ELSE Append(f[k - 1], text[k])
    <3> SUFFICES ASSUME NEW k \in 0..m
                 PROVE  f[k] = IF k = 0 THEN <<>>
                               ELSE IF text[k] \in gone THEN f[k - 1] ELSE Append(f[k - 1], text[k])
      OBVIOUS
    <3>1. k = 0 \/ k \in 1..m
      BY <1>1
    <3> HIDE DEF m
    <3> QED BY <1>3, <1>4, <3>1
  <2> QED BY <1>3, <2>1
<1>6. Is(g)
  <2> HIDE DEF Is
  <2> QED BY <1>5, Zenon DEF g
<1>7. Without(text, gone) = g[Len(text)]
  BY Zenon DEF Without
<1>8. g[0] = <<>> /\ \A k \in 1..m : g[k] = IF text[k] \in gone THEN g[k - 1] ELSE Append(g[k - 1], text[k])
  <2>1. \A k \in 0..m : g[k] = IF k = 0 THEN <<>>
                               ELSE IF text[k] \in gone THEN g[k - 1] ELSE Append(g[k - 1], text[k])
    <3> HIDE DEF g
    <3> QED BY <1>6
  <2> HIDE DEF g, step, Is
  <2> QED BY <1>1, <2>1
<1>9. \A k \in 0..m : f[k] = g[k]
  <2> HIDE DEF m, Is, g, step
  <2>1. \A k \in 1..m : f[k - 1] = g[k - 1] => f[k] = g[k]
    BY <1>4, <1>8
  <2>2. f[0] = g[0]
    BY <1>3, <1>8
  <2>3. m \in Nat
    BY <1>1
  <2> DEFINE P == {k \in 0..m : f[k] = g[k]}
  <2>4. 0 \in P /\ \A k \in 1..m : k - 1 \in P => k \in P
    BY <2>1, <2>2, <2>3
  <2> HIDE DEF P
  <2>5. \A k \in 0..m : k \in P
    BY <2>3, <2>4, ClosedIsAll, Zenon
  <2> QED BY <2>5 DEF P
<1>10. Without(text, gone) = f[m]
  <2>1. m \in 0..m /\ Without(text, gone) = g[m]
    BY <1>1, <1>7
  <2> HIDE DEF g, step, Is, m
  <2> QED BY <1>9, <2>1
<1> QED BY <1>3, <1>4, <1>10 DEF LeftOver

(* What is left has none of it.                                            *)
LEMMA WithoutKeeps ==
  ASSUME NEW T, NEW text \in Seq(T), NEW gone
  PROVE  /\ Without(text, gone) \in Seq(T)
         /\ \A p \in 1..Len(Without(text, gone)) : Without(text, gone)[p] \notin gone
<1>0. PICK f : LeftOver(f, text, gone, T)
  BY LeftOverExists
<1>1. /\ f \in [0..Len(text) -> Seq(T)] /\ f[0] = <<>> /\ f[Len(text)] = Without(text, gone)
      /\ \A k \in 1..Len(text) :
           f[k] = IF text[k] \in gone THEN f[k - 1] ELSE Append(f[k - 1], text[k])
  BY <1>0 DEF LeftOver
<1> DEFINE m == Len(text)
           P == {k \in 0..m : \A p \in 1..Len(f[k]) : f[k][p] \notin gone}
<1>2. m \in Nat /\ \A k \in 1..m : text[k] \in T
  BY LenProperties, ElementOfSeq
<1>3. 0 \in P
  BY <1>1, <1>2, EmptySeq
<1>4. ASSUME NEW k \in 1..m, k - 1 \in P PROVE k \in P
  <2>1. k - 1 \in 0..m /\ f[k - 1] \in Seq(T) /\ Len(f[k - 1]) \in Nat
    BY <1>1, <1>2, LenProperties
  <2>2. CASE text[k] \in gone
    BY <1>1, <1>2, <1>4, <2>2
  <2>3. CASE text[k] \notin gone
    <3>1. f[k] = Append(f[k - 1], text[k])
      BY <1>1, <2>3
    <3>2. /\ Len(f[k]) = Len(f[k - 1]) + 1 /\ f[k][Len(f[k - 1]) + 1] = text[k]
          /\ \A p \in 1..Len(f[k - 1]) : f[k][p] = f[k - 1][p]
      BY <1>2, <2>1, <3>1, AppendProperties
    <3>3. ASSUME NEW p \in 1..Len(f[k]) PROVE f[k][p] \notin gone
      <4>1. \A q \in 1..Len(f[k - 1]) : f[k - 1][q] \notin gone
        BY <1>4
      <4>2. p \in 1..Len(f[k - 1]) \/ p = Len(f[k - 1]) + 1
        BY <2>1, <3>2
      <4> QED BY <2>3, <3>2, <4>1, <4>2
    <3> QED BY <1>2, <3>3
  <2> QED BY <2>2, <2>3
<1> HIDE DEF m, P
<1>5. \A k \in 0..m : k \in P
  BY <1>2, <1>3, <1>4, ClosedIsAll, Zenon
<1>6. m \in P
  BY <1>2, <1>5
<1> QED BY <1>1, <1>2, <1>6 DEF P, m

(* Nothing to take out.                                                    *)
LEMMA WithoutNothing ==
  ASSUME NEW T, NEW text \in Seq(T), NEW gone,
         \A p \in 1..Len(text) : text[p] \notin gone
  PROVE  Without(text, gone) = text
<1>0. PICK f : LeftOver(f, text, gone, T)
  BY LeftOverExists
<1>1. /\ f \in [0..Len(text) -> Seq(T)] /\ f[0] = <<>> /\ f[Len(text)] = Without(text, gone)
      /\ \A k \in 1..Len(text) :
           f[k] = IF text[k] \in gone THEN f[k - 1] ELSE Append(f[k - 1], text[k])
  BY <1>0 DEF LeftOver
<1> DEFINE m == Len(text)
           P == {k \in 0..m : Len(f[k]) = k /\ \A p \in 1..k : f[k][p] = text[p]}
<1>2. m \in Nat /\ \A k \in 1..m : text[k] \in T
  BY LenProperties, ElementOfSeq
<1>3. 0 \in P
  BY <1>1, <1>2, EmptySeq
<1>4. ASSUME NEW k \in 1..m, k - 1 \in P PROVE k \in P
  <2>1. k - 1 \in 0..m /\ f[k - 1] \in Seq(T) /\ Len(f[k - 1]) = k - 1
    BY <1>1, <1>2, <1>4
  <2>2. f[k] = Append(f[k - 1], text[k])
    BY <1>1
  <2>3. /\ Len(f[k]) = Len(f[k - 1]) + 1 /\ f[k][Len(f[k - 1]) + 1] = text[k]
        /\ \A p \in 1..Len(f[k - 1]) : f[k][p] = f[k - 1][p]
    BY <1>2, <2>1, <2>2, AppendProperties
  <2>4. \A p \in 1..k : f[k][p] = text[p]
    BY <1>4, <2>1, <2>3
  <2> QED BY <1>2, <2>1, <2>3, <2>4
<1> HIDE DEF m, P
<1>5. \A k \in 0..m : k \in P
  BY <1>2, <1>3, <1>4, ClosedIsAll, Zenon
<1>6. m \in P
  BY <1>2, <1>5
<1>7. f[m] \in Seq(T) /\ Len(f[m]) = Len(text) /\ \A p \in 1..Len(text) : f[m][p] = text[p]
  BY <1>1, <1>2, <1>6 DEF P, m
<1> QED BY <1>1, <1>7, SeqEqual DEF m

(* Symbol by symbol.                                                       *)
LEMMA WithoutAppend ==
  ASSUME NEW T, NEW text \in Seq(T), NEW symbol \in T, NEW gone
  PROVE  Without(Append(text, symbol), gone) =
           IF symbol \in gone THEN Without(text, gone) ELSE Append(Without(text, gone), symbol)
<1> DEFINE longer == Append(text, symbol)
           m == Len(text)
<1>1. /\ m \in Nat /\ longer \in Seq(T) /\ Len(longer) = m + 1 /\ longer[m + 1] = symbol
      /\ \A k \in 1..m : longer[k] = text[k]
  BY LenProperties, AppendProperties
<1>a. PICK f : LeftOver(f, text, gone, T)
  BY LeftOverExists
<1>2. /\ f \in [0..m -> Seq(T)] /\ f[0] = <<>> /\ f[m] = Without(text, gone)
      /\ \A k \in 1..m :
           f[k] = IF text[k] \in gone THEN f[k - 1] ELSE Append(f[k - 1], text[k])
  BY <1>a DEF LeftOver
<1> HIDE DEF longer, m
<1>b. PICK h : LeftOver(h, longer, gone, T)
  BY <1>1, LeftOverExists
<1>3. /\ h \in [0..Len(longer) -> Seq(T)] /\ h[0] = <<>> /\ h[Len(longer)] = Without(longer, gone)
      /\ \A k \in 1..Len(longer) :
           h[k] = IF longer[k] \in gone THEN h[k - 1] ELSE Append(h[k - 1], longer[k])
  BY <1>b DEF LeftOver
<1> DEFINE P == {k \in 0..m : h[k] = f[k]}
<1>4. 0 \in P
  BY <1>1, <1>2, <1>3
<1>5. ASSUME NEW k \in 1..m, k - 1 \in P PROVE k \in P
  <2>1. k \in 1..Len(longer) /\ longer[k] = text[k] /\ h[k - 1] = f[k - 1]
    BY <1>1, <1>5
  <2>2. h[k] = f[k]
    BY <1>2, <1>3, <2>1
  <2> QED BY <1>1, <2>2
<1> HIDE DEF P
<1>6. \A k \in 0..m : k \in P
  BY <1>1, <1>4, <1>5, ClosedIsAll, Zenon
<1>7. h[m] = f[m]
  BY <1>1, <1>6 DEF P
<1>8. m + 1 \in 1..Len(longer) /\ (m + 1) - 1 = m
  BY <1>1
<1>9. h[m + 1] = IF symbol \in gone THEN h[m] ELSE Append(h[m], symbol)
  BY <1>1, <1>3, <1>8
<1> QED BY <1>1, <1>2, <1>3, <1>7, <1>9 DEF longer

(* Taking out some first makes no difference when all of them go.          *)
LEMMA WithoutTwice ==
  ASSUME NEW T, NEW text \in Seq(T), NEW more, NEW gone \in SUBSET more
  PROVE  Without(Without(text, gone), more) = Without(text, more)
<1> DEFINE m == Len(text)
<1>1. m \in Nat /\ (\A k \in 1..m : text[k] \in T) /\ <<>> \in Seq(T)
  BY LenProperties, ElementOfSeq, EmptySeq
<1>a. PICK f : LeftOver(f, text, gone, T)
  BY LeftOverExists
<1>2. /\ f \in [0..m -> Seq(T)] /\ f[0] = <<>> /\ f[m] = Without(text, gone)
      /\ \A k \in 1..m :
           f[k] = IF text[k] \in gone THEN f[k - 1] ELSE Append(f[k - 1], text[k])
  BY <1>a DEF LeftOver
<1>b. PICK h : LeftOver(h, text, more, T)
  BY LeftOverExists
<1>3. /\ h \in [0..m -> Seq(T)] /\ h[0] = <<>> /\ h[m] = Without(text, more)
      /\ \A k \in 1..m :
           h[k] = IF text[k] \in more THEN h[k - 1] ELSE Append(h[k - 1], text[k])
  BY <1>b DEF LeftOver
<1> HIDE DEF m
<1> DEFINE P == {k \in 0..m : Without(f[k], more) = h[k]}
<1>4. 0 \in P
  <2>1. \A p \in 1..Len(<<>>) : <<>>[p] \notin more
    BY EmptySeq
  <2>2. Without(<<>>, more) = <<>>
    BY <1>1, <2>1, WithoutNothing
  <2> QED BY <1>1, <1>2, <1>3, <2>2
<1>5. ASSUME NEW k \in 1..m, k - 1 \in P PROVE k \in P
  <2>1. k - 1 \in 0..m /\ k \in 0..m /\ text[k] \in T /\ Without(f[k - 1], more) = h[k - 1]
    BY <1>1, <1>5
  <2>2. f[k - 1] \in Seq(T)
    BY <1>2, <2>1
  <2>3. CASE text[k] \in gone
    <3>1. f[k] = f[k - 1] /\ h[k] = h[k - 1]
      BY <1>2, <1>3, <2>3
    <3> QED BY <2>1, <3>1
  <2>4. CASE text[k] \notin gone
    <3>1. /\ f[k] = Append(f[k - 1], text[k])
          /\ h[k] = IF text[k] \in more THEN h[k - 1] ELSE Append(h[k - 1], text[k])
      BY <1>2, <1>3, <2>4
    <3>2. Without(f[k], more) = IF text[k] \in more THEN Without(f[k - 1], more)
                                ELSE Append(Without(f[k - 1], more), text[k])
      <4> DEFINE shorter == f[k - 1]
                 symbol == text[k]
      <4>1. shorter \in Seq(T) /\ symbol \in T
        BY <2>1, <2>2
      <4> HIDE DEF shorter, symbol
      <4>2. Without(Append(shorter, symbol), more) =
              IF symbol \in more THEN Without(shorter, more)
              ELSE Append(Without(shorter, more), symbol)
        BY <4>1, WithoutAppend
      <4> QED BY <3>1, <4>2 DEF shorter, symbol
    <3> QED BY <2>1, <3>1, <3>2
  <2> QED BY <2>3, <2>4
<1> HIDE DEF P
<1>6. \A k \in 0..m : k \in P
  BY <1>1, <1>4, <1>5, ClosedIsAll, Zenon
<1>7. Without(f[m], more) = h[m]
  BY <1>1, <1>6 DEF P
<1> QED BY <1>2, <1>3, <1>7

-----------------------------------------------------------------------------
(* What the claims say of a source.                                        *)

(* What a claims block cites, and what becomes of a source.                *)
Citation == [source : Int, supported : BOOLEAN]
Evidence == [status : {"none", "weak", "validated"}, quote : Nat]

(* All citations are citations.                                            *)
LEMMA CitationsType ==
  ASSUME NEW claims \in Seq(Seq(Citation))
  PROVE  Citations(claims) \in Seq(Citation)
<1> DEFINE m == Len(claims)
           S == Seq(Citation)
           Is(f) == f = [k \in 0..Len(claims) |-> IF k = 0 THEN <<>> ELSE f[k - 1] \o claims[k]]
           step == [k \in 1..m |-> [s \in S |-> s \o claims[k]]]
           g == CHOOSE f : Is(f)
<1>1. m \in Nat /\ (\A k \in 1..m : claims[k] \in S) /\ <<>> \in S
  BY LenProperties, ElementOfSeq, EmptySeq
<1>2. step \in [1..m -> [S -> S]]
  BY <1>1, ConcatProperties
<1>3. PICK f \in [0..m -> S] : f[0] = <<>> /\ \A k \in 1..m : f[k] = step[k][f[k - 1]]
  <2>1. <<>> \in S /\ m \in Nat /\ step \in [1..m -> [S -> S]]
    BY <1>1, <1>2
  <2> HIDE DEF m, step, S
  <2>2. \E h : IsFold(h, <<>>, step, m, S)
    BY <2>1, FoldExists
  <2> QED BY <2>2 DEF IsFold
<1>4. Is(f)
  <2>1. ASSUME NEW k \in 0..m PROVE f[k] = IF k = 0 THEN <<>> ELSE f[k - 1] \o claims[k]
    <3>1. CASE k = 0
      BY <1>3, <3>1
    <3>2. CASE k # 0
      <4>1. k \in 1..m /\ k - 1 \in 0..m
        BY <1>1, <3>2
      <4>2. f[k - 1] \in S /\ f[k] = step[k][f[k - 1]]
        BY <1>3, <4>1
      <4> HIDE DEF S, m
      <4> QED BY <3>2, <4>1, <4>2
    <3> QED BY <3>1, <3>2
  <2> HIDE DEF step, S
  <2> QED BY <1>3, <2>1
<1>5. Is(g)
  <2> HIDE DEF Is
  <2> QED BY <1>4, Zenon DEF g
<1>6. Citations(claims) = g[Len(claims)]
  BY Zenon DEF Citations
<1>7. \A k \in 0..m : g[k] = IF k = 0 THEN <<>> ELSE g[k - 1] \o claims[k]
  <2> HIDE DEF g
  <2> QED BY <1>5
<1> DEFINE P == {k \in 0..m : g[k] \in S}
<1> HIDE DEF g, step, Is, S, m
<1>8. 0 \in P
  <2>1. 0 \in 0..m
    BY <1>1
  <2>2. g[0] = <<>>
    BY <1>7, <2>1
  <2> QED BY <1>1, <2>1, <2>2
<1>9. ASSUME NEW k \in 1..m, k - 1 \in P PROVE k \in P
  <2>0. k \in 0..m /\ k # 0
    BY <1>1
  <2>1. g[k - 1] \in S /\ claims[k] \in S /\ g[k] = g[k - 1] \o claims[k]
    BY <1>1, <1>7, <1>9, <2>0
  <2>2. g[k - 1] \o claims[k] \in S
    BY <2>1, ConcatProperties DEF S
  <2> QED BY <2>0, <2>1, <2>2
<1> HIDE DEF P
<1>10. \A k \in 0..m : k \in P
  BY <1>1, <1>8, <1>9, ClosedIsAll, Zenon
<1>11. m \in P
  BY <1>1, <1>10
<1> QED BY <1>6, <1>11 DEF P, m, S

(* What the first k citations say of source i: nothing, that it is cited,  *)
(* or the first of them that holds.                                        *)
BestOf(e, cites, i, k) ==
  \/ e = Uncited /\ \A j \in 1..k : cites[j].source # i
  \/ /\ e = Weak
     /\ \E j \in 1..k : cites[j].source = i
     /\ \A j \in 1..k : cites[j].source = i => ~cites[j].supported
  \/ /\ e.status = "validated" /\ e.quote \in 1..k
     /\ cites[e.quote].source = i /\ cites[e.quote].supported
     /\ \A j \in 1..k : (cites[j].source = i /\ cites[j].supported) => e.quote <= j

(* One more citation: the loop's branches keep what was found first.       *)
LEMMA BetterIsBest ==
  ASSUME NEW cites \in Seq(Citation), NEW k \in 1..Len(cites), NEW i, NEW e \in Evidence,
         BestOf(e, cites, i, k - 1)
  PROVE  LET better == IF i = cites[k].source THEN BetterEvidence(e, cites[k], k) ELSE e
         IN better \in Evidence /\ BestOf(better, cites, i, k)
<1>1. /\ k \in Nat /\ k > 0 /\ cites[k] \in Citation
      /\ \A j \in 1..k : j \in 1..(k - 1) \/ j = k
      /\ \A j \in 1..(k - 1) : j \in 1..k /\ j <= k
      /\ k \in 1..k /\ k \in Nat
  BY LenProperties, ElementOfSeq
<1>2. CASE i # cites[k].source
  BY <1>1, <1>2 DEF BestOf
<1>3. CASE i = cites[k].source /\ ~cites[k].supported
  <2>1. CASE e = Uncited
    <3>1. BetterEvidence(e, cites[k], k) = Weak
      BY <1>3, <2>1 DEF BetterEvidence
    <3>2. \A j \in 1..k : cites[j].source = i => ~cites[j].supported
      BY <1>1, <1>3, <2>1 DEF BestOf, Uncited, Weak
    <3> QED BY <1>1, <1>3, <3>1, <3>2 DEF BestOf, Weak, Evidence
  <2>2. CASE e # Uncited
    <3>1. BetterEvidence(e, cites[k], k) = e
      BY <1>3, <2>2 DEF BetterEvidence
    <3> QED BY <1>1, <1>3, <2>2, <3>1 DEF BestOf
  <2> QED BY <2>1, <2>2
<1>4. CASE i = cites[k].source /\ cites[k].supported
  <2>1. CASE e.status = "validated"
    <3>1. BetterEvidence(e, cites[k], k) = e
      BY <1>4, <2>1 DEF BetterEvidence
    <3> QED BY <1>1, <1>4, <2>1, <3>1 DEF BestOf, Uncited, Weak
  <2>2. CASE e.status # "validated"
    <3> DEFINE new == [status |-> "validated", quote |-> k]
    <3>1. BetterEvidence(e, cites[k], k) = new
      BY <1>4, <2>2 DEF BetterEvidence
    <3>2. \A j \in 1..(k - 1) : cites[j].source = i => ~cites[j].supported
      BY <2>2 DEF BestOf
    <3>3. new \in Evidence /\ new.status = "validated" /\ new.quote = k
      BY <1>1 DEF Evidence
    <3>4. \A j \in 1..k : (cites[j].source = i /\ cites[j].supported) => new.quote <= j
      BY <1>1, <3>2, <3>3
    <3> HIDE DEF new
    <3> QED BY <1>1, <1>4, <3>1, <3>3, <3>4 DEF BestOf
  <2> QED BY <2>1, <2>2
<1> QED BY <1>1, <1>2, <1>3, <1>4 DEF Citation

(* services/verification.py:183: the loop over all citations.              *)
LEMMA CitedIsBest ==
  ASSUME NEW claims \in Seq(Seq(Citation)), NEW n
  PROVE  LET cites == Citations(claims)
         IN /\ Cited(claims, n) \in [1..n -> Evidence]
            /\ \A i \in 1..n : BestOf(Cited(claims, n)[i], cites, i, Len(cites))
<1> DEFINE cites == Citations(claims)
           m == Len(cites)
           N == 1..n
           S == [N -> Evidence]
           base == [i \in N |-> Uncited]
           Next1(k, b) == [i \in N |-> IF i = cites[k].source
                                      THEN BetterEvidence(b[i], cites[k], k) ELSE b[i]]
           Is(f) == f = [k \in 0..Len(cites) |-> IF k = 0 THEN base ELSE Next1(k, f[k - 1])]
           step == [k \in 1..m |-> [b \in S |-> Next1(k, b)]]
           g == CHOOSE f : Is(f)
<1>1. cites \in Seq(Citation) /\ m \in Nat /\ base \in S /\ \A k \in 1..m : cites[k] \in Citation /\ k \in Nat
  <2>1. cites \in Seq(Citation)
    BY CitationsType
  <2> QED BY <2>1, LenProperties, ElementOfSeq DEF Uncited, Evidence
<1>2. ASSUME NEW k \in 1..m, NEW b \in S PROVE Next1(k, b) \in S
  <2>1. \A i \in N : b[i] \in Evidence /\ BetterEvidence(b[i], cites[k], k) \in Evidence
    BY <1>1 DEF BetterEvidence, Evidence, Weak
  <2> QED BY <2>1
<1>3. step \in [1..m -> [S -> S]]
  <2> HIDE DEF Next1, S, m
  <2> QED BY <1>2
<1>4. PICK f \in [0..m -> S] : f[0] = base /\ \A k \in 1..m : f[k] = step[k][f[k - 1]]
  <2>1. base \in S /\ m \in Nat /\ step \in [1..m -> [S -> S]]
    BY <1>1, <1>3
  <2> HIDE DEF m, step, S, base
  <2>2. \E h : IsFold(h, base, step, m, S)
    BY <2>1, FoldExists
  <2> QED BY <2>2 DEF IsFold
<1>5. Is(f)
  <2>1. ASSUME NEW k \in 0..m PROVE f[k] = IF k = 0 THEN base ELSE Next1(k, f[k - 1])
    <3>1. CASE k = 0
      BY <1>4, <3>1
    <3>2. CASE k # 0
      <4>1. k \in 1..m /\ k - 1 \in 0..m
        BY <1>1, <3>2
      <4>2. f[k - 1] \in S /\ f[k] = step[k][f[k - 1]]
        BY <1>4, <4>1
      <4> HIDE DEF S, m, Next1
      <4> QED BY <3>2, <4>1, <4>2
    <3> QED BY <3>1, <3>2
  <2> HIDE DEF step, S, Next1, base
  <2> QED BY <1>4, <2>1
<1>6. Is(g)
  <2> HIDE DEF Is
  <2> QED BY <1>5, Zenon DEF g
<1>7. Cited(claims, n) = g[Len(cites)]
  BY Zenon DEF Cited
<1>8. \A k \in 0..m : g[k] = IF k = 0 THEN base ELSE Next1(k, g[k - 1])
  <2> HIDE DEF g, Next1, base
  <2> QED BY <1>6
<1> DEFINE P == {k \in 0..m : g[k] \in S /\ \A i \in N : BestOf(g[k][i], cites, i, k)}
<1> HIDE DEF g, step, Is, cites
<1>9. 0 \in P
  <2>1. \A i \in N : base[i] = Uncited /\ BestOf(base[i], cites, i, 0)
    BY DEF BestOf
  <2>2. 0 \in 0..m
    BY <1>1
  <2>3. g[0] = base
    <3> HIDE DEF base, Next1
    <3> QED BY <1>8, <2>2
  <2> HIDE DEF base
  <2> QED BY <1>1, <2>1, <2>2, <2>3
<1>10. ASSUME NEW k \in 1..m, k - 1 \in P PROVE k \in P
  <2>1. g[k - 1] \in S /\ k \in 0..m /\ \A i \in N : BestOf(g[k - 1][i], cites, i, k - 1)
    BY <1>1, <1>10
  <2>2. g[k] = Next1(k, g[k - 1])
    <3> HIDE DEF Next1
    <3> QED BY <1>1, <1>8, <2>1
  <2>3. ASSUME NEW i \in N PROVE g[k][i] \in Evidence /\ BestOf(g[k][i], cites, i, k)
    <3>1. g[k][i] = IF i = cites[k].source THEN BetterEvidence(g[k - 1][i], cites[k], k) ELSE g[k - 1][i]
      BY <2>2
    <3>2. g[k - 1][i] \in Evidence /\ BestOf(g[k - 1][i], cites, i, k - 1)
      BY <2>1
    <3> QED BY <1>1, <3>1, <3>2, BetterIsBest
  <2>4. g[k] \in S
    BY <2>2, <2>3
  <2> HIDE DEF N, S
  <2> QED BY <2>1, <2>3, <2>4
<1> HIDE DEF P, m
<1>11. \A k \in 0..m : k \in P
  BY <1>1, <1>9, <1>10, ClosedIsAll, Zenon
<1>12. m \in P
  BY <1>1, <1>11
<1> QED BY <1>7, <1>12 DEF P, m, cites

-----------------------------------------------------------------------------
(* What verify_answer promises.                                            *)

Markers == DOMAIN IndexOf

(* _strip_invalid_markers: what is left cites sources only, reads the      *)
(* same, and is the text itself when there was nothing to take out.        *)
LEMMA StripIs ==
  ASSUME NEW text \in Seq(Symbols), NEW valid
  PROVE  /\ Strip(text, valid) \in Seq(Symbols)
         /\ \A p \in 1..Len(Strip(text, valid)) :
              IsMarker(Strip(text, valid)[p]) => IndexOf[Strip(text, valid)[p]] \in valid
         /\ Prose(Strip(text, valid)) = Prose(text)
         /\ (\A p \in 1..Len(text) : IsMarker(text[p]) => IndexOf[text[p]] \in valid) =>
              Strip(text, valid) = text
<1> DEFINE gone == {s \in Markers : IndexOf[s] \notin valid}
<1>0. gone \in SUBSET Markers
  OBVIOUS
<1>1. Strip(text, valid) = Without(text, gone)
  BY DEF Strip, Markers
<1>2. \A s : s \in gone <=> IsMarker(s) /\ IndexOf[s] \notin valid
  BY DEF IsMarker, Markers
<1> HIDE DEF gone
<1>3. /\ Without(text, gone) \in Seq(Symbols)
      /\ \A p \in 1..Len(Without(text, gone)) : Without(text, gone)[p] \notin gone
  BY WithoutKeeps
<1>4. Prose(Without(text, gone)) = Prose(text)
  BY <1>0, WithoutTwice DEF Prose, Markers
<1>5. ASSUME \A p \in 1..Len(text) : IsMarker(text[p]) => IndexOf[text[p]] \in valid
      PROVE  Without(text, gone) = text
  <2>1. \A p \in 1..Len(text) : text[p] \notin gone
    BY <1>2, <1>5
  <2> QED BY <2>1, WithoutNothing
<1> QED BY <1>1, <1>2, <1>3, <1>4, <1>5

(* What the reader is told of source i is the best the claims have for it; *)
(* a source that only a marker names is shown as weak.                     *)
BestShown(e, cites, i) ==
  LET holding == {k \in 1..Len(cites) : cites[k].source = i /\ cites[k].supported}
  IN IF holding = {} THEN e = Weak
     ELSE e.status = "validated" /\ e.quote \in holding /\ \A k \in holding : e.quote <= k

(* What verify_answer promises of its result on n sources: each source it  *)
(* cites is shown with the best of its evidence, no marker is without its  *)
(* source, an answer that is found has a validated quote and all its words,*)
(* and verified means that no citation and no marker failed.               *)
Backed(r, text, cites, n) ==
  /\ r.answer \in Seq(Symbols)
  /\ DOMAIN r.citations \subseteq 1..n
  /\ \A i \in DOMAIN r.citations : BestShown(r.citations[i], cites, i)
  /\ \A p \in 1..Len(r.answer) :
       IsMarker(r.answer[p]) => IndexOf[r.answer[p]] \in DOMAIN r.citations
  /\ ~r.not_found =>
       /\ \E i \in DOMAIN r.citations : r.citations[i].status = "validated"
       /\ Prose(r.answer) = Prose(text)
  /\ r.status = "verified" =>
       /\ \A k \in 1..Len(cites) : cites[k].source \in 1..n /\ cites[k].supported
       /\ r.answer = text
       /\ \A i \in MarkersOf(text) :
            i \in DOMAIN r.citations /\ r.citations[i].status = "validated"

(* The claims block that was read is one of the blocks.                    *)
LEMMA BlockType ==
  ASSUME NEW b \in Blocks \cup {None}
  PROVE  b.claims \in Seq(Seq(Citation))
<1>1. CASE b \in Blocks
  BY <1>1, AnswersAssumption DEF Citation
<1>2. CASE b = None
  <2>1. b.claims = <<>>
    BY <1>2 DEF None
  <2> QED BY <2>1, EmptySeq
<1> QED BY <1>1, <1>2

(* Nothing is cited in a withheld answer of no citations.                  *)
LEMMA WithheldIsBacked ==
  ASSUME NEW status, status # "verified", NEW text, NEW cites, NEW n
  PROVE  Backed(Withheld(status, NoCitations), text, cites, n)
<1> DEFINE r == Withheld(status, NoCitations)
<1>1. r.status = status /\ r.not_found /\ r.answer = <<>> /\ r.citations = NoCitations
  BY DEF Withheld, NotFoundAnswer
<1>2. DOMAIN NoCitations = {} /\ Len(<<>>) = 0 /\ <<>> \in Seq(Symbols)
  BY EmptySeq DEF NoCitations
<1> HIDE DEF r
<1>3. Backed(r, text, cites, n)
  BY <1>1, <1>2 DEF Backed
<1> QED BY <1>3 DEF r

(* services/verification.py:145: verify_answer keeps its promise for any   *)
(* text and any block.                                                     *)
LEMMA VerifyIsBacked ==
  ASSUME NEW text \in Seq(Symbols), NEW b \in Blocks \cup {None}, NEW n
  PROVE  Backed(verify_answer(text, b, n), text, Citations(b.claims), n)
<1> DEFINE claims == b.claims
           cites == Citations(claims)
           best == Cited(claims, n)
           marked == Marked(best, text)
           shown == OnSources(marked)
           r == verify_answer(text, b, n)
<1>1. /\ cites \in Seq(Citation) /\ Len(cites) \in Nat
      /\ best \in [1..n -> Evidence] /\ \A i \in 1..n : BestOf(best[i], cites, i, Len(cites))
  BY BlockType, CitationsType, CitedIsBest, LenProperties
<1>2. CASE ~b.parsed
  <2>1. r = Withheld("unsupported", NoCitations)
    BY <1>2 DEF verify_answer
  <2> QED BY <2>1, WithheldIsBacked
<1>3. CASE b.parsed /\ b.not_found
  <2>1. r = [status |-> "not_found", not_found |-> TRUE, answer |-> Strip(text, {}),
             citations |-> NoCitations]
    BY <1>3 DEF verify_answer
  <2>2. /\ r.status = "not_found" /\ r.not_found /\ r.answer = Strip(text, {})
        /\ r.citations = NoCitations
    BY <2>1
  <2>3. DOMAIN NoCitations = {}
    BY DEF NoCitations
  <2>4. /\ Strip(text, {}) \in Seq(Symbols)
        /\ \A p \in 1..Len(Strip(text, {})) : IsMarker(Strip(text, {})[p]) => IndexOf[Strip(text, {})[p]] \in {}
    BY StripIs
  <2> HIDE DEF r
  <2>5. Backed(r, text, cites, n)
    BY <2>2, <2>3, <2>4 DEF Backed
  <2> QED BY <2>5 DEF r
<1>4. DOMAIN marked = 1..n /\ \A i \in 1..n : marked[i] = best[i] \/ (best[i] = Uncited /\ marked[i] = Weak)
  BY <1>1 DEF Marked
<1>5. /\ DOMAIN shown = {i \in 1..n : marked[i] # Uncited}
      /\ \A i \in DOMAIN shown : shown[i] = marked[i]
  BY <1>4 DEF OnSources
<1>6. \A i \in DOMAIN shown : BestShown(shown[i], cites, i)
  <2> SUFFICES ASSUME NEW i \in DOMAIN shown PROVE BestShown(shown[i], cites, i)
    OBVIOUS
  <2>1. i \in 1..n /\ marked[i] # Uncited /\ shown[i] = marked[i]
    BY <1>5
  <2>2. BestOf(best[i], cites, i, Len(cites))
    BY <1>1, <2>1
  <2>3. marked[i] = best[i] \/ (best[i] = Uncited /\ marked[i] = Weak)
    BY <1>4, <2>1
  <2> HIDE DEF cites, best, marked, shown
  <2>4. CASE best[i] = Uncited /\ marked[i] = Weak
    <3>1. \A j \in 1..Len(cites) : cites[j].source # i
      BY <2>2, <2>4 DEF BestOf, Uncited, Weak
    <3> QED BY <2>1, <2>4, <3>1 DEF BestShown
  <2>5. CASE marked[i] = best[i]
    BY <2>1, <2>2, <2>5 DEF BestOf, BestShown
  <2> QED BY <2>3, <2>4, <2>5
<1>7. CASE b.parsed /\ ~b.not_found /\ \A i \in DOMAIN shown : shown[i].status # "validated"
  <2>1. r = Withheld("unsupported", shown)
    BY <1>7 DEF verify_answer
  <2>2. r.status = "unsupported" /\ r.not_found /\ r.answer = <<>> /\ r.citations = shown
    BY <2>1 DEF Withheld, NotFoundAnswer
  <2>3. Len(<<>>) = 0 /\ <<>> \in Seq(Symbols)
    BY EmptySeq
  <2> HIDE DEF r, shown
  <2>4. Backed(r, text, cites, n)
    BY <1>5, <1>6, <2>2, <2>3 DEF Backed
  <2> QED BY <2>4 DEF r
<1>8. CASE b.parsed /\ ~b.not_found /\ ~(\A i \in DOMAIN shown : shown[i].status # "validated")
  <2> DEFINE sound == ~AnyWeak(claims, text, n) /\ Dropped(claims, text, n) = 0
  <2>1. r = [status |-> IF sound THEN "verified" ELSE "partial", not_found |-> FALSE,
             answer |-> Strip(text, DOMAIN shown), citations |-> shown]
    BY <1>8 DEF verify_answer
  <2>2. /\ r.status = "verified" => sound
        /\ r.answer = Strip(text, DOMAIN shown) /\ r.citations = shown
    BY <2>1
  <2>3. /\ Strip(text, DOMAIN shown) \in Seq(Symbols)
        /\ \A p \in 1..Len(Strip(text, DOMAIN shown)) :
             IsMarker(Strip(text, DOMAIN shown)[p]) =>
               IndexOf[Strip(text, DOMAIN shown)[p]] \in DOMAIN shown
        /\ Prose(Strip(text, DOMAIN shown)) = Prose(text)
    BY StripIs
  <2>4. ASSUME sound
        PROVE  /\ \A k \in 1..Len(cites) : cites[k].source \in 1..n /\ cites[k].supported
               /\ Strip(text, DOMAIN shown) = text
               /\ \A i \in MarkersOf(text) : i \in DOMAIN shown /\ shown[i].status = "validated"
    <3> DEFINE A == {k \in 1..Len(cites) : cites[k].source \notin 1..n}
               B == {p \in 1..Len(text) : IsMarker(text[p]) /\ IndexOf[text[p]] \notin 1..n}
    <3>1. A = {} /\ B = {}
      <4>1. Cardinality(A) + Cardinality(B) = 0
        BY <2>4 DEF Dropped
      <4>2. Len(text) \in Nat
        BY LenProperties
      <4>3. IsFiniteSet(1..Len(cites)) /\ IsFiniteSet(1..Len(text))
        BY <1>1, <4>2, FS_Interval
      <4>4. A \in SUBSET (1..Len(cites)) /\ B \in SUBSET (1..Len(text))
        OBVIOUS
      <4> HIDE DEF A, B, cites
      <4>5. IsFiniteSet(A) /\ IsFiniteSet(B)
        BY <4>3, <4>4, FS_Subset
      <4>6. Cardinality(A) \in Nat /\ Cardinality(B) \in Nat
        BY <4>5, FS_CardinalityType
      <4>7. Cardinality(A) = 0 /\ Cardinality(B) = 0
        BY <4>1, <4>6
      <4> QED BY <4>5, <4>7, FS_EmptySet
    <3>2. /\ ~\E k \in 1..Len(cites) : cites[k].source \in 1..n /\ ~cites[k].supported
          /\ marked = best
      BY <2>4 DEF AnyWeak
    <3>3. \A k \in 1..Len(cites) : cites[k].source \in 1..n /\ cites[k].supported
      BY <3>1, <3>2
    <3>4. ASSUME NEW p \in 1..Len(text), IsMarker(text[p])
          PROVE  IndexOf[text[p]] \in DOMAIN shown /\ shown[IndexOf[text[p]]].status = "validated"
      <4> DEFINE i == IndexOf[text[p]]
      <4>1. i \in 1..n
        BY <3>1, <3>4
      <4>2. best[i] # Uncited
        <5> SUFFICES ASSUME best[i] = Uncited PROVE FALSE
          OBVIOUS
        <5>1. marked[i] = Weak
          BY <1>1, <3>4, <4>1 DEF Marked
        <5> HIDE DEF marked, best, i
        <5> QED BY <3>2, <5>1 DEF Weak, Uncited
      <4>3. i \in DOMAIN shown /\ shown[i] = best[i]
        BY <1>5, <3>2, <4>1, <4>2
      <4>4. BestOf(best[i], cites, i, Len(cites))
        BY <1>1, <4>1
      <4> HIDE DEF i, best, shown, cites
      <4>5. best[i].status = "validated"
        BY <3>3, <4>2, <4>4 DEF BestOf
      <4> QED BY <4>3, <4>5 DEF i
    <3>5. Strip(text, DOMAIN shown) = text
      BY <3>4, StripIs
    <3>6. \A i \in MarkersOf(text) : i \in DOMAIN shown /\ shown[i].status = "validated"
      BY <3>4 DEF MarkersOf
    <3> QED BY <3>3, <3>5, <3>6
  <2>5. \E i \in DOMAIN shown : shown[i].status = "validated"
    BY <1>8
  <2>6. DOMAIN shown \subseteq 1..n
    BY <1>5
  <2> HIDE DEF r, shown, sound, cites
  <2>7. Backed(r, text, cites, n)
    BY <1>6, <2>2, <2>3, <2>4, <2>5, <2>6 DEF Backed
  <2> QED BY <2>7 DEF r, cites
<1> QED BY <1>2, <1>3, <1>7, <1>8

-----------------------------------------------------------------------------
(* The tokens in a list of events.                                         *)
Tokens(w) ==
  LET upto[k \in 0..Len(w)] ==
        IF k = 0 THEN <<>>
        ELSE IF w[k].event = "token" THEN upto[k - 1] \o w[k].text ELSE upto[k - 1]
  IN upto[Len(w)]

-----------------------------------------------------------------------------
(* The second invariant: what is on its way.                               *)

Early == at \notin {"generating", "ended"}
Answering == exchange.status \in {"streaming", "done"}

(* Nothing is sent, nothing retrieved, before the sources are ranked.      *)
QuietAtFirst ==
  /\ Early => wire = <<>>
  /\ (Early /\ at # "idle") => sources = <<>> /\ exchange.sources = <<>>

(* The answer, sent or shown, is that of this text on these sources.       *)
Explained(r) ==
  \/ r = Withheld("not_found", NoCitations)
  \/ r = verify_answer(AnswerPart(raw), block, Len(sources))

AnswersExplained ==
  /\ block \in Blocks \cup {None}
  /\ \A k \in 1..Len(wire) : wire[k].event = "final" => at = "ended" /\ Explained(wire[k].result)
  /\ Done => Explained(exchange.result)

(* The panel has the sources or is about to be told of them first.         *)
SourcesFirst ==
  exchange.mode = "chat" =>
    /\ \A k \in 1..Len(wire) : wire[k].event = "sources" => wire[k].sources = sources
    /\ Answering =>
         \/ exchange.sources = sources
         \/ wire # <<>> /\ wire[1].event = "sources"

DraftSoFar ==
  /\ exchange.draft \in Seq(Symbols)
  /\ Streaming => exchange.draft \o Tokens(wire) = SubSeq(raw, 1, emitted)

(* Events in a row, the tokens among them with text.                       *)
Events(w) ==
  /\ \E S : w \in Seq(S)
  /\ \A k \in 1..Len(w) : w[k].event = "token" => w[k].text \in Seq(Symbols)

(* f[k] are the tokens of the first k events.                              *)
SentSoFar(f, w) ==
  /\ f \in [0..Len(w) -> Seq(Symbols)] /\ f[0] = <<>> /\ f[Len(w)] = Tokens(w)
  /\ \A k \in 1..Len(w) :
       f[k] = IF w[k].event = "token" THEN f[k - 1] \o w[k].text ELSE f[k - 1]

(* The tokens add up event by event.                                       *)
LEMMA SentSoFarExists ==
  ASSUME NEW w, Events(w)
  PROVE  \E f : SentSoFar(f, w)
<1> DEFINE m == Len(w)
           S == Seq(Symbols)
           More(k, s) == IF w[k].event = "token" THEN s \o w[k].text ELSE s
           Is(f) == f = [k \in 0..Len(w) |->
                           IF k = 0 THEN <<>>
                           ELSE IF w[k].event = "token" THEN f[k - 1] \o w[k].text ELSE f[k - 1]]
           step == [k \in 1..m |-> [s \in S |-> More(k, s)]]
           g == CHOOSE f : Is(f)
<1>1. m \in Nat /\ <<>> \in S
  BY LenProperties, EmptySeq DEF Events
<1>2. ASSUME NEW k \in 1..m, NEW s \in S PROVE More(k, s) \in S
  BY ConcatProperties DEF Events
<1>3. step \in [1..m -> [S -> S]]
  <2> HIDE DEF S, m, More
  <2> QED BY <1>2
<1>4. PICK f : IsFold(f, <<>>, step, m, S)
  <2> HIDE DEF S, m, step
  <2> QED BY <1>1, <1>3, FoldExists
<1>5. f \in [0..m -> S] /\ f[0] = <<>> /\ \A k \in 1..m : f[k] = More(k, f[k - 1])
  <2>1. f \in [0..m -> S] /\ f[0] = <<>> /\ \A k \in 1..m : f[k] = step[k][f[k - 1]]
    BY <1>4 DEF IsFold
  <2>2. ASSUME NEW k \in 1..m PROVE f[k] = More(k, f[k - 1])
    <3>1. k - 1 \in 0..m
      BY <1>1
    <3>2. f[k - 1] \in S
      BY <2>1, <3>1
    <3> HIDE DEF S, m, More
    <3> QED BY <2>1, <3>2
  <2> QED BY <2>1, <2>2
<1>6. Is(f)
  <2>1. ASSUME NEW k \in 0..m
        PROVE  f[k] = IF k = 0 THEN <<>>
                      ELSE IF w[k].event = "token" THEN f[k - 1] \o w[k].text ELSE f[k - 1]
    <3>1. k = 0 \/ k \in 1..m
      BY <1>1
    <3>2. CASE k = 0
      BY <1>5, <3>2
    <3>3. CASE k # 0
      BY <1>5, <3>1, <3>3
    <3> QED BY <3>2, <3>3
  <2> HIDE DEF S
  <2> QED BY <1>5, <2>1
<1>7. Is(g)
  <2> HIDE DEF Is
  <2> QED BY <1>6, Zenon DEF g
<1>8. Tokens(w) = g[Len(w)]
  BY Zenon DEF Tokens
<1>9. \A k \in 0..m : g[k] = IF k = 0 THEN <<>> ELSE More(k, g[k - 1])
  <2> HIDE DEF g
  <2> QED BY <1>7
<1> DEFINE P == {k \in 0..m : g[k] = f[k]}
<1> HIDE DEF g, step, Is, More, S, m
<1>10. 0 \in P /\ \A k \in 1..m : k - 1 \in P => k \in P
  BY <1>1, <1>5, <1>9
<1> HIDE DEF P
<1>11. \A k \in 0..m : k \in P
  BY <1>1, <1>10, ClosedIsAll, Zenon
<1>12. f[m] = Tokens(w)
  BY <1>1, <1>8, <1>11 DEF P, m
<1> QED BY <1>5, <1>12 DEF SentSoFar, More, m, S

(* Tokens add up to text.                                                  *)
LEMMA TokensType ==
  ASSUME NEW w, Events(w)
  PROVE  Tokens(w) \in Seq(Symbols)
<1>1. PICK f : SentSoFar(f, w)
  BY SentSoFarExists
<1>2. Len(w) \in 0..Len(w)
  BY LenProperties DEF Events
<1> QED BY <1>1, <1>2 DEF SentSoFar

(* No event, no token.                                                     *)
LEMMA NoEvents == Events(<<>>) /\ Tokens(<<>>) = <<>>
<1>1. Events(<<>>)
  BY EmptySeq DEF Events
<1>2. PICK f : SentSoFar(f, <<>>)
  BY <1>1, SentSoFarExists
<1> QED BY <1>1, <1>2, EmptySeq DEF SentSoFar

(* One more event.                                                         *)
LEMMA EventSent ==
  ASSUME NEW w, Events(w), NEW e, e.event = "token" => e.text \in Seq(Symbols)
  PROVE  /\ Events(Append(w, e)) /\ Len(Append(w, e)) = Len(w) + 1 /\ Len(w) \in Nat
         /\ \A k \in 1..Len(w) : Append(w, e)[k] = w[k]
         /\ Append(w, e)[Len(w) + 1] = e
         /\ Tokens(Append(w, e)) = IF e.event = "token" THEN Tokens(w) \o e.text ELSE Tokens(w)
<1>1. PICK S : w \in Seq(S)
  BY DEF Events
<1> DEFINE T == S \cup {e}
           v == Append(w, e)
           m == Len(w)
<1>2. w \in Seq(T) /\ e \in T
  BY <1>1, SeqMonotonic
<1>3. /\ v \in Seq(T) /\ Len(v) = m + 1 /\ m \in Nat /\ v[m + 1] = e
      /\ \A k \in 1..m : v[k] = w[k]
  <2> HIDE DEF T
  <2> QED BY <1>2, AppendProperties, LenProperties
<1> HIDE DEF T, v, m
<1>4. Events(v)
  <2>1. ASSUME NEW k \in 1..Len(v), v[k].event = "token" PROVE v[k].text \in Seq(Symbols)
    <3>1. k = m + 1 \/ k \in 1..m
      BY <1>3
    <3> QED BY <1>3, <2>1, <3>1 DEF Events, m
  <2> QED BY <1>3, <2>1 DEF Events
<1>5. PICK f : SentSoFar(f, w)
  BY SentSoFarExists
<1>6. PICK h : SentSoFar(h, v)
  BY <1>4, SentSoFarExists
<1> DEFINE P == {k \in 0..m : h[k] = f[k]}
<1>7. 0 \in P
  BY <1>3, <1>5, <1>6 DEF SentSoFar
<1>8. ASSUME NEW k \in 1..m, k - 1 \in P PROVE k \in P
  <2>1. k \in 1..Len(v) /\ k \in 1..Len(w) /\ v[k] = w[k] /\ h[k - 1] = f[k - 1] /\ k \in 0..m
    BY <1>3, <1>8 DEF m
  <2> QED BY <1>5, <1>6, <2>1 DEF SentSoFar
<1> HIDE DEF P
<1>9. \A k \in 0..m : k \in P
  BY <1>3, <1>7, <1>8, ClosedIsAll, Zenon
<1>10. h[m] = Tokens(w)
  BY <1>3, <1>5, <1>9 DEF P, m, SentSoFar
<1>11. m + 1 \in 1..Len(v) /\ (m + 1) - 1 = m
  BY <1>3
<1>12. Tokens(v) = IF e.event = "token" THEN h[m] \o e.text ELSE h[m]
  BY <1>3, <1>6, <1>11 DEF SentSoFar
<1> QED BY <1>3, <1>4, <1>10, <1>12 DEF v, m

(* The first event is received.                                            *)
LEMMA EventReceived ==
  ASSUME NEW w, Events(w), w # <<>>
  PROVE  /\ Events(Tail(w)) /\ Len(w) \in Nat /\ Len(w) > 0 /\ Len(Tail(w)) = Len(w) - 1
         /\ \A k \in 1..Len(Tail(w)) : Tail(w)[k] = w[k + 1] /\ k + 1 \in 1..Len(w)
         /\ w[1].event = "token" => Tokens(w) = w[1].text \o Tokens(Tail(w))
         /\ w[1].event # "token" => Tokens(w) = Tokens(Tail(w))
<1>1. PICK S : w \in Seq(S)
  BY DEF Events
<1> DEFINE v == Tail(w)
           m == Len(v)
           first == IF w[1].event = "token" THEN w[1].text ELSE <<>>
<1>2. /\ v \in Seq(S) /\ m = Len(w) - 1 /\ Len(w) \in Nat /\ m \in Nat
      /\ \A k \in 1..m : v[k] = w[k + 1] /\ k + 1 \in 1..Len(w)
  <2>1. /\ v \in Seq(S) /\ m = Len(w) - 1 /\ Len(w) \in Nat /\ m \in Nat
        /\ \A k \in 1..m : v[k] = w[k + 1]
    BY <1>1, HeadTailProperties, LenProperties
  <2> HIDE DEF v, m
  <2>2. \A k \in 1..m : k + 1 \in 1..Len(w)
    BY <2>1
  <2> QED BY <2>1, <2>2
<1>3. 1 \in 1..Len(w) /\ first \in Seq(Symbols)
  BY <1>2, EmptySeq DEF Events
<1> HIDE DEF v, m, first
<1>4. Events(v)
  BY <1>2 DEF Events, m
<1>5. PICK f : SentSoFar(f, w)
  BY SentSoFarExists
<1>6. PICK h : SentSoFar(h, v)
  BY <1>4, SentSoFarExists
<1>7. /\ f \in [0..Len(w) -> Seq(Symbols)] /\ f[0] = <<>> /\ f[Len(w)] = Tokens(w)
      /\ \A k \in 1..Len(w) :
           f[k] = IF w[k].event = "token" THEN f[k - 1] \o w[k].text ELSE f[k - 1]
  BY <1>5 DEF SentSoFar
<1>8. /\ h \in [0..m -> Seq(Symbols)] /\ h[0] = <<>> /\ h[m] = Tokens(v)
      /\ \A k \in 1..m :
           h[k] = IF v[k].event = "token" THEN h[k - 1] \o v[k].text ELSE h[k - 1]
  BY <1>6 DEF SentSoFar, m
<1> DEFINE P == {k \in 0..m : f[k + 1] = first \o h[k]}
<1>9. 0 \in P
  <2>1. f[1] = IF w[1].event = "token" THEN f[0] \o w[1].text ELSE f[0]
    <3>1. f[1] = IF w[1].event = "token" THEN f[1 - 1] \o w[1].text ELSE f[1 - 1]
      BY <1>3, <1>7, Zenon
    <3>2. 1 - 1 = 0
      OBVIOUS
    <3> QED BY <3>1, <3>2
  <2>2. f[1] = first
    BY <1>3, <1>7, <2>1, ConcatEmptySeq DEF first
  <2>3. first \o h[0] = first
    BY <1>3, <1>8, ConcatEmptySeq
  <2> QED BY <1>2, <2>2, <2>3
<1>10. ASSUME NEW k \in 1..m, k - 1 \in P PROVE k \in P
  <2>1. /\ k \in 0..m /\ k + 1 \in 1..Len(w) /\ (k + 1) - 1 = k /\ k - 1 \in 0..m
        /\ v[k] = w[k + 1] /\ f[(k - 1) + 1] = first \o h[k - 1] /\ (k - 1) + 1 = k
    BY <1>2, <1>10
  <2>2. f[k] = first \o h[k - 1]
    BY <2>1
  <2>3. f[k + 1] = IF v[k].event = "token" THEN f[k] \o v[k].text ELSE f[k]
    BY <1>7, <2>1
  <2>4. h[k] = IF v[k].event = "token" THEN h[k - 1] \o v[k].text ELSE h[k - 1]
    BY <1>8
  <2>5. h[k - 1] \in Seq(Symbols)
    BY <1>8, <2>1
  <2>6. CASE v[k].event = "token"
    <3>1. v[k].text \in Seq(Symbols)
      BY <1>4, <2>6 DEF Events, m
    <3>2. (first \o h[k - 1]) \o v[k].text = first \o (h[k - 1] \o v[k].text)
      <4> DEFINE sent == h[k - 1]
                 new == v[k].text
      <4>1. sent \in Seq(Symbols) /\ new \in Seq(Symbols)
        BY <2>5, <3>1
      <4> HIDE DEF sent, new
      <4>2. (first \o sent) \o new = first \o (sent \o new)
        BY <1>3, <4>1, ConcatAssociative
      <4> QED BY <4>2 DEF sent, new
    <3> QED BY <2>1, <2>2, <2>3, <2>4, <2>6, <3>2
  <2>7. CASE v[k].event # "token"
    BY <2>1, <2>2, <2>3, <2>4, <2>7
  <2> QED BY <2>6, <2>7
<1> HIDE DEF P
<1>11. \A k \in 0..m : k \in P
  BY <1>2, <1>9, <1>10, ClosedIsAll, Zenon
<1>12. m \in 0..m /\ m + 1 = Len(w)
  BY <1>2
<1>13. Tokens(w) = first \o Tokens(v)
  BY <1>7, <1>8, <1>11, <1>12 DEF P
<1>14. Tokens(v) \in Seq(Symbols)
  BY <1>4, TokensType
<1>15. CASE w[1].event = "token"
  BY <1>2, <1>3, <1>4, <1>13, <1>15 DEF first, v, m
<1>16. CASE w[1].event # "token"
  <2>1. first = <<>>
    BY <1>16 DEF first
  <2>2. Tokens(w) = Tokens(v)
    BY <1>13, <1>14, <2>1, ConcatEmptySeq
  <2> QED BY <1>2, <1>3, <1>4, <1>16, <2>2 DEF v, m
<1> QED BY <1>15, <1>16

-----------------------------------------------------------------------------
(* The second invariant is inductive, given the first.                     *)

(* Conjuncts of the second invariant.                                      *)
AnswerInv ==
  Events(wire) /\ QuietAtFirst /\ AnswersExplained /\ SourcesFirst /\ DraftSoFar

(* It holds before the first question.                                     *)
LEMMA AnswerInit == Init => AnswerInv
<1> SUFFICES ASSUME Init PROVE AnswerInv
  OBVIOUS
<1>1. /\ exchange = NoExchange /\ wire = <<>> /\ at = "idle" /\ sources = <<>> /\ block = None
      /\ raw = <<>> /\ emitted = 0
  BY DEF Init
<1>2. NoExchange.mode = "chat" /\ NoExchange.status = "none" /\ NoExchange.draft = <<>>
      /\ NoExchange.sources = <<>>
  BY DEF NoExchange
<1>3. Events(<<>>) /\ <<>> \in Seq(Symbols) /\ Len(<<>>) = 0
  BY NoEvents, EmptySeq
<1> QED BY <1>1, <1>2, <1>3
        DEF AnswerInv, QuietAtFirst, Early, AnswersExplained, SourcesFirst, Answering, Done,
            DraftSoFar, Streaming

(* Nothing of it changes.                                                  *)
LEMMA NothingSent ==
  ASSUME AnswerInv, UNCHANGED <<exchange, wire, at, sources, raw, emitted, block>>
  PROVE  AnswerInv'
<1>1. QuietAtFirst' /\ SourcesFirst' /\ DraftSoFar' /\ Events(wire)'
  BY DEF AnswerInv, QuietAtFirst, Early, SourcesFirst, Answering, Done, DraftSoFar, Streaming
<1>2. AnswersExplained'
  BY DEF AnswerInv, AnswersExplained, Explained, Done
<1> QED BY <1>1, <1>2 DEF AnswerInv

(* The server's steps on the way to an answer, or to its end: what it      *)
(* sends then is the last event.                                           *)
LEMMA ServerSends ==
  ASSUME StreamInv, AnswerInv, at \notin {"idle", "ended"}, NEW e,
         UNCHANGED <<exchange, raw, emitted, sources>>, block' \in Blocks \cup {None},
         \/ wire' = wire /\ (at' = "ended" \/ (Early /\ at' \notin {"idle", "generating", "ended"}))
         \/ /\ wire' = Append(wire, e) /\ at' = "ended" /\ e.event \in {"error", "final"}
            /\ e.event = "final" => Explained(e.result)'
  PROVE  AnswerInv'
<1>1. Streaming /\ ~Done /\ ~Done'
  BY DEF StreamInv, OneExchange, Streaming, Done
<1>2. /\ Events(wire) /\ QuietAtFirst /\ AnswersExplained /\ SourcesFirst /\ DraftSoFar
  BY DEF AnswerInv
<1>3. \A k \in 1..Len(wire) : wire[k].event # "final"
  BY <1>2 DEF AnswersExplained
<1>4. CASE wire' = wire
  <2>1. Events(wire)' /\ DraftSoFar'
    BY <1>2, <1>4 DEF DraftSoFar, Streaming
  <2>2. QuietAtFirst'
    BY <1>2, <1>4 DEF QuietAtFirst, Early
  <2>3. AnswersExplained'
    BY <1>1, <1>3, <1>4 DEF AnswersExplained
  <2>4. SourcesFirst'
    BY <1>2, <1>4 DEF SourcesFirst, Answering
  <2> QED BY <2>1, <2>2, <2>3, <2>4 DEF AnswerInv
<1>5. CASE /\ wire' = Append(wire, e) /\ at' = "ended" /\ e.event \in {"error", "final"}
           /\ e.event = "final" => Explained(e.result)'
  <2>1. /\ Events(wire') /\ Len(wire') = Len(wire) + 1 /\ Len(wire) \in Nat
        /\ \A k \in 1..Len(wire) : wire'[k] = wire[k]
        /\ wire'[Len(wire) + 1] = e /\ Tokens(wire') = Tokens(wire)
    <3>1. e.event # "token"
      BY <1>5
    <3> QED BY <1>2, <1>5, <3>1, EventSent
  <2>2. \A k \in 1..Len(wire') : k \in 1..Len(wire) \/ k = Len(wire) + 1
    BY <2>1
  <2>3. QuietAtFirst'
    BY <1>5 DEF QuietAtFirst, Early
  <2>4. AnswersExplained'
    <3>1. ASSUME NEW k \in 1..Len(wire'), wire'[k].event = "final"
          PROVE  at' = "ended" /\ Explained(wire[k].result)'
      <4>1. k = Len(wire) + 1
        BY <1>3, <2>1, <2>2, <3>1
      <4>2. wire'[k] = e
        BY <2>1, <4>1
      <4>3. Explained(e.result)'
        BY <1>5, <3>1, <4>2
      <4> QED BY <1>5, <4>2, <4>3 DEF Explained
    <3> QED BY <1>1, <3>1 DEF AnswersExplained
  <2>5. SourcesFirst'
    <3> SUFFICES ASSUME exchange.mode = "chat"
                 PROVE  /\ \A k \in 1..Len(wire') : wire'[k].event = "sources" =>
                             wire'[k].sources = sources
                        /\ \/ exchange.sources = sources
                           \/ wire' # <<>> /\ wire'[1].event = "sources"
      BY DEF SourcesFirst, Answering
    <3>1. \A k \in 1..Len(wire') : wire'[k].event = "sources" => wire'[k].sources = sources
      BY <1>2, <1>5, <2>1, <2>2 DEF SourcesFirst
    <3>2. CASE exchange.sources = sources
      BY <3>1, <3>2
    <3>3. CASE wire # <<>> /\ wire[1].event = "sources"
      <4>1. 1 \in 1..Len(wire)
        BY <1>2, <3>3, EventReceived
      <4>2. wire'[1].event = "sources" /\ wire' # <<>>
        BY <2>1, <3>3, <4>1, EmptySeq
      <4> QED BY <3>1, <4>2
    <3> QED BY <1>1, <1>2, <3>2, <3>3 DEF SourcesFirst, Answering, Streaming
  <2>6. DraftSoFar'
    BY <1>2, <2>1 DEF DraftSoFar, Streaming
  <2> QED BY <2>1, <2>3, <2>4, <2>5, <2>6 DEF AnswerInv
<1> QED BY <1>4, <1>5

(* With no sources the answer is that there is none.                       *)
LEMMA AnswerNothingPreserves ==
  ASSUME StreamInv, AnswerInv, AnswerNothing
  PROVE  AnswerInv'
<1> DEFINE none == [event |-> "sources", sources |-> <<>>]
           answer == [event |-> "final", result |-> Withheld("not_found", NoCitations)]
<1>1. /\ at \notin {"idle", "generating", "ended"} /\ at' = "ended"
      /\ wire' = Append(SourcesEvent(<<>>), answer)
      /\ UNCHANGED <<exchange, sources, raw, emitted, block>>
  BY DEF AnswerNothing, Fetched, client, search, completion
<1>2. /\ Streaming /\ ~Done' /\ Events(wire) /\ wire = <<>> /\ sources = <<>>
      /\ exchange.sources = <<>> /\ DraftSoFar /\ block \in Blocks \cup {None}
  BY <1>1 DEF StreamInv, OneExchange, AnswerInv, QuietAtFirst, Early, AnswersExplained, Streaming, Done
<1>3. /\ none.event = "sources" /\ none.sources = <<>> /\ answer.event = "final"
      /\ answer.result = Withheld("not_found", NoCitations)
  OBVIOUS
<1> HIDE DEF none, answer
<1>4. /\ Events(SourcesEvent(<<>>)) /\ Tokens(SourcesEvent(<<>>)) = <<>>
      /\ \A k \in 1..Len(SourcesEvent(<<>>)) : SourcesEvent(<<>>)[k] = none
  <2>1. CASE exchange.mode = "chat"
    <3>1. SourcesEvent(<<>>) = Append(<<>>, none)
      BY <1>2, <2>1 DEF SourcesEvent, none
    <3>2. /\ Events(Append(<<>>, none)) /\ Tokens(Append(<<>>, none)) = Tokens(<<>>)
          /\ Len(Append(<<>>, none)) = Len(<<>>) + 1
          /\ Append(<<>>, none)[Len(<<>>) + 1] = none
      BY <1>2, <1>3, EventSent
    <3>3. Len(<<>>) = 0 /\ Tokens(<<>>) = <<>>
      BY EmptySeq, NoEvents
    <3> QED BY <3>1, <3>2, <3>3
  <2>2. CASE exchange.mode # "chat"
    BY <1>2, <2>2, NoEvents, EmptySeq DEF SourcesEvent
  <2> QED BY <2>1, <2>2
<1>5. /\ Events(wire') /\ Tokens(wire') = <<>>
      /\ \A k \in 1..Len(wire') : wire'[k] = none \/ wire'[k] = answer
  <2> DEFINE w == SourcesEvent(<<>>)
  <2> HIDE DEF w
  <2>1. /\ Events(Append(w, answer)) /\ Len(Append(w, answer)) = Len(w) + 1 /\ Len(w) \in Nat
        /\ \A k \in 1..Len(w) : Append(w, answer)[k] = w[k]
        /\ Append(w, answer)[Len(w) + 1] = answer
        /\ Tokens(Append(w, answer)) = Tokens(w)
    BY <1>3, <1>4, EventSent DEF w
  <2>2. \A k \in 1..Len(w) : w[k] = none
    BY <1>4 DEF w
  <2>3. \A k \in 1..(Len(w) + 1) : k \in 1..Len(w) \/ k = Len(w) + 1
    BY <2>1
  <2>4. wire' = Append(w, answer) /\ Tokens(w) = <<>>
    BY <1>1, <1>4 DEF w
  <2> QED BY <2>1, <2>2, <2>3, <2>4
<1>6. QuietAtFirst'
  BY <1>1 DEF QuietAtFirst, Early
<1>7. AnswersExplained'
  BY <1>1, <1>2, <1>3, <1>5 DEF AnswersExplained, Explained
<1>8. SourcesFirst'
  BY <1>1, <1>2, <1>3, <1>5 DEF SourcesFirst
<1>9. DraftSoFar'
  BY <1>1, <1>2, <1>5, NoEvents DEF DraftSoFar, Streaming
<1> QED BY <1>5, <1>6, <1>7, <1>8, <1>9 DEF AnswerInv

(* The sources are sent before anything else.                              *)
LEMMA RankSourcesPreserves ==
  ASSUME StreamInv, AnswerInv, RankSources
  PROVE  AnswerInv'
<1> DEFINE told == [event |-> "sources", sources |-> sources']
<1>1. /\ at \notin {"idle", "generating", "ended"} /\ at' = "generating"
      /\ wire' = IF exchange.mode = "chat" THEN Append(wire, told) ELSE wire
      /\ UNCHANGED <<exchange, raw, emitted, block>>
  BY DEF RankSources, Fetched, client, completion, SourcesEvent
<1>2. /\ Streaming /\ ~Done' /\ Events(wire) /\ wire = <<>>
      /\ DraftSoFar /\ block \in Blocks \cup {None}
  BY <1>1 DEF StreamInv, OneExchange, AnswerInv, QuietAtFirst, Early, AnswersExplained, Streaming, Done
<1>3. told.event = "sources" /\ told.sources = sources'
  OBVIOUS
<1> HIDE DEF told
<1>4. QuietAtFirst'
  BY <1>1 DEF QuietAtFirst, Early
<1>5. CASE exchange.mode = "chat"
  <2>1. /\ Events(wire') /\ Len(wire') = Len(wire) + 1 /\ wire'[Len(wire) + 1] = told
        /\ Tokens(wire') = Tokens(wire)
    BY <1>1, <1>2, <1>3, <1>5, EventSent
  <2>2. Len(wire) = 0 /\ \A k \in 1..Len(wire') : k = 1 /\ wire'[k] = told
    BY <1>2, <2>1, EmptySeq
  <2>3. wire' # <<>> /\ wire'[1] = told
    BY <2>1, <2>2, EmptySeq
  <2>4. AnswersExplained'
    BY <1>1, <1>2, <1>3, <2>2 DEF AnswersExplained
  <2>5. SourcesFirst'
    BY <1>3, <2>2, <2>3 DEF SourcesFirst
  <2>6. DraftSoFar'
    BY <1>1, <1>2, <2>1 DEF DraftSoFar, Streaming
  <2> QED BY <1>4, <2>1, <2>4, <2>5, <2>6 DEF AnswerInv
<1>6. CASE exchange.mode # "chat"
  <2>1. wire' = wire /\ Events(wire') /\ Len(wire) = 0
    BY <1>1, <1>2, <1>6, EmptySeq
  <2>2. AnswersExplained'
    BY <1>2, <1>1, <2>1 DEF AnswersExplained
  <2>3. SourcesFirst'
    BY <1>1, <1>6 DEF SourcesFirst
  <2>4. DraftSoFar'
    BY <1>1, <1>2, <2>1 DEF DraftSoFar, Streaming
  <2> QED BY <1>4, <2>1, <2>2, <2>3, <2>4 DEF AnswerInv
<1> QED BY <1>5, <1>6

(* What a delta shows goes behind what was sent before.                    *)
LEMMA DeltaSent ==
  ASSUME StreamInv, AnswerInv, NEW delta \in Deltas(raw), ReadDelta(delta)
  PROVE  AnswerInv'
<1> DEFINE text == raw \o delta
           end == IF answer_done THEN emitted ELSE Visible(text, emitted)
           new == SubSeq(text, emitted + 1, end)
           token == [event |-> "token", text |-> new]
<1>1. /\ raw \in Seq(Symbols) /\ emitted \in 0..Len(raw) /\ answer_done \in BOOLEAN
      /\ delta \in Seq(Symbols) /\ at = "generating" /\ at' = at /\ raw' = text
      /\ UNCHANGED <<exchange, sources, block>>
  BY DeltaType DEF StreamInv, BuffersOK, ReadDelta, client, search
<1>2. /\ Streaming /\ ~Done' /\ Events(wire) /\ QuietAtFirst /\ AnswersExplained
      /\ SourcesFirst /\ DraftSoFar
  BY <1>1 DEF StreamInv, OneExchange, AnswerInv, Streaming, Done
<1>3. /\ text \in Seq(Symbols) /\ Len(text) \in Nat /\ Len(raw) \in Nat /\ Len(raw) <= Len(text)
      /\ \A k \in 1..Len(raw) : text[k] = raw[k]
  BY <1>1, ConcatProperties, LenProperties
<1>4. /\ emitted \in 0..Len(text) /\ end \in Nat /\ end <= Len(text)
  <2>1. emitted \in 0..Len(text)
    BY <1>1, <1>3
  <2> HIDE DEF text
  <2>2. Visible(text, emitted) \in Nat /\ Visible(text, emitted) <= Len(text)
    BY <1>3, <2>1, VisibleBounds
  <2> QED BY <1>3, <2>1, <2>2
<1>5. \/ emitted' = emitted /\ wire' = wire
      \/ end > emitted /\ emitted' = end /\ wire' = Append(wire, token)
  BY DEF ReadDelta
<1> HIDE DEF text, end
<1>6. SubSeq(text, 1, emitted) = SubSeq(raw, 1, emitted)
  <2>1. \A i \in 1..emitted : text[i] \in Symbols /\ raw[i] \in Symbols /\ text[i] = raw[i]
    BY <1>1, <1>3, ElementOfSeq
  <2>2. /\ SubSeq(text, 1, emitted) \in Seq(Symbols)
        /\ Len(SubSeq(text, 1, emitted)) = emitted
        /\ \A i \in 1..emitted : SubSeq(text, 1, emitted)[i] = text[i]
    BY <1>1, <2>1, SubSeqProperties
  <2>3. /\ SubSeq(raw, 1, emitted) \in Seq(Symbols)
        /\ Len(SubSeq(raw, 1, emitted)) = emitted
        /\ \A i \in 1..emitted : SubSeq(raw, 1, emitted)[i] = raw[i]
    BY <1>1, <2>1, SubSeqProperties
  <2> QED BY <2>1, <2>2, <2>3, SeqEqual
<1>7. exchange.draft \o Tokens(wire) = SubSeq(text, 1, emitted)
  BY <1>2, <1>6 DEF DraftSoFar
<1>8. \A k \in 1..Len(wire) : wire[k].event # "final"
  BY <1>1, <1>2 DEF AnswersExplained
<1>9. QuietAtFirst'
  BY <1>1 DEF QuietAtFirst, Early
<1>10. CASE emitted' = emitted /\ wire' = wire
  <2>1. Events(wire)' /\ SourcesFirst'
    BY <1>1, <1>2, <1>10 DEF SourcesFirst, Answering
  <2>2. AnswersExplained'
    BY <1>1, <1>2, <1>8, <1>10 DEF AnswersExplained
  <2>3. DraftSoFar'
    BY <1>1, <1>2, <1>7, <1>10 DEF DraftSoFar
  <2> QED BY <1>9, <2>1, <2>2, <2>3 DEF AnswerInv
<1>11. CASE end > emitted /\ emitted' = end /\ wire' = Append(wire, token)
  <2>1. new \in Seq(Symbols)
    <3>1. \A i \in (emitted + 1)..end : text[i] \in Symbols
      BY <1>3, <1>4, ElementOfSeq
    <3> QED BY <1>4, <3>1, SubSeqProperties
  <2>2. token.event = "token" /\ token.text = new
    OBVIOUS
  <2> HIDE DEF token, new
  <2>3. /\ Events(wire') /\ Len(wire') = Len(wire) + 1 /\ Len(wire) \in Nat
        /\ \A k \in 1..Len(wire) : wire'[k] = wire[k]
        /\ wire'[Len(wire) + 1] = token /\ Tokens(wire') = Tokens(wire) \o new
    BY <1>2, <1>11, <2>1, <2>2, EventSent
  <2>4. \A k \in 1..Len(wire') : k \in 1..Len(wire) \/ k = Len(wire) + 1
    BY <2>3
  <2>5. AnswersExplained'
    <3>1. \A k \in 1..Len(wire') : wire'[k].event # "final"
      BY <1>8, <2>2, <2>3, <2>4
    <3> QED BY <1>1, <1>2, <3>1 DEF AnswersExplained
  <2>6. SourcesFirst'
    <3> SUFFICES ASSUME exchange.mode = "chat"
                 PROVE  /\ \A k \in 1..Len(wire') : wire'[k].event = "sources" =>
                             wire'[k].sources = sources
                        /\ \/ exchange.sources = sources
                           \/ wire' # <<>> /\ wire'[1].event = "sources"
      BY <1>1 DEF SourcesFirst, Answering
    <3>1. \A k \in 1..Len(wire') : wire'[k].event = "sources" => wire'[k].sources = sources
      BY <1>2, <2>2, <2>3, <2>4 DEF SourcesFirst
    <3>2. CASE exchange.sources = sources
      BY <3>1, <3>2
    <3>3. CASE wire # <<>> /\ wire[1].event = "sources"
      <4>1. 1 \in 1..Len(wire)
        BY <1>2, <3>3, EventReceived
      <4>2. wire'[1].event = "sources" /\ wire' # <<>>
        BY <2>3, <3>3, <4>1, EmptySeq
      <4> QED BY <3>1, <4>2
    <3> QED BY <1>2, <3>2, <3>3 DEF SourcesFirst, Answering, Streaming
  <2>7. DraftSoFar'
    <3>1. Tokens(wire) \in Seq(Symbols) /\ exchange.draft \in Seq(Symbols)
      BY <1>2, TokensType DEF DraftSoFar
    <3>2. exchange.draft \o (Tokens(wire) \o new) = (exchange.draft \o Tokens(wire)) \o new
      <4> DEFINE draft == exchange.draft
      <4>1. draft \in Seq(Symbols)
        BY <3>1
      <4> HIDE DEF draft
      <4>2. draft \o (Tokens(wire) \o new) = (draft \o Tokens(wire)) \o new
        BY <2>1, <3>1, <4>1, ConcatAssociative
      <4> QED BY <4>2 DEF draft
    <3>3. SubSeq(text, 1, emitted) \o SubSeq(text, emitted + 1, end) = SubSeq(text, 1, end)
      <4>1. 1 \in 1..(Len(text) + 1) /\ emitted \in (1 - 1)..Len(text) /\ end \in emitted..Len(text)
        BY <1>3, <1>4, <1>11
      <4> QED BY <1>3, <4>1, ConcatAdjacentSubSeq
    <3>4. exchange.draft \o Tokens(wire') = SubSeq(text, 1, end)
      BY <1>7, <2>3, <3>2, <3>3 DEF new
    <3> QED BY <1>1, <1>11, <3>1, <3>4 DEF DraftSoFar
  <2> QED BY <1>9, <2>3, <2>5, <2>6, <2>7 DEF AnswerInv
<1> QED BY <1>5, <1>10, <1>11

(* The panel takes the first event.                                        *)
LEMMA ReceivePreservesAnswers ==
  ASSUME StreamInv, AnswerInv, ReceiveSources \/ ReceiveToken
  PROVE  AnswerInv'
<1>1. /\ wire # <<>> /\ wire' = Tail(wire) /\ UNCHANGED <<at, sources, raw, emitted, block>>
      /\ connected
  BY DEF ReceiveSources, ReceiveToken, Arrived, search, completion
<1>2. /\ DOMAIN exchange = ExchangeFields /\ Streaming /\ at # "idle"
      /\ Events(wire) /\ QuietAtFirst /\ AnswersExplained /\ SourcesFirst /\ DraftSoFar
      /\ at \in {"generating", "ended"}
  BY <1>1 DEF StreamInv, OneExchange, AnswerInv, QuietAtFirst, Early
<1>3. /\ Events(wire') /\ Len(wire) \in Nat /\ Len(wire) > 0
      /\ \A k \in 1..Len(wire') : wire'[k] = wire[k + 1] /\ k + 1 \in 1..Len(wire)
      /\ wire[1].event = "token" => Tokens(wire) = wire[1].text \o Tokens(wire')
      /\ wire[1].event # "token" => Tokens(wire) = Tokens(wire')
      /\ 1 \in 1..Len(wire)
  <2>1. /\ Events(wire') /\ Len(wire) \in Nat /\ Len(wire) > 0
        /\ \A k \in 1..Len(wire') : wire'[k] = wire[k + 1] /\ k + 1 \in 1..Len(wire)
        /\ wire[1].event = "token" => Tokens(wire) = wire[1].text \o Tokens(wire')
        /\ wire[1].event # "token" => Tokens(wire) = Tokens(wire')
    BY <1>1, <1>2, EventReceived
  <2> QED BY <2>1
<1>4. exchange'.mode = exchange.mode /\ exchange'.status = exchange.status /\ ~Done /\ ~Done'
  BY <1>2 DEF ReceiveSources, ReceiveToken, ExchangeFields, Done, Streaming
<1>5. QuietAtFirst'
  BY <1>1, <1>2 DEF QuietAtFirst, Early
<1>6. AnswersExplained'
  <2>1. ASSUME NEW k \in 1..Len(wire'), wire'[k].event = "final"
        PROVE  at' = "ended" /\ Explained(wire[k].result)'
    <3>1. wire'[k] = wire[k + 1] /\ at = "ended" /\ Explained(wire[k + 1].result)
      BY <1>2, <1>3, <2>1 DEF AnswersExplained
    <3> QED BY <1>1, <3>1 DEF Explained
  <2> QED BY <1>1, <1>2, <1>4, <2>1 DEF AnswersExplained
<1>7. CASE ReceiveSources
  <2>1. /\ wire[1].event = "sources" /\ exchange'.sources = wire[1].sources
        /\ exchange'.draft = exchange.draft
    BY <1>2, <1>7 DEF ReceiveSources, Arrived, ExchangeFields
  <2>2. SourcesFirst'
    BY <1>1, <1>2, <1>3, <1>4, <2>1 DEF SourcesFirst
  <2>3. DraftSoFar'
    BY <1>1, <1>2, <1>3, <1>4, <2>1 DEF DraftSoFar, Streaming
  <2> QED BY <1>3, <1>5, <1>6, <2>2, <2>3 DEF AnswerInv
<1>8. CASE ReceiveToken
  <2> DEFINE draft == exchange.draft
             new == wire[1].text
  <2>1. /\ wire[1].event = "token" /\ exchange'.draft = draft \o new
        /\ exchange'.sources = exchange.sources
    BY <1>2, <1>8 DEF ReceiveToken, Arrived, ExchangeFields
  <2>2. draft \in Seq(Symbols) /\ new \in Seq(Symbols) /\ Tokens(wire') \in Seq(Symbols)
    BY <1>2, <1>3, <2>1, TokensType DEF DraftSoFar, Events
  <2>3. SourcesFirst'
    BY <1>1, <1>2, <1>3, <1>4, <2>1 DEF SourcesFirst, Answering
  <2>4. Tokens(wire) = new \o Tokens(wire') /\ draft \o Tokens(wire) = SubSeq(raw, 1, emitted)
    BY <1>2, <1>3, <2>1 DEF DraftSoFar
  <2> HIDE DEF draft, new
  <2>5. (draft \o new) \o Tokens(wire') = draft \o (new \o Tokens(wire')) /\ draft \o new \in Seq(Symbols)
    BY <2>2, ConcatAssociative, ConcatProperties
  <2>6. DraftSoFar'
    BY <1>1, <2>1, <2>4, <2>5 DEF DraftSoFar
  <2> QED BY <1>3, <1>5, <1>6, <2>3, <2>6 DEF AnswerInv
<1> QED BY <1>7, <1>8

(* The answer is shown.                                                    *)
LEMMA FinalPreservesAnswers ==
  ASSUME StreamInv, AnswerInv, ReceiveFinal
  PROVE  AnswerInv'
<1>1. /\ wire # <<>> /\ wire[1].event = "final" /\ wire' = <<>> /\ at' = "idle"
      /\ UNCHANGED <<sources, raw, block>> /\ connected
  BY DEF ReceiveFinal, Arrived, Forgotten
<1>2. /\ DOMAIN exchange = ExchangeFields /\ Streaming
      /\ Events(wire) /\ AnswersExplained /\ SourcesFirst /\ DraftSoFar
  BY <1>1 DEF StreamInv, OneExchange, AnswerInv
<1>3. /\ exchange'.mode = exchange.mode /\ exchange'.status = "done"
      /\ exchange'.result = wire[1].result /\ exchange'.sources = exchange.sources
      /\ exchange'.draft = exchange.draft
  BY <1>2 DEF ReceiveFinal, ExchangeFields
<1>4. 1 \in 1..Len(wire) /\ Len(<<>>) = 0
  BY <1>1, <1>2, EventReceived, EmptySeq
<1>5. Explained(wire[1].result)
  BY <1>1, <1>2, <1>4 DEF AnswersExplained
<1>6. Explained(exchange.result)'
  BY <1>1, <1>3, <1>5 DEF Explained
<1>7. AnswersExplained'
  BY <1>1, <1>2, <1>4, <1>6 DEF AnswersExplained
<1>8. SourcesFirst'
  BY <1>1, <1>2, <1>3, <1>4 DEF SourcesFirst, Answering, Streaming
<1>9. QuietAtFirst' /\ Events(wire') /\ DraftSoFar'
  BY <1>1, <1>2, <1>3, NoEvents DEF QuietAtFirst, DraftSoFar, Streaming
<1> QED BY <1>7, <1>8, <1>9 DEF AnswerInv

(* The exchange ends without an answer, or begins.                         *)
LEMMA EmptyPreservesAnswers ==
  ASSUME StreamInv, AnswerInv,
         \/ ReceiveError \/ LoseConnection \/ EndOfStream \/ Leave
         \/ \E mode \in {"chat", "ask"} : Submit(mode)
  PROVE  AnswerInv'
<1>1. /\ DOMAIN exchange = ExchangeFields /\ AnswersExplained /\ exchange.draft \in Seq(Symbols)
      /\ Len(<<>>) = 0 /\ <<>> \in Seq(Symbols) /\ Events(<<>>)
  BY NoEvents, EmptySeq DEF StreamInv, OneExchange, AnswerInv, DraftSoFar
<1>2. CASE ReceiveError \/ LoseConnection \/ EndOfStream \/ Leave
  <2>1. /\ wire' = <<>> /\ at' = "idle" /\ block' = None
        /\ exchange'.status \in {"error", "none"} /\ exchange'.draft \in Seq(Symbols)
    <3>1. CASE Leave
      BY <1>1, <3>1 DEF Leave, Forgotten, ForgetAnswer, NoExchange
    <3>2. CASE ReceiveError \/ LoseConnection \/ EndOfStream
      <4>1. PICK code : Settle(code)
        BY <3>2 DEF ReceiveError, LoseConnection, EndOfStream
      <4> QED BY <1>1, <4>1 DEF Settle, Forgotten, ForgetAnswer, ExchangeFields
    <3> QED BY <1>2, <3>1, <3>2
  <2> QED BY <1>1, <2>1
          DEF AnswerInv, QuietAtFirst, AnswersExplained, Done, SourcesFirst, Answering,
              DraftSoFar, Streaming
<1>3. CASE \E mode \in {"chat", "ask"} : Submit(mode)
  <2>1. /\ wire' = wire /\ at' = "sent" /\ block' = None /\ sources' = <<>> /\ raw' = <<>>
        /\ emitted' = emitted /\ ~Streaming
        /\ exchange'.status = "streaming" /\ exchange'.draft = <<>> /\ exchange'.sources = <<>>
    BY <1>3 DEF Submit, ForgetAnswer, NoExchange
  <2>2. wire = <<>> /\ emitted = 0
    BY <2>1 DEF StreamInv, OneExchange, FreshBuffers, AnswerInv, QuietAtFirst, Early
  <2>3. exchange'.draft \o Tokens(wire') = SubSeq(raw', 1, emitted')
    <3>1. SubSeq(<<>>, 1, 0) = <<>> /\ <<>> \o <<>> = <<>>
      BY <1>1, SubSeqEmpty, ConcatEmptySeq
    <3> QED BY <2>1, <2>2, <3>1, NoEvents
  <2> QED BY <1>1, <2>1, <2>2, <2>3
          DEF AnswerInv, QuietAtFirst, AnswersExplained, Done, SourcesFirst, Answering, DraftSoFar
<1> QED BY <1>2, <1>3

(* No step disturbs it.                                                    *)
LEMMA AnswerNext == StreamInv /\ AnswerInv /\ [Next]_vars => AnswerInv'
<1> SUFFICES ASSUME StreamInv, AnswerInv, [Next]_vars PROVE AnswerInv'
  OBVIOUS
<1>0. block \in Blocks \cup {None}
  BY DEF AnswerInv, AnswersExplained
<1>1. CASE Tick \/ AskElsewhere \/ UNCHANGED vars
  BY <1>1, NothingSent DEF Tick, AskElsewhere, vars, client, search, completion
<1>2. CASE Admit \/ SearchKeywords \/ SearchVectors \/ FetchCandidates
  <2>1. /\ at \notin {"idle", "ended"} /\ Early /\ at' \notin {"idle", "generating", "ended"}
        /\ UNCHANGED <<exchange, raw, emitted, sources, block, wire>>
    BY <1>2 DEF Admit, SearchKeywords, SearchVectors, FetchCandidates, Early, client, search,
                completion
  <2> QED BY <1>0, <2>1, ServerSends
<1>3. ASSUME NEW code, HttpError(code), at \notin {"idle", "ended"},
             UNCHANGED <<client, search, completion>>
      PROVE  AnswerInv'
  <2> DEFINE e == [event |-> "error", code |-> code]
  <2>1. e.event = "error"
    OBVIOUS
  <2>2. at' = "ended" /\ (wire' = wire \/ wire' = Append(wire, e))
    BY <1>3 DEF HttpError
  <2>3. UNCHANGED <<exchange, raw, emitted, sources, block>>
    BY <1>3 DEF client, search, completion
  <2> HIDE DEF e
  <2> QED BY <1>0, <1>3, <2>1, <2>2, <2>3, ServerSends
<1>4. CASE Refuse \/ Abort
  BY <1>3, <1>4 DEF Refuse, Abort
<1>5. ASSUME NEW code, Fail(code), at \notin {"idle", "ended"} PROVE AnswerInv'
  <2> DEFINE e == [event |-> "error", code |-> code]
  <2>1. e.event = "error"
    OBVIOUS
  <2>2. at' = "ended" /\ wire' = Append(wire, e)
    BY <1>5 DEF Fail
  <2>3. UNCHANGED <<exchange, raw, emitted, sources, block>>
    BY <1>5 DEF Fail, client, search, completion
  <2> HIDE DEF e
  <2> QED BY <1>0, <1>5, <2>1, <2>2, <2>3, ServerSends
<1>6. CASE GenerationDisabled \/ WorkspaceNotFound \/ GenerationFails
  BY <1>5, <1>6 DEF GenerationDisabled, WorkspaceNotFound, GenerationFails
<1>7. CASE AnswerNothing \/ RankSources
  BY <1>7, AnswerNothingPreserves, RankSourcesPreserves
<1>8. ASSUME NEW b \in Blocks \cup {None}, Finalize(b) PROVE AnswerInv'
  <2>1. PICK result : result = verify_answer(AnswerPart(raw), b, Len(sources))
    OBVIOUS
  <2>2. PICK e : e = IF result.status = "unsupported" THEN [event |-> "error", code |-> "not_found"]
                     ELSE [event |-> "final", result |-> result]
    OBVIOUS
  <2>3. /\ at = "generating" /\ at' = "ended" /\ block' = b /\ wire' = Append(wire, e)
        /\ UNCHANGED <<exchange, raw, emitted, sources>>
    BY <1>8, <2>1, <2>2 DEF Finalize, client, search
  <2>4. e.event \in {"error", "final"} /\ (e.event = "final" => e.result = result)
    BY <2>2
  <2>5. e.event = "final" => Explained(e.result)'
    BY <2>1, <2>3, <2>4 DEF Explained
  <2> QED BY <2>3, <2>4, <2>5, ServerSends
<1>9. ASSUME NEW delta \in Deltas(raw), ReadDelta(delta) PROVE AnswerInv'
  BY <1>9, DeltaSent
<1>10. CASE ClientStep \/ LoseConnection \/ Leave \/ \E mode \in {"chat", "ask"} : Submit(mode)
  BY <1>10, ReceivePreservesAnswers, FinalPreservesAnswers, EmptyPreservesAnswers DEF ClientStep
<1> QED BY <1>1, <1>2, <1>4, <1>6, <1>7, <1>8, <1>9, <1>10 DEF Next, ServerStep

-----------------------------------------------------------------------------
(* The second invariant holds whatever the model and the searches answer.  *)
THEOREM AnswerInvariant == Spec => []AnswerInv
<1> QED BY AnswerInit, AnswerNext, StreamInvariant, PTL DEF Spec

(* lib/api/stream.ts:110: however the text is cut into deltas, and however *)
(* late they arrive, the panel's draft is the text, in order, once.        *)
THEOREM DraftsArePrefixes == Spec => []DraftIsPrefix
<1>1. AnswerInv => DraftIsPrefix
  <2> SUFFICES ASSUME AnswerInv, Streaming
               PROVE  ExchangeAnswer(exchange).text \o InFlight = SubSeq(raw, 1, emitted)
    BY DEF DraftIsPrefix
  <2>1. InFlight = Tokens(wire)
    BY DEF InFlight, Tokens
  <2>2. ExchangeAnswer(exchange).text = exchange.draft
    BY DEF ExchangeAnswer, Streaming
  <2> QED BY <2>1, <2>2 DEF AnswerInv, DraftSoFar
<1> QED BY <1>1, AnswerInvariant, PTL

-----------------------------------------------------------------------------
(* What the panel shows.                                                   *)

(* The part of a text before its sentinel is text.                         *)
LEMMA AnswerPartType ==
  ASSUME NEW text \in Seq(Symbols)
  PROVE  AnswerPart(text) \in Seq(Symbols)
<1>1. CASE ~HasSentinel(text)
  BY <1>1 DEF AnswerPart
<1>2. CASE HasSentinel(text)
  <2>1. FirstSentinel(text) \in Nat /\ Len(text) \in Nat /\ FirstSentinel(text) - 1 <= Len(text)
    <3>1. FirstSentinel(text) \in SentinelAt(text)
      BY <1>2, FirstSentinelIsFirst
    <3>2. Len(Sentinel) \in Nat \ {0}
      BY AnswersAssumption, VerificationAssumption, EmptySeq, LenProperties
    <3> QED BY <3>1, <3>2, SentinelEnds, LenProperties
  <2>2. \A i \in 1..(FirstSentinel(text) - 1) : text[i] \in Symbols
    BY <2>1, ElementOfSeq
  <2>3. SubSeq(text, 1, FirstSentinel(text) - 1) \in Seq(Symbols)
    BY <2>1, <2>2, SubSeqProperties
  <2> QED BY <1>2, <2>3 DEF AnswerPart
<1> QED BY <1>1, <1>2

(* The result on display is backed by the claims about the sources.        *)
LEMMA ResultIsBacked ==
  ASSUME StreamInv, AnswerInv, Done
  PROVE  Backed(Result, AnswerPart(raw), Cites, Len(sources))
<1>1. AnswerPart(raw) \in Seq(Symbols)
  BY AnswerPartType DEF StreamInv, BuffersOK
<1>2. block \in Blocks \cup {None} /\ Explained(Result)
  BY DEF AnswerInv, AnswersExplained, Result
<1>3. CASE Result = Withheld("not_found", NoCitations)
  BY <1>3, WithheldIsBacked
<1>4. CASE Result = verify_answer(AnswerPart(raw), block, Len(sources))
  <2>1. Backed(verify_answer(AnswerPart(raw), block, Len(sources)), AnswerPart(raw),
               Citations(block.claims), Len(sources))
    BY <1>1, <1>2, VerifyIsBacked
  <2> QED BY <1>4, <2>1 DEF Cites
<1> QED BY <1>2, <1>3, <1>4 DEF Explained

(* What the panel makes of a result: markers of its citations are links.   *)
LEMMA ShownIs ==
  ASSUME NEW r, r.answer \in Seq(Symbols)
  PROVE  /\ VerifiedAnswer(r).badge = r.status
         /\ Len(VerifiedAnswer(r).text) = Len(r.answer)
         /\ \A p \in 1..Len(r.answer) :
              VerifiedAnswer(r).text[p].kind = "text" =>
                /\ VerifiedAnswer(r).text[p].symbol = r.answer[p]
                /\ ~(IsMarker(r.answer[p]) /\ IndexOf[r.answer[p]] \in DOMAIN r.citations)
         /\ DOMAIN VerifiedAnswer(r).cards = DOMAIN r.citations
         /\ \A i \in DOMAIN r.citations :
              r.citations[i].status = "validated" => ~VerifiedAnswer(r).cards[i].unverified
<1> DEFINE text == AnswerText(r.answer, r.citations)
           v == VerifiedAnswer(r)
<1>1. v.badge = r.status /\ v.text = text
  BY DEF VerifiedAnswer
<1>2. Len(text) = Len(r.answer)
  <2>1. Len(r.answer) \in Nat
    BY LenProperties
  <2>2. text \in [1..Len(r.answer) -> {text[p] : p \in 1..Len(r.answer)}]
    BY DEF AnswerText
  <2> HIDE DEF text
  <2>3. text \in Seq({text[p] : p \in 1..Len(r.answer)})
    BY <2>1, <2>2, SeqDef
  <2>4. DOMAIN text = 1..Len(r.answer) /\ DOMAIN text = 1..Len(text) /\ Len(text) \in Nat
    BY <2>2, <2>3, LenProperties
  <2> QED BY <2>1, <2>4
<1>3. \A p \in 1..Len(r.answer) : text[p].kind = "text" =>
        /\ text[p].symbol = r.answer[p]
        /\ ~(IsMarker(r.answer[p]) /\ IndexOf[r.answer[p]] \in DOMAIN r.citations)
  BY DEF AnswerText
<1>4. v.cards = [i \in DOMAIN r.citations |-> CitationCard(r.citations[i])]
  BY DEF VerifiedAnswer
<1>5. ASSUME NEW i \in DOMAIN r.citations, r.citations[i].status = "validated"
      PROVE  ~v.cards[i].unverified
  <2>1. v.cards[i] = CitationCard(r.citations[i])
    BY <1>4
  <2>2. ~CitationCard(r.citations[i]).unverified
    BY <1>5 DEF CitationCard
  <2> QED BY <2>1, <2>2
<1>6. DOMAIN v.cards = DOMAIN r.citations
  BY <1>4
<1> HIDE DEF v, text
<1> QED BY <1>1, <1>2, <1>3, <1>5, <1>6 DEF v

(* README.md:25: the answer on display is supported by what it shows.      *)
THEOREM AnswersSupported == Spec => []AnswersAreSupported
<1>1. StreamInv /\ AnswerInv => AnswersAreSupported
  <2> SUFFICES ASSUME StreamInv, AnswerInv, Done
               PROVE  /\ \A p \in 1..Len(Shown.text) :
                           Shown.text[p].kind = "text" => ~IsMarker(Shown.text[p].symbol)
                      /\ DOMAIN Shown.cards \subseteq 1..Len(sources)
                      /\ exchange.mode = "chat" => exchange.sources = sources
                      /\ ~Result.not_found =>
                           /\ \E i \in DOMAIN Shown.cards : ~Shown.cards[i].unverified
                           /\ Prose(Result.answer) = Prose(AnswerPart(raw))
    BY DEF AnswersAreSupported
  <2>1. Backed(Result, AnswerPart(raw), Cites, Len(sources))
    BY ResultIsBacked
  <2>2. /\ Len(Shown.text) = Len(Result.answer)
        /\ \A p \in 1..Len(Result.answer) :
              Shown.text[p].kind = "text" =>
                /\ Shown.text[p].symbol = Result.answer[p]
                /\ ~(IsMarker(Result.answer[p]) /\ IndexOf[Result.answer[p]] \in DOMAIN Result.citations)
        /\ DOMAIN Shown.cards = DOMAIN Result.citations
        /\ \A i \in DOMAIN Result.citations :
              Result.citations[i].status = "validated" => ~Shown.cards[i].unverified
    BY <2>1, ShownIs DEF Backed, Shown
  <2>3. exchange.mode = "chat" => exchange.sources = sources
    <3>1. at = "idle" /\ exchange.status = "done"
      BY DEF StreamInv, OneExchange, Streaming, Done
    <3> QED BY <3>1 DEF AnswerInv, QuietAtFirst, Early, SourcesFirst, Answering
  <2> QED BY <2>1, <2>2, <2>3 DEF Backed
<1> QED BY <1>1, StreamInvariant, AnswerInvariant, PTL

(* services/verification.py:183 and 196: no order of claims displaces the  *)
(* first quote that holds.                                                 *)
THEOREM EvidenceIsTheBest == Spec => []EvidenceIsBest
<1>1. StreamInv /\ AnswerInv => EvidenceIsBest
  BY ResultIsBacked DEF EvidenceIsBest, Backed, BestShown
<1> QED BY <1>1, StreamInvariant, AnswerInvariant, PTL

(* The badge verified means that nothing failed.                           *)
THEOREM VerifiedIsAll == Spec => []VerifiedMeansAll
<1>1. StreamInv /\ AnswerInv => VerifiedMeansAll
  <2> SUFFICES ASSUME StreamInv, AnswerInv, Done, Shown.badge = "verified"
               PROVE  /\ \A k \in 1..Len(Cites) : Cites[k].source \in 1..Len(sources) /\ Cites[k].supported
                      /\ Len(Shown.text) = Len(AnswerPart(raw))
                      /\ \A i \in MarkersOf(AnswerPart(raw)) :
                           i \in DOMAIN Shown.cards /\ ~Shown.cards[i].unverified
    BY DEF VerifiedMeansAll
  <2>1. Backed(Result, AnswerPart(raw), Cites, Len(sources))
    BY ResultIsBacked
  <2>2. /\ Shown.badge = Result.status /\ Len(Shown.text) = Len(Result.answer)
        /\ DOMAIN Shown.cards = DOMAIN Result.citations
        /\ \A i \in DOMAIN Result.citations :
              Result.citations[i].status = "validated" => ~Shown.cards[i].unverified
    BY <2>1, ShownIs DEF Backed, Shown
  <2> QED BY <2>1, <2>2 DEF Backed
<1> QED BY <1>1, StreamInvariant, AnswerInvariant, PTL

-----------------------------------------------------------------------------
(* Retrieval.  A finite set in an order.                                   *)

(* A relation that orders S.                                               *)
Orders(precedes, S) ==
  /\ \A c \in S : <<c, c>> \notin precedes
  /\ \A c, d, e \in S : <<c, d>> \in precedes /\ <<d, e>> \in precedes => <<c, e>> \in precedes
  /\ \A c, d \in S : c = d \/ <<c, d>> \in precedes \/ <<d, c>> \in precedes

(* InOrder lists it: the place of an element is the number of those before *)
(* it, and no two have the same.                                           *)
LEMMA InOrderIs ==
  ASSUME NEW S, IsFiniteSet(S), NEW precedes, Orders(precedes, S)
  PROVE  /\ Cardinality(S) \in Nat
         /\ InOrder(S, precedes) \in [1..Cardinality(S) -> S]
         /\ \A i, j \in 1..Cardinality(S) :
              i < j => <<InOrder(S, precedes)[i], InOrder(S, precedes)[j]>> \in precedes
         /\ \A c \in S : \E i \in 1..Cardinality(S) : InOrder(S, precedes)[i] = c
<1> DEFINE n == Cardinality(S)
           before(c) == {d \in S : <<d, c>> \in precedes}
           place == [c \in S |-> Cardinality(before(c)) + 1]
           s == InOrder(S, precedes)
<1>1. n \in Nat
  BY FS_CardinalityType
<1>2. ASSUME NEW c \in S PROVE IsFiniteSet(before(c)) /\ Cardinality(before(c)) \in 0..(n - 1)
  <2>1. before(c) \in SUBSET (S \ {c})
    BY DEF Orders
  <2>2. IsFiniteSet(S \ {c}) /\ Cardinality(S \ {c}) = n - 1
    BY FS_RemoveElement
  <2>3. IsFiniteSet(before(c)) /\ Cardinality(before(c)) <= n - 1
    <3> HIDE DEF before, n
    <3> QED BY <2>1, <2>2, FS_Subset
  <2>4. Cardinality(before(c)) \in Nat
    BY <2>3, FS_CardinalityType
  <2> HIDE DEF before, n
  <2> QED BY <1>1, <2>3, <2>4
<1>3. ASSUME NEW c \in S, NEW d \in S, <<c, d>> \in precedes
      PROVE  Cardinality(before(c)) < Cardinality(before(d))
  <2>1. before(c) \in SUBSET before(d) /\ c \in before(d) /\ c \notin before(c)
    BY <1>3 DEF Orders
  <2> HIDE DEF before, n
  <2>2. Cardinality(before(c)) <= Cardinality(before(d))
    BY <1>2, <2>1, FS_Subset
  <2>3. Cardinality(before(c)) # Cardinality(before(d))
    BY <1>2, <2>1, FS_Subset
  <2> QED BY <1>2, <2>2, <2>3
<1>4. place \in Injection(S, 1..n)
  <2>1. place \in [S -> 1..n]
    <3> HIDE DEF before, n
    <3> QED BY <1>1, <1>2
  <2>2. ASSUME NEW c \in S, NEW d \in S, place[c] = place[d] PROVE c = d
    <3>1. Cardinality(before(c)) = Cardinality(before(d))
      <4> HIDE DEF before, n
      <4> QED BY <1>2, <2>2
    <3>2. c = d \/ <<c, d>> \in precedes \/ <<d, c>> \in precedes
      BY DEF Orders
    <3> HIDE DEF before, n, place
    <3> QED BY <1>2, <1>3, <3>1, <3>2
  <2> HIDE DEF place, n
  <2> QED BY <2>1, <2>2 DEF Injection, IsInjective
<1>5. place \in Surjection(S, 1..n)
  <2>1. IsFiniteSet(1..n) /\ Cardinality(1..n) = n
    <3> HIDE DEF n
    <3> QED BY <1>1, FS_Interval
  <2> HIDE DEF place
  <2> QED BY <1>4, <2>1, FS_Injection
<1>6. ASSUME NEW i \in 1..n PROVE s[i] \in S /\ Cardinality(before(s[i])) = i - 1
  <2>1. PICK c \in S : place[c] = i
    <3> HIDE DEF place
    <3> QED BY <1>5 DEF Surjection
  <2>2. Cardinality(before(c)) = i - 1
    <3> HIDE DEF before, n
    <3> QED BY <1>2, <2>1
  <2>3. s[i] = CHOOSE d \in S : Cardinality(before(d)) = i - 1
    BY DEF InOrder
  <2> HIDE DEF before, s
  <2> QED BY <2>2, <2>3
<1>7. s \in [1..n -> S]
  <2> DEFINE one(i) == CHOOSE c \in S : Cardinality(before(c)) = i - 1
  <2>1. s = [i \in 1..n |-> one(i)]
    BY DEF InOrder
  <2>2. \A i \in 1..n : one(i) \in S
    <3> HIDE DEF s, before, one
    <3> QED BY <1>6, <2>1
  <2> HIDE DEF s, before, one
  <2> QED BY <2>1, <2>2
<1>8. ASSUME NEW i \in 1..n, NEW j \in 1..n, i < j PROVE <<s[i], s[j]>> \in precedes
  <2>1. s[i] \in S /\ s[j] \in S /\ Cardinality(before(s[i])) = i - 1 /\ Cardinality(before(s[j])) = j - 1
    BY <1>6
  <2>2. s[i] = s[j] \/ <<s[i], s[j]>> \in precedes \/ <<s[j], s[i]>> \in precedes
    <3> HIDE DEF s
    <3> QED BY <2>1 DEF Orders
  <2> HIDE DEF s, before, n
  <2> QED BY <1>1, <1>3, <1>8, <2>1, <2>2
<1>9. ASSUME NEW c \in S PROVE \E i \in 1..n : s[i] = c
  <2> DEFINE i == place[c]
  <2>1. i \in 1..n /\ i - 1 = Cardinality(before(c))
    <3>1. place[c] = Cardinality(before(c)) + 1
      OBVIOUS
    <3> HIDE DEF before, n, place
    <3> QED BY <1>1, <1>2, <3>1
  <2>2. s[i] \in S /\ Cardinality(before(s[i])) = Cardinality(before(c))
    <3> HIDE DEF s, before, n, i
    <3> QED BY <1>6, <2>1
  <2>3. s[i] = c \/ <<s[i], c>> \in precedes \/ <<c, s[i]>> \in precedes
    <3> HIDE DEF s, i
    <3> QED BY <2>2 DEF Orders
  <2>4. s[i] = c
    <3> HIDE DEF s, before, n, i
    <3> QED BY <1>2, <1>3, <2>2, <2>3
  <2> HIDE DEF s, i, n
  <2> QED BY <2>1, <2>4
<1> HIDE DEF s, n
<1> QED BY <1>1, <1>7, <1>8, <1>9 DEF s, n

-----------------------------------------------------------------------------
(* Sums of fractions, compared by cross products.                          *)

(* A score is a fraction, the order of fractions that of cross products.   *)
Fraction == {x \in Nat \X Nat : x[2] > 0}

(* Multiplying both sides by a positive number,                            *)
LEMMA Scaled ==
  ASSUME NEW a \in Int, NEW b \in Int, NEW k \in Int, k > 0
  PROVE  a > b <=> k * a > k * b
BY SMTT(60)

(* and so cross products are transitive where denominators are positive.   *)
LEMMA ExceedsTransitive ==
  ASSUME NEW x \in Fraction, NEW y \in Fraction, NEW z \in Fraction
  PROVE  /\ Exceeds(x, y) /\ ~Exceeds(z, y) => Exceeds(x, z)
         /\ ~Exceeds(y, x) /\ Exceeds(y, z) => Exceeds(x, z)
         /\ ~Exceeds(x, y) /\ ~Exceeds(y, z) => ~Exceeds(x, z)
<1> DEFINE a == x[1]  b == x[2]  c == y[1]  d == y[2]  e == z[1]  f == z[2]
<1>1. a \in Nat /\ b \in Nat /\ c \in Nat /\ d \in Nat /\ e \in Nat /\ f \in Nat /\ b > 0 /\ d > 0 /\ f > 0
  BY DEF Fraction
<1>2. (a * d > c * b <=> f * (a * d) > f * (c * b)) /\ (c * b > a * d <=> f * (c * b) > f * (a * d))
  <2> HIDE DEF a, b, c, d, e, f
  <2> QED BY <1>1, Scaled
<1>3. (c * f > e * d <=> b * (c * f) > b * (e * d)) /\ (e * d > c * f <=> b * (e * d) > b * (c * f))
  <2> HIDE DEF a, b, c, d, e, f
  <2> QED BY <1>1, Scaled
<1>4. (a * f > e * b <=> d * (a * f) > d * (e * b))
  <2> HIDE DEF a, b, c, d, e, f
  <2> QED BY <1>1, Scaled
<1>5. f * (a * d) = d * (a * f) /\ f * (c * b) = b * (c * f) /\ b * (e * d) = d * (e * b)
  <2> HIDE DEF a, b, c, d, e, f
  <2> QED BY <1>1
<1>6. /\ f * (a * d) \in Int /\ f * (c * b) \in Int /\ b * (e * d) \in Int
  <2> HIDE DEF a, b, c, d, e, f
  <2> QED BY <1>1
<1>7. /\ a * d > c * b /\ ~(e * d > c * f) => a * f > e * b
      /\ ~(c * b > a * d) /\ c * f > e * d => a * f > e * b
      /\ ~(a * d > c * b) /\ ~(c * f > e * d) => ~(a * f > e * b)
  <2> DEFINE u == f * (a * d)  v == f * (c * b)  w == b * (e * d)
  <2>1. /\ (a * d > c * b <=> u > v) /\ (c * b > a * d <=> v > u)
        /\ (c * f > e * d <=> v > w) /\ (e * d > c * f <=> w > v) /\ (a * f > e * b <=> u > w)
    <3> HIDE DEF a, b, c, d, e, f
    <3> QED BY <1>2, <1>3, <1>4, <1>5
  <2>2. u \in Int /\ v \in Int /\ w \in Int
    BY <1>6
  <2> HIDE DEF u, v, w, a, b, c, d, e, f
  <2> QED BY <2>1, <2>2
<1> QED BY <1>7 DEF Exceeds

(* Sums of fractions of which neither is less and one is more.             *)
LEMMA SumExceeds ==
  ASSUME NEW x \in Fraction, NEW y \in Fraction, NEW u \in Fraction, NEW v \in Fraction,
         ~Exceeds(u, x), ~Exceeds(v, y), Exceeds(x, u) \/ Exceeds(y, v)
  PROVE  Exceeds(Plus(x, y), Plus(u, v))
<1> DEFINE a == x[1]  b == x[2]  c == y[1]  d == y[2]
           e == u[1]  f == u[2]  g == v[1]  h == v[2]
<1>1. /\ a \in Nat /\ b \in Nat /\ c \in Nat /\ d \in Nat /\ b > 0 /\ d > 0
      /\ e \in Nat /\ f \in Nat /\ g \in Nat /\ h \in Nat /\ f > 0 /\ h > 0
  BY DEF Fraction
<1>2. ~(e * b > a * f) /\ ~(g * d > c * h) /\ (a * f > e * b \/ c * h > g * d)
  BY DEF Exceeds
<1>3. d * h \in Int /\ d * h > 0 /\ b * f \in Int /\ b * f > 0
  <2> HIDE DEF a, b, c, d, e, f, g, h
  <2> QED BY <1>1, SMTT(60)
<1>4. /\ a * f > e * b <=> (d * h) * (a * f) > (d * h) * (e * b)
      /\ e * b > a * f <=> (d * h) * (e * b) > (d * h) * (a * f)
  <2> HIDE DEF a, b, c, d, e, f, g, h
  <2>1. a * f \in Int /\ e * b \in Int
    BY <1>1
  <2> QED BY <1>3, <2>1, Scaled
<1>5. /\ c * h > g * d <=> (b * f) * (c * h) > (b * f) * (g * d)
      /\ g * d > c * h <=> (b * f) * (g * d) > (b * f) * (c * h)
  <2> HIDE DEF a, b, c, d, e, f, g, h
  <2>1. c * h \in Int /\ g * d \in Int
    BY <1>1
  <2> QED BY <1>3, <2>1, Scaled
<1> DEFINE p == (d * h) * (a * f)  q == (d * h) * (e * b)
           r == (b * f) * (c * h)  s == (b * f) * (g * d)
<1>6. p \in Int /\ q \in Int /\ r \in Int /\ s \in Int
  <2> HIDE DEF a, b, c, d, e, f, g, h
  <2> QED BY <1>1
<1>7. (a * d + c * b) * (f * h) = p + r /\ (e * h + g * f) * (b * d) = q + s
  <2> HIDE DEF a, b, c, d, e, f, g, h
  <2> QED BY <1>1, SMTT(60)
<1>8. p + r > q + s
  <2>1. ~(q > p) /\ ~(s > r) /\ (p > q \/ r > s)
    BY <1>2, <1>4, <1>5
  <2> HIDE DEF p, q, r, s
  <2> QED BY <1>6, <2>1
<1>9. /\ Plus(x, y) = <<a * d + c * b, b * d>> /\ Plus(u, v) = <<e * h + g * f, f * h>>
  BY DEF Plus
<1>10. Exceeds(Plus(x, y), Plus(u, v)) <=> (a * d + c * b) * (f * h) > (e * h + g * f) * (b * d)
  <2> HIDE DEF a, b, c, d, e, f, g, h
  <2> QED BY <1>9 DEF Exceeds
<1> HIDE DEF a, b, c, d, e, f, g, h, p, q, r, s
<1> QED BY <1>7, <1>8, <1>10

-----------------------------------------------------------------------------
(* The fused order of two legs.                                            *)

(* The place of a chunk in a leg.                                          *)
LEMMA RankIs ==
  ASSUME NEW leg, Len(leg) \in Nat, NEW c
  PROVE  /\ Rank(leg, c) \in 0..Len(leg)
         /\ Rank(leg, c) # 0 => leg[Rank(leg, c)] = c
         /\ (\E i \in 1..Len(leg) : leg[i] = c) <=> Rank(leg, c) # 0
<1>1. CASE ~\E i \in 1..Len(leg) : leg[i] = c
  BY <1>1 DEF Rank
<1>2. CASE \E i \in 1..Len(leg) : leg[i] = c
  <2> DEFINE at_c == {i \in 1..Len(leg) : leg[i] = c}
  <2>1. at_c \in SUBSET Nat /\ at_c # {}
    BY <1>2
  <2>2. PICK i \in at_c : \A j \in at_c : i <= j
    <3> HIDE DEF at_c
    <3> QED BY <2>1, SmallestExists
  <2>3. i \in 1..Len(leg) /\ leg[i] = c /\ \A j \in 1..(i - 1) : leg[j] # c
    BY <2>2
  <2>4. Rank(leg, c) \in 1..Len(leg) /\ leg[Rank(leg, c)] = c
    BY <1>2, <2>3 DEF Rank
  <2> QED BY <1>2, <2>4
<1> QED BY <1>1, <1>2

(* 1 / (RRF_K + place), or nothing;                                        *)
LEMMA ShareIs ==
  ASSUME NEW leg, Len(leg) \in Nat, NEW c
  PROVE  Share(leg, c) \in Fraction
<1>1. Rank(leg, c) \in Nat
  BY RankIs
<1> QED BY <1>1, RetrievalAssumption DEF Share, Fraction

(* the higher place has the greater share.                                 *)
LEMMA SharesCompare ==
  ASSUME NEW leg, Len(leg) \in Nat, NEW c, NEW d
  PROVE  /\ Beats(leg, d, c) => Exceeds(Share(leg, d), Share(leg, c))
         /\ NoWorse(leg, d, c) => ~Exceeds(Share(leg, c), Share(leg, d))
<1>1. Rank(leg, c) \in Nat /\ Rank(leg, d) \in Nat /\ RrfK \in Nat /\ RrfK > 0
  BY RankIs, RetrievalAssumption
<1>2. Beats(leg, d, c) => Exceeds(Share(leg, d), Share(leg, c))
  BY <1>1 DEF Beats, Share, Exceeds
<1>3. Beats(leg, d, c) => ~Exceeds(Share(leg, c), Share(leg, d))
  BY <1>1 DEF Beats, Share, Exceeds
<1>4. Rank(leg, d) = Rank(leg, c) => ~Exceeds(Share(leg, c), Share(leg, d))
  BY <1>1 DEF Share, Exceeds
<1> QED BY <1>2, <1>3, <1>4 DEF NoWorse

(* A chunk's score in both legs.                                           *)
LEMMA FusedIs ==
  ASSUME NEW k, NEW s, Len(k) \in Nat, Len(s) \in Nat, NEW c
  PROVE  Fused(k, s, c) \in Fraction
<1> DEFINE x == Share(k, c)  y == Share(s, c)
<1>1. /\ x[1] \in Nat /\ x[2] \in Nat /\ x[2] > 0 /\ y[1] \in Nat /\ y[2] \in Nat /\ y[2] > 0
  BY ShareIs DEF Fraction
<1>2. Plus(x, y) \in Fraction
  <2> HIDE DEF x, y
  <2>1. x[2] * y[2] > 0
    BY <1>1, SMTT(60)
  <2>2. x[1] * y[2] + y[1] * x[2] \in Nat /\ x[2] * y[2] \in Nat
    <3> DEFINE a == x[1]  b == x[2]  c1 == y[1]  d == y[2]
    <3>1. a \in Nat /\ b \in Nat /\ c1 \in Nat /\ d \in Nat
      BY <1>1
    <3>2. a * d \in Nat /\ c1 * b \in Nat /\ b * d \in Nat
      <4> HIDE DEF a, b, c1, d
      <4> QED BY <3>1
    <3>3. a * d + c1 * b \in Nat
      BY <3>2
    <3> QED BY <3>2, <3>3
  <2> QED BY <2>1, <2>2 DEF Plus, Fraction
<1> QED BY <1>2 DEF Fused

(* Ids decide between equal scores, so the order is total.                 *)
LEMMA BetterOrders ==
  ASSUME NEW k, NEW s, Len(k) \in Nat, Len(s) \in Nat, NEW S \in SUBSET Chunks
  PROVE  Orders(Better(k, s), S)
<1> DEFINE f(c) == Fused(k, s, c)
           X(c, d) == Exceeds(f(c), f(d))
<1>1. ASSUME NEW c \in S, NEW d \in S
      PROVE  <<c, d>> \in Better(k, s) <=> X(c, d) \/ (~X(d, c) /\ c < d)
  BY DEF Better
<1>2. ASSUME NEW c \in S PROVE f(c) \in Fraction /\ c \in Nat
  BY FusedIs, RetrievalAssumption
<1>3. ASSUME NEW c \in S PROVE ~X(c, c)
  <2>1. f(c)[1] * f(c)[2] \in Nat
    <3> HIDE DEF f
    <3> QED BY <1>2 DEF Fraction
  <2> HIDE DEF f
  <2> QED BY <2>1 DEF Exceeds
<1>4. ASSUME NEW c \in S, NEW d \in S, X(c, d) PROVE ~X(d, c)
  <2>1. f(c)[1] * f(d)[2] \in Nat /\ f(d)[1] * f(c)[2] \in Nat
    <3> HIDE DEF f
    <3> QED BY <1>2 DEF Fraction
  <2> HIDE DEF f
  <2> QED BY <1>4, <2>1 DEF Exceeds
<1>5. ASSUME NEW c \in S, NEW d \in S, NEW e \in S
      PROVE  /\ X(c, d) /\ ~X(e, d) => X(c, e)
             /\ ~X(d, c) /\ X(d, e) => X(c, e)
             /\ ~X(e, d) /\ ~X(d, c) => ~X(e, c)
  <2> HIDE DEF f
  <2> QED BY <1>2, ExceedsTransitive
<1> HIDE DEF X, f
<1>6. \A c \in S : <<c, c>> \notin Better(k, s)
  BY <1>1, <1>2, <1>3
<1>7. ASSUME NEW c \in S, NEW d \in S, NEW e \in S, <<c, d>> \in Better(k, s), <<d, e>> \in Better(k, s)
      PROVE  <<c, e>> \in Better(k, s)
  <2>1. (X(c, d) \/ (~X(d, c) /\ c < d)) /\ (X(d, e) \/ (~X(e, d) /\ d < e))
    BY <1>1, <1>7
  <2>2. X(c, d) => ~X(d, c)
    BY <1>4
  <2>3. X(d, e) => ~X(e, d)
    BY <1>4
  <2>4. X(c, e) \/ (~X(e, c) /\ c < e)
    BY <1>2, <1>5, <2>1, <2>2, <2>3
  <2> QED BY <1>1, <2>4
<1>8. \A c, d \in S : c = d \/ <<c, d>> \in Better(k, s) \/ <<d, c>> \in Better(k, s)
  <2> SUFFICES ASSUME NEW c \in S, NEW d \in S
               PROVE  c = d \/ <<c, d>> \in Better(k, s) \/ <<d, c>> \in Better(k, s)
    OBVIOUS
  <2>1. c \in Nat /\ d \in Nat
    BY <1>2
  <2>2. /\ <<c, d>> \in Better(k, s) <=> X(c, d) \/ (~X(d, c) /\ c < d)
        /\ <<d, c>> \in Better(k, s) <=> X(d, c) \/ (~X(c, d) /\ d < c)
    BY <1>1
  <2> QED BY <2>1, <2>2
<1> QED BY <1>6, <1>7, <1>8 DEF Orders

(* What one leg ranks higher and the other no lower is better.             *)
LEMMA BetterRespectsLegs ==
  ASSUME NEW k, NEW s, Len(k) \in Nat, Len(s) \in Nat, NEW c, NEW d,
         <<c, d>> \in Better(k, s)
  PROVE  ~(/\ NoWorse(k, d, c) /\ NoWorse(s, d, c)
           /\ (Beats(k, d, c) \/ Beats(s, d, c)))
<1> SUFFICES ASSUME NoWorse(k, d, c), NoWorse(s, d, c), Beats(k, d, c) \/ Beats(s, d, c)
             PROVE  FALSE
  OBVIOUS
<1>1. Exceeds(Fused(k, s, d), Fused(k, s, c))
  <2>1. /\ ~Exceeds(Share(k, c), Share(k, d)) /\ ~Exceeds(Share(s, c), Share(s, d))
        /\ Exceeds(Share(k, d), Share(k, c)) \/ Exceeds(Share(s, d), Share(s, c))
    BY SharesCompare
  <2>2. Share(k, c) \in Fraction /\ Share(k, d) \in Fraction /\ Share(s, c) \in Fraction /\ Share(s, d) \in Fraction
    BY ShareIs
  <2> QED BY <2>1, <2>2, SumExceeds DEF Fused
<1>2. /\ Fused(k, s, c) \in Fraction /\ Fused(k, s, d) \in Fraction
  BY FusedIs
<1>3. ~Exceeds(Fused(k, s, c), Fused(k, s, d))
  <2> DEFINE x == Fused(k, s, c)  y == Fused(k, s, d)
  <2>1. x[1] * y[2] \in Nat /\ y[1] * x[2] \in Nat
    <3>1. x \in Fraction /\ y \in Fraction
      BY <1>2
    <3> HIDE DEF x, y
    <3> QED BY <3>1 DEF Fraction
  <2>2. Exceeds(y, x) => ~Exceeds(x, y)
    <3> HIDE DEF x, y
    <3> QED BY <2>1 DEF Exceeds
  <2> QED BY <1>1, <2>2
<1>4. Exceeds(Fused(k, s, c), Fused(k, s, d)) \/ ~Exceeds(Fused(k, s, d), Fused(k, s, c))
  BY DEF Better
<1> QED BY <1>1, <1>3, <1>4

-----------------------------------------------------------------------------
(* The candidates, and what a reply makes of them.                         *)

(* What is left is in the order it was in, and only what is gone is not.   *)
LEMMA WithoutOrder ==
  ASSUME NEW T, NEW text \in Seq(T), NEW gone
  PROVE  /\ \A i \in 1..Len(Without(text, gone)) : \E p \in 1..Len(text) : Without(text, gone)[i] = text[p]
         /\ \A i, j \in 1..Len(Without(text, gone)) : i < j =>
              \E p, q \in 1..Len(text) :
                p < q /\ Without(text, gone)[i] = text[p] /\ Without(text, gone)[j] = text[q]
         /\ \A p \in 1..Len(text) : text[p] \notin gone =>
              \E i \in 1..Len(Without(text, gone)) : Without(text, gone)[i] = text[p]
<1>0. PICK f : LeftOver(f, text, gone, T)
  BY LeftOverExists
<1> DEFINE m == Len(text)
<1>1. /\ f \in [0..m -> Seq(T)] /\ f[0] = <<>> /\ f[m] = Without(text, gone)
      /\ \A k \in 1..m : f[k] = IF text[k] \in gone THEN f[k - 1] ELSE Append(f[k - 1], text[k])
      /\ m \in Nat /\ \A k \in 1..m : text[k] \in T
  BY <1>0, LenProperties, ElementOfSeq DEF LeftOver
<1> DEFINE From(v, n) == \A i \in 1..Len(v) : \E p \in 1..n : v[i] = text[p]
           Row(v, n) == \A i, j \in 1..Len(v) : i < j =>
                          \E p, q \in 1..n : p < q /\ v[i] = text[p] /\ v[j] = text[q]
           All(v, n) == \A p \in 1..n : text[p] \notin gone => \E i \in 1..Len(v) : v[i] = text[p]
           P == {n \in 0..m : From(f[n], n) /\ Row(f[n], n) /\ All(f[n], n)}
<1>2. 0 \in P
  <2>1. f[0] = <<>> /\ Len(<<>>) = 0 /\ 0 \in 0..m
    BY <1>1, EmptySeq
  <2> HIDE DEF m
  <2> QED BY <2>1
<1>3. ASSUME NEW n \in 1..m, n - 1 \in P PROVE n \in P
  <2> DEFINE v == f[n - 1]
             w == f[n]
  <2>1. n - 1 \in 0..m /\ n \in 0..m /\ From(v, n - 1) /\ Row(v, n - 1) /\ All(v, n - 1)
    <3>1. n - 1 \in 0..m /\ n \in 0..m
      <4> HIDE DEF m
      <4> QED BY <1>1
    <3>2. From(v, n - 1) /\ Row(v, n - 1) /\ All(v, n - 1)
      <4> HIDE DEF From, Row, All
      <4> QED BY <1>3
    <3> QED BY <3>1, <3>2
  <2>2. v \in Seq(T)
    <3> HIDE DEF m
    <3> QED BY <1>1, <2>1
  <2>3. \A p \in 1..(n - 1) : p \in 1..n /\ p < n
    OBVIOUS
  <2>4. CASE text[n] \in gone
    <3>1. w = v
      BY <1>1, <2>4
    <3>2. From(w, n)
      <4> HIDE DEF v, w
      <4> QED BY <2>1, <2>3, <3>1
    <3>3. Row(w, n)
      <4> SUFFICES ASSUME NEW i \in 1..Len(w), NEW j \in 1..Len(w), i < j
                   PROVE  \E p, q \in 1..n : p < q /\ w[i] = text[p] /\ w[j] = text[q]
        OBVIOUS
      <4>1. PICK p \in 1..(n - 1), q \in 1..(n - 1) : p < q /\ v[i] = text[p] /\ v[j] = text[q]
        <5> HIDE DEF v, w
        <5> QED BY <2>1, <3>1
      <4> HIDE DEF v, w
      <4> QED BY <2>3, <3>1, <4>1
    <3>4. All(w, n)
      <4>1. \A p \in 1..n : p \in 1..(n - 1) \/ p = n
        <5> HIDE DEF v, w, m
        <5> QED OBVIOUS
      <4> HIDE DEF v, w
      <4> QED BY <2>1, <2>4, <3>1, <4>1
    <3> HIDE DEF From, Row, All, m
    <3> QED BY <2>1, <3>2, <3>3, <3>4
  <2>5. CASE text[n] \notin gone
    <3>1. w = Append(v, text[n]) /\ text[n] \in T
      BY <1>1, <2>5
    <3>2. /\ Len(v) \in Nat /\ Len(w) = Len(v) + 1 /\ w[Len(w)] = text[n]
          /\ \A i \in 1..Len(v) : w[i] = v[i]
      <4> HIDE DEF v, w
      <4> QED BY <2>2, <3>1, AppendProperties, LenProperties
    <3>3. \A i \in 1..Len(w) : i \in 1..Len(v) \/ i = Len(w)
      <4> HIDE DEF v, w
      <4> QED BY <3>2
    <3>4. n \in 1..n
      BY <2>1
    <3>5. From(w, n)
      <4> SUFFICES ASSUME NEW i \in 1..Len(w) PROVE \E p \in 1..n : w[i] = text[p]
        OBVIOUS
      <4>1. CASE i = Len(w)
        <5> HIDE DEF v, w
        <5> QED BY <3>2, <3>4, <4>1
      <4>2. CASE i \in 1..Len(v)
        <5>1. PICK p \in 1..(n - 1) : v[i] = text[p]
          BY <2>1, <4>2
        <5> HIDE DEF v, w
        <5> QED BY <2>3, <3>2, <4>2, <5>1
      <4> QED BY <3>3, <4>1, <4>2
    <3>6. Row(w, n)
      <4> SUFFICES ASSUME NEW i \in 1..Len(w), NEW j \in 1..Len(w), i < j
                   PROVE  \E p, q \in 1..n : p < q /\ w[i] = text[p] /\ w[j] = text[q]
        OBVIOUS
      <4>0. i \in 1..Len(v)
        <5> HIDE DEF v, w
        <5> QED BY <3>2, <3>3
      <4>1. CASE j = Len(w)
        <5>1. PICK p \in 1..(n - 1) : v[i] = text[p]
          BY <2>1, <4>0
        <5> HIDE DEF v, w
        <5> QED BY <2>3, <3>2, <3>4, <4>0, <4>1, <5>1
      <4>2. CASE j \in 1..Len(v)
        <5>1. PICK p \in 1..(n - 1), q \in 1..(n - 1) : p < q /\ v[i] = text[p] /\ v[j] = text[q]
          BY <2>1, <4>0, <4>2
        <5> HIDE DEF v, w
        <5> QED BY <2>3, <3>2, <4>0, <4>2, <5>1
      <4> QED BY <3>3, <4>1, <4>2
    <3>7. All(w, n)
      <4> SUFFICES ASSUME NEW p \in 1..n, text[p] \notin gone
                   PROVE  \E i \in 1..Len(w) : w[i] = text[p]
        OBVIOUS
      <4>0. p \in 1..(n - 1) \/ p = n
        <5> HIDE DEF m
        <5> QED OBVIOUS
      <4>1. CASE p = n
        <5>1. Len(w) \in 1..Len(w)
          <6> HIDE DEF v, w
          <6> QED BY <3>2
        <5> HIDE DEF v, w
        <5> QED BY <3>2, <4>1, <5>1
      <4>2. CASE p \in 1..(n - 1)
        <5>1. PICK i \in 1..Len(v) : v[i] = text[p]
          BY <2>1, <4>2
        <5>2. i \in 1..Len(w)
          <6> HIDE DEF v, w
          <6> QED BY <3>2
        <5> HIDE DEF v, w
        <5> QED BY <3>2, <5>1, <5>2
      <4> QED BY <4>0, <4>1, <4>2
    <3> HIDE DEF From, Row, All, m
    <3> QED BY <2>1, <3>5, <3>6, <3>7
  <2> QED BY <2>4, <2>5
<1>4. From(f[m], m) /\ Row(f[m], m) /\ All(f[m], m)
  <2> HIDE DEF P
  <2>1. \A n \in 0..m : n \in P
    <3> HIDE DEF m
    <3> QED BY <1>1, <1>2, <1>3, ClosedIsAll, Zenon
  <2>2. m \in P
    <3> HIDE DEF m
    <3> QED BY <1>1, <2>1
  <2> HIDE DEF From, Row, All, m
  <2> QED BY <2>2 DEF P
<1> QED BY <1>1, <1>4

(* The beginning of a list,                                                *)
LEMMA FirstIs ==
  ASSUME NEW T, NEW s \in Seq(T), NEW n \in Nat
  PROVE  /\ First(n, s) \in Seq(T)
         /\ Len(First(n, s)) = IF n <= Len(s) THEN n ELSE Len(s)
         /\ \A i \in 1..Len(First(n, s)) : i \in 1..Len(s) /\ First(n, s)[i] = s[i]
<1> DEFINE m == IF n <= Len(s) THEN n ELSE Len(s)
<1>1. Len(s) \in Nat /\ m \in Nat /\ m <= Len(s) /\ \A i \in 1..m : i \in 1..Len(s)
  BY LenProperties
<1>2. \A i \in 1..m : s[i] \in T
  <2> HIDE DEF m
  <2> QED BY <1>1, ElementOfSeq
<1>3. /\ SubSeq(s, 1, m) \in Seq(T) /\ Len(SubSeq(s, 1, m)) = m
      /\ \A i \in 1..m : SubSeq(s, 1, m)[i] = s[i]
  <2> HIDE DEF m
  <2> QED BY <1>1, <1>2, SubSeqProperties
<1>4. First(n, s) = SubSeq(s, 1, m)
  BY DEF First
<1> HIDE DEF m
<1> QED BY <1>1, <1>3, <1>4 DEF m

(* and its elements.                                                       *)
LEMMA MembersAre ==
  ASSUME NEW T, NEW s \in Seq(T)
  PROVE  /\ IsFiniteSet(ToSet(s)) /\ ToSet(s) \in SUBSET T
         /\ \A c : c \in ToSet(s) <=> \E i \in 1..Len(s) : s[i] = c
<1>1. /\ Len(s) \in Nat /\ DOMAIN s = 1..Len(s) /\ s \in [1..Len(s) -> T]
  BY LenProperties
<1>2. ToSet(s) = {s[i] : i \in 1..Len(s)}
  BY <1>1 DEF ToSet
<1>3. s \in Surjection(1..Len(s), ToSet(s))
  BY <1>1, <1>2 DEF Surjection
<1>4. IsFiniteSet(1..Len(s))
  BY <1>1, FS_Interval
<1>5. IsFiniteSet(ToSet(s))
  BY <1>3, <1>4, FS_Surjection
<1> QED BY <1>1, <1>2, <1>5

(* Chunks, each better than those behind it.                               *)
Sorted(c, k, s) ==
  /\ c \in Seq(Chunks)
  /\ \A i, j \in 1..Len(c) : i < j => <<c[i], c[j]>> \in Better(k, s)

(* services/retrieval.py:60: the fused legs are such a list.               *)
LEMMA RankedAreSorted ==
  ASSUME NEW k \in Seq(Chunks), NEW s \in Seq(Chunks)
  PROVE  Sorted(ranked_ids(k, s), k, s)
<1> DEFINE S == ToSet(k) \cup ToSet(s)
           r == ranked_ids(k, s)
           n == Cardinality(S)
<1>1. IsFiniteSet(S) /\ S \in SUBSET Chunks
  <2>1. /\ IsFiniteSet(ToSet(k)) /\ ToSet(k) \in SUBSET Chunks
        /\ IsFiniteSet(ToSet(s)) /\ ToSet(s) \in SUBSET Chunks
    BY MembersAre
  <2> QED BY <2>1, FS_Union
<1>2. Orders(Better(k, s), S)
  <2>1. Len(k) \in Nat /\ Len(s) \in Nat
    BY LenProperties
  <2> HIDE DEF S
  <2> QED BY <1>1, <2>1, BetterOrders
<1>3. /\ n \in Nat /\ r \in [1..n -> S]
      /\ \A i, j \in 1..n : i < j => <<r[i], r[j]>> \in Better(k, s)
  <2>1. r = InOrder(S, Better(k, s))
    BY DEF ranked_ids
  <2> HIDE DEF S, r
  <2> QED BY <1>1, <1>2, <2>1, InOrderIs
<1>4. r \in [1..n -> Chunks]
  <2> HIDE DEF r, n, S
  <2> QED BY <1>1, <1>3
<1>5. r \in Seq(Chunks) /\ Len(r) = n
  <2> HIDE DEF r, n
  <2>1. r \in Seq(Chunks)
    BY <1>3, <1>4, IsASeq
  <2>2. DOMAIN r = 1..n /\ DOMAIN r = 1..Len(r) /\ Len(r) \in Nat
    BY <1>4, <2>1, LenProperties
  <2> QED BY <1>3, <2>1, <2>2
<1> HIDE DEF r, n
<1> QED BY <1>3, <1>5 DEF Sorted, r

(* Cutting the list and dropping what is not READY keeps it sorted.        *)
LEMMA CandidatesAreSorted ==
  ASSUME NEW k \in Seq(Chunks), NEW s \in Seq(Chunks), NEW count \in Nat, NEW ready
  PROVE  Sorted(candidate_ids(ranked_ids(k, s), count, ready), k, s)
<1> DEFINE r == ranked_ids(k, s)
           f == First(count, r)
           gone == {c \in Chunks : DocumentOf[c] \notin ready}
           w == Without(f, gone)
<1>1. r \in Seq(Chunks) /\ \A i, j \in 1..Len(r) : i < j => <<r[i], r[j]>> \in Better(k, s)
  BY RankedAreSorted DEF Sorted
<1>2. f \in Seq(Chunks) /\ \A i \in 1..Len(f) : i \in 1..Len(r) /\ f[i] = r[i]
  <2> HIDE DEF r
  <2> QED BY <1>1, FirstIs
<1>3. w \in Seq(Chunks)
  <2> HIDE DEF f, gone
  <2> QED BY <1>2, WithoutKeeps
<1>4. \A i, j \in 1..Len(w) : i < j => \E p, q \in 1..Len(f) : p < q /\ w[i] = f[p] /\ w[j] = f[q]
  <2> HIDE DEF f, gone
  <2> QED BY <1>2, WithoutOrder
<1>5. ASSUME NEW i \in 1..Len(w), NEW j \in 1..Len(w), i < j PROVE <<w[i], w[j]>> \in Better(k, s)
  <2> HIDE DEF w, f, r
  <2>1. PICK p \in 1..Len(f), q \in 1..Len(f) : p < q /\ w[i] = f[p] /\ w[j] = f[q]
    BY <1>4, <1>5
  <2> QED BY <1>1, <1>2, <2>1
<1> HIDE DEF w
<1> QED BY <1>3, <1>5 DEF Sorted, candidate_ids, w

(* The positions the reply names and the candidates have.                  *)
LEMMA InRangeIs ==
  ASSUME NEW reply \in Seq(Int), NEW n \in Nat
  PROVE  /\ Len(InRange(reply, n)) \in Nat
         /\ \A p \in 1..n : (\E i \in 1..Len(InRange(reply, n)) : InRange(reply, n)[i] = p)
                              <=> p \in ToSet(reply)
<1> DEFINE v == InRange(reply, n)
           gone == {p \in ToSet(reply) : p \notin 1..n}
<1>1. v = Without(reply, gone)
  BY DEF InRange
<1>2. \A p \in 1..n : p \notin gone
  OBVIOUS
<1>3. \A c : c \in ToSet(reply) <=> \E h \in 1..Len(reply) : reply[h] = c
  BY MembersAre
<1> HIDE DEF v, gone
<1>4. Len(v) \in Nat
  BY <1>1, WithoutKeeps, LenProperties
<1>5. /\ \A i \in 1..Len(v) : \E h \in 1..Len(reply) : v[i] = reply[h]
      /\ \A h \in 1..Len(reply) : reply[h] \notin gone => \E i \in 1..Len(v) : v[i] = reply[h]
  <2> DEFINE w == Without(reply, gone)
  <2>1. /\ \A i \in 1..Len(w) : \E h \in 1..Len(reply) : w[i] = reply[h]
        /\ \A h \in 1..Len(reply) : reply[h] \notin gone => \E i \in 1..Len(w) : w[i] = reply[h]
    BY WithoutOrder
  <2>2. v = w
    BY <1>1
  <2> HIDE DEF w
  <2> QED BY <2>1, <2>2
<1>6. ASSUME NEW p \in 1..n PROVE (\E i \in 1..Len(v) : v[i] = p) <=> p \in ToSet(reply)
  <2>1. ASSUME \E i \in 1..Len(v) : v[i] = p PROVE p \in ToSet(reply)
    BY <1>3, <1>5, <2>1
  <2>2. ASSUME p \in ToSet(reply) PROVE \E i \in 1..Len(v) : v[i] = p
    <3>1. PICK h \in 1..Len(reply) : reply[h] = p
      BY <1>3, <2>2
    <3> QED BY <1>2, <1>5, <3>1
  <2> QED BY <2>1, <2>2
<1> QED BY <1>4, <1>6 DEF v

(* A position the reply does not name has the place behind all candidates, *)
(* and a position it names its own.                                        *)
LEMMA RerankRankIs ==
  ASSUME NEW reply \in Seq(Int), NEW n \in Nat, NEW p \in 1..n
  PROVE  /\ RerankRank(reply, p, n) \in Nat
         /\ p \notin ToSet(reply) => RerankRank(reply, p, n) = n + 1
         /\ p \in ToSet(reply) => RerankRank(reply, p, n) \in 1..Len(InRange(reply, n))
         /\ \A q \in 1..n : p \in ToSet(reply) /\ RerankRank(reply, p, n) = RerankRank(reply, q, n)
                              /\ q \in ToSet(reply) => p = q
<1> DEFINE v == InRange(reply, n)
           place(q) == RerankRank(reply, q, n)
<1>1. Len(v) \in Nat /\ \A q \in 1..n : (\E i \in 1..Len(v) : v[i] = q) <=> q \in ToSet(reply)
  BY InRangeIs
<1>2. ASSUME NEW q \in 1..n
      PROVE  /\ Rank(v, q) \in 0..Len(v)
             /\ Rank(v, q) # 0 => v[Rank(v, q)] = q
             /\ Rank(v, q) # 0 <=> q \in ToSet(reply)
             /\ place(q) = IF Rank(v, q) = 0 THEN n + 1 ELSE Rank(v, q)
  <2>1. place(q) = IF Rank(v, q) = 0 THEN n + 1 ELSE Rank(v, q)
    BY DEF RerankRank
  <2> HIDE DEF v, place
  <2> QED BY <1>1, <2>1, RankIs
<1> HIDE DEF v, place
<1>3. \A q \in 1..n : p \in ToSet(reply) /\ place(p) = place(q) /\ q \in ToSet(reply) => p = q
  BY <1>2
<1>4. /\ place(p) \in Nat /\ (p \notin ToSet(reply) => place(p) = n + 1)
      /\ p \in ToSet(reply) => place(p) \in 1..Len(v)
  BY <1>1, <1>2
<1> QED BY <1>3, <1>4 DEF v, place

(* What a reply makes of the positions.                                    *)
LEMMA RerankOrderIs ==
  ASSUME NEW reply \in Seq(Int), NEW n \in Nat
  PROVE  /\ RerankOrder(reply, n) \in [1..n -> 1..n]
         /\ \A i, j \in 1..n : i < j =>
              /\ RerankOrder(reply, n)[i] # RerankOrder(reply, n)[j]
              /\ RerankRank(reply, RerankOrder(reply, n)[i], n)
                   <= RerankRank(reply, RerankOrder(reply, n)[j], n)
         /\ \A p \in 1..n : \E i \in 1..n : RerankOrder(reply, n)[i] = p
<1> DEFINE place(p) == RerankRank(reply, p, n)
           sooner == {p \in (1..n) \X (1..n) :
                        place(p[1]) < place(p[2]) \/ (place(p[1]) = place(p[2]) /\ p[1] < p[2])}
           order == RerankOrder(reply, n)
<1>1. \A p \in 1..n : place(p) \in Nat
  BY RerankRankIs
<1>2. ASSUME NEW p \in 1..n, NEW q \in 1..n
      PROVE  <<p, q>> \in sooner <=> place(p) < place(q) \/ (place(p) = place(q) /\ p < q)
  <2> HIDE DEF place
  <2> QED OBVIOUS
<1>3. Orders(sooner, 1..n)
  <2> HIDE DEF sooner, place
  <2> QED BY <1>1, <1>2 DEF Orders
<1>4. IsFiniteSet(1..n) /\ Cardinality(1..n) = n
  BY FS_Interval
<1>5. order = InOrder(1..n, sooner)
  BY DEF RerankOrder
<1> HIDE DEF sooner, order, place
<1>6. \A m : m = Cardinality(1..n) =>
        /\ order \in [1..m -> 1..n]
        /\ \A i, j \in 1..m : i < j => <<order[i], order[j]>> \in sooner
        /\ \A p \in 1..n : \E i \in 1..m : order[i] = p
  BY <1>3, <1>4, <1>5, InOrderIs
<1>7. /\ order \in [1..n -> 1..n]
      /\ \A i, j \in 1..n : i < j => <<order[i], order[j]>> \in sooner
      /\ \A p \in 1..n : \E i \in 1..n : order[i] = p
  BY <1>4, <1>6
<1>8. ASSUME NEW i \in 1..n, NEW j \in 1..n, i < j
      PROVE  order[i] # order[j] /\ place(order[i]) <= place(order[j])
  <2>1. order[i] \in 1..n /\ order[j] \in 1..n /\ <<order[i], order[j]>> \in sooner
    BY <1>7, <1>8
  <2>2. \A p, q \in 1..n : <<p, q>> \in sooner => p # q /\ place(p) <= place(q)
    BY <1>1, <1>2
  <2> QED BY <2>1, <2>2
<1> QED BY <1>7, <1>8 DEF order, place

(* No two of the candidates are the same chunk.                            *)
LEMMA SortedOnce ==
  ASSUME NEW k \in Seq(Chunks), NEW s \in Seq(Chunks), NEW c, Sorted(c, k, s)
  PROVE  /\ c \in Seq(Chunks)
         /\ \A i, j \in 1..Len(c) : i < j => c[i] # c[j]
<1>1. /\ c \in Seq(Chunks) /\ Len(c) \in Nat
      /\ \A i, j \in 1..Len(c) : i < j => <<c[i], c[j]>> \in Better(k, s)
  BY LenProperties DEF Sorted
<1>2. \A d \in Chunks : <<d, d>> \notin Better(k, s)
  <2>1. Len(k) \in Nat /\ Len(s) \in Nat
    BY LenProperties
  <2> QED BY <2>1, BetterOrders DEF Orders
<1>3. \A i \in 1..Len(c) : c[i] \in Chunks
  BY <1>1, ElementOfSeq
<1> QED BY <1>1, <1>2, <1>3

(* What a reply makes of candidates without a repetition.                  *)
LEMMA RerankedIs ==
  ASSUME NEW c \in Seq(Chunks), \A i, j \in 1..Len(c) : i < j => c[i] # c[j],
         NEW reply \in Seq(Int)
  PROVE  LET ranked == Reranked(c, reply)
             n == Len(c)
             named == {c[p] : p \in ToSet(reply) \cap 1..n}
         IN /\ Len(ranked) = Len(First(TopK, c))
            /\ \A i, j \in 1..Len(ranked) : ranked[i] = ranked[j] => i = j
            /\ ToSet(ranked) \subseteq ToSet(c)
            /\ Len(InRange(reply, n)) <= n =>
                 \A i \in 1..Len(ranked) :
                   ranked[i] \notin named => named \subseteq {ranked[k] : k \in 1..(i - 1)}
<1> DEFINE n == Len(c)
           m == Len(First(TopK, c))
           order == RerankOrder(reply, n)
           place(p) == RerankRank(reply, p, n)
           all == [i \in 1..n |-> c[order[i]]]
           ranked == Reranked(c, reply)
           named == {c[p] : p \in ToSet(reply) \cap 1..n}
<1>1. n \in Nat /\ (\A i \in 1..n : c[i] \in Chunks) /\ TopK \in Nat
  BY LenProperties, ElementOfSeq, RetrievalAssumption
<1>2. /\ order \in [1..n -> 1..n]
      /\ \A i, j \in 1..n : i < j => order[i] # order[j] /\ place(order[i]) <= place(order[j])
      /\ \A p \in 1..n : \E i \in 1..n : order[i] = p
  <2> HIDE DEF n
  <2> QED BY <1>1, RerankOrderIs
<1>3. all \in Seq(Chunks) /\ Len(all) = n
  <2> HIDE DEF n, order
  <2>1. all \in [1..n -> Chunks]
    BY <1>1, <1>2
  <2>2. all \in Seq(Chunks)
    BY <1>1, <2>1, IsASeq
  <2>3. DOMAIN all = 1..n /\ DOMAIN all = 1..Len(all) /\ Len(all) \in Nat
    BY <2>1, <2>2, LenProperties
  <2> HIDE DEF all
  <2> QED BY <1>1, <2>2, <2>3
<1>4. ranked = First(TopK, all)
  BY DEF Reranked
<1>5. m = IF TopK <= n THEN TopK ELSE n
  BY <1>1, FirstIs
<1>6. ranked \in Seq(Chunks) /\ Len(ranked) = m /\ m \in Nat /\ m <= n
      /\ \A i \in 1..m : i \in 1..n /\ ranked[i] = all[i]
  <2> HIDE DEF all, ranked, n, m
  <2> QED BY <1>1, <1>3, <1>4, <1>5, FirstIs
<1>7. \A i \in 1..n : all[i] = c[order[i]] /\ order[i] \in 1..n
  <2> HIDE DEF n, order
  <2> QED BY <1>2
<1>8. \A x : x \in ToSet(ranked) <=> \E i \in 1..m : ranked[i] = x
  <2> HIDE DEF ranked, m
  <2> QED BY <1>6, MembersAre
<1>9. \A x : x \in ToSet(c) <=> \E i \in 1..n : c[i] = x
  BY MembersAre
<1>10. \A p, q \in 1..n : c[p] = c[q] => p = q
  <2> HIDE DEF n
  <2>1. \A i, j \in 1..n : i < j => c[i] # c[j]
    BY DEF n
  <2> QED BY <1>1, <2>1
<1>11. \A p \in 1..n :
         /\ p \notin ToSet(reply) => place(p) = n + 1
         /\ p \in ToSet(reply) => place(p) \in 1..Len(InRange(reply, n))
  <2> HIDE DEF n
  <2> QED BY <1>1, RerankRankIs
<1>12. Len(InRange(reply, n)) \in Nat
  <2> HIDE DEF n
  <2> QED BY <1>1, InRangeIs
<1>13. \A x : x \in named <=> \E p \in 1..n : p \in ToSet(reply) /\ c[p] = x
  <2> HIDE DEF n
  <2> QED OBVIOUS
<1> DEFINE long == Len(InRange(reply, n))
<1> HIDE DEF all, ranked, n, m, order, place, named, long
<1>14. ASSUME NEW i \in 1..m, NEW j \in 1..m, ranked[i] = ranked[j] PROVE i = j
  <2>1. i \in 1..n /\ j \in 1..n /\ c[order[i]] = c[order[j]]
    BY <1>6, <1>7, <1>14
  <2>2. order[i] = order[j]
    BY <1>7, <1>10, <2>1
  <2> QED BY <1>1, <1>2, <2>1, <2>2
<1>15. ToSet(ranked) \subseteq ToSet(c)
  BY <1>6, <1>7, <1>8, <1>9
<1>16. ASSUME long <= n, NEW i \in 1..m, ranked[i] \notin named, NEW x \in named
       PROVE  \E k \in 1..(i - 1) : ranked[k] = x
  <2>1. PICK p \in 1..n : p \in ToSet(reply) /\ c[p] = x
    BY <1>13
  <2>2. PICK h \in 1..n : order[h] = p
    BY <1>2
  <2>3. i \in 1..n /\ order[i] \in 1..n /\ ranked[i] = c[order[i]]
    BY <1>6, <1>7
  <2>4. order[i] \notin ToSet(reply)
    BY <1>13, <1>16, <2>3
  <2>5. place(order[i]) = n + 1 /\ place(p) \in 1..long
    BY <1>11, <2>1, <2>3, <2>4 DEF long
  <2>6. place(order[h]) < place(order[i])
    BY <1>1, <1>12, <1>16, <2>2, <2>5 DEF long
  <2>7. h < i
    <3>1. ~(i < h)
      <4>1. ASSUME i < h PROVE FALSE
        <5>1. place(order[i]) <= place(order[h])
          BY <1>2, <2>2, <2>3, <4>1
        <5>2. place(order[h]) \in Int /\ place(order[i]) \in Int
          BY <1>1, <1>12, <2>2, <2>5 DEF long
        <5> QED BY <2>6, <5>1, <5>2
      <4> QED BY <4>1
    <3>2. h # i
      <4>1. ASSUME h = i PROVE FALSE
        BY <2>1, <2>2, <2>4, <4>1
      <4> QED BY <4>1
    <3> QED BY <3>1, <3>2, <1>1
  <2>8. h \in 1..(i - 1) /\ h \in 1..m
    BY <1>1, <1>6, <2>7
  <2>9. ranked[h] = x
    BY <1>6, <1>7, <2>1, <2>2, <2>8
  <2> QED BY <2>8, <2>9
<1>17. Len(ranked) = m
  BY <1>6
<1>18. ASSUME long <= n, NEW i \in 1..Len(ranked), ranked[i] \notin named
       PROVE  named \subseteq {ranked[k] : k \in 1..(i - 1)}
  BY <1>16, <1>17, <1>18
<1>19. \A i, j \in 1..Len(ranked) : ranked[i] = ranked[j] => i = j
  BY <1>14, <1>17
<1> QED BY <1>15, <1>17, <1>18, <1>19 DEF ranked, named, n, m, long

(* The legs rank chunks, and what was fetched is in their fused order.     *)
SearchInv ==
  /\ keyword \in Seq(Chunks) /\ semantic \in Seq(Chunks)
  /\ Fetched => Sorted(candidates, keyword, semantic)

(* It holds when nothing was asked,                                        *)
LEMMA SearchInit == Init => SearchInv
<1> SUFFICES ASSUME Init PROVE SearchInv
  OBVIOUS
<1>1. <<>> \in Seq(Chunks)
  BY EmptySeq
<1> QED BY <1>1 DEF Init, SearchInv, Fetched

(* A step that leaves the retrieval as it is, or ends it.                  *)
LEMMA KeepsSearch ==
  ASSUME SearchInv, UNCHANGED <<keyword, semantic, candidates>>,
         at' = at \/ at' \notin {"hydrated", "reranking"}
  PROVE  SearchInv'
<1>1. keyword \in Seq(Chunks) /\ semantic \in Seq(Chunks) /\ (Fetched' => Fetched)
  BY DEF SearchInv, Fetched
<1>2. ASSUME Fetched PROVE Sorted(candidates', keyword', semantic')
  <2>1. Sorted(candidates, keyword, semantic)
    BY <1>2 DEF SearchInv
  <2> QED BY <2>1
<1>3. ASSUME Fetched PROVE Sorted(candidates, keyword, semantic)'
  BY <1>2, <1>3 DEF Sorted, Better, Fused, Plus, Share, Rank, Exceeds
<1> QED BY <1>1, <1>3 DEF SearchInv

(* the fetch establishes it,                                               *)
LEMMA FetchPreserves ==
  ASSUME SearchInv, FetchCandidates
  PROVE  SearchInv'
<1>1. /\ keyword \in Seq(Chunks) /\ semantic \in Seq(Chunks)
      /\ keyword' = keyword /\ semantic' = semantic
  BY DEF SearchInv, FetchCandidates
<1>2. PICK reranker \in BOOLEAN, ready \in SUBSET Documents :
        candidates' = candidate_ids(ranked_ids(keyword, semantic), PoolSize(reranker), ready)
  BY DEF FetchCandidates
<1>3. PoolSize(reranker) \in Nat
  BY RetrievalAssumption, AnswersAssumption DEF PoolSize
<1>4. Sorted(candidates', keyword, semantic)
  BY <1>1, <1>2, <1>3, CandidatesAreSorted
<1>5. Sorted(candidates', keyword', semantic')
  BY <1>1, <1>4
<1> QED BY <1>1, <1>5 DEF SearchInv, Sorted, Better, Fused, Plus, Share, Rank, Exceeds

(* and nothing else disturbs it.                                           *)
LEMMA SearchNext == SearchInv /\ [Next]_vars => SearchInv'
<1> SUFFICES ASSUME SearchInv, [Next]_vars PROVE SearchInv'
  OBVIOUS
<1>0. <<>> \in Seq(Chunks)
  BY EmptySeq
<1>1. ASSUME NEW mode \in {"chat", "ask"}, Submit(mode) PROVE SearchInv'
  BY <1>1, KeepsSearch DEF Submit
<1>2. CASE Tick \/ AskElsewhere
  BY <1>2, KeepsSearch DEF Tick, AskElsewhere, search
<1>3. CASE ServerStep
  <2>1. ASSUME Admit \/ Refuse \/ GenerationDisabled \/ WorkspaceNotFound \/ Abort \/ AnswerNothing
               \/ GenerationFails
        PROVE  SearchInv'
    BY <2>1, KeepsSearch DEF Admit, Refuse, HttpError, Fail, GenerationDisabled, WorkspaceNotFound,
                             Abort, AnswerNothing, GenerationFails, search
  <2>2. ASSUME NEW delta \in Deltas(raw), ReadDelta(delta) PROVE SearchInv'
    BY <2>2, KeepsSearch DEF ReadDelta, search
  <2>3. ASSUME NEW b \in Blocks \cup {None}, Finalize(b) PROVE SearchInv'
    BY <2>3, KeepsSearch DEF Finalize, search
  <2>4. CASE SearchKeywords
    BY <2>4, AnswersAssumption DEF SearchKeywords, SearchInv, Fetched
  <2>5. CASE SearchVectors
    BY <2>5, AnswersAssumption DEF SearchVectors, SearchInv, Fetched
  <2>6. CASE RankSources
    BY <1>0, <2>6 DEF RankSources, SearchInv, Fetched
  <2> QED BY <1>3, <2>1, <2>2, <2>3, <2>4, <2>5, <2>6, FetchPreserves DEF ServerStep
<1>4. CASE ReceiveSources \/ ReceiveToken
  BY <1>4, KeepsSearch DEF ReceiveSources, ReceiveToken, search
<1>5. CASE ReceiveFinal \/ ReceiveError \/ EndOfStream \/ LoseConnection \/ Leave
  BY <1>0, <1>5 DEF ReceiveFinal, ReceiveError, EndOfStream, LoseConnection, Leave, Settle, Forgotten,
                    SearchInv, Fetched
<1>6. CASE UNCHANGED vars
  BY <1>6, KeepsSearch DEF vars, search
<1> QED BY <1>1, <1>2, <1>3, <1>4, <1>5, <1>6 DEF Next, ClientStep

(* services/retrieval.py:60: from the fetch until the sources are chosen,  *)
(* the candidates are in the fused order of the two legs that were asked.  *)
THEOREM SearchInvariant == Spec => []SearchInv
<1> QED BY SearchInit, SearchNext, PTL DEF Spec

(* services/retrieval.py:60 and rerank.py: whatever the legs rank and the  *)
(* reranker replies, no candidate comes before one that a leg ranks higher *)
(* and the other no lower, no source is lost or repeated, and one the      *)
(* reranker left out comes behind those it named.                          *)
THEOREM RankingsRespectLegs == Spec => []RankingRespectsLegs
<1>1. SearchInv => RankingRespectsLegs
  <2> SUFFICES ASSUME SearchInv, Fetched
               PROVE  RankingRespectsLegs
    BY DEF RankingRespectsLegs
  <2>1. /\ keyword \in Seq(Chunks) /\ semantic \in Seq(Chunks)
        /\ Sorted(candidates, keyword, semantic)
    BY DEF SearchInv
  <2>2. Len(keyword) \in Nat /\ Len(semantic) \in Nat
    BY <2>1, LenProperties
  <2>3. ASSUME NEW i \in 1..Len(candidates), NEW j \in 1..Len(candidates), i < j
        PROVE  ~(/\ NoWorse(keyword, candidates[j], candidates[i])
                 /\ NoWorse(semantic, candidates[j], candidates[i])
                 /\ (Beats(keyword, candidates[j], candidates[i])
                       \/ Beats(semantic, candidates[j], candidates[i])))
    <3>1. <<candidates[i], candidates[j]>> \in Better(keyword, semantic)
      BY <2>1, <2>3 DEF Sorted
    <3> QED BY <2>2, <3>1, BetterRespectsLegs
  <2>4. /\ candidates \in Seq(Chunks)
        /\ \A i, j \in 1..Len(candidates) : i < j => candidates[i] # candidates[j]
    BY <2>1, SortedOnce
  <2>5. \A reply \in Replies : reply \in Seq(Int)
    BY AnswersAssumption
  <2> QED BY <2>3, <2>4, <2>5, RerankedIs DEF RankingRespectsLegs
<1> QED BY <1>1, SearchInvariant, PTL

-----------------------------------------------------------------------------
(* Extraction.  The citations kept of one requirement.                      *)

Proposed == [quote : STRING, source : Int]
Kept == [chunk : Int, quote : STRING]
Requirement == [text : DOMAIN KeyOf, citations : Seq(Proposed)]

(* The citations that hold and are the first of their chunk.               *)
FirstThatHold(cites, first) ==
  {k \in 1..Len(cites) :
     /\ Holds(cites[k], first)
     /\ \A j \in 1..(k - 1) : Holds(cites[j], first) => cites[j].source # cites[k].source}

(* f[k] are those of the first k citations.                                *)
KeptSoFar(f, r, first) ==
  LET cites == r.citations
  IN /\ f \in [0..Len(cites) -> Seq(Kept)] /\ f[0] = <<>>
     /\ f[Len(cites)] = VerifiedCitations(r, first)
     /\ \A k \in 1..Len(cites) :
          f[k] = IF k \in FirstThatHold(cites, first)
                 THEN Append(f[k - 1], [chunk |-> first + cites[k].source, quote |-> cites[k].quote])
                 ELSE f[k - 1]

(* They are kept citation by citation.                                     *)
LEMMA KeptSoFarExists ==
  ASSUME NEW r \in Requirement, NEW first \in Int
  PROVE  \E f : KeptSoFar(f, r, first)
<1> DEFINE cites == r.citations
           m == Len(cites)
           S == Seq(Kept)
           kept == FirstThatHold(cites, first)
           one(k) == [chunk |-> first + cites[k].source, quote |-> cites[k].quote]
           More(k, s) == IF k \in kept THEN Append(s, one(k)) ELSE s
           Is(f) == f = [k \in 0..Len(cites) |->
                           IF k = 0 THEN <<>>
                           ELSE IF k \in kept
                           THEN Append(f[k - 1], [chunk |-> first + cites[k].source, quote |-> cites[k].quote])
                           ELSE f[k - 1]]
           step == [k \in 1..m |-> [s \in S |-> More(k, s)]]
           g == CHOOSE f : Is(f)
<1>1. cites \in Seq(Proposed) /\ m \in Nat /\ <<>> \in S
  BY LenProperties, EmptySeq DEF Requirement
<1>2. ASSUME NEW k \in 1..m, NEW s \in S PROVE More(k, s) \in S
  <2>1. cites[k] \in Proposed
    BY <1>1, ElementOfSeq
  <2>2. one(k) \in Kept
    BY <2>1 DEF Proposed, Kept
  <2> HIDE DEF one, kept, m
  <2> QED BY <2>2, AppendProperties
<1>3. step \in [1..m -> [S -> S]]
  <2> HIDE DEF S, m, More
  <2> QED BY <1>2
<1>4. PICK f : IsFold(f, <<>>, step, m, S)
  <2> HIDE DEF S, m, step
  <2> QED BY <1>1, <1>3, FoldExists
<1>5. f \in [0..m -> S] /\ f[0] = <<>> /\ \A k \in 1..m : f[k] = More(k, f[k - 1])
  <2>1. f \in [0..m -> S] /\ f[0] = <<>> /\ \A k \in 1..m : f[k] = step[k][f[k - 1]]
    BY <1>4 DEF IsFold
  <2>2. ASSUME NEW k \in 1..m PROVE f[k] = More(k, f[k - 1])
    <3>1. k - 1 \in 0..m
      BY <1>1
    <3>2. f[k - 1] \in S
      BY <2>1, <3>1
    <3> HIDE DEF S, m, More
    <3> QED BY <2>1, <3>2
  <2> QED BY <2>1, <2>2
<1>6. Is(f)
  <2>1. ASSUME NEW k \in 0..m
        PROVE  f[k] = IF k = 0 THEN <<>> ELSE More(k, f[k - 1])
    <3>1. k = 0 \/ k \in 1..m
      BY <1>1
    <3> HIDE DEF More, m, S
    <3>2. CASE k = 0
      BY <1>5, <3>2
    <3>3. CASE k # 0
      BY <1>5, <3>1, <3>3
    <3> QED BY <3>2, <3>3
  <2>2. f = [k \in 0..m |-> IF k = 0 THEN <<>> ELSE More(k, f[k - 1])]
    <3> HIDE DEF S, More, m
    <3> QED BY <1>5, <2>1
  <2> HIDE DEF kept
  <2> QED BY <2>2
<1>7. Is(g)
  <2> HIDE DEF Is
  <2> QED BY <1>6, Zenon DEF g
<1>8. VerifiedCitations(r, first) = g[Len(r.citations)]
  BY Zenon DEF VerifiedCitations, FirstThatHold
<1>9. \A k \in 0..m : g[k] = IF k = 0 THEN <<>> ELSE More(k, g[k - 1])
  <2> HIDE DEF g, kept
  <2> QED BY <1>7
<1> DEFINE P == {k \in 0..m : g[k] = f[k]}
<1> HIDE DEF g, step, Is, More, S, m
<1>10. 0 \in P /\ \A k \in 1..m : k - 1 \in P => k \in P
  BY <1>1, <1>5, <1>9
<1> HIDE DEF P
<1>11. \A k \in 0..m : k \in P
  BY <1>1, <1>10, ClosedIsAll, Zenon
<1>12. f[m] = VerifiedCitations(r, first)
  BY <1>1, <1>8, <1>11 DEF P, m
<1> HIDE DEF kept
<1> QED BY <1>5, <1>12 DEF KeptSoFar, More, m, S, kept

(* services/evidence.py:151: what is kept of a requirement's citations.    *)
Quoted(v) ==
  \A k \in 1..Len(v) :
    /\ <<v[k].quote, v[k].chunk>> \in Supported
    /\ \A j \in 1..(k - 1) : v[j].chunk # v[k].chunk

(* Whatever the citations, those kept have their quotes and a chunk each,  *)
(* and one is kept when one holds.                                         *)
LEMMA CitationsAreQuoted ==
  ASSUME NEW r \in Requirement, NEW first \in Int
  PROVE  /\ VerifiedCitations(r, first) \in Seq(Kept)
         /\ Quoted(VerifiedCitations(r, first))
         /\ (\E k \in 1..Len(r.citations) : Holds(r.citations[k], first)) =>
              VerifiedCitations(r, first) # <<>>
<1> DEFINE cites == r.citations
           m == Len(cites)
           S == Seq(Kept)
           kept == FirstThatHold(cites, first)
           one(k) == [chunk |-> first + cites[k].source, quote |-> cites[k].quote]
<1>1. PICK f : KeptSoFar(f, r, first)
  BY KeptSoFarExists
<1>2. /\ f \in [0..m -> S] /\ f[0] = <<>> /\ f[m] = VerifiedCitations(r, first)
      /\ \A k \in 1..m : f[k] = IF k \in kept THEN Append(f[k - 1], one(k)) ELSE f[k - 1]
  BY <1>1 DEF KeptSoFar
<1>3. cites \in Seq(Proposed) /\ m \in Nat /\ \A k \in 1..m : cites[k].source \in Int /\ one(k) \in Kept
  <2>1. cites \in Seq(Proposed) /\ m \in Nat
    BY LenProperties DEF Requirement
  <2>2. \A k \in 1..m : cites[k] \in Proposed
    <3> HIDE DEF cites
    <3> QED BY <2>1, ElementOfSeq
  <2>3. \A k \in 1..m : cites[k].source \in Int /\ cites[k].quote \in STRING
    <3> HIDE DEF cites, m
    <3> QED BY <2>2 DEF Proposed
  <2>4. \A k \in 1..m : one(k) \in Kept
    <3> HIDE DEF cites, m
    <3> QED BY <2>3 DEF Kept
  <2> QED BY <2>1, <2>3, <2>4
<1> DEFINE Of(v, n) == \A i \in 1..Len(v) :
                         \E k \in 1..n : /\ k \in kept /\ v[i] = one(k)
                                         /\ \A j \in 1..(i - 1) : v[j].chunk # v[i].chunk
           P == {n \in 0..m : Of(f[n], n)}
           Q == {n \in 0..m : kept \cap (1..n) # {} => f[n] # <<>>}
<1>4. \A j, k \in kept : j < k => cites[j].source # cites[k].source
  BY <1>3 DEF FirstThatHold
<1>5. ASSUME NEW n \in 1..m, n - 1 \in P PROVE n \in P
  <2>1. n - 1 \in 0..m /\ n \in 0..m /\ f[n - 1] \in S /\ Of(f[n - 1], n - 1)
    <3>1. n - 1 \in 0..m /\ n \in 0..m
      BY <1>3
    <3>2. f[n - 1] \in S
      <4> HIDE DEF m, S
      <4> QED BY <1>2, <3>1
    <3>3. Of(f[n - 1], n - 1)
      <4> HIDE DEF Of
      <4> QED BY <1>5
    <3> QED BY <3>1, <3>2, <3>3
  <2>2. CASE n \notin kept
    <3>1. f[n] = f[n - 1]
      BY <1>2, <2>2
    <3>2. \A k \in 1..(n - 1) : k \in 1..n
      OBVIOUS
    <3> QED BY <2>1, <3>1, <3>2
  <2>3. CASE n \in kept
    <3> DEFINE v == f[n - 1]
               w == f[n]
    <3>1. w = Append(v, one(n))
      BY <1>2, <2>3
    <3>2. one(n) \in Kept
      <4> HIDE DEF one, m
      <4> QED BY <1>3
    <3>3. Len(v) \in Nat /\ Len(w) = Len(v) + 1 /\ w[Len(w)] = one(n) /\ \A i \in 1..Len(v) : w[i] = v[i]
      <4> HIDE DEF v, w, one
      <4> QED BY <2>1, <3>1, <3>2, AppendProperties, LenProperties DEF v
    <3>4. \A i \in 1..Len(v) : v[i].chunk # one(n).chunk
      <4> SUFFICES ASSUME NEW i \in 1..Len(v) PROVE v[i].chunk # one(n).chunk
        OBVIOUS
      <4>1. PICK k \in 1..(n - 1) : k \in kept /\ v[i] = one(k)
        BY <2>1
      <4>2. cites[k].source # cites[n].source /\ k \in 1..m
        BY <1>4, <2>3, <4>1
      <4>3. cites[k].source \in Int /\ cites[n].source \in Int
        BY <1>3, <4>2
      <4>4. one(k).chunk = first + cites[k].source /\ one(n).chunk = first + cites[n].source
        OBVIOUS
      <4>5. one(k).chunk # one(n).chunk
        <5> HIDE DEF one, cites
        <5> QED BY <4>2, <4>3, <4>4
      <4> HIDE DEF v, one
      <4> QED BY <4>1, <4>5
    <3>5. ASSUME NEW i \in 1..Len(w)
          PROVE  \E k \in 1..n : /\ k \in kept /\ w[i] = one(k)
                                 /\ \A j \in 1..(i - 1) : w[j].chunk # w[i].chunk
      <4>1. CASE i = Len(w)
        <5>1. \A j \in 1..(i - 1) : w[j].chunk # one(n).chunk
          <6> HIDE DEF v, w, one
          <6> QED BY <3>3, <3>4, <4>1
        <5> HIDE DEF v, w, kept, one
        <5> QED BY <2>3, <3>3, <4>1, <5>1
      <4>2. CASE i # Len(w)
        <5>1. i \in 1..Len(v)
          <6> HIDE DEF v, w
          <6> QED BY <3>3, <4>2
        <5>2. PICK k \in 1..(n - 1) : /\ k \in kept /\ v[i] = one(k)
                                      /\ \A j \in 1..(i - 1) : v[j].chunk # v[i].chunk
          BY <2>1, <5>1
        <5>3. w[i] = v[i] /\ \A j \in 1..(i - 1) : w[j] = v[j]
          <6> HIDE DEF v, w
          <6> QED BY <3>3, <5>1
        <5>4. k \in 1..n
          OBVIOUS
        <5> HIDE DEF v, w, kept, one
        <5> QED BY <5>2, <5>3, <5>4
      <4> QED BY <4>1, <4>2
    <3> QED BY <2>1, <3>5
  <2> QED BY <2>2, <2>3
<1>6. 0 \in P
  <2>1. f[0] = <<>> /\ Len(<<>>) = 0
    BY <1>2, EmptySeq
  <2>2. Of(f[0], 0)
    BY <2>1
  <2> QED BY <1>3, <2>2
<1>7. Of(f[m], m)
  <2> HIDE DEF P
  <2>1. \A n \in 0..m : n \in P
    BY <1>3, <1>5, <1>6, ClosedIsAll, Zenon
  <2>2. m \in 0..m
    BY <1>3
  <2>3. m \in P
    BY <2>1, <2>2
  <2> HIDE DEF Of, m
  <2> QED BY <2>3 DEF P
<1>8. ASSUME NEW n \in 1..m, n - 1 \in Q PROVE n \in Q
  <2>1. n - 1 \in 0..m /\ n \in 0..m /\ f[n - 1] \in S
    <3>1. n - 1 \in 0..m /\ n \in 0..m
      BY <1>3
    <3> HIDE DEF m, S
    <3> QED BY <1>2, <3>1
  <2>2. CASE n \notin kept
    <3>1. f[n] = f[n - 1]
      BY <1>2, <2>2
    <3>2. kept \cap (1..n) = kept \cap (1..(n - 1))
      <4> HIDE DEF kept
      <4> QED BY <1>3, <2>2
    <3> HIDE DEF kept
    <3> QED BY <1>8, <2>1, <3>1, <3>2
  <2>3. CASE n \in kept
    <3>1. f[n] = Append(f[n - 1], one(n)) /\ one(n) \in Kept
      <4> HIDE DEF one, m, kept
      <4> QED BY <1>2, <1>3, <2>3
    <3>2. f[n] # <<>>
      <4> HIDE DEF one
      <4> QED BY <2>1, <3>1, AppendProperties
    <3> QED BY <2>1, <3>2
  <2> QED BY <2>2, <2>3
<1>9. 0 \in Q
  BY <1>3
<1>10. kept # {} => f[m] # <<>>
  <2>1. kept \cap (1..m) = kept /\ m \in 0..m
    BY <1>3 DEF FirstThatHold
  <2> HIDE DEF Q
  <2>2. \A n \in 0..m : n \in Q
    BY <1>3, <1>8, <1>9, ClosedIsAll, Zenon
  <2> QED BY <2>1, <2>2 DEF Q
<1>11. (\E k \in 1..Len(cites) : Holds(cites[k], first)) => kept # {}
  <2> SUFFICES ASSUME NEW h \in 1..Len(cites), Holds(cites[h], first) PROVE kept # {}
    OBVIOUS
  <2> DEFINE H == {k \in 1..Len(cites) : Holds(cites[k], first)}
  <2>1. H \in SUBSET Nat /\ H # {}
    BY <1>3
  <2>2. PICK k \in H : \A j \in H : k <= j
    <3> HIDE DEF H
    <3> QED BY <2>1, SmallestExists
  <2>3. \A j \in 1..(k - 1) : ~Holds(cites[j], first)
    BY <1>3, <2>2
  <2> QED BY <2>2, <2>3 DEF FirstThatHold
<1>12. Quoted(f[m])
  <2> SUFFICES ASSUME NEW i \in 1..Len(f[m])
               PROVE  /\ <<f[m][i].quote, f[m][i].chunk>> \in Supported
                      /\ \A j \in 1..(i - 1) : f[m][j].chunk # f[m][i].chunk
    BY DEF Quoted
  <2>1. PICK k \in 1..m : /\ k \in kept /\ f[m][i] = one(k)
                          /\ \A j \in 1..(i - 1) : f[m][j].chunk # f[m][i].chunk
    BY <1>7
  <2>2. Holds(cites[k], first)
    BY <2>1 DEF FirstThatHold
  <2>3. <<cites[k].quote, first + cites[k].source>> \in Supported
    BY <2>2 DEF Holds
  <2> HIDE DEF kept, m
  <2> QED BY <2>1, <2>3
<1>13. f[m] \in S
  BY <1>2, <1>3
<1> HIDE DEF kept
<1> QED BY <1>2, <1>10, <1>11, <1>12, <1>13

-----------------------------------------------------------------------------
(* The items of one requirement after the other.                           *)

Keys == {KeyOf[t] : t \in DOMAIN KeyOf}
Collection == [items : Seq([text : DOMAIN KeyOf, citations : Seq(Kept)]), seen : SUBSET Keys, dropped : Nat]

(* The items have their quotes and a key each, the keys seen are theirs.   *)
Collected(f) ==
  /\ f \in Collection
  /\ \A k \in 1..Len(f.items) : f.items[k].citations # <<>> /\ Quoted(f.items[k].citations)
  /\ f.seen = {KeyOf[f.items[k].text] : k \in 1..Len(f.items)}
  /\ \A j, k \in 1..Len(f.items) : KeyOf[f.items[j].text] = KeyOf[f.items[k].text] => j = k

(* A requirement with evidence has its item.                               *)
HasItem(r, first, f) ==
  (KeyOf[r.text] # Blank /\ \E k \in 1..Len(r.citations) : Holds(r.citations[k], first)) =>
    KeyOf[r.text] \in f.seen

(* One requirement more: an item of its own, or that of its key.           *)
LEMMA AcceptCollects ==
  ASSUME NEW f, Collected(f), NEW r \in Requirement, NEW first \in Int
  PROVE  /\ Collected(Accept(f, r, first))
         /\ f.seen \subseteq Accept(f, r, first).seen
         /\ HasItem(r, first, Accept(f, r, first))
<1> DEFINE key == KeyOf[r.text]
           v == VerifiedCitations(r, first)
           item == [text |-> r.text, citations |-> v]
           g == Accept(f, r, first)
<1> SUFFICES Collected(g) /\ f.seen \subseteq g.seen /\ HasItem(r, first, g)
  OBVIOUS
<1>1. /\ f \in Collection /\ f.items \in Seq([text : DOMAIN KeyOf, citations : Seq(Kept)])
      /\ f.seen \subseteq Keys /\ f.dropped \in Nat
  BY DEF Collected, Collection
<1>2. r.text \in DOMAIN KeyOf /\ key \in Keys
  BY DEF Requirement, Keys
<1>3. /\ v \in Seq(Kept) /\ Quoted(v)
      /\ (\E k \in 1..Len(r.citations) : Holds(r.citations[k], first)) => v # <<>>
  BY CitationsAreQuoted
<1>4. CASE g = f /\ (key = Blank \/ key \in f.seen \/ v = <<>>)
  <2> HIDE DEF v, g, key
  <2> QED BY <1>3, <1>4 DEF HasItem, key
<1>5. CASE g = Drop(f) /\ (key = Blank \/ v = <<>>)
  <2>1. /\ Drop(f) \in Collection /\ Drop(f).items = f.items /\ Drop(f).seen = f.seen
    <3>1. Drop(f) = [items |-> f.items, seen |-> f.seen, dropped |-> f.dropped + 1]
      BY <1>1 DEF Drop, Collection
    <3> QED BY <1>1, <3>1 DEF Collection
  <2>2. Collected(Drop(f))
    <3> HIDE DEF v, g, key
    <3> QED BY <2>1 DEF Collected
  <2>3. HasItem(r, first, Drop(f))
    BY <1>3, <1>5 DEF HasItem
  <2> HIDE DEF v, g, key
  <2> QED BY <1>5, <2>1, <2>2, <2>3
<1>6. CASE /\ key # Blank /\ key \notin f.seen /\ v # <<>>
           /\ g = [f EXCEPT !.items = Append(@, item), !.seen = @ \cup {key}]
  <2> DEFINE I == [text : DOMAIN KeyOf, citations : Seq(Kept)]
             old == f.items
             new == Append(old, item)
             n == Len(old)
  <2>1. item \in I
    <3> HIDE DEF v
    <3> QED BY <1>2, <1>3
  <2>2. /\ new \in Seq(I) /\ n \in Nat /\ Len(new) = n + 1 /\ new[n + 1] = item
        /\ \A k \in 1..n : new[k] = old[k]
    <3> HIDE DEF I, item, old
    <3>1. old \in Seq(I)
      BY <1>1 DEF I, old
    <3> QED BY <2>1, <3>1, AppendProperties, LenProperties
  <2>3. g.items = new /\ g.seen = f.seen \cup {key} /\ g.dropped = f.dropped /\ g \in Collection
    <3> HIDE DEF item, key, g, I
    <3>1. g = [f EXCEPT !.items = Append(@, item), !.seen = @ \cup {key}]
      BY <1>6
    <3>2. g = [items |-> new, seen |-> f.seen \cup {key}, dropped |-> f.dropped]
      BY <1>1, <3>1 DEF Collection
    <3> HIDE DEF new
    <3> QED BY <1>1, <1>2, <2>2, <3>2 DEF Collection, I
  <2>4. /\ \A k \in 1..n : old[k].citations # <<>> /\ Quoted(old[k].citations)
        /\ f.seen = {KeyOf[old[k].text] : k \in 1..n}
        /\ \A j, k \in 1..n : KeyOf[old[j].text] = KeyOf[old[k].text] => j = k
    BY DEF Collected
  <2>5. item.text = r.text /\ item.citations = v
    OBVIOUS
  <2>6. \A k \in 1..Len(new) : k \in 1..n \/ k = n + 1
    <3> HIDE DEF new, n
    <3> QED BY <2>2
  <2>7. \A k \in 1..Len(new) : new[k].citations # <<>> /\ Quoted(new[k].citations)
    <3> HIDE DEF new, n, old, item, v
    <3> QED BY <1>3, <1>6, <2>2, <2>4, <2>5, <2>6
  <2>8. KeyOf[new[n + 1].text] = key /\ \A k \in 1..n : KeyOf[new[k].text] = KeyOf[old[k].text]
    <3> HIDE DEF new, n, old, item
    <3> QED BY <2>2, <2>5
  <2>9. g.seen = {KeyOf[new[k].text] : k \in 1..Len(new)}
    <3>1. 1..Len(new) = (1..n) \cup {n + 1}
      <4> HIDE DEF new, n
      <4> QED BY <2>2
    <3> HIDE DEF new, n, old, item, key, g
    <3> QED BY <2>3, <2>4, <2>8, <3>1
  <2>10. \A k \in 1..n : KeyOf[old[k].text] # key
    <3> HIDE DEF new, n, old, item, key, g
    <3> QED BY <1>6, <2>4
  <2>11. \A j, k \in 1..Len(new) : KeyOf[new[j].text] = KeyOf[new[k].text] => j = k
    <3> HIDE DEF new, n, old, item, key, g
    <3> QED BY <2>4, <2>6, <2>8, <2>10
  <2>12. Collected(g)
    <3> HIDE DEF new, g, n, old, item, key, v, I
    <3>1. g \in Collection /\ g.items = new
      BY <2>3
    <3>2. \A k \in 1..Len(g.items) : g.items[k].citations # <<>> /\ Quoted(g.items[k].citations)
      BY <2>7, <3>1, Zenon
    <3>3. g.seen = {KeyOf[g.items[k].text] : k \in 1..Len(g.items)}
      BY <2>9, <3>1, Zenon
    <3>4. \A j, k \in 1..Len(g.items) : KeyOf[g.items[j].text] = KeyOf[g.items[k].text] => j = k
      BY <2>11, <3>1, Zenon
    <3> QED BY <3>1, <3>2, <3>3, <3>4, Zenon DEF Collected
  <2> HIDE DEF g, v
  <2> QED BY <2>3, <2>12 DEF HasItem
<1>7. \/ g = f /\ (key = Blank \/ key \in f.seen \/ v = <<>>)
      \/ g = Drop(f) /\ (key = Blank \/ v = <<>>)
      \/ /\ key # Blank /\ key \notin f.seen /\ v # <<>>
         /\ g = [f EXCEPT !.items = Append(@, item), !.seen = @ \cup {key}]
  BY DEF Accept, Item
<1> HIDE DEF g, v, key, item
<1> QED BY <1>4, <1>5, <1>6, <1>7

(* f[k] is what the first k requirements of a reply have made of it.       *)
BatchSoFar(f, e, proposal, first) ==
  /\ f[0] = e /\ f[Len(proposal)] = verify_batch(e, proposal, first)
  /\ \A k \in 0..Len(proposal) : Collected(f[k])
  /\ \A k \in 1..Len(proposal) : f[k] = Accept(f[k - 1], proposal[k], first)

(* A reply is taken requirement by requirement.                            *)
LEMMA BatchSoFarExists ==
  ASSUME NEW e, Collected(e), NEW proposal \in Seq(Requirement), NEW first \in Int
  PROVE  \E f : BatchSoFar(f, e, proposal, first)
<1> DEFINE m == Len(proposal)
           S == {c \in Collection : Collected(c)}
           More(k, s) == Accept(s, proposal[k], first)
           Is(f) == f = [k \in 0..Len(proposal) |->
                           IF k = 0 THEN e ELSE Accept(f[k - 1], proposal[k], first)]
           step == [k \in 1..m |-> [s \in S |-> More(k, s)]]
           g == CHOOSE f : Is(f)
<1>1. m \in Nat /\ e \in S
  BY LenProperties DEF Collected
<1>2. ASSUME NEW k \in 1..m, NEW s \in S PROVE More(k, s) \in S
  <2>1. proposal[k] \in Requirement /\ Collected(s)
    BY ElementOfSeq
  <2>2. Collected(More(k, s))
    BY <2>1, AcceptCollects
  <2> HIDE DEF More
  <2> QED BY <2>2 DEF Collected
<1>3. step \in [1..m -> [S -> S]]
  <2> HIDE DEF S, m, More
  <2> QED BY <1>2
<1>4. PICK f : IsFold(f, e, step, m, S)
  <2> HIDE DEF S, m, step
  <2> QED BY <1>1, <1>3, FoldExists
<1>5. f \in [0..m -> S] /\ f[0] = e /\ \A k \in 1..m : f[k] = More(k, f[k - 1])
  <2>1. f \in [0..m -> S] /\ f[0] = e /\ \A k \in 1..m : f[k] = step[k][f[k - 1]]
    BY <1>4 DEF IsFold
  <2>2. ASSUME NEW k \in 1..m PROVE f[k] = More(k, f[k - 1])
    <3>1. k - 1 \in 0..m
      BY <1>1
    <3>2. f[k - 1] \in S
      <4> HIDE DEF S, m
      <4> QED BY <2>1, <3>1
    <3> HIDE DEF S, m, More
    <3> QED BY <2>1, <3>2
  <2> HIDE DEF S, More
  <2> QED BY <2>1, <2>2
<1>6. Is(f)
  <2>1. ASSUME NEW k \in 0..m
        PROVE  f[k] = IF k = 0 THEN e ELSE More(k, f[k - 1])
    <3>1. k = 0 \/ k \in 1..m
      BY <1>1
    <3> HIDE DEF More, m, S
    <3>2. CASE k = 0
      BY <1>5, <3>2
    <3>3. CASE k # 0
      BY <1>5, <3>1, <3>3
    <3> QED BY <3>2, <3>3
  <2>2. f = [k \in 0..m |-> IF k = 0 THEN e ELSE More(k, f[k - 1])]
    <3> HIDE DEF S, More, m
    <3> QED BY <1>5, <2>1
  <2> QED BY <2>2
<1>7. Is(g)
  <2> HIDE DEF Is
  <2> QED BY <1>6, Zenon DEF g
<1>8. verify_batch(e, proposal, first) = g[Len(proposal)]
  BY Zenon DEF verify_batch
<1>9. \A k \in 0..m : g[k] = IF k = 0 THEN e ELSE More(k, g[k - 1])
  <2> HIDE DEF g
  <2> QED BY <1>7
<1> DEFINE P == {k \in 0..m : g[k] = f[k]}
<1> HIDE DEF g, step, Is, More, S, m
<1>10. 0 \in P /\ \A k \in 1..m : k - 1 \in P => k \in P
  BY <1>1, <1>5, <1>9
<1> HIDE DEF P
<1>11. \A k \in 0..m : k \in P
  BY <1>1, <1>10, ClosedIsAll, Zenon
<1>12. f[m] = verify_batch(e, proposal, first)
  BY <1>1, <1>8, <1>11 DEF P, m
<1>13. \A k \in 0..m : Collected(f[k])
  BY <1>5 DEF S
<1> QED BY <1>5, <1>12, <1>13 DEF BatchSoFar, More, m

(* A reply adds items and leaves none of its requirements out.             *)
LEMMA BatchCollects ==
  ASSUME NEW e, Collected(e), NEW proposal \in Seq(Requirement), NEW first \in Int
  PROVE  /\ Collected(verify_batch(e, proposal, first))
         /\ e.seen \subseteq verify_batch(e, proposal, first).seen
         /\ \A k \in 1..Len(proposal) :
              HasItem(proposal[k], first, verify_batch(e, proposal, first))
<1> DEFINE m == Len(proposal)
<1>1. PICK f : BatchSoFar(f, e, proposal, first)
  BY BatchSoFarExists
<1>2. /\ m \in Nat /\ f[0] = e /\ f[m] = verify_batch(e, proposal, first)
      /\ \A k \in 0..m : Collected(f[k])
      /\ \A k \in 1..m : f[k] = Accept(f[k - 1], proposal[k], first)
  BY <1>1, LenProperties DEF BatchSoFar
<1> DEFINE P == {n \in 0..m : /\ e.seen \subseteq f[n].seen
                              /\ \A k \in 1..n : HasItem(proposal[k], first, f[n])}
<1>3. 0 \in P
  BY <1>2
<1>4. ASSUME NEW n \in 1..m, n - 1 \in P PROVE n \in P
  <2>1. n - 1 \in 0..m /\ n \in 0..m /\ proposal[n] \in Requirement
    BY <1>2, ElementOfSeq
  <2>2. Collected(f[n - 1]) /\ f[n] = Accept(f[n - 1], proposal[n], first)
    BY <1>2, <2>1
  <2>3. f[n - 1].seen \subseteq f[n].seen /\ HasItem(proposal[n], first, f[n])
    BY <2>1, <2>2, AcceptCollects
  <2>4. \A k \in 1..n : k \in 1..(n - 1) \/ k = n
    BY <1>2
  <2>5. /\ e.seen \subseteq f[n - 1].seen
        /\ \A k \in 1..(n - 1) : HasItem(proposal[k], first, f[n - 1])
    BY <1>4
  <2>6. \A k \in 1..(n - 1) : HasItem(proposal[k], first, f[n])
    BY <2>3, <2>5 DEF HasItem
  <2> QED BY <2>1, <2>3, <2>4, <2>5, <2>6
<1>5. m \in P
  <2> HIDE DEF P
  <2>1. \A n \in 0..m : n \in P
    BY <1>2, <1>3, <1>4, ClosedIsAll, Zenon
  <2> QED BY <1>2, <2>1
<1> HIDE DEF m
<1>6. m \in 0..m
  BY <1>2
<1> QED BY <1>2, <1>5, <1>6 DEF m

-----------------------------------------------------------------------------
(* The invariant of the extraction.                                        *)

(* What was found has its quotes, no requirement with evidence is missing. *)
ExtractionInv ==
  /\ start \in 0..Length /\ Collected(found)
  /\ proposed \in Seq([requirement : Requirement, first : Int])
  /\ \A k \in 1..Len(proposed) : HasItem(proposed[k].requirement, proposed[k].first, found)

(* It holds when nothing was found,                                        *)
LEMMA ExtractionStarts == ExtractionInit => ExtractionInv
<1> SUFFICES ASSUME ExtractionInit PROVE ExtractionInv
  OBVIOUS
<1>1. start = 0 /\ found = NothingFound /\ proposed = <<>> /\ Length \in Nat /\ Len(<<>>) = 0
  BY ExtractionAssumption, EmptySeq DEF ExtractionInit
<1>2. NothingFound.items = <<>> /\ NothingFound.seen = {} /\ NothingFound \in Collection
  BY EmptySeq DEF NothingFound, Collection
<1>3. Collected(NothingFound)
  BY <1>1, <1>2 DEF Collected
<1>4. proposed \in Seq([requirement : Requirement, first : Int])
  BY <1>1, EmptySeq
<1> QED BY <1>1, <1>3, <1>4 DEF ExtractionInv

(* no batch ends behind the document,                                      *)
LEMMA BatchEndIsWithin ==
  ASSUME start \in 0..Length
  PROVE  BatchEnd(start) \in 0..Length
BY ExtractionAssumption DEF BatchEnd

(* no reply, whatever it proposes, disturbs it,                            *)
LEMMA ReadReplyKeeps ==
  ASSUME ExtractionInv, NEW proposal \in Proposals, ReadReply(proposal)
  PROVE  ExtractionInv'
<1> DEFINE R == [requirement : Requirement, first : Int]
           n == Len(proposed)
           m == Len(proposal)
           more == [k \in 1..m |-> [requirement |-> proposal[k], first |-> start]]
<1>1. /\ start \in 0..Length /\ Collected(found) /\ proposed \in Seq(R) /\ start \in Int
      /\ \A k \in 1..n : HasItem(proposed[k].requirement, proposed[k].first, found)
  BY ExtractionAssumption DEF ExtractionInv
<1>2. proposal \in Seq(Requirement) /\ m \in Nat /\ \A k \in 1..m : proposal[k] \in Requirement
  <2>1. proposal \in Seq(Requirement)
    BY ExtractionAssumption DEF Requirement, Proposed
  <2> QED BY <2>1, LenProperties, ElementOfSeq
<1>3. /\ found' = verify_batch(found, proposal, start) /\ proposed' = proposed \o more
      /\ start' = BatchEnd(start)
  BY DEF ReadReply
<1>4. /\ Collected(found') /\ found.seen \subseteq found'.seen
      /\ \A k \in 1..m : HasItem(proposal[k], start, found')
  BY <1>1, <1>2, <1>3, BatchCollects
<1>5. more \in Seq(R) /\ Len(more) = m
  <2>1. more \in [1..m -> R]
    BY <1>1, <1>2
  <2> QED BY <1>2, <2>1, IsASeq, LenProperties
<1>6. /\ proposed' \in Seq(R) /\ Len(proposed') = n + m /\ n \in Nat
      /\ \A k \in 1..(n + m) : proposed'[k] = IF k <= n THEN proposed[k] ELSE more[k - n]
  <2> HIDE DEF R, more, m
  <2> QED BY <1>1, <1>3, <1>5, ConcatProperties, LenProperties
<1>7. ASSUME NEW k \in 1..(n + m)
      PROVE  HasItem(proposed'[k].requirement, proposed'[k].first, found')
  <2>1. CASE k <= n
    <3>1. k \in 1..n /\ proposed'[k] = proposed[k]
      <4> HIDE DEF n, m, more, R
      <4> QED BY <1>2, <1>6, <2>1
    <3>2. HasItem(proposed[k].requirement, proposed[k].first, found)
      BY <1>1, <3>1
    <3>3. HasItem(proposed[k].requirement, proposed[k].first, found')
      BY <1>4, <3>2 DEF HasItem
    <3> QED BY <3>1, <3>3
  <2>2. CASE ~(k <= n)
    <3>1. k - n \in 1..m /\ proposed'[k] = more[k - n]
      BY <1>2, <1>6, <2>2
    <3>2. more[k - n].requirement = proposal[k - n] /\ more[k - n].first = start
      BY <3>1
    <3>3. HasItem(proposal[k - n], start, found')
      BY <1>4, <3>1
    <3> HIDE DEF more, n
    <3> QED BY <3>1, <3>2, <3>3
  <2> QED BY <2>1, <2>2
<1>8. start' \in 0..Length
  BY <1>1, <1>3, BatchEndIsWithin
<1> HIDE DEF n, m, more
<1> QED BY <1>4, <1>6, <1>7, <1>8 DEF ExtractionInv

(* and nothing else does.                                                  *)
LEMMA ExtractionKeeps == ExtractionInv /\ [ExtractionNext]_extraction_vars => ExtractionInv'
<1> SUFFICES ASSUME ExtractionInv, [ExtractionNext]_extraction_vars PROVE ExtractionInv'
  OBVIOUS
<1>1. ASSUME NEW proposal \in Proposals, ReadReply(proposal) PROVE ExtractionInv'
  BY <1>1, ReadReplyKeeps
<1>2. CASE PassOverReply
  <2>1. start' \in 0..Length /\ UNCHANGED <<found, proposed>>
    BY <1>2, BatchEndIsWithin DEF PassOverReply, ExtractionInv
  <2> QED BY <2>1 DEF ExtractionInv
<1>3. CASE FailReply
  BY <1>3 DEF FailReply, ExtractionInv
<1>4. CASE Save
  BY <1>4 DEF Save, ExtractionInv
<1>5. CASE UNCHANGED extraction_vars
  BY <1>5 DEF extraction_vars, ExtractionInv
<1> QED BY <1>1, <1>2, <1>3, <1>4, <1>5 DEF ExtractionNext

(* For any document, batch size and replies of the model.                  *)
THEOREM ExtractionInvariant == ExtractionSpec => []ExtractionInv
<1> QED BY ExtractionStarts, ExtractionKeeps, PTL DEF ExtractionSpec

(* services/evidence.py:151: every item found, whatever the model cites,   *)
(* rests on quotes that stand in the chunks they point to.                 *)
THEOREM ItemsHaveQuotes == ExtractionSpec => []ItemsAreQuoted
<1>1. ExtractionInv => ItemsAreQuoted
  BY DEF ExtractionInv, Collected, ItemsAreQuoted, Items, Quoted
<1> QED BY <1>1, ExtractionInvariant, PTL

(* services/evidence.py:346: the items are replaced by those of the whole  *)
(* document, one for each requirement that had evidence in any batch.      *)
THEOREM EachIsSavedOnce == ExtractionSpec => SavesEachOnce
<1> DEFINE A == saved' # saved =>
       /\ start = Length
       /\ \A p \in {proposed[k] : k \in 1..Len(proposed)} :
            (Key(p) # Blank /\ Verified(p)) =>
              Cardinality({k \in 1..Len(saved') : KeyOf[saved'[k].text] = Key(p)}) = 1
<1>1. ASSUME ExtractionInv, [ExtractionNext]_extraction_vars PROVE A
  <2> SUFFICES ASSUME saved' # saved
               PROVE  /\ start = Length
                      /\ \A p \in {proposed[k] : k \in 1..Len(proposed)} :
                           (Key(p) # Blank /\ Verified(p)) =>
                             Cardinality({k \in 1..Len(saved') : KeyOf[saved'[k].text] = Key(p)}) = 1
    OBVIOUS
  <2>1. Save
    BY <1>1 DEF ExtractionNext, ReadReply, PassOverReply, FailReply, extraction_vars
  <2>2. start = Length /\ saved' = found.items
    BY <2>1 DEF Save
  <2>3. ASSUME NEW h \in 1..Len(proposed), Key(proposed[h]) # Blank, Verified(proposed[h])
        PROVE  Cardinality({k \in 1..Len(saved') : KeyOf[saved'[k].text] = Key(proposed[h])}) = 1
    <3> DEFINE key == Key(proposed[h])
    <3>1. HasItem(proposed[h].requirement, proposed[h].first, found)
      BY <1>1 DEF ExtractionInv
    <3>2. key \in found.seen
      BY <2>3, <3>1 DEF HasItem, Key, Verified
    <3>3. PICK j \in 1..Len(found.items) : KeyOf[found.items[j].text] = key
      BY <1>1, <3>2 DEF ExtractionInv, Collected
    <3>4. \A k \in 1..Len(found.items) : KeyOf[found.items[k].text] = key => k = j
      BY <1>1, <3>3 DEF ExtractionInv, Collected
    <3>5. {k \in 1..Len(found.items) : KeyOf[found.items[k].text] = key} = {j}
      <4> HIDE DEF key
      <4> QED BY <3>3, <3>4
    <3> QED BY <2>2, <3>5, FS_Singleton
  <2> QED BY <2>2, <2>3
<1> QED BY <1>1, ExtractionInvariant, PTL DEF ExtractionSpec, SavesEachOnce

=============================================================================
