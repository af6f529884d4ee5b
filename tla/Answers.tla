-------------------------------- MODULE Answers --------------------------------
(***************************************************************************)
(* One question from the chat panel to its verified answer: the limiter at *)
(* the door, the retrieval of sources, the completion that arrives in      *)
(* deltas, the events sent to the browser (or the one response of /ask),   *)
(* and the panel that shows them.  The panel asks one question at a time.  *)
(*                                                                         *)
(* PostgreSQL, Qdrant, the reranker, the language model and the connection *)
(* are external: they answer anything, fail or break at any step.  When    *)
(* the client is gone nobody sees what its request does any more, so the   *)
(* server forgets it at once.                                              *)
(***************************************************************************)
EXTENDS RateLimiter, Retrieval, Verification

CONSTANTS
  Documents,     (* documents the chunks belong to                          *)
  Rankings,      (* what a retrieval leg may return                         *)
  Replies,       (* what a reranker may reply                               *)
  Candidates,    (* RERANK_CANDIDATES                                       *)
  Symbols,       (* what completions are written with                       *)
  Completions,   (* all the model may write; it may stop anywhere           *)
  Blocks         (* well-formed claims blocks                               *)

ASSUME AnswersAssumption ==
  /\ \A c \in Chunks : DocumentOf[c] \in Documents
  /\ \A b \in Blocks :
       b.parsed /\ b.claims \in Seq(Seq([source : Int, supported : BOOLEAN]))
  /\ Sentinel \in Seq(Symbols) /\ Completions \subseteq Seq(Symbols)
  /\ Rankings \subseteq {leg \in Seq(Chunks) : IsInjective(leg)} /\ Replies \subseteq Seq(Int)
  /\ Candidates \in Nat \ {0}

VARIABLES
  api_key,       (* whether OPENAI_API_KEY is configured                    *)
  hits,          (* the limiter's deque for this client                     *)
  admitted,      (* history: ages of the requests admitted within a window  *)
  exchange,      (* the exchange the panel shows                            *)
  connected,     (* whether the client still listens                        *)
  wire,          (* events sent and not yet received                        *)
  at,            (* where the server is with the request                    *)
  keyword, semantic,   (* the two legs                                      *)
  candidates,    (* candidates that passed the gate                         *)
  sources,       (* the retrieved sources, as numbered in the prompt        *)
  raw,           (* the completion so far                                   *)
  emitted,       (* how much of it went out as tokens                       *)
  answer_done,   (* whether the sentinel was seen                           *)
  block          (* history: the claims block that was verified             *)

limiter == <<hits, admitted>>
client == <<exchange, connected>>
search == <<keyword, semantic, candidates, sources>>
completion == <<raw, emitted, answer_done, block>>
vars == <<api_key, limiter, client, wire, at, search, completion>>

NoExchange ==
  [mode |-> "chat", status |-> "none", draft |-> <<>>, sources |-> <<>>,
   result |-> Withheld("not_found", NoCitations), code |-> "none"]

Forgotten ==
  /\ at' = "idle" /\ wire' = <<>> /\ connected' = FALSE
  /\ keyword' = <<>> /\ semantic' = <<>> /\ candidates' = <<>>
  /\ emitted' = 0 /\ answer_done' = FALSE

ForgetAnswer == sources' = <<>> /\ raw' = <<>> /\ block' = None

Init ==
  /\ api_key \in BOOLEAN
  /\ hits = <<>> /\ admitted = <<>>
  /\ exchange = NoExchange /\ connected = FALSE /\ wire = <<>> /\ at = "idle"
  /\ keyword = <<>> /\ semantic = <<>> /\ candidates = <<>> /\ sources = <<>>
  /\ raw = <<>> /\ emitted = 0 /\ answer_done = FALSE /\ block = None

-----------------------------------------------------------------------------
(* Asking, and the limiter.                                                *)

Streaming == exchange.status = "streaming"

(* The panel's submit, or a call of /ask.                                  *)
Submit(mode) ==
  /\ ~Streaming
  /\ exchange' = [NoExchange EXCEPT !.mode = mode, !.status = "streaming"]
  /\ connected' = TRUE /\ at' = "sent"
  /\ ForgetAnswer
  /\ UNCHANGED <<api_key, limiter, wire, keyword, semantic, candidates, emitted, answer_done>>

(* The hit is recorded, or the request is not counted.                     *)
Count ==
  /\ hits' = check(hits)
  /\ admitted' = IF Refuses(hits) THEN admitted ELSE Append(Live(admitted), 0)

Tick ==
  /\ hits' = Aged(hits, 1) /\ admitted' = Live(Aged(admitted, 1))
  /\ UNCHANGED <<api_key, client, wire, at, search, completion>>

(* Another window of the same client asks.                                 *)
AskElsewhere ==
  /\ Count
  /\ UNCHANGED <<api_key, client, wire, at, search, completion>>

Admit ==
  /\ at = "sent" /\ ~Refuses(hits)
  /\ Count /\ at' = "requested"
  /\ UNCHANGED <<api_key, client, wire, search, completion>>

(* An HTTP error: EventSource shows no more of it than a lost connection.  *)
HttpError(code) ==
  /\ at' = "ended"
  /\ wire' = IF exchange.mode = "ask" THEN Append(wire, [event |-> "error", code |-> code])
             ELSE wire

Refuse ==
  /\ at = "sent" /\ Refuses(hits)
  /\ Count /\ HttpError("rate_limited")
  /\ UNCHANGED <<api_key, client, search, completion>>

-----------------------------------------------------------------------------
(* Retrieval.                                                              *)

(* A structured error is the last event.                                   *)
Fail(code) ==
  /\ at' = "ended" /\ wire' = Append(wire, [event |-> "error", code |-> code])
  /\ UNCHANGED <<api_key, limiter, client, search, completion>>

GenerationDisabled ==
  /\ at = "requested" /\ ~api_key /\ Fail("generation_disabled")

WorkspaceNotFound ==
  /\ at = "requested" /\ api_key /\ Fail("not_found")

(* The access check refuses, or the retrieval raises anything else: the    *)
(* response ends.                                                          *)
Abort ==
  /\ at \in {"requested", "keywords", "vectors", "hydrated", "reranking"}
  /\ HttpError("internal_error")
  /\ UNCHANGED <<api_key, limiter, client, search, completion>>

SearchKeywords ==
  /\ at = "requested" /\ api_key
  /\ at' = "keywords" /\ keyword' \in Rankings
  /\ UNCHANGED <<api_key, limiter, client, wire, semantic, candidates, sources, completion>>

(* <<>> also when embeddings or Qdrant are not available.                  *)
SearchVectors ==
  /\ at = "keywords"
  /\ at' = "vectors" /\ semantic' \in Rankings
  /\ UNCHANGED <<api_key, limiter, client, wire, keyword, candidates, sources, completion>>

PoolSize(reranker) == IF reranker /\ Candidates > TopK THEN Candidates ELSE TopK

(* A reranker, when there is one, gets more than the request asked for.    *)
FetchCandidates ==
  /\ at = "vectors"
  /\ \E reranker \in BOOLEAN, ready \in SUBSET Documents :
       /\ at' = IF reranker THEN "reranking" ELSE "hydrated"
       /\ candidates' = candidate_ids(ranked_ids(keyword, semantic), PoolSize(reranker), ready)
  /\ UNCHANGED <<api_key, limiter, client, wire, keyword, semantic, sources, completion>>

SourcesEvent(s) ==
  IF exchange.mode = "chat" THEN Append(wire, [event |-> "sources", sources |-> s]) ELSE wire

Fetched == at \in {"hydrated", "reranking"}

AnswerNothing ==
  /\ Fetched /\ candidates = <<>>
  /\ at' = "ended"
  /\ wire' = Append(SourcesEvent(<<>>),
                    [event |-> "final", result |-> Withheld("not_found", NoCitations)])
  /\ UNCHANGED <<api_key, limiter, client, search, completion>>

(* In RRF order when there is no reranker or it fails.                     *)
RankSources ==
  /\ Fetched /\ candidates # <<>>
  /\ at' = "generating"
  /\ \/ sources' = First(TopK, candidates)
     \/ at = "reranking" /\ sources' \in {Reranked(candidates, reply) : reply \in Replies}
  /\ keyword' = <<>> /\ semantic' = <<>> /\ candidates' = <<>>
  /\ wire' = SourcesEvent(sources')
  /\ UNCHANGED <<api_key, limiter, client, completion>>

-----------------------------------------------------------------------------
(* Generation.                                                             *)

(* Fault: a tail one symbol short is held back.                            *)
VisibleEarly(text, sent) ==
  IF HasSentinel(text) THEN FirstSentinel(text) - 1
  ELSE IF sent >= Len(text) - (Len(Sentinel) - 2) THEN sent
  ELSE Len(text) - (Len(Sentinel) - 2)

(* visible_end: the answer, or all but a tail that may begin the sentinel. *)
Visible(text, sent) ==
  IF HasSentinel(text) THEN FirstSentinel(text) - 1
  ELSE IF sent >= Len(text) - (Len(Sentinel) - 1) THEN sent
  ELSE Len(text) - (Len(Sentinel) - 1)

(* The completions raw may still become, one or more symbols on.           *)
Deltas(text) ==
  UNION {{SubSeq(c, Len(text) + 1, n) : n \in (Len(text) + 1)..Len(c)} :
           c \in {d \in Completions : Len(d) >= Len(text) /\ SubSeq(d, 1, Len(text)) = text}}

ReadDelta(delta) ==
  LET text == raw \o delta
      end == IF answer_done THEN emitted ELSE Visible(text, emitted)
      new == end > emitted
  IN /\ at = "generating"
     /\ raw' = text
     /\ answer_done' = (answer_done \/ HasSentinel(text))
     /\ IF exchange.mode = "chat" /\ new
        THEN /\ emitted' = end
             /\ wire' = Append(wire, [event |-> "token", text |-> SubSeq(text, emitted + 1, end)])
        ELSE UNCHANGED <<emitted, wire>>
     /\ UNCHANGED <<api_key, limiter, client, at, search, block>>

GenerationFails ==
  /\ at = "generating" /\ Fail("generation_failed")

(* _finalize, and the answer with no supported claim withheld.             *)
Finalize(b) ==
  LET result == verify_answer(AnswerPart(raw), b, Len(sources))
  IN /\ at = "generating" /\ b.parsed = WellFormed(raw)
     /\ at' = "ended" /\ block' = b
     /\ wire' = Append(wire, IF result.status = "unsupported"
                             THEN [event |-> "error", code |-> "not_found"]
                             ELSE [event |-> "final", result |-> result])
     /\ UNCHANGED <<api_key, limiter, client, search, raw, emitted, answer_done>>

-----------------------------------------------------------------------------
(* The client.                                                             *)

Arrived(name) == connected /\ wire # <<>> /\ wire[1].event = name

ReceiveSources ==
  /\ Arrived("sources")
  /\ exchange' = [exchange EXCEPT !.sources = wire[1].sources]
  /\ wire' = Tail(wire)
  /\ UNCHANGED <<api_key, limiter, connected, at, search, completion>>

(* Fault: the token is added to the draft of an old render.                *)
ReceiveTokenStale ==
  /\ Arrived("token")
  /\ exchange' = [exchange EXCEPT !.draft = wire[1].text]
  /\ wire' = Tail(wire)
  /\ UNCHANGED <<api_key, limiter, connected, at, search, completion>>

ReceiveToken ==
  /\ Arrived("token")
  /\ exchange' = [exchange EXCEPT !.draft = @ \o wire[1].text]
  /\ wire' = Tail(wire)
  /\ UNCHANGED <<api_key, limiter, connected, at, search, completion>>

(* Fault: the source stays open after the answer.                          *)
ReceiveFinalOpen ==
  /\ Arrived("final")
  /\ exchange' = [exchange EXCEPT !.status = "done", !.result = wire[1].result]
  /\ wire' = Tail(wire)
  /\ UNCHANGED <<api_key, limiter, connected, at, search, completion>>

(* The verified answer replaces the draft; the source is closed.           *)
ReceiveFinal ==
  /\ Arrived("final")
  /\ exchange' = [exchange EXCEPT !.status = "done", !.result = wire[1].result]
  /\ Forgotten
  /\ UNCHANGED <<api_key, limiter, sources, raw, block>>

Settle(code) ==
  /\ exchange' = [exchange EXCEPT !.status = "error", !.code = code]
  /\ Forgotten /\ ForgetAnswer
  /\ UNCHANGED <<api_key, limiter>>

ReceiveError ==
  /\ Arrived("error") /\ Settle(wire[1].code)

LoseConnection ==
  /\ connected /\ Settle("connection_lost")

(* Fault: only a structured error settles the exchange.                    *)
EndOfStreamIgnored ==
  /\ connected /\ wire = <<>> /\ at = "ended"
  /\ Forgotten /\ ForgetAnswer
  /\ UNCHANGED <<api_key, limiter, exchange>>

(* A response that ends without an answer looks like a lost connection.    *)
EndOfStream ==
  /\ connected /\ wire = <<>> /\ at = "ended" /\ Settle("connection_lost")

(* The panel unmounts.                                                     *)
Leave ==
  /\ connected
  /\ exchange' = NoExchange
  /\ Forgotten /\ ForgetAnswer
  /\ UNCHANGED <<api_key, limiter>>

-----------------------------------------------------------------------------
(* What the panel shows of its exchange.                                   *)

(* Markers of a citation are links to its card, others plain text.         *)
AnswerText(text, citations) ==
  [p \in 1..Len(text) |->
     IF IsMarker(text[p]) /\ IndexOf[text[p]] \in DOMAIN citations
     THEN [kind |-> "link", card |-> IndexOf[text[p]]]
     ELSE [kind |-> "text", symbol |-> text[p]]]

CitationCard(citation) == [quote |-> citation.quote, unverified |-> citation.status = "weak"]

VerifiedAnswer(result) ==
  [badge |-> result.status, text |-> AnswerText(result.answer, result.citations),
   cards |-> [i \in DOMAIN result.citations |-> CitationCard(result.citations[i])]]

ErrorTitle(code) ==
  CASE code = "generation_disabled" -> "Answer generation is disabled"
    [] code = "not_found" -> "No verified answer"
    [] OTHER -> "Could not answer"

ExchangeAnswer(e) ==
  CASE e.status = "error" -> [view |-> "error", title |-> ErrorTitle(e.code)]
    [] e.status = "streaming" -> [view |-> "draft", text |-> e.draft]
    [] e.status = "done" -> [view |-> "answer", answer |-> VerifiedAnswer(e.result)]
    [] OTHER -> [view |-> "nothing"]

-----------------------------------------------------------------------------
ServerStep ==
  \/ Admit \/ Refuse \/ GenerationDisabled \/ WorkspaceNotFound \/ Abort
  \/ SearchKeywords \/ SearchVectors \/ FetchCandidates \/ AnswerNothing \/ RankSources
  \/ \E delta \in Deltas(raw) : ReadDelta(delta)
  \/ GenerationFails
  \/ \E b \in Blocks \cup {None} : Finalize(b)

ClientStep == ReceiveSources \/ ReceiveToken \/ ReceiveFinal \/ ReceiveError \/ EndOfStream

Next ==
  \/ \E mode \in {"chat", "ask"} : Submit(mode)
  \/ Tick \/ AskElsewhere \/ ServerStep \/ ClientStep \/ LoseConnection \/ Leave

(* Every call the server waits for has a time-out, the model writes        *)
(* finitely much, and the browser delivers what has arrived.               *)
Fairness == WF_vars(ServerStep) /\ WF_vars(ClientStep)

Spec == Init /\ [][Next]_vars /\ Fairness

-----------------------------------------------------------------------------
(* Properties of the limiter.                                              *)

(* In no span of a window's length is one client admitted more often than  *)
(* the limit (ratelimit.py:1), in whatever rhythm its windows ask; and one *)
(* that is refused and waits Retry-After seconds is let in, if nobody else *)
(* used its budget meanwhile, but not a second earlier.                    *)
LimitIsHonest ==
  /\ Len(admitted) <= Limit
  /\ Refuses(hits) =>
       /\ ~Refuses(Aged(hits, Second * retry_after(hits)))
       /\ Refuses(Aged(hits, Second * (retry_after(hits) - 1)))

-----------------------------------------------------------------------------
(* Properties of the retrieval.                                            *)

Beats(leg, c, d) == Rank(leg, c) # 0 /\ (Rank(leg, d) = 0 \/ Rank(leg, c) < Rank(leg, d))
NoWorse(leg, c, d) == Rank(leg, c) = Rank(leg, d) \/ Beats(leg, c, d)

(* What one leg ranks higher and the other no lower comes first; and       *)
(* whatever a reranker replies, as many of the candidates are sources as   *)
(* there would be without it, each once.  A candidate it left out is a     *)
(* source only behind all that it named (retrieval.py:83), unless it names *)
(* more than there are: a repeated one uses up ranks.                      *)
RankingRespectsLegs ==
  Fetched =>
    /\ \A i, j \in 1..Len(candidates) : i < j =>
         LET c == candidates[i]
             d == candidates[j]
         IN ~(/\ NoWorse(keyword, d, c) /\ NoWorse(semantic, d, c)
              /\ (Beats(keyword, d, c) \/ Beats(semantic, d, c)))
    /\ \A reply \in Replies :
         LET ranked == Reranked(candidates, reply)
             n == Len(candidates)
             named == {candidates[p] : p \in ToSet(reply) \cap 1..n}
         IN /\ Len(ranked) = Len(First(TopK, candidates))
            /\ \A i, j \in 1..Len(ranked) : ranked[i] = ranked[j] => i = j
            /\ ToSet(ranked) \subseteq ToSet(candidates)
            /\ Len(InRange(reply, n)) <= n =>
                 \A i \in 1..Len(ranked) :
                   ranked[i] \notin named => named \subseteq {ranked[k] : k \in 1..(i - 1)}

-----------------------------------------------------------------------------
(* Properties of the answer.                                               *)

InFlight ==
  LET upto[k \in 0..Len(wire)] ==
        IF k = 0 THEN <<>>
        ELSE IF wire[k].event = "token" THEN upto[k - 1] \o wire[k].text ELSE upto[k - 1]
  IN upto[Len(wire)]

(* services/rag.py:129: however the model's text is cut into deltas, what  *)
(* went out as tokens ends before the sentinel, even before one that is    *)
(* complete only now: no symbol of it, nor of the claims, is ever shown.   *)
ClaimsNeverShown == \A p \in SentinelAt(raw) : emitted < p

(* The draft the panel shows, with the tokens on their way, is the model's *)
(* text up to there: none lost, none twice, none out of order.             *)
DraftIsPrefix ==
  Streaming => ExchangeAnswer(exchange).text \o InFlight = SubSeq(raw, 1, emitted)

Done == exchange.status = "done"
Result == exchange.result
Shown == VerifiedAnswer(Result)
Cites == Citations(block.claims)
MarkersOf(answer) == {IndexOf[answer[p]] : p \in {q \in 1..Len(answer) : IsMarker(answer[q])}}
Prose(answer) == Without(answer, DOMAIN IndexOf)

(* README.md:25: an answer that claims to have found something shows a     *)
(* validated quote, links every marker to a card of a source the reader    *)
(* was shown, leaves none as plain text, and its words are all the words   *)
(* of the draft.                                                           *)
AnswersAreSupported ==
  Done =>
    /\ \A p \in 1..Len(Shown.text) :
         Shown.text[p].kind = "text" => ~IsMarker(Shown.text[p].symbol)
    /\ DOMAIN Shown.cards \subseteq 1..Len(sources)
    /\ exchange.mode = "chat" => exchange.sources = sources
    /\ ~Result.not_found =>
         /\ \E i \in DOMAIN Shown.cards : ~Shown.cards[i].unverified
         /\ Prose(Result.answer) = Prose(AnswerPart(raw))

(* services/verification.py:183 and 196: each citation shows the best      *)
(* evidence of all claims, and of the validated quotes the first.          *)
EvidenceIsBest ==
  Done =>
    \A i \in DOMAIN Result.citations :
      LET found == {k \in 1..Len(Cites) : Cites[k].source = i /\ Cites[k].supported}
      IN IF found = {} THEN Result.citations[i] = Weak
         ELSE /\ Result.citations[i].status = "validated"
              /\ Result.citations[i].quote \in found
              /\ \A k \in found : Result.citations[i].quote <= k

(* An answer with the badge verified has nothing in it that failed: no     *)
(* claim cites a source that is not there or does not say it, the text is  *)
(* all the model's, and every link leads to a card with a validated quote. *)
VerifiedMeansAll ==
  (Done /\ Shown.badge = "verified") =>
    /\ \A k \in 1..Len(Cites) : Cites[k].source \in 1..Len(sources) /\ Cites[k].supported
    /\ Len(Shown.text) = Len(AnswerPart(raw))
    /\ \A i \in MarkersOf(AnswerPart(raw)) : i \in DOMAIN Shown.cards /\ ~Shown.cards[i].unverified

-----------------------------------------------------------------------------
(* Properties of the stream.                                               *)

(* An exchange that shows its answer or its error keeps it: nothing the    *)
(* server or the connection does afterwards can change it.                 *)
SettledIsFinal ==
  [][exchange.status \in {"done", "error"} /\ exchange' # exchange =>
       exchange'.status = "streaming"]_vars

(* The panel does not stay in streaming for ever, which would lock its     *)
(* form: an answer, an error or the end of the stream gets through.        *)
AnswersSettle == Streaming ~> ~Streaming

=============================================================================
