------------------------------- MODULE MCAnswers -------------------------------
(* Finite instances of the two things a model's text goes into: Answers    *)
(* and Extraction, either one or the other.                                *)
EXTENDS Answers, Extraction

(* Two documents, one of two chunks.                                       *)
MCDocuments == {1, 2}
MCDocumentOf == <<1, 1, 2>>

Lists(S, n) == {<<>>} \cup UNION {{s \in [1..k -> S] : \A i, j \in 1..k : s[i] = s[j] => i = j} : k \in 1..n}

MCRankings == Lists({1, 2, 3}, 2)

(* Fewer positions than candidates, one out of range, one twice, one more   *)
(* often than there are candidates.                                         *)
MCReplies == {<<>>, <<2>>, <<2, 1>>, <<3, 4, 1>>, <<2, 2, 1>>, <<1, 1, 1, 1, 2>>}

(* A sentinel that begins like the text before it may end.                 *)
MCSentinel == <<"<", "<", "C">>
(* Of one retrieved source the second marker is beyond, of two it is not.   *)
MCIndexOf == [s \in {"m1", "m2"} |-> IF s = "m1" THEN 1 ELSE 2]

MCSymbols == {"<", "C", "json", "m1", "m2"}
Texts == UNION {[1..k -> {"<", "m1", "m2"}] : k \in 0..2}
MCCompletions == {t \o MCSentinel \o <<"json">> : t \in Texts}

Quotes == [source : {1, 2}, supported : BOOLEAN]

(* No claim, one without a citation, one and two with a citation.           *)
Claims == {<<>>, <<<<>>>>} \cup {<<<<q>>>> : q \in Quotes}
          \cup {<<<<p>>, <<q>>>> : p, q \in Quotes}
MCBlocks == [not_found : {FALSE}, claims : Claims, parsed : {TRUE}]
            \cup {[not_found |-> TRUE, claims |-> <<>>, parsed |-> TRUE]}

-----------------------------------------------------------------------------
(* Requirements of one chunk or the other, in two spellings, or blank.     *)
MCKeyOf == [t \in {"A", "a", " "} |-> IF t = " " THEN "" ELSE "a"]

(* The second batch is the third chunk, its source 1.                      *)
MCSupported == {<<"q", 1>>, <<"q", 3>>}

Cite(source) == [source |-> source, quote |-> "q"]
MCCitations == {<<>>, <<Cite(1)>>, <<Cite(2)>>, <<Cite(3)>>, <<Cite(1), Cite(1)>>}
Requirements == [text : {"A", "a"}, citations : MCCitations]
                \cup {[text |-> " ", citations |-> <<Cite(1)>>]}
MCProposals == {<<>>} \cup {<<r>> : r \in Requirements}
               \cup {<<q, r>> : q, r \in Requirements}

MCInit == Init /\ ExtractionInit

MCNext ==
  \/ start = 0 /\ extraction = "running" /\ Next /\ UNCHANGED extraction_vars
  \/ exchange = NoExchange /\ hits = <<>> /\ api_key /\ ExtractionNext /\ UNCHANGED vars

MCSpec == MCInit /\ [][MCNext]_<<vars, extraction_vars>> /\ Fairness

=============================================================================
