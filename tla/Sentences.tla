------------------------------ MODULE Sentences -------------------------------
(***************************************************************************)
(* iter_sentences: cuts the text an LLM adapter streams into sentences, at *)
(* [.!?]["')\]]?\s, whatever the chunks it comes in.  The generator stands *)
(* still while its consumer speaks a sentence.                             *)
(* A definition Bug... is a slip the definition after it could have;       *)
(* nothing uses it but the tests of the properties.                        *)
(***************************************************************************)
EXTENDS Sequences, FiniteSetsExt, Integers

CONSTANTS
  MaxText,     \* bound on the characters of one reply
  MaxChunk     \* and of one chunk

VARIABLES
  reader,      \* "pull", "search", "yielded", "last" or "closed"
  buf,
  text,        \* history: all that was streamed
  said         \* history: the sentences yielded

sentenceVars == <<reader, buf, text, said>>

\* A letter, one of . ! ?, a closing quote or bracket, white space.
Characters == {"w", "end", "quote", "space"}
Chunks == UNION {[1..n -> Characters] : n \in 1..MaxChunk}

SentencesInit == reader = "pull" /\ buf = << >> /\ text = << >> /\ said = << >>

Solid(s) == {i \in DOMAIN s : s[i] # "space"}
Strip(s) == IF Solid(s) = {} THEN << >> ELSE SubSeq(s, Min(Solid(s)), Max(Solid(s)))

\* Where in s a match of _SENTENCE_END ends.
BugMatches(s) ==
  {j \in DOMAIN s : s[j] = "space" /\ j > 1 /\ s[j - 1] = "end"}
Matches(s) ==
  {j \in DOMAIN s :
     /\ s[j] = "space" /\ j > 1
     /\ \/ s[j - 1] = "end"
        \/ s[j - 1] = "quote" /\ j > 2 /\ s[j - 2] = "end"}

\* An empty delta is dropped by the adapter, or changes nothing here.
Pull ==
  /\ reader = "pull" /\ reader' = "search"
  /\ \E chunk \in Chunks :
       /\ Len(text) + Len(chunk) <= MaxText
       /\ buf' = buf \o chunk /\ text' = text \o chunk
  /\ UNCHANGED said

\* The first match is taken off the buffer and yielded.
Yield ==
  /\ reader = "search" /\ Matches(buf) # {} /\ reader' = "yielded"
  /\ LET end == Min(Matches(buf))
     IN  /\ said' = Append(said, Strip(SubSeq(buf, 1, end)))
         /\ buf' = SubSeq(buf, end + 1, Len(buf))
  /\ UNCHANGED text

NoMatch ==
  /\ reader = "search" /\ Matches(buf) = {} /\ reader' = "pull"
  /\ UNCHANGED <<buf, text, said>>

YieldRest ==
  /\ reader = "pull" /\ Solid(buf) # {} /\ reader' = "last"
  /\ said' = Append(said, Strip(buf))
  /\ UNCHANGED <<buf, text>>

NoRest ==
  /\ reader = "pull" /\ Solid(buf) = {} /\ reader' = "closed"
  /\ UNCHANGED <<buf, text, said>>

Yielded == reader \in {"yielded", "last"}
Resume ==
  /\ Yielded /\ reader' = IF reader = "last" THEN "closed" ELSE "search"
  /\ UNCHANGED <<buf, text, said>>

\* The consumer broke off (barge-in) or raised; the next reply is a new one.
NextReply ==
  /\ Yielded \/ reader = "closed"
  /\ reader' = "pull" /\ buf' = << >> /\ text' = << >> /\ said' = << >>

Iterate == Pull \/ Yield \/ NoMatch \/ YieldRest \/ NoRest

-------------------------------------------------------------------------------
\* The same of a whole text, without a buffer.
Terminators == {<<"end", "space">>, <<"end", "quote", "space">>}
Cuts ==
  {j \in DOMAIN text : \E t \in Terminators :
     Len(t) <= j /\ SubSeq(text, j - Len(t) + 1, j) = t}
Piece(j) == Strip(SubSeq(text, Max({0} \cup {i \in Cuts : i < j}) + 1, j))
Rest == Strip(SubSeq(text, Max({0} \cup Cuts) + 1, Len(text)))
Words(s) == {i \in Solid(s) : i = 1 \/ i - 1 \notin Solid(s)}
WordsSaid == UNION {{k} \X Words(said[k]) : k \in DOMAIN said}
Nth(j) == Cardinality({i \in Cuts : i <= j})

(* "yield complete sentences as soon as each finishes (then the trailing   *)
(* remainder)": while the next chunk is awaited every complete sentence of *)
(* the text is out, the n-th sentence is the text between two ends, only   *)
(* the remainder comes after them, and the words paced_reveal shows are as *)
(* many as the text's -- all whatever the text and the chunks are.         *)
SentencesRight ==
  LET n == Cardinality(Cuts)
  IN  /\ reader = "pull" => Len(said) = n
      /\ reader \in {"last", "closed"} => Len(said) = n + (IF Rest = << >> THEN 0 ELSE 1)
      /\ \A j \in Cuts : Nth(j) \in DOMAIN said => said[Nth(j)] = Piece(j)
      /\ \A k \in DOMAIN said : k > n => k = n + 1 /\ said[k] = Rest
      /\ reader = "closed" => Cardinality(WordsSaid) = Cardinality(Words(text))
===============================================================================
