----------------------------- MODULE SpeechProofs -----------------------------
(***************************************************************************)
(* Proofs about the voice of tts_piper.py and tts_kokoro.py while replies  *)
(* are streamed, and about the sentences iter_sentences cuts a reply into, *)
(* for any voices and any bounds on the text.                              *)
(***************************************************************************)
EXTENDS Speaking, FiniteSetTheorems, SequenceTheorems, TLAPS

(* What the load leaves to the next sentence: but for the sentence during  *)
(* which the choice changed, and for a model dropped while another voice's *)
(* was being loaded, what is loaded and what is cached is the model of the *)
(* chosen voice.                                                           *)
VoiceInv ==
  /\ VoiceTypeOK
  /\ dropping => Reloads /\ (synth # "idle" => changed)
  /\ ~dropping /\ model # NoModel => model = ModelOf(voice) \/ raced
  /\ Loading => loading \in Models /\ (loading = ModelOf(voice) \/ changed)
  /\ Loading /\ ~dropping => loading = ModelOf(voice) \/ raced
  /\ synth = "loading" => loading \in disk \/ changed
  /\ synth = "ready" => model # NoModel \/ changed
  /\ VoiceFollows

LEMMA ModelFacts ==
  /\ \A v \in Voices : ModelOf(v) \in Models
  /\ NoModel \notin Models
  /\ Reloads => \A v : ModelOf(v) = v
  /\ ~Reloads => \A m \in Models : \A v : ModelOf(v) = m
BY VoiceAssumption DEF ModelOf, Models

LEMMA InitVoice == VoiceInit => VoiceInv
<1> SUFFICES ASSUME VoiceInit PROVE VoiceInv
  OBVIOUS
<1>1. VoiceTypeOK
  BY ModelFacts DEF VoiceInit, VoiceTypeOK
<1> QED
  BY <1>1 DEF VoiceInit, VoiceInv, Loading, VoiceFollows

LEMMA PickVoiceInv == ASSUME VoiceInv, NEW v \in Voices, PickVoice(v) PROVE VoiceInv'
<1>1. VoiceTypeOK'
  BY VoiceAssumption DEF VoiceInv, VoiceTypeOK, PickVoice, synthVars, Models, ModelOf
<1>2. /\ dropping' = Reloads /\ voice' = v /\ changed' = (synth # "idle")
      /\ UNCHANGED <<model, disk, broken, synth, loading, used, raced>>
  BY DEF PickVoice, synthVars
<1>3. CASE Reloads
  BY <1>1, <1>2, <1>3 DEF VoiceInv, VoiceTypeOK, VoiceFollows, Loading
<1>4. CASE ~Reloads
  <2>1. ~dropping' /\ \A m \in Models : m = ModelOf(voice')
    BY <1>1, <1>2, <1>4, ModelFacts DEF VoiceTypeOK
  <2>2. model' \in Models \cup {NoModel} /\ (Loading' => loading' \in Models)
    BY <1>1, <1>2 DEF VoiceInv, VoiceTypeOK, Loading
  <2> QED
    BY <1>1, <1>2, <2>1, <2>2 DEF VoiceInv, VoiceFollows, Loading
<1> QED
  BY <1>3, <1>4

LEMMA DropModelInv == ASSUME VoiceInv, DropModel PROVE VoiceInv'
BY ModelFacts
DEF VoiceInv, VoiceTypeOK, VoiceFollows, Loading, DropModel, synthVars, Models

LEMMA BeginInv == ASSUME VoiceInv, Begin PROVE VoiceInv'
BY ModelFacts
DEF VoiceInv, VoiceTypeOK, VoiceFollows, Loading, Begin, SynthGoes, pickVars, Models

LEMMA FetchInv == ASSUME VoiceInv, Fetch PROVE VoiceInv'
BY ModelFacts
DEF VoiceInv, VoiceTypeOK, VoiceFollows, Loading, Fetch, SynthGoes, pickVars, Models

LEMMA LoadInv == ASSUME VoiceInv, Load PROVE VoiceInv'
BY ModelFacts
DEF VoiceInv, VoiceTypeOK, VoiceFollows, Loading, Load, SynthGoes, pickVars, Models

LEMMA UseInv == ASSUME VoiceInv, Use PROVE VoiceInv'
BY ModelFacts
DEF VoiceInv, VoiceTypeOK, VoiceFollows, Loading, Use, SynthGoes, pickVars, Models

LEMMA LeaveInv == ASSUME VoiceInv, Leave PROVE VoiceInv'
<1>1. VoiceTypeOK'
  BY DEF VoiceInv, VoiceTypeOK, Leave, SynthGoes, pickVars, Models, ModelOf
<1>2. UNCHANGED <<voice, dropping, model, raced>> /\ synth' = "idle"
  BY DEF Leave, SynthGoes, pickVars
<1> QED
  BY <1>1, <1>2 DEF VoiceInv, VoiceFollows, Loading, ModelOf

LEMMA StutterInv == ASSUME VoiceInv, UNCHANGED voiceVars PROVE VoiceInv'
BY DEF VoiceInv, VoiceTypeOK, VoiceFollows, Loading, ModelOf, Models, voiceVars, pickVars,
       synthVars

LEMMA NextVoice == VoiceInv /\ [SpeakingNext]_speakingVars => VoiceInv'
<1> SUFFICES ASSUME VoiceInv, [SpeakingNext]_speakingVars PROVE VoiceInv'
  OBVIOUS
<1>1. CASE SetVoice
  BY <1>1, PickVoiceInv, DropModelInv DEF SetVoice
<1>2. CASE Synthesize
  BY <1>2, BeginInv, FetchInv, LoadInv, UseInv DEF Synthesize
<1>3. CASE Leave
  BY <1>3, LeaveInv
<1>4. CASE UNCHANGED voiceVars
  BY <1>4, StutterInv
<1> QED
  BY <1>1, <1>2, <1>3, <1>4
  DEF SpeakingNext, Streaming, Synthesizing, Spoken, TurnOver, PickingVoice, speakingVars

(* set_voice against _default_synth: a sentence is spoken in the chosen    *)
(* voice, and spoken at all, but for what VoiceFollows excepts -- for any  *)
(* voices, Piper's models or Kokoro's one.                                 *)
THEOREM VoiceIsFollowed == SpeakingSpec => []VoiceFollows
<1>1. SpeakingInit => VoiceInv
  BY InitVoice DEF SpeakingInit
<1>2. VoiceInv => VoiceFollows
  BY DEF VoiceInv
<1> QED
  BY <1>1, <1>2, NextVoice, PTL DEF SpeakingSpec

(* The voice's state has its type while replies are streamed.              *)
THEOREM VoiceTyped == SpeakingSpec => []VoiceTypeOK
<1>1. SpeakingInit => VoiceInv
  BY InitVoice DEF SpeakingInit
<1>2. VoiceInv => VoiceTypeOK
  BY DEF VoiceInv
<1> QED
  BY <1>1, <1>2, NextVoice, PTL DEF SpeakingSpec

(* Streaming a reply moves the voice only by its own steps.                *)
THEOREM SpeakingUsesVoice == SpeakingSpec => VoiceSpec
<1>1. SpeakingInit => VoiceInit
  BY DEF SpeakingInit
<1>2. [SpeakingNext]_speakingVars => [SetVoice \/ Synthesize \/ Leave]_voiceVars
  BY DEF SpeakingNext, Streaming, Synthesizing, Spoken, TurnOver, PickingVoice, speakingVars
<1> QED
  BY <1>1, <1>2, PTL DEF SpeakingSpec, VoiceSpec

(***************************************************************************)
(* Sentences: the operators                                                *)
(***************************************************************************)
(* A set of numbers that is not empty has a least one, and a greatest if   *)
(* it has a bound.                                                         *)
LEMMA MinIs ==
  ASSUME NEW S \in SUBSET Nat, S # {}
  PROVE  Min(S) \in S /\ \A x \in S : Min(S) <= x
<1> DEFINE Less == {ss \in Nat \X Nat : ss[1] < ss[2]}
<1>1. IsWellFoundedOn(Less, Nat)
  BY NatLessThanWellFounded, Zenon DEF OpToRel
<1>2. \A x \in S, y \in S : y < x => <<y, x>> \in Less
  OBVIOUS
<1> HIDE DEF Less
<1>3. PICK x \in S : \A y \in S : <<y, x>> \notin Less
  BY <1>1, WFMin
<1>4. ASSUME NEW y \in S PROVE x <= y
  <2>1. x \in Nat /\ y \in Nat /\ ~(y < x)
    BY <1>2, <1>3
  <2> QED
    BY <2>1
<1> QED
  BY <1>4 DEF Min

LEMMA MaxIs ==
  ASSUME NEW n \in Nat, NEW S \in SUBSET (0..n), S # {}
  PROVE  Max(S) \in S /\ \A x \in S : x <= Max(S)
<1> DEFINE T == {n - x : x \in S}
<1>1. T \in SUBSET Nat /\ T # {}
  <2>1. \A x \in S : n - x \in Nat
    OBVIOUS
  <2> QED
    BY <2>1
<1>2. PICK y \in T : \A z \in T : y <= z
  BY <1>1, MinIs
<1>3. PICK x \in S : y = n - x
  BY <1>2
<1>4. \A z \in S : x >= z
  <2> SUFFICES ASSUME NEW z \in S PROVE x >= z
    OBVIOUS
  <2>1. y <= n - z
    BY <1>2
  <2> QED
    BY <1>3, <2>1
<1> QED
  BY <1>4 DEF Max

(* A part of a text.                                                       *)
LEMMA PartOf ==
  ASSUME NEW s \in Seq(Characters), NEW i \in 1..(Len(s) + 1), NEW j \in (i - 1)..Len(s)
  PROVE  /\ SubSeq(s, i, j) \in Seq(Characters)
         /\ Len(SubSeq(s, i, j)) = j - i + 1
         /\ \A k \in 1..(j - i + 1) : SubSeq(s, i, j)[k] = s[i + k - 1]
OBVIOUS

LEMMA Concatenated ==
  ASSUME NEW s \in Seq(Characters), NEW t \in Seq(Characters)
  PROVE  /\ s \o t \in Seq(Characters) /\ Len(s) \in Nat /\ Len(t) \in Nat
         /\ Len(s \o t) = Len(s) + Len(t)
         /\ \A i \in 1..Len(s) : (s \o t)[i] = s[i]
         /\ \A i \in 1..Len(t) : (s \o t)[Len(s) + i] = t[i]
OBVIOUS

LEMMA Slice ==
  ASSUME NEW s \in Seq(Characters), NEW c \in 0..Len(s), NEW d \in c..Len(s)
  PROVE  /\ SubSeq(s, c + 1, d) \in Seq(Characters)
         /\ Len(SubSeq(s, c + 1, d)) = d - c
         /\ \A k \in 1..(d - c) : SubSeq(s, c + 1, d)[k] = s[c + k]
<1>1. /\ c + 1 \in 1..(Len(s) + 1) /\ d \in (c + 1 - 1)..Len(s)
      /\ d - (c + 1) + 1 = d - c
  OBVIOUS
<1> DEFINE u == SubSeq(s, c + 1, d)
<1>2. /\ u \in Seq(Characters) /\ Len(u) = d - (c + 1) + 1
      /\ \A k \in 1..(d - (c + 1) + 1) : u[k] = s[c + 1 + k - 1]
  BY <1>1, PartOf
<1> HIDE DEF u
<1>3. ASSUME NEW k \in 1..(d - c) PROVE u[k] = s[c + k]
  <2>1. c + 1 + k - 1 = c + k
    OBVIOUS
  <2> QED
    BY <1>1, <1>2, <2>1
<1> QED
  BY <1>1, <1>2, <1>3 DEF u

LEMMA Equal ==
  ASSUME NEW s \in Seq(Characters), NEW t \in Seq(Characters), Len(s) = Len(t),
         \A k \in 1..Len(s) : s[k] = t[k]
  PROVE  s = t
OBVIOUS

(* Cuts are the matches of the whole text.                                 *)
LEMMA CutsMatch == text \in Seq(Characters) => Cuts = Matches(text)
<1> SUFFICES ASSUME text \in Seq(Characters), NEW j \in 1..Len(text)
             PROVE  (\E t \in Terminators : Len(t) <= j /\ SubSeq(text, j - Len(t) + 1, j) = t)
                      <=> /\ text[j] = "space" /\ j > 1
                          /\ \/ text[j - 1] = "end"
                             \/ text[j - 1] = "quote" /\ j > 2 /\ text[j - 2] = "end"
  <2>1. DOMAIN text = 1..Len(text)
    OBVIOUS
  <2> QED
    BY <2>1, Zenon DEF Cuts, Matches
<1> DEFINE Two == <<"end", "space">>
           Three == <<"end", "quote", "space">>
<1>1. /\ Two \in Seq(Characters) /\ Len(Two) = 2 /\ Two[1] = "end" /\ Two[2] = "space"
      /\ Three \in Seq(Characters) /\ Len(Three) = 3
      /\ Three[1] = "end" /\ Three[2] = "quote" /\ Three[3] = "space"
  BY DEF Characters
<1> HIDE DEF Two, Three
<1>2. ASSUME j >= 2
      PROVE  SubSeq(text, j - 1, j) = Two <=> text[j] = "space" /\ text[j - 1] = "end"
  <2> DEFINE u == SubSeq(text, j - 1, j)
  <2>1. u \in Seq(Characters) /\ Len(u) = 2 /\ u[1] = text[j - 1] /\ u[2] = text[j]
    BY <1>2, PartOf
  <2> HIDE DEF u
  <2>2. u = Two <=> u[1] = "end" /\ u[2] = "space"
    BY <1>1, <2>1, Equal, \A k \in 1..2 : k = 1 \/ k = 2
  <2> QED
    BY <2>1, <2>2 DEF u
<1>3. ASSUME j >= 3
      PROVE  SubSeq(text, j - 2, j) = Three
               <=> text[j] = "space" /\ text[j - 1] = "quote" /\ text[j - 2] = "end"
  <2> DEFINE u == SubSeq(text, j - 2, j)
  <2>1. /\ u \in Seq(Characters) /\ Len(u) = 3
        /\ u[1] = text[j - 2] /\ u[2] = text[j - 1] /\ u[3] = text[j]
    BY <1>3, PartOf
  <2> HIDE DEF u
  <2>2. u = Three <=> u[1] = "end" /\ u[2] = "quote" /\ u[3] = "space"
    BY <1>1, <2>1, Equal, \A k \in 1..3 : k = 1 \/ k = 2 \/ k = 3
  <2> QED
    BY <2>1, <2>2 DEF u
<1>4. Terminators = {Two, Three}
  BY DEF Terminators, Two, Three
<1>5. (\E t \in Terminators : Len(t) <= j /\ SubSeq(text, j - Len(t) + 1, j) = t)
        <=> \/ 2 <= j /\ SubSeq(text, j - 1, j) = Two
            \/ 3 <= j /\ SubSeq(text, j - 2, j) = Three
  BY <1>1, <1>4, j - 2 + 1 = j - 1, j - 3 + 1 = j - 2
<1> QED
  BY <1>2, <1>3, <1>5

(* Whether a sentence ends at a place of a text depends on no more than the*)
(* two characters before it: not on what is streamed later ...             *)
LEMMA MatchesOfPrefix ==
  ASSUME NEW s \in Seq(Characters), NEW t \in Seq(Characters), NEW j \in 1..Len(s)
  PROVE  j \in Matches(s \o t) <=> j \in Matches(s)
<1>1. /\ Len(s) \in Nat /\ Len(t) \in Nat /\ DOMAIN s = 1..Len(s)
      /\ DOMAIN (s \o t) = 1..(Len(s) + Len(t))
      /\ \A i \in 1..Len(s) : (s \o t)[i] = s[i]
  OBVIOUS
<1>2. /\ (s \o t)[j] = s[j]
      /\ j > 1 => (s \o t)[j - 1] = s[j - 1]
      /\ j > 2 => (s \o t)[j - 2] = s[j - 2]
  BY <1>1
<1>3. j \in DOMAIN s /\ j \in DOMAIN (s \o t)
  BY <1>1
<1> QED
  BY <1>2, <1>3, Zenon DEF Matches

(* ... and not on what was cut off, for what is cut off ends in a space.   *)
LEMMA MatchesOfRest ==
  ASSUME NEW s \in Seq(Characters), NEW c \in {0} \cup Matches(s), NEW j \in 1..(Len(s) - c)
  PROVE  j \in Matches(SubSeq(s, c + 1, Len(s))) <=> c + j \in Matches(s)
<1> DEFINE r == SubSeq(s, c + 1, Len(s))
<1>1. c \in 0..Len(s) /\ Len(s) \in Nat /\ DOMAIN s = 1..Len(s) /\ c \in Nat
  BY DEF Matches
<1>2. c > 0 => s[c] = "space"
  BY DEF Matches
<1>3. /\ r \in Seq(Characters) /\ Len(r) = Len(s) - c
      /\ \A k \in 1..(Len(s) - c) : r[k] = s[c + k]
  <2>1. Len(s) \in c..Len(s)
    BY <1>1
  <2> QED
    BY <1>1, <2>1, Slice
<1>4. \A k \in 1..(Len(s) - c) : r[k] = s[c + k]
  BY <1>3
<1> HIDE DEF r
<1>5. /\ r[j] = s[c + j] /\ j \in DOMAIN r /\ c + j \in DOMAIN s
      /\ j > 1 => r[j - 1] = s[c + j - 1]
      /\ j > 2 => r[j - 2] = s[c + j - 2]
  <2>1. DOMAIN r = 1..(Len(s) - c)
    BY <1>3
  <2>2. ASSUME j > 1 PROVE r[j - 1] = s[c + j - 1]
    <3>1. j - 1 \in 1..(Len(s) - c) /\ c + (j - 1) = c + j - 1
      BY <1>1, <2>2
    <3> QED
      BY <1>4, <3>1
  <2>3. ASSUME j > 2 PROVE r[j - 2] = s[c + j - 2]
    <3>1. j - 2 \in 1..(Len(s) - c) /\ c + (j - 2) = c + j - 2
      BY <1>1, <2>3
    <3> QED
      BY <1>4, <3>1
  <2> QED
    BY <1>1, <1>4, <2>1, <2>2, <2>3
<1>6. CASE j > 2
  <2>1. c + j > 1 /\ c + j > 2 /\ j > 1
    BY <1>1, <1>6
  <2> QED
    BY <1>5, <1>6, <2>1 DEF r, Matches
<1>7. CASE j = 2
  <2>1. c + j > 1 /\ j > 1 /\ ~(j > 2) /\ c + j - 2 = c /\ (c + j > 2 <=> c > 0)
    BY <1>1, <1>7
  <2>2. ~(c + j > 2 /\ s[c + j - 2] = "end")
    BY <1>2, <2>1
  <2> QED
    BY <1>5, <2>1, <2>2 DEF r, Matches
<1>8. CASE j = 1
  <2>1. ~(j > 1) /\ c + j - 1 = c /\ (c + j > 1 <=> c > 0)
    BY <1>1, <1>8
  <2>2. j \notin Matches(r)
    BY <2>1 DEF Matches
  <2>3. ~(c + j > 1 /\ s[c + j - 1] \in {"end", "quote"})
    BY <1>2, <2>1
  <2> QED
    BY <2>2, <2>3 DEF r, Matches
<1> QED
  BY <1>6, <1>7, <1>8

(* What is stripped off is white space.                                    *)
LEMMA StripIs ==
  ASSUME NEW s \in Seq(Characters)
  PROVE  /\ Solid(s) = {} => Strip(s) = << >>
         /\ Solid(s) # {} =>
              LET lo == Min(Solid(s))
                  hi == Max(Solid(s))
              IN  /\ lo \in Solid(s) /\ hi \in Solid(s) /\ Solid(s) \subseteq lo..hi
                  /\ lo \in 1..Len(s) /\ hi \in lo..Len(s)
                  /\ Strip(s) = SubSeq(s, lo, hi)
                  /\ Len(Strip(s)) = hi - lo + 1
                  /\ \A k \in 1..(hi - lo + 1) : Strip(s)[k] = s[lo + k - 1]
         /\ Strip(s) \in Seq(Characters)
<1>1. CASE Solid(s) = {}
  <2>1. Strip(s) = << >> /\ << >> \in Seq(Characters)
    BY <1>1 DEF Strip
  <2> QED
    BY <1>1, <2>1
<1>2. CASE Solid(s) # {}
  <2>1. Solid(s) \subseteq 1..Len(s) /\ Len(s) \in Nat
    BY DEF Solid
  <2>2. Solid(s) \in SUBSET Nat /\ Solid(s) \in SUBSET (0..Len(s))
    BY <2>1
  <2> DEFINE lo == Min(Solid(s))
             hi == Max(Solid(s))
  <2>3. lo \in Solid(s) /\ \A x \in Solid(s) : lo <= x
    BY <1>2, <2>2, MinIs
  <2>4. hi \in Solid(s) /\ \A x \in Solid(s) : x <= hi
    BY <1>2, <2>1, <2>2, MaxIs
  <2>5. Strip(s) = SubSeq(s, lo, hi)
    BY <1>2 DEF Strip
  <2> HIDE DEF lo, hi
  <2>6. /\ lo \in 1..Len(s) /\ hi \in lo..Len(s) /\ Solid(s) \subseteq lo..hi
        /\ lo \in 1..(Len(s) + 1) /\ hi \in (lo - 1)..Len(s)
    BY <2>1, <2>3, <2>4
  <2>7. /\ SubSeq(s, lo, hi) \in Seq(Characters)
        /\ Len(SubSeq(s, lo, hi)) = hi - lo + 1
        /\ \A k \in 1..(hi - lo + 1) : SubSeq(s, lo, hi)[k] = s[lo + k - 1]
    BY <2>6, PartOf
  <2> QED
    BY <1>2, <2>3, <2>4, <2>5, <2>6, <2>7 DEF lo, hi
<1> QED
  BY <1>1, <1>2

(* Nth, Piece and Rest as operators on any text.                           *)
Upto(s, c) == {i \in Matches(s) : i <= c}
LastBefore(s, j) == Max({0} \cup {i \in Matches(s) : i < j})
Sentence(s, j) == Strip(SubSeq(s, LastBefore(s, j) + 1, j))

LEMMA CountUpto ==
  ASSUME NEW s \in Seq(Characters), NEW c \in Nat, NEW d \in Nat, c <= d
  PROVE  /\ Matches(s) \subseteq 1..Len(s) /\ IsFiniteSet(Matches(s))
         /\ Upto(s, c) \subseteq Upto(s, d) /\ IsFiniteSet(Upto(s, d))
         /\ Cardinality(Upto(s, c)) \in Nat /\ Cardinality(Upto(s, d)) \in Nat
         /\ Cardinality(Upto(s, c)) <= Cardinality(Upto(s, d))
         /\ Cardinality(Upto(s, c)) = Cardinality(Upto(s, d)) => Upto(s, c) = Upto(s, d)
<1>1. Matches(s) \subseteq 1..Len(s) /\ Len(s) \in Nat
  BY DEF Matches
<1>2. IsFiniteSet(Matches(s))
  <2>1. IsFiniteSet(1..Len(s))
    BY <1>1, FS_Interval
  <2> QED
    BY <1>1, <2>1, FS_Subset
<1>3. Upto(s, c) \subseteq Upto(s, d)
  BY <1>1 DEF Upto
<1>4. IsFiniteSet(Upto(s, d)) /\ IsFiniteSet(Upto(s, c))
  BY <1>2, FS_Subset DEF Upto
<1>5. Cardinality(Upto(s, c)) \in Nat /\ Cardinality(Upto(s, d)) \in Nat
  BY <1>4, FS_CardinalityType
<1> QED
  BY <1>1, <1>2, <1>3, <1>4, <1>5, FS_Subset

(* The next match but one sentence further.                                *)
LEMMA NextMatch ==
  ASSUME NEW s \in Seq(Characters), NEW c \in {0} \cup Matches(s), NEW m \in Matches(s),
         c < m, \A i \in Matches(s) : i <= c \/ m <= i
  PROVE  /\ Cardinality(Upto(s, m)) = Cardinality(Upto(s, c)) + 1
         /\ LastBefore(s, m) = c
<1>1. Matches(s) \subseteq 1..Len(s) /\ Len(s) \in Nat /\ c \in Nat /\ m \in Nat
  BY DEF Matches
<1>2. Upto(s, m) = Upto(s, c) \cup {m} /\ m \notin Upto(s, c)
  BY <1>1 DEF Upto
<1>3. IsFiniteSet(Upto(s, c))
  BY <1>1, CountUpto
<1>4. Cardinality(Upto(s, m)) = Cardinality(Upto(s, c)) + 1
  BY <1>2, <1>3, FS_AddElement
<1> DEFINE P == {0} \cup {i \in Matches(s) : i < m}
<1>5. P \in SUBSET (0..Len(s)) /\ c \in P /\ \A i \in P : i <= c
  BY <1>1
<1> HIDE DEF P
<1>6. Max(P) \in P /\ c <= Max(P)
  BY <1>1, <1>5, MaxIs
<1>7. Max(P) = c
  <2>1. Max(P) \in Nat /\ Max(P) <= c
    <3>1. \A i \in P : i \in Nat /\ i <= c
      BY <1>1, <1>5
    <3> QED
      BY <1>6, <3>1
  <2> QED
    BY <1>1, <1>6, <2>1
<1> QED
  BY <1>4, <1>7 DEF LastBefore, P

(* A longer text has the same matches, counts and sentences up to the end  *)
(* of the shorter.                                                         *)
LEMMA PrefixKeeps ==
  ASSUME NEW s \in Seq(Characters), NEW t \in Seq(Characters), NEW c \in 0..Len(s)
  PROVE  /\ Upto(s \o t, c) = Upto(s, c)
         /\ c \in {0} \cup Matches(s \o t) <=> c \in {0} \cup Matches(s)
         /\ c \in Matches(s) => Sentence(s \o t, c) = Sentence(s, c)
<1>1. /\ s \o t \in Seq(Characters) /\ Len(s) \in Nat /\ Len(t) \in Nat
      /\ Len(s \o t) = Len(s) + Len(t)
      /\ \A i \in 1..Len(s) : (s \o t)[i] = s[i]
  OBVIOUS
<1>2. Matches(s) \subseteq 1..Len(s) /\ Matches(s \o t) \subseteq 1..(Len(s) + Len(t))
  BY <1>1 DEF Matches
<1>3. \A i \in 1..Len(s) : i \in Matches(s \o t) <=> i \in Matches(s)
  BY MatchesOfPrefix
<1>4. Upto(s \o t, c) = Upto(s, c)
  BY <1>1, <1>2, <1>3 DEF Upto
<1>5. c \in {0} \cup Matches(s \o t) <=> c \in {0} \cup Matches(s)
  BY <1>2, <1>3
<1>6. ASSUME c \in Matches(s) PROVE Sentence(s \o t, c) = Sentence(s, c)
  <2> DEFINE P == {0} \cup {i \in Matches(s) : i < c}
             Q == {0} \cup {i \in Matches(s \o t) : i < c}
             l == LastBefore(s, c)
  <2>1. P = Q /\ P \in SUBSET (0..Len(s))
    BY <1>1, <1>2, <1>3
  <2>2. LastBefore(s \o t, c) = l /\ l \in P
    <3>1. Max(P) \in P
      BY <2>1, <1>1, MaxIs
    <3> QED
      BY <2>1, <3>1 DEF LastBefore
  <2>3. l \in 0..Len(s) /\ l < c /\ c \in Nat
    BY <1>2, <1>6, <2>1, <2>2
  <2> HIDE DEF l, P, Q
  <2> DEFINE u == SubSeq(s, l + 1, c)
             w == SubSeq(s \o t, l + 1, c)
  <2>4. l \in 0..Len(s) /\ c \in l..Len(s) /\ l \in 0..Len(s \o t) /\ c \in l..Len(s \o t)
    BY <1>1, <2>3
  <2>5. /\ u \in Seq(Characters) /\ Len(u) = c - l
        /\ \A k \in 1..(c - l) : u[k] = s[l + k]
    BY <2>4, Slice
  <2>6. /\ w \in Seq(Characters) /\ Len(w) = c - l
        /\ \A k \in 1..(c - l) : w[k] = (s \o t)[l + k]
    BY <1>1, <2>4, Slice
  <2> HIDE DEF u, w
  <2>7. ASSUME NEW k \in 1..Len(u) PROVE u[k] = w[k]
    <3>1. l + k \in 1..Len(s) /\ k \in 1..(c - l)
      BY <2>3, <2>5
    <3> QED
      BY <1>1, <2>5, <2>6, <3>1
  <2>8. u = w
    BY <2>5, <2>6, <2>7, Equal
  <2> QED
    BY <2>2, <2>8 DEF Sentence, l, u, w
<1> QED
  BY <1>4, <1>5, <1>6

LEMMA RestOfLonger ==
  ASSUME NEW s \in Seq(Characters), NEW t \in Seq(Characters), NEW c \in 0..Len(s)
  PROVE  SubSeq(s \o t, c + 1, Len(s \o t)) = SubSeq(s, c + 1, Len(s)) \o t
<1> DEFINE u == SubSeq(s \o t, c + 1, Len(s \o t))
           v == SubSeq(s, c + 1, Len(s))
<1>1. /\ s \o t \in Seq(Characters) /\ Len(s) \in Nat /\ Len(t) \in Nat
      /\ Len(s \o t) = Len(s) + Len(t)
      /\ \A i \in 1..Len(s) : (s \o t)[i] = s[i]
      /\ \A i \in 1..Len(t) : (s \o t)[Len(s) + i] = t[i]
  OBVIOUS
<1>2. v \in Seq(Characters) /\ Len(v) = Len(s) - c /\ \A k \in 1..(Len(s) - c) : v[k] = s[c + k]
  BY <1>1, Slice
<1>3. /\ u \in Seq(Characters) /\ Len(u) = Len(s) + Len(t) - c
      /\ \A k \in 1..(Len(s) + Len(t) - c) : u[k] = (s \o t)[c + k]
  <2>1. c \in 0..Len(s \o t) /\ Len(s \o t) \in c..Len(s \o t)
    BY <1>1
  <2> QED
    BY <1>1, <2>1, Slice
<1> HIDE DEF u, v
<1>4. /\ v \o t \in Seq(Characters) /\ Len(v \o t) = Len(v) + Len(t)
      /\ \A i \in 1..Len(v) : (v \o t)[i] = v[i]
      /\ \A i \in 1..Len(t) : (v \o t)[Len(v) + i] = t[i]
  BY <1>2, Concatenated
<1>5. ASSUME NEW k \in 1..Len(u) PROVE u[k] = (v \o t)[k]
  <2>1. CASE k \in 1..Len(v)
    <3>1. c + k \in 1..Len(s) /\ k \in 1..(Len(s) - c) /\ k \in 1..(Len(s) + Len(t) - c)
      BY <1>1, <1>2, <2>1
    <3> QED
      BY <1>1, <1>2, <1>3, <1>4, <2>1, <3>1
  <2>2. CASE k > Len(v)
    <3> DEFINE i == k - Len(v)
    <3>1. /\ i \in 1..Len(t) /\ k = Len(v) + i /\ c + k = Len(s) + i
          /\ k \in 1..(Len(s) + Len(t) - c)
      BY <1>1, <1>2, <1>3, <2>2
    <3> HIDE DEF i
    <3> QED
      BY <1>1, <1>3, <1>4, <3>1
  <2> QED
    BY <1>1, <1>2, <1>3, <2>1, <2>2
<1>6. Len(u) = Len(v \o t)
  BY <1>1, <1>2, <1>3, <1>4
<1> QED
  BY <1>3, <1>4, <1>5, <1>6, Equal DEF u, v

(***************************************************************************)
(* Sentences: the invariant.  The buffer is the text from the last sentence*)
(* on that was yielded, and every sentence up to there is out.             *)
(***************************************************************************)
Taken == Len(text) - Len(buf)
Ended == reader \in {"last", "closed"}
Count(s, c) == Cardinality(Upto(s, c))

ReadTypes ==
  /\ reader \in {"pull", "search", "yielded", "last", "closed"}
  /\ text \in Seq(Characters) /\ buf \in Seq(Characters) /\ said \in Seq(Seq(Characters))
Position ==
  Taken \in {0} \cup Matches(text) /\ buf = SubSeq(text, Taken + 1, Len(text))
SentencesOut ==
  \A j \in Matches(text) : j <= Taken =>
    Count(text, j) \in 1..Len(said) /\ said[Count(text, j)] = Sentence(text, j)
RestOut ==
  IF Ended /\ Solid(buf) # {}
  THEN Len(said) = Count(text, Taken) + 1 /\ said[Len(said)] = Strip(buf)
  ELSE Len(said) = Count(text, Taken)
Searched == reader \in {"pull", "last", "closed"} => Matches(buf) = {}

ReadInv == ReadTypes /\ Position /\ SentencesOut /\ RestOut /\ Searched

LEMMA NoText ==
  /\ << >> \in Seq(Characters) /\ << >> \in Seq(Seq(Characters))
  /\ Len(<< >>) = 0 /\ SubSeq(<< >>, 1, 0) = << >>
  /\ Matches(<< >>) = {} /\ Count(<< >>, 0) = 0
<1>1. Matches(<< >>) = {}
  BY DEF Matches
<1>2. Upto(<< >>, 0) = {}
  BY <1>1 DEF Upto
<1> QED
  BY <1>1, <1>2, FS_EmptySet DEF Count

LEMMA EmptyRead ==
  ASSUME reader' = "pull", buf' = << >>, text' = << >>, said' = << >>
  PROVE  ReadInv'
<1>1. Taken' = 0 /\ ~Ended'
  BY NoText DEF Taken, Ended
<1> QED
  BY <1>1, NoText DEF ReadInv, ReadTypes, Position, SentencesOut, RestOut, Searched

(* What the steps start from.                                              *)
LEMMA ReadFacts ==
  ASSUME ReadInv
  PROVE  /\ text \in Seq(Characters) /\ buf \in Seq(Characters) /\ said \in Seq(Seq(Characters))
         /\ Len(text) \in Nat /\ Len(buf) \in Nat /\ Len(said) \in Nat
         /\ Taken \in {0} \cup Matches(text) /\ Taken \in 0..Len(text)
         /\ Len(buf) = Len(text) - Taken
         /\ buf = SubSeq(text, Taken + 1, Len(text))
         /\ Count(text, Taken) \in Nat
<1>1. /\ text \in Seq(Characters) /\ buf \in Seq(Characters) /\ said \in Seq(Seq(Characters))
      /\ Len(text) \in Nat /\ Len(buf) \in Nat /\ Len(said) \in Nat
  BY DEF ReadInv, ReadTypes
<1>2. Taken \in {0} \cup Matches(text) /\ buf = SubSeq(text, Taken + 1, Len(text))
  BY DEF ReadInv, Position
<1>3. Taken \in 0..Len(text)
  BY <1>1, <1>2 DEF Matches
<1>4. Len(buf) = Len(text) - Taken
  BY <1>1 DEF Taken
<1>5. Count(text, Taken) \in Nat
  BY <1>1, <1>3, CountUpto DEF Count
<1> QED
  BY <1>1, <1>2, <1>3, <1>4, <1>5

LEMMA PullRead == ASSUME ReadInv, Pull PROVE ReadInv'
<1>1. PICK chunk \in Chunks : buf' = buf \o chunk /\ text' = text \o chunk
  BY DEF Pull
<1>2. chunk \in Seq(Characters) /\ Len(chunk) \in Nat
  BY DEF Chunks
<1>3. reader = "pull" /\ reader' = "search" /\ said' = said
  BY DEF Pull
<1> DEFINE c == Taken
<1>4. /\ text \in Seq(Characters) /\ buf \in Seq(Characters) /\ said \in Seq(Seq(Characters))
      /\ Len(text) \in Nat /\ Len(buf) \in Nat
      /\ c \in {0} \cup Matches(text) /\ c \in 0..Len(text)
      /\ Len(buf) = Len(text) - c /\ buf = SubSeq(text, c + 1, Len(text))
  BY ReadFacts
<1>5. /\ SentencesOut /\ Len(said) = Count(text, c)
  BY <1>3 DEF ReadInv, RestOut, Ended
<1> HIDE DEF c
<1>6. /\ text' \in Seq(Characters) /\ buf' \in Seq(Characters)
      /\ Len(text') = Len(text) + Len(chunk) /\ Len(buf') = Len(buf) + Len(chunk)
  BY <1>1, <1>2, <1>4, Concatenated
<1>7. Taken' = c
  <2>1. Taken' = Len(text') - Len(buf')
    BY DEF Taken
  <2>2. c \in Int /\ Len(text) \in Nat /\ Len(buf) = Len(text) - c
    BY <1>4
  <2>3. Len(text') - Len(buf') = (Len(text) + Len(chunk)) - ((Len(text) - c) + Len(chunk))
    BY <1>6, <2>2
  <2>4. (Len(text) + Len(chunk)) - ((Len(text) - c) + Len(chunk)) = c
    BY <1>2, <2>2
  <2> QED
    BY <2>1, <2>3, <2>4
<1>8. c \in {0} \cup Matches(text') /\ Count(text', c) = Count(text, c)
  BY <1>1, <1>2, <1>4, PrefixKeeps DEF Count
<1>9. Position'
  <2>1. buf' = SubSeq(text', c + 1, Len(text'))
    BY <1>1, <1>2, <1>4, RestOfLonger
  <2> QED
    BY <1>7, <1>8, <2>1 DEF Position
<1>10. SentencesOut'
  <2>1. ASSUME NEW j \in Matches(text'), j <= c
        PROVE  Count(text', j) \in 1..Len(said') /\ said'[Count(text', j)] = Sentence(text', j)
    <3>1. j \in 0..Len(text) /\ j # 0
      <4>1. j \in 1..Len(text')
        BY <1>6 DEF Matches
      <4> QED
        BY <1>4, <2>1, <4>1
    <3>2. j \in Matches(text)
      BY <1>1, <1>2, <1>4, <3>1, PrefixKeeps
    <3>3. Count(text', j) = Count(text, j) /\ Sentence(text', j) = Sentence(text, j)
      BY <1>1, <1>2, <1>4, <3>1, <3>2, PrefixKeeps DEF Count
    <3>4. Count(text, j) \in 1..Len(said) /\ said[Count(text, j)] = Sentence(text, j)
      BY <1>5, <2>1, <3>2 DEF SentencesOut, c
    <3> QED
      BY <1>3, <3>3, <3>4
  <2> QED
    BY <1>7, <2>1 DEF SentencesOut
<1>11. RestOut' /\ Searched'
  BY <1>3, <1>5, <1>7, <1>8 DEF RestOut, Ended, Searched
<1>12. ReadTypes'
  BY <1>3, <1>4, <1>6 DEF ReadTypes
<1> QED
  BY <1>9, <1>10, <1>11, <1>12 DEF ReadInv

LEMMA YieldRead == ASSUME ReadInv, Yield PROVE ReadInv'
<1> DEFINE c == Taken
           end == Min(Matches(buf))
           m == c + end
<1>1. /\ reader = "search" /\ reader' = "yielded" /\ Matches(buf) # {} /\ text' = text
      /\ said' = Append(said, Strip(SubSeq(buf, 1, end)))
      /\ buf' = SubSeq(buf, end + 1, Len(buf))
  BY DEF Yield
<1>2. /\ text \in Seq(Characters) /\ buf \in Seq(Characters) /\ said \in Seq(Seq(Characters))
      /\ Len(text) \in Nat /\ Len(buf) \in Nat /\ Len(said) \in Nat
      /\ c \in {0} \cup Matches(text) /\ c \in 0..Len(text)
      /\ Len(buf) = Len(text) - c /\ buf = SubSeq(text, c + 1, Len(text))
      /\ Count(text, c) \in Nat
  BY ReadFacts
<1>3. SentencesOut /\ Len(said) = Count(text, c)
  BY <1>1 DEF ReadInv, RestOut, Ended
<1>4. end \in Matches(buf) /\ end \in 1..Len(buf) /\ \A x \in Matches(buf) : end <= x
  <2>1. Matches(buf) \subseteq 1..Len(buf) /\ 1..Len(buf) \subseteq Nat
    BY <1>2 DEF Matches
  <2> QED
    BY <1>1, <2>1, MinIs
<1> HIDE DEF c, end
<1>5. m \in 1..Len(text) /\ c < m /\ m - c = end
  BY <1>2, <1>4
<1>6. m \in Matches(text)
  <2>1. end \in 1..(Len(text) - c)
    BY <1>2, <1>4
  <2> QED
    BY <1>2, <1>4, <2>1, MatchesOfRest
<1>7. \A i \in Matches(text) : i <= c \/ m <= i
  <2> SUFFICES ASSUME NEW i \in Matches(text), ~(i <= c) PROVE m <= i
    OBVIOUS
  <2>1. i \in 1..Len(text) /\ i - c \in 1..(Len(text) - c) /\ c + (i - c) = i
    <3>1. i \in 1..Len(text)
      BY <1>2 DEF Matches
    <3> QED
      BY <1>2, <3>1
  <2>2. i - c \in Matches(buf)
    BY <1>2, <2>1, MatchesOfRest
  <2>3. end <= i - c
    BY <1>4, <2>2
  <2> QED
    BY <1>2, <1>4, <2>1, <2>3
<1> HIDE DEF m
<1>8. Count(text, m) = Count(text, c) + 1 /\ LastBefore(text, m) = c
  BY <1>2, <1>5, <1>6, <1>7, NextMatch DEF Count
<1>9. SubSeq(buf, 1, end) = SubSeq(text, c + 1, m)
  <2> DEFINE u == SubSeq(buf, 0 + 1, end)
             v == SubSeq(text, c + 1, m)
  <2>1. /\ u \in Seq(Characters) /\ Len(u) = end - 0
        /\ \A k \in 1..(end - 0) : u[k] = buf[0 + k]
    <3>1. 0 \in 0..Len(buf) /\ end \in 0..Len(buf)
      BY <1>2, <1>4
    <3> QED
      BY <1>2, <3>1, Slice
  <2>2. v \in Seq(Characters) /\ Len(v) = m - c /\ \A k \in 1..(m - c) : v[k] = text[c + k]
    <3>1. m \in c..Len(text)
      BY <1>2, <1>5
    <3> QED
      BY <1>2, <3>1, Slice
  <2>3. \A k \in 1..(Len(text) - c) : buf[k] = text[c + k]
    <3>1. Len(text) \in c..Len(text)
      BY <1>2
    <3> QED
      BY <1>2, <3>1, Slice
  <2> HIDE DEF u, v
  <2>4. Len(u) = Len(v)
    BY <1>4, <1>5, <2>1, <2>2
  <2>5. ASSUME NEW k \in 1..Len(u) PROVE u[k] = v[k]
    <3>1. k \in 1..(end - 0) /\ k \in 1..(m - c) /\ k \in 1..(Len(text) - c) /\ 0 + k = k
      BY <1>2, <1>4, <1>5, <2>1, <2>5
    <3> QED
      BY <2>1, <2>2, <2>3, <3>1
  <2>6. u = v
    BY <2>1, <2>2, <2>4, <2>5, Equal
  <2> QED
    BY <2>6, 0 + 1 = 1 DEF u, v
<1>10. /\ Strip(SubSeq(text, c + 1, m)) = Sentence(text, m)
       /\ Sentence(text, m) \in Seq(Characters)
  <2>1. SubSeq(text, c + 1, m) \in Seq(Characters)
    <3>1. m \in c..Len(text)
      BY <1>2, <1>5
    <3> QED
      BY <1>2, <3>1, Slice
  <2> QED
    BY <1>8, <2>1, StripIs DEF Sentence
<1>11. /\ said' \in Seq(Seq(Characters)) /\ Len(said') = Len(said) + 1
       /\ said'[Len(said) + 1] = Sentence(text, m)
       /\ \A k \in 1..Len(said) : said'[k] = said[k]
  <2>1. said' = Append(said, Sentence(text, m))
    BY <1>1, <1>9, <1>10
  <2> QED
    BY <1>2, <1>10, <2>1
<1>12. /\ buf' \in Seq(Characters) /\ Len(buf') = Len(buf) - end
       /\ buf' = SubSeq(text, m + 1, Len(text))
  <2> DEFINE u == SubSeq(buf, end + 1, Len(buf))
             v == SubSeq(text, m + 1, Len(text))
  <2>1. /\ u \in Seq(Characters) /\ Len(u) = Len(buf) - end
        /\ \A k \in 1..(Len(buf) - end) : u[k] = buf[end + k]
    <3>1. end \in 0..Len(buf) /\ Len(buf) \in end..Len(buf)
      BY <1>2, <1>4
    <3> QED
      BY <1>2, <3>1, Slice
  <2>2. /\ v \in Seq(Characters) /\ Len(v) = Len(text) - m
        /\ \A k \in 1..(Len(text) - m) : v[k] = text[m + k]
    <3>1. m \in 0..Len(text) /\ Len(text) \in m..Len(text)
      BY <1>2, <1>5
    <3> QED
      BY <1>2, <3>1, Slice
  <2>3. \A k \in 1..(Len(text) - c) : buf[k] = text[c + k]
    <3>1. Len(text) \in c..Len(text)
      BY <1>2
    <3> QED
      BY <1>2, <3>1, Slice
  <2> HIDE DEF u, v
  <2>4. Len(u) = Len(v)
    BY <1>2, <1>4, <1>5, <2>1, <2>2
  <2>5. ASSUME NEW k \in 1..Len(u) PROVE u[k] = v[k]
    <3>1. /\ k \in 1..(Len(buf) - end) /\ k \in 1..(Len(text) - m)
          /\ end + k \in 1..(Len(text) - c) /\ c + (end + k) = m + k
      BY <1>2, <1>4, <1>5, <2>1, <2>4, <2>5
    <3> QED
      BY <2>1, <2>2, <2>3, <3>1
  <2>6. u = v
    BY <2>1, <2>2, <2>4, <2>5, Equal
  <2> QED
    BY <1>1, <2>1, <2>6 DEF u, v
<1>13. Taken' = m
  <2>1. Taken' = Len(text) - Len(buf')
    BY <1>1 DEF Taken
  <2> QED
    BY <1>2, <1>4, <1>5, <1>12, <2>1
<1>14. Position' /\ ReadTypes'
  BY <1>1, <1>2, <1>6, <1>11, <1>12, <1>13 DEF Position, ReadTypes
<1>15. SentencesOut'
  <2>1. ASSUME NEW j \in Matches(text), j <= m
        PROVE  Count(text, j) \in 1..Len(said') /\ said'[Count(text, j)] = Sentence(text, j)
    <3>1. CASE j <= c
      <4>1. Count(text, j) \in 1..Len(said) /\ said[Count(text, j)] = Sentence(text, j)
        BY <1>3, <3>1 DEF SentencesOut, c
      <4> QED
        BY <1>2, <1>11, <4>1
    <3>2. CASE ~(j <= c)
      <4>1. j = m
        <5>1. m <= j
          BY <1>7, <3>2
        <5>2. j \in 1..Len(text)
          BY <1>2 DEF Matches
        <5> QED
          BY <1>2, <1>5, <2>1, <5>1, <5>2
      <4>2. Count(text, j) = Len(said) + 1
        BY <1>3, <1>8, <4>1
      <4> QED
        BY <1>2, <1>11, <4>1, <4>2
    <3> QED
      BY <3>1, <3>2
  <2> QED
    BY <1>1, <1>13, <2>1 DEF SentencesOut
<1>16. RestOut' /\ Searched'
  BY <1>1, <1>3, <1>8, <1>11, <1>13 DEF RestOut, Ended, Searched
<1> QED
  BY <1>14, <1>15, <1>16 DEF ReadInv

(* The other steps of the generator only look at the buffer.               *)
LEMMA LookRead ==
  ASSUME ReadInv, UNCHANGED <<buf, text, said>>,
         \/ reader = "search" /\ reader' = "pull" /\ Matches(buf) = {}
         \/ reader = "pull" /\ reader' = "closed" /\ Solid(buf) = {}
         \/ reader = "yielded" /\ reader' = "search"
         \/ reader = "last" /\ reader' = "closed"
         \/ reader' = reader
  PROVE  ReadInv'
<1>1. ReadTypes' /\ Position' /\ SentencesOut'
  BY DEF ReadInv, ReadTypes, Position, SentencesOut, Taken
<1>2. Searched'
  BY DEF ReadInv, Searched
<1>3. RestOut'
  BY DEF ReadInv, RestOut, Ended, Taken
<1> QED
  BY <1>1, <1>2, <1>3 DEF ReadInv

LEMMA RestRead == ASSUME ReadInv, YieldRest PROVE ReadInv'
<1>1. /\ reader = "pull" /\ reader' = "last" /\ Solid(buf) # {} /\ UNCHANGED <<buf, text>>
      /\ said' = Append(said, Strip(buf))
  BY DEF YieldRest
<1>2. /\ buf \in Seq(Characters) /\ said \in Seq(Seq(Characters)) /\ Len(said) \in Nat
      /\ Strip(buf) \in Seq(Characters)
  BY ReadFacts, StripIs
<1>3. /\ said' \in Seq(Seq(Characters)) /\ Len(said') = Len(said) + 1
      /\ said'[Len(said) + 1] = Strip(buf)
      /\ \A k \in 1..Len(said) : said'[k] = said[k]
  BY <1>1, <1>2
<1>4. ReadTypes' /\ Position'
  BY <1>1, <1>3 DEF ReadInv, ReadTypes, Position, Taken
<1>5. SentencesOut'
  <2>1. ASSUME NEW j \in Matches(text), j <= Taken
        PROVE  Count(text, j) \in 1..Len(said') /\ said'[Count(text, j)] = Sentence(text, j)
    <3>1. Count(text, j) \in 1..Len(said) /\ said[Count(text, j)] = Sentence(text, j)
      BY <2>1 DEF ReadInv, SentencesOut
    <3> QED
      BY <1>2, <1>3, <3>1
  <2> QED
    BY <1>1, <2>1 DEF SentencesOut, Taken
<1>6. Searched'
  BY <1>1 DEF ReadInv, Searched
<1>7. RestOut'
  <2>1. Len(said) = Count(text, Taken)
    BY <1>1 DEF ReadInv, RestOut, Ended
  <2> QED
    BY <1>1, <1>3, <2>1 DEF RestOut, Ended, Taken
<1> QED
  BY <1>4, <1>5, <1>6, <1>7 DEF ReadInv

LEMMA NextRead == ReadInv /\ [SpeakingNext]_speakingVars => ReadInv'
<1> SUFFICES ASSUME ReadInv, [SpeakingNext]_speakingVars PROVE ReadInv'
  OBVIOUS
<1>1. CASE Pull
  BY <1>1, PullRead
<1>2. CASE Yield
  BY <1>2, YieldRead
<1>3. CASE YieldRest
  BY <1>3, RestRead
<1>4. CASE NoMatch \/ NoRest \/ Resume \/ UNCHANGED sentenceVars
  BY <1>4, LookRead DEF NoMatch, NoRest, Resume, Yielded, sentenceVars
<1>5. CASE NextReply
  BY <1>5, EmptyRead DEF NextReply
<1> QED
  BY <1>1, <1>2, <1>3, <1>4, <1>5
  DEF SpeakingNext, Streaming, Iterate, Synthesizing, Spoken, TurnOver, PickingVoice,
      speakingVars

(***************************************************************************)
(* Sentences: what the invariant says of the sentences                     *)
(***************************************************************************)
(* The operators of the property are these of the text.                    *)
LEMMA OfText ==
  ASSUME text \in Seq(Characters)
  PROVE  /\ Cuts = Matches(text)
         /\ \A j : Nth(j) = Count(text, j)
         /\ \A j : Piece(j) = Sentence(text, j)
<1>1. Cuts = Matches(text)
  BY CutsMatch
<1>2. \A j : Nth(j) = Count(text, j)
  BY <1>1, Zenon DEF Nth, Count, Upto
<1>3. \A j : Piece(j) = Sentence(text, j)
  BY <1>1, Zenon DEF Piece, Sentence, LastBefore
<1> QED
  BY <1>1, <1>2, <1>3

(* Once the buffer holds no end of a sentence it is the rest of the text.  *)
LEMMA SearchedRest ==
  ASSUME ReadInv, Matches(buf) = {}
  PROVE  /\ \A j \in Matches(text) : j <= Taken
         /\ Count(text, Taken) = Cardinality(Matches(text))
         /\ Rest = Strip(buf)
<1>1. /\ text \in Seq(Characters) /\ Len(text) \in Nat /\ Len(buf) = Len(text) - Taken
      /\ Taken \in {0} \cup Matches(text) /\ Taken \in 0..Len(text)
      /\ buf = SubSeq(text, Taken + 1, Len(text))
  BY ReadFacts
<1>2. ASSUME NEW j \in Matches(text) PROVE j <= Taken
  <2> SUFFICES ASSUME ~(j <= Taken) PROVE FALSE
    OBVIOUS
  <2>1. j \in 1..Len(text)
    BY <1>1 DEF Matches
  <2>2. j - Taken \in 1..(Len(text) - Taken) /\ Taken + (j - Taken) = j
    BY <1>1, <2>1
  <2>3. j - Taken \in Matches(buf)
    BY <1>1, <2>2, MatchesOfRest
  <2> QED
    BY <2>3
<1>3. Upto(text, Taken) = Matches(text)
  BY <1>2 DEF Upto
<1> DEFINE P == {0} \cup Matches(text)
<1>4. P \in SUBSET (0..Len(text)) /\ P # {}
  <2>1. Matches(text) \subseteq 1..Len(text)
    BY <1>1 DEF Matches
  <2> QED
    BY <1>1, <2>1
<1>5. Max(P) \in P /\ \A x \in P : x <= Max(P)
  BY <1>1, <1>4, MaxIs
<1>6. Taken \in P /\ \A x \in P : x \in Nat /\ x <= Taken
  BY <1>1, <1>2, <1>4
<1> HIDE DEF P
<1>7. Max(P) = Taken
  <2>1. Max(P) \in Nat /\ Max(P) <= Taken /\ Taken \in Nat /\ Taken <= Max(P)
    BY <1>5, <1>6
  <2> QED
    BY <2>1
<1>8. Rest = Strip(SubSeq(text, Taken + 1, Len(text)))
  BY <1>1, <1>7, CutsMatch DEF Rest, P
<1> QED
  BY <1>1, <1>2, <1>3, <1>8 DEF Count

LEMMA SentencesAsCut ==
  ASSUME ReadInv
  PROVE  LET n == Cardinality(Cuts)
         IN  /\ reader = "pull" => Len(said) = n
             /\ reader \in {"last", "closed"} =>
                  Len(said) = n + (IF Rest = << >> THEN 0 ELSE 1)
             /\ \A j \in Cuts : Nth(j) \in DOMAIN said => said[Nth(j)] = Piece(j)
             /\ \A k \in DOMAIN said : k > n => k = n + 1 /\ said[k] = Rest
<1> DEFINE n == Cardinality(Matches(text))
           c == Taken
           more == Ended /\ Solid(buf) # {}
<1>1. /\ text \in Seq(Characters) /\ buf \in Seq(Characters) /\ said \in Seq(Seq(Characters))
      /\ Len(text) \in Nat /\ Len(said) \in Nat /\ c \in 0..Len(text)
      /\ Count(text, c) \in Nat
  BY ReadFacts
<1>2. Count(text, c) <= n /\ n \in Nat
  <2>1. c \in Nat /\ c <= c
    BY <1>1
  <2>2. IsFiniteSet(Matches(text)) /\ Upto(text, c) \subseteq Matches(text)
    BY <1>1, <2>1, CountUpto DEF Upto
  <2>3. Cardinality(Upto(text, c)) <= n /\ n \in Nat
    BY <2>2, FS_Subset, FS_CardinalityType
  <2> QED
    BY <2>3 DEF Count
<1>3. reader \in {"pull", "last", "closed"} =>
        Count(text, c) = n /\ Rest = Strip(buf) /\ \A j \in Matches(text) : j <= c
  BY SearchedRest DEF ReadInv, Searched
<1>4. Strip(buf) = << >> <=> Solid(buf) = {}
  <2>1. CASE Solid(buf) = {}
    BY <1>1, <2>1, StripIs
  <2>2. CASE Solid(buf) # {}
    <3>1. Len(Strip(buf)) = Max(Solid(buf)) - Min(Solid(buf)) + 1
      BY <1>1, <2>2, StripIs
    <3>2. Min(Solid(buf)) \in 1..Len(buf) /\ Max(Solid(buf)) \in Min(Solid(buf))..Len(buf)
      BY <1>1, <2>2, StripIs
    <3>3. Len(Strip(buf)) # 0
      BY <1>1, <3>1, <3>2
    <3> QED
      BY <2>2, <3>3
  <2> QED
    BY <2>1, <2>2
<1>5. /\ more => Len(said) = Count(text, c) + 1 /\ said[Len(said)] = Strip(buf)
      /\ ~more => Len(said) = Count(text, c)
  BY DEF ReadInv, RestOut
<1> HIDE DEF c, n
<1>6. reader = "pull" => Len(said) = n
  BY <1>3, <1>5 DEF Ended
<1>7. reader \in {"last", "closed"} => Len(said) = n + (IF Rest = << >> THEN 0 ELSE 1)
  BY <1>1, <1>3, <1>4, <1>5 DEF Ended
<1>8. ASSUME NEW j \in Matches(text), Count(text, j) \in 1..Len(said)
      PROVE  said[Count(text, j)] = Sentence(text, j)
  <2>1. CASE j <= c
    BY <2>1 DEF ReadInv, SentencesOut, c
  <2>2. CASE ~(j <= c)
    <3>1. j \in 1..Len(text)
      BY <1>1 DEF Matches
    <3>2. c \in Nat /\ j \in Nat /\ c <= j
      BY <1>1, <2>2, <3>1
    <3>3. /\ Count(text, c) <= Count(text, j) /\ Count(text, j) \in Nat
          /\ Count(text, c) = Count(text, j) => Upto(text, c) = Upto(text, j)
      BY <1>1, <3>2, CountUpto DEF Count
    <3>4. j \in Upto(text, j) /\ j \notin Upto(text, c)
      BY <2>2, <3>1 DEF Upto
    <3>5. ~more
      BY <1>3, <2>2 DEF Ended
    <3> QED
      BY <1>1, <1>5, <1>8, <3>3, <3>4, <3>5
  <2> QED
    BY <2>1, <2>2
<1>9. ASSUME NEW k \in 1..Len(said), k > n
      PROVE  k = n + 1 /\ said[k] = Rest
  <2>1. more
    BY <1>1, <1>2, <1>5, <1>9
  <2>2. Count(text, c) = n /\ Rest = Strip(buf)
    BY <1>3, <2>1 DEF Ended
  <2>3. k = Len(said) /\ Len(said) = n + 1
    BY <1>1, <1>2, <1>5, <1>9, <2>1, <2>2
  <2> QED
    BY <1>5, <2>1, <2>2, <2>3
<1>10. DOMAIN said = 1..Len(said)
  BY <1>1
<1>11. Cardinality(Cuts) = n /\ Cuts = Matches(text)
  BY <1>1, OfText DEF n
<1>12. ASSUME NEW j \in Cuts, Nth(j) \in DOMAIN said PROVE said[Nth(j)] = Piece(j)
  <2>1. Nth(j) = Count(text, j) /\ Piece(j) = Sentence(text, j)
    BY <1>1, OfText
  <2> QED
    BY <1>8, <1>10, <1>11, <1>12, <2>1
<1> HIDE DEF more
<1> QED
  BY <1>6, <1>7, <1>9, <1>10, <1>11, <1>12

(***************************************************************************)
(* Sentences: what the invariant says of the words                         *)
(***************************************************************************)
(* How far before its first word a part of a text begins.                  *)
Lead(s, c, d) == c + Min(Solid(SubSeq(s, c + 1, d))) - 1

LEMMA LeadIs ==
  ASSUME NEW s \in Seq(Characters), NEW c \in 0..Len(s), NEW d \in c..Len(s),
         Solid(SubSeq(s, c + 1, d)) # {}
  PROVE  LET y == Strip(SubSeq(s, c + 1, d))
             b == Lead(s, c, d)
         IN  /\ b \in c..(d - 1) /\ y \in Seq(Characters) /\ Len(y) \in 1..(d - b)
             /\ \A i \in 1..Len(y) : y[i] = s[b + i]
             /\ \A w \in Solid(s) : c < w /\ w <= d => w - b \in 1..Len(y)
             /\ b + 1 \in Solid(s)
<1> DEFINE x == SubSeq(s, c + 1, d)
           y == Strip(x)
           b == Lead(s, c, d)
           lo == Min(Solid(x))
           hi == Max(Solid(x))
<1>1. Len(s) \in Nat /\ c \in Nat /\ d \in Nat /\ c <= d /\ d <= Len(s) /\ DOMAIN s = 1..Len(s)
  OBVIOUS
<1>2. x \in Seq(Characters) /\ Len(x) = d - c /\ \A k \in 1..(d - c) : x[k] = s[c + k]
  BY Slice
<1> HIDE DEF x
<1>3. Solid(x) # {}
  BY DEF x
<1>4. /\ lo \in Solid(x) /\ hi \in Solid(x) /\ Solid(x) \subseteq lo..hi
      /\ lo \in 1..Len(x) /\ hi \in lo..Len(x)
      /\ Len(y) = hi - lo + 1 /\ \A k \in 1..(hi - lo + 1) : y[k] = x[lo + k - 1]
      /\ y \in Seq(Characters)
  BY <1>2, <1>3, StripIs
<1>5. b = c + lo - 1
  BY DEF Lead, x
<1> HIDE DEF b, lo, hi, y
<1>6. b \in c..(d - 1) /\ Len(y) \in 1..(d - b)
  BY <1>1, <1>2, <1>4, <1>5
<1>7. ASSUME NEW i \in 1..Len(y) PROVE y[i] = s[b + i]
  <2>1. /\ i \in 1..(hi - lo + 1) /\ lo + i - 1 \in 1..(d - c) /\ c + (lo + i - 1) = b + i
    BY <1>1, <1>2, <1>4, <1>5
  <2> QED
    BY <1>2, <1>4, <2>1
<1>8. ASSUME NEW w \in Solid(s), c < w, w <= d PROVE w - b \in 1..Len(y)
  <2>1. w \in 1..Len(s) /\ s[w] # "space"
    BY <1>1 DEF Solid
  <2>2. w - c \in 1..(d - c) /\ c + (w - c) = w
    BY <1>1, <1>8, <2>1
  <2>3. w - c \in Solid(x)
    <3>1. x[w - c] = s[w] /\ DOMAIN x = 1..(d - c)
      BY <1>2, <2>2
    <3> QED
      BY <2>1, <2>2, <3>1 DEF Solid
  <2>4. w - c \in lo..hi
    BY <1>4, <2>3
  <2> QED
    BY <1>1, <1>2, <1>4, <1>5, <2>1, <2>4
<1>9. b + 1 \in Solid(s)
  <2>1. x[lo] # "space" /\ lo \in 1..(d - c) /\ c + lo = b + 1 /\ b + 1 \in 1..Len(s)
    <3>1. x[lo] # "space"
      BY <1>4 DEF Solid
    <3> QED
      BY <1>1, <1>2, <1>4, <1>5, <3>1
  <2>2. x[lo] = s[b + 1]
    BY <1>2, <2>1
  <2> QED
    BY <1>1, <2>1, <2>2 DEF Solid
<1> QED
  BY <1>4, <1>6, <1>7, <1>8, <1>9 DEF b, y, x

LEMMA IsWord ==
  ASSUME NEW s, NEW w \in Solid(s), w = 1 \/ w - 1 \notin Solid(s)
  PROVE  w \in Words(s)
BY DEF Words

(* The words of a piece that follows a sentence are the words of the text  *)
(* that begin in it.                                                       *)
LEMMA WordsOfPart ==
  ASSUME NEW s \in Seq(Characters), NEW c \in {0} \cup Matches(s), NEW d \in c..Len(s),
         c <= Len(s), Solid(SubSeq(s, c + 1, d)) # {}
  PROVE  LET y == Strip(SubSeq(s, c + 1, d))
             b == Lead(s, c, d)
         IN  /\ \A i \in Words(y) : b + i \in Words(s) /\ c < b + i /\ b + i <= d /\ i \in Nat
             /\ \A w \in Words(s) : c < w /\ w <= d => w - b \in Words(y)
             /\ b \in Nat
<1> DEFINE y == Strip(SubSeq(s, c + 1, d))
           b == Lead(s, c, d)
<1>1. /\ Len(s) \in Nat /\ c \in 0..Len(s) /\ d \in Nat /\ c <= d /\ d <= Len(s)
      /\ DOMAIN s = 1..Len(s)
  BY DEF Matches
<1>2. c > 0 => c \notin Solid(s)
  BY DEF Matches, Solid
<1>3. /\ b \in c..(d - 1) /\ y \in Seq(Characters) /\ Len(y) \in 1..(d - b)
      /\ \A i \in 1..Len(y) : y[i] = s[b + i]
      /\ \A w \in Solid(s) : c < w /\ w <= d => w - b \in 1..Len(y)
      /\ b + 1 \in Solid(s)
  BY <1>1, LeadIs
<1> HIDE DEF y, b
<1>4. DOMAIN y = 1..Len(y) /\ Len(y) \in Nat /\ b \in Nat
  BY <1>1, <1>3
<1>5. ASSUME NEW i \in 1..Len(y)
      PROVE  /\ i \in Solid(y) <=> b + i \in Solid(s)
             /\ b + i \in 1..Len(s) /\ c < b + i /\ b + i <= d
  <2>1. b + i \in 1..Len(s) /\ c < b + i /\ b + i <= d
    BY <1>1, <1>3
  <2>2. y[i] = s[b + i]
    BY <1>3
  <2> QED
    BY <1>1, <1>4, <2>1, <2>2 DEF Solid
<1>6. b # 0 => b \notin Solid(s)
  <2>1. CASE b = c
    BY <1>1, <1>2, <1>4, <2>1
  <2>2. CASE b # c
    <3>1. c < b /\ b <= d /\ ~(b - b \in 1..Len(y))
      BY <1>1, <1>3, <2>2
    <3> QED
      BY <1>3, <3>1
  <2> QED
    BY <2>1, <2>2
<1>7. ASSUME NEW i \in Words(y)
      PROVE  b + i \in Words(s) /\ c < b + i /\ b + i <= d /\ i \in Nat
  <2>1. i \in 1..Len(y) /\ i \in Solid(y) /\ (i = 1 \/ i - 1 \notin Solid(y))
    BY <1>4 DEF Words, Solid
  <2> DEFINE w == b + i
  <2>2. w \in Solid(s) /\ c < w /\ w <= d /\ w \in Nat /\ i \in Nat
    BY <1>4, <1>5, <2>1
  <2> HIDE DEF w
  <2>3. ASSUME i = 1 PROVE w \in Words(s)
    <3>1. w - 1 = b /\ (b = 0 => w = 1)
      BY <1>4, <2>3 DEF w
    <3> QED
      BY <1>6, <2>2, <3>1, IsWord
  <2>4. ASSUME i # 1 PROVE w \in Words(s)
    <3>1. i - 1 \in 1..Len(y) /\ b + (i - 1) = w - 1
      BY <1>4, <2>1, <2>4 DEF w
    <3>2. w - 1 \notin Solid(s)
      BY <1>5, <2>1, <2>4, <3>1
    <3> QED
      BY <2>2, <3>2, IsWord
  <2>5. w \in Words(s)
    BY <2>3, <2>4
  <2> QED
    BY <2>2, <2>5 DEF w
<1>8. ASSUME NEW w \in Words(s), c < w, w <= d PROVE w - b \in Words(y)
  <2>1. w \in Solid(s) /\ w \in 1..Len(s) /\ (w = 1 \/ w - 1 \notin Solid(s))
    BY <1>1 DEF Words, Solid
  <2> DEFINE i == w - b
  <2>2. i \in 1..Len(y) /\ b + i = w
    BY <1>3, <1>4, <1>8, <2>1
  <2> HIDE DEF i
  <2>3. i \in Solid(y)
    BY <1>5, <2>1, <2>2
  <2>4. i = 1 \/ i - 1 \notin Solid(y)
    <3> SUFFICES ASSUME i # 1 PROVE i - 1 \notin Solid(y)
      OBVIOUS
    <3>1. i - 1 \in 1..Len(y) /\ b + (i - 1) = w - 1 /\ w # 1
      BY <1>4, <2>1, <2>2
    <3> QED
      BY <1>5, <2>1, <3>1
  <2> QED
    BY <2>3, <2>4 DEF i, Words
<1> QED
  BY <1>4, <1>7, <1>8 DEF y, b

(* The piece that follows a sentence ends with the next, or with the text. *)
EndOf(s, c) == Min({i \in Matches(s) : i > c} \cup {Len(s)})

LEMMA EndIs ==
  ASSUME NEW s \in Seq(Characters), NEW c \in {0} \cup Matches(s)
  PROVE  /\ c \in 0..Len(s) /\ EndOf(s, c) \in c..Len(s)
         /\ \A i \in Matches(s) : i <= c \/ EndOf(s, c) <= i
         /\ (\E i \in Matches(s) : c < i) => EndOf(s, c) \in Matches(s) /\ c < EndOf(s, c)
         /\ ~(\E i \in Matches(s) : c < i) => EndOf(s, c) = Len(s)
<1> DEFINE P == {i \in Matches(s) : i > c} \cup {Len(s)}
           e == EndOf(s, c)
<1>1. Matches(s) \subseteq 1..Len(s) /\ Len(s) \in Nat /\ c \in 0..Len(s)
  BY DEF Matches
<1>2. P \in SUBSET Nat /\ P # {} /\ Len(s) \in P
  BY <1>1
<1>3. \A i \in P : i \in c..Len(s) /\ (i = Len(s) \/ (i \in Matches(s) /\ c < i))
  BY <1>1
<1>4. \A i \in Matches(s) : i <= c \/ i \in P
  BY <1>1
<1> HIDE DEF P
<1>5. e \in P /\ \A i \in P : e <= i
  <2>1. e = Min(P)
    BY Zenon DEF EndOf, P
  <2> HIDE DEF e
  <2> QED
    BY <1>2, <2>1, MinIs
<1> HIDE DEF e
<1>6. e \in c..Len(s)
  BY <1>3, <1>5
<1>7. ASSUME NEW i \in Matches(s), c < i PROVE e \in Matches(s) /\ c < e
  <2>1. i \in P /\ i \in 1..Len(s)
    <3>1. i \in 1..Len(s)
      BY <1>1
    <3> QED
      BY <1>1, <1>4, <1>7, <3>1
  <2>2. CASE e = Len(s)
    <3>1. e <= i
      BY <1>5, <2>1
    <3>2. i = e
      BY <1>1, <2>1, <2>2, <3>1
    <3> QED
      BY <1>7, <3>2
  <2> QED
    BY <1>3, <1>5, <2>2
<1>8. ASSUME ~(\E i \in Matches(s) : c < i) PROVE e = Len(s)
  BY <1>3, <1>5, <1>8
<1> QED
  BY <1>1, <1>4, <1>5, <1>6, <1>7, <1>8 DEF e

(* There is a sentence of every number up to the last.                     *)
LEMMA NumberOf ==
  ASSUME NEW s \in Seq(Characters), NEW d \in {0} \cup Matches(s), NEW k \in 0..Count(s, d)
  PROVE  \E c \in {0} \cup Matches(s) : Count(s, c) = k
<1>1. Matches(s) \subseteq 1..Len(s) /\ Len(s) \in Nat /\ d \in 0..Len(s)
  BY DEF Matches
<1>2. \A i \in {0} \cup Matches(s) : Count(s, i) \in Nat
  <2> TAKE i \in {0} \cup Matches(s)
  <2>1. i \in Nat /\ i <= i
    BY <1>1
  <2> QED
    BY <2>1, CountUpto DEF Count
<1>3. Count(s, 0) = 0
  <2>1. Upto(s, 0) = {}
    BY <1>1 DEF Upto
  <2> QED
    BY <2>1, FS_EmptySet DEF Count
<1>4. CASE k = 0
  BY <1>3, <1>4
<1>5. CASE k # 0
  <2> DEFINE P == {i \in Matches(s) : Count(s, i) >= k}
             j == Min(P)
  <2>1. P \in SUBSET Nat /\ P # {}
    <3>1. d \in P
      BY <1>2, <1>3, <1>5
    <3> QED
      BY <1>1, <3>1
  <2>2. j \in P /\ \A i \in P : j <= i
    BY <2>1, MinIs
  <2> HIDE DEF j
  <2>3. j \in Matches(s) /\ j \in 1..Len(s) /\ Count(s, j) >= k
    BY <1>1, <2>2
  <2> DEFINE c == LastBefore(s, j)
             Q == {0} \cup {i \in Matches(s) : i < j}
  <2>4. Q \in SUBSET (0..Len(s)) /\ Q # {}
    BY <1>1
  <2>5. c \in Q /\ \A i \in Q : i <= c
    BY <1>1, <2>4, MaxIs DEF LastBefore
  <2> HIDE DEF c
  <2>6. c \in {0} \cup Matches(s) /\ c < j /\ c \in Nat
    BY <1>1, <2>3, <2>5
  <2>7. \A i \in Matches(s) : i <= c \/ j <= i
    BY <1>1, <2>3, <2>5
  <2>8. Count(s, j) = Count(s, c) + 1
    BY <2>3, <2>6, <2>7, NextMatch DEF Count
  <2>9. Count(s, c) < k
    <3>1. CASE c = 0
      BY <1>3, <1>5, <3>1
    <3>2. CASE c \in Matches(s)
      <4>1. c \notin P
        BY <2>2, <2>3, <2>6
      <4> QED
        BY <1>2, <2>6, <3>2, <4>1
    <3> QED
      BY <2>6, <3>1, <3>2
  <2>10. Count(s, c) \in Nat /\ Count(s, j) = k
    BY <1>2, <2>3, <2>6, <2>8, <2>9
  <2> QED
    BY <2>3, <2>10
<1> QED
  BY <1>4, <1>5

(* At the end of the reply each piece is out under its number, the rest    *)
(* only if there is something in it.                                       *)
LEMMA PieceOut ==
  ASSUME ReadInv, Matches(buf) = {}, Ended, NEW c \in {0} \cup Matches(text)
  PROVE  LET x == SubSeq(text, c + 1, EndOf(text, c))
             k == Count(text, c) + 1
         IN  /\ Solid(x) # {} => k \in 1..Len(said) /\ said[k] = Strip(x)
             /\ k \in 1..Len(said) => said[k] = Strip(x)
<1> DEFINE x == SubSeq(text, c + 1, EndOf(text, c))
           k == Count(text, c) + 1
           e == EndOf(text, c)
<1>1. /\ text \in Seq(Characters) /\ buf \in Seq(Characters) /\ said \in Seq(Seq(Characters))
      /\ Len(text) \in Nat /\ Len(said) \in Nat
      /\ Taken \in {0} \cup Matches(text) /\ Taken \in 0..Len(text)
      /\ buf = SubSeq(text, Taken + 1, Len(text))
      /\ Count(text, Taken) \in Nat
  BY ReadFacts
<1>2. \A j \in Matches(text) : j <= Taken
  BY SearchedRest
<1>3. /\ c \in 0..Len(text) /\ e \in c..Len(text)
      /\ \A i \in Matches(text) : i <= c \/ e <= i
      /\ (\E i \in Matches(text) : c < i) => e \in Matches(text) /\ c < e
      /\ ~(\E i \in Matches(text) : c < i) => e = Len(text)
  BY <1>1, EndIs
<1>4. CASE c < Taken
  <2>1. e \in Matches(text) /\ c < e
    BY <1>1, <1>3, <1>4
  <2>2. Count(text, e) = k /\ LastBefore(text, e) = c
    BY <1>1, <1>3, <2>1, NextMatch DEF Count
  <2>3. Count(text, e) \in 1..Len(said) /\ said[Count(text, e)] = Sentence(text, e)
    BY <1>2, <2>1 DEF ReadInv, SentencesOut
  <2>4. Sentence(text, e) = Strip(x)
    BY <2>2 DEF Sentence
  <2> QED
    BY <2>2, <2>3, <2>4
<1>5. CASE ~(c < Taken)
  <2>1. c = Taken
    <3>1. c <= Taken
      BY <1>1, <1>2
    <3> QED
      BY <1>1, <1>3, <1>5, <3>1
  <2>2. e = Len(text)
    BY <1>1, <1>2, <1>3, <2>1
  <2>3. x = buf /\ k = Count(text, Taken) + 1
    BY <1>1, <2>1, <2>2
  <2>4. /\ Solid(buf) # {} => Len(said) = Count(text, Taken) + 1 /\ said[Len(said)] = Strip(buf)
        /\ Solid(buf) = {} => Len(said) = Count(text, Taken)
    BY DEF ReadInv, RestOut
  <2> HIDE DEF x, k
  <2>5. ASSUME Solid(buf) # {} PROVE k \in 1..Len(said) /\ said[k] = Strip(x)
    BY <1>1, <2>3, <2>4, <2>5
  <2>6. ASSUME Solid(buf) = {} PROVE k \notin 1..Len(said) /\ Solid(x) = {}
    BY <1>1, <2>3, <2>4, <2>6
  <2> QED
    BY <2>5, <2>6 DEF x, k
<1> QED
  BY <1>4, <1>5

(* No two sentences have the same number.                                  *)
LEMMA SameCount ==
  ASSUME NEW s \in Seq(Characters), NEW c \in {0} \cup Matches(s), NEW d \in {0} \cup Matches(s),
         Count(s, c) = Count(s, d)
  PROVE  c = d
<1>1. c \in Nat /\ d \in Nat /\ Matches(s) \subseteq Nat /\ 0 \notin Matches(s)
  BY DEF Matches
<1>2. ASSUME NEW a \in {0} \cup Matches(s), NEW b \in {0} \cup Matches(s), a < b,
             Count(s, a) = Count(s, b)
      PROVE  FALSE
  <2>1. a \in Nat /\ b \in Nat /\ a <= b
    BY <1>1, <1>2
  <2>2. Upto(s, a) = Upto(s, b)
    BY <1>2, <2>1, CountUpto DEF Count
  <2>3. b \in Matches(s)
    BY <1>2, <2>1
  <2> QED
    BY <1>2, <2>1, <2>2, <2>3 DEF Upto
<1> QED
  BY <1>1, <1>2

(* A place belongs to the piece of the last sentence that ended before it. *)
LEMMA PlaceIn ==
  ASSUME NEW s \in Seq(Characters), NEW w \in Solid(s)
  PROVE  LET c == LastBefore(s, w)
         IN  /\ c \in {0} \cup Matches(s) /\ c \in Nat /\ c < w /\ w <= EndOf(s, c)
             /\ w \in 1..Len(s) /\ Upto(s, w) = Upto(s, c)
             /\ \A i \in {0} \cup Matches(s) : i < w /\ w <= EndOf(s, i) => i = c
<1> DEFINE Q == {0} \cup {i \in Matches(s) : i < w}
           c == LastBefore(s, w)
<1>1. Matches(s) \subseteq 1..Len(s) /\ Len(s) \in Nat /\ w \in 1..Len(s)
  BY DEF Matches, Solid
<1>2. w \notin Matches(s)
  BY DEF Matches, Solid
<1>3. Q \in SUBSET (0..Len(s)) /\ Q # {}
  BY <1>1
<1>4. c \in Q /\ \A i \in Q : i <= c
  BY <1>1, <1>3, MaxIs DEF LastBefore
<1> HIDE DEF c
<1>5. c \in {0} \cup Matches(s) /\ c \in Nat /\ c < w
  BY <1>1, <1>4
<1>6. \A i \in {0} \cup Matches(s) : i \in Nat /\ (i <= c \/ w < i)
  BY <1>1, <1>2, <1>4, <1>5
<1>7. w <= EndOf(s, c)
  <2>1. /\ (\E i \in Matches(s) : c < i) => EndOf(s, c) \in Matches(s) /\ c < EndOf(s, c)
        /\ ~(\E i \in Matches(s) : c < i) => EndOf(s, c) = Len(s)
        /\ EndOf(s, c) \in c..Len(s)
    BY <1>5, EndIs
  <2> QED
    BY <1>1, <1>5, <1>6, <2>1
<1>8. Upto(s, w) = Upto(s, c)
  BY <1>1, <1>5, <1>6 DEF Upto
<1>9. ASSUME NEW i \in {0} \cup Matches(s), i < w, w <= EndOf(s, i) PROVE i = c
  <2>1. i <= c /\ i \in Nat
    BY <1>1, <1>6, <1>9
  <2>2. /\ \A j \in Matches(s) : j <= i \/ EndOf(s, i) <= j
        /\ EndOf(s, i) \in i..Len(s)
    BY <1>9, EndIs
  <2>3. CASE c \in Matches(s)
    <3>1. ~(EndOf(s, i) <= c)
      BY <1>1, <1>5, <1>9, <2>1, <2>2
    <3> QED
      BY <1>5, <2>1, <2>2, <2>3, <3>1
  <2>4. CASE c = 0
    BY <2>1, <2>4
  <2> QED
    BY <1>5, <2>3, <2>4
<1> QED
  BY <1>1, <1>5, <1>7, <1>8, <1>9 DEF c

(* As many words are said as the text has: a word of the text is the same  *)
(* word of the piece it begins in.                                         *)
LEMMA WordsAsMany ==
  ASSUME ReadInv, reader = "closed"
  PROVE  Cardinality(WordsSaid) = Cardinality(Words(text))
<1> DEFINE At(w) == LastBefore(text, w)
           X(c) == SubSeq(text, c + 1, EndOf(text, c))
           B(c) == Lead(text, c, EndOf(text, c))
           P(w) == <<Count(text, At(w)) + 1, w - B(At(w))>>
           F == [w \in Words(text) |-> P(w)]
<1>1. /\ text \in Seq(Characters) /\ said \in Seq(Seq(Characters)) /\ DOMAIN said = 1..Len(said)
      /\ Len(text) \in Nat /\ Len(said) \in Nat
      /\ Taken \in {0} \cup Matches(text) /\ Count(text, Taken) \in Nat
  BY ReadFacts
<1>2. Matches(buf) = {} /\ Ended
  BY DEF ReadInv, Searched, Ended
<1>3. Words(text) \subseteq 1..Len(text) /\ IsFiniteSet(Words(text))
  <2>1. Words(text) \subseteq 1..Len(text)
    BY <1>1 DEF Words, Solid
  <2>2. IsFiniteSet(1..Len(text))
    BY <1>1, FS_Interval
  <2> QED
    BY <2>1, <2>2, FS_Subset
<1>4. ASSUME NEW c \in {0} \cup Matches(text)
      PROVE  /\ c \in Nat /\ EndOf(text, c) \in c..Len(text) /\ c <= Len(text)
             /\ Count(text, c) \in Nat
             /\ Solid(X(c)) # {} =>
                  Count(text, c) + 1 \in 1..Len(said) /\ said[Count(text, c) + 1] = Strip(X(c))
             /\ Count(text, c) + 1 \in 1..Len(said) => said[Count(text, c) + 1] = Strip(X(c))
  <2>1. c \in 0..Len(text) /\ EndOf(text, c) \in c..Len(text)
    BY <1>1, EndIs
  <2>2. c \in Nat /\ c <= c /\ c <= Len(text)
    BY <1>1, <2>1
  <2>3. Count(text, c) \in Nat
    BY <1>1, <2>2, CountUpto DEF Count
  <2> QED
    BY <1>2, <2>1, <2>2, <2>3, PieceOut
<1>5. ASSUME NEW c \in {0} \cup Matches(text), Solid(X(c)) # {}
      PROVE  /\ \A i \in Words(Strip(X(c))) :
                  B(c) + i \in Words(text) /\ c < B(c) + i /\ B(c) + i <= EndOf(text, c) /\ i \in Nat
             /\ \A w \in Words(text) : c < w /\ w <= EndOf(text, c) => w - B(c) \in Words(Strip(X(c)))
             /\ B(c) \in Nat
  BY <1>1, <1>4, <1>5, WordsOfPart
<1>6. ASSUME NEW w \in Words(text)
      PROVE  /\ At(w) \in {0} \cup Matches(text) /\ At(w) < w /\ w <= EndOf(text, At(w))
             /\ \A i \in {0} \cup Matches(text) : i < w /\ w <= EndOf(text, i) => i = At(w)
             /\ w \in Nat /\ Solid(X(At(w))) # {}
  <2>1. w \in Solid(text) /\ w \in 1..Len(text)
    BY <1>3 DEF Words
  <2>2. /\ At(w) \in {0} \cup Matches(text) /\ At(w) < w /\ w <= EndOf(text, At(w))
        /\ \A i \in {0} \cup Matches(text) : i < w /\ w <= EndOf(text, i) => i = At(w)
    BY <1>1, <2>1, PlaceIn
  <2> DEFINE c == At(w)
             x == X(c)
             e == EndOf(text, c)
  <2>3. c \in 0..Len(text) /\ e \in c..Len(text) /\ c < w /\ w <= e
    <3>1. c \in {0} \cup Matches(text) /\ c < w /\ w <= e
      BY <2>2
    <3> HIDE DEF c
    <3> QED
      BY <1>1, <3>1, EndIs
  <2>4. x \in Seq(Characters) /\ Len(x) = e - c /\ \A k \in 1..(e - c) : x[k] = text[c + k]
    BY <1>1, <2>3, Slice
  <2> HIDE DEF c, x, e
  <2>5. w - c \in 1..(e - c) /\ c + (w - c) = w /\ DOMAIN x = 1..(e - c)
    BY <1>1, <2>1, <2>3, <2>4
  <2>6. w - c \in Solid(x)
    <3>1. x[w - c] = text[w]
      BY <2>4, <2>5
    <3> QED
      BY <2>1, <2>5, <3>1 DEF Solid
  <2>7. Solid(x) # {}
    BY <2>6
  <2> QED
    BY <2>1, <2>2, <2>7 DEF x, c
<1> HIDE DEF At, X, B
<1>7. ASSUME NEW w \in Words(text) PROVE P(w) \in WordsSaid
  <2> DEFINE k == Count(text, At(w)) + 1
  <2>1. k \in 1..Len(said) /\ said[k] = Strip(X(At(w)))
    BY <1>4, <1>6
  <2>2. w - B(At(w)) \in Words(said[k])
    BY <1>5, <1>6, <2>1
  <2> HIDE DEF k
  <2>3. <<k, w - B(At(w))>> \in {k} \X Words(said[k])
    BY <2>2
  <2> QED
    BY <1>1, <2>1, <2>3 DEF WordsSaid, k
<1>8. ASSUME NEW v \in Words(text), NEW w \in Words(text), P(v) = P(w) PROVE v = w
  <2>1. Count(text, At(v)) + 1 = Count(text, At(w)) + 1 /\ v - B(At(v)) = w - B(At(w))
    BY <1>8
  <2> DEFINE c == At(v)
             d == At(w)
  <2>2. c \in {0} \cup Matches(text) /\ d \in {0} \cup Matches(text)
    BY <1>6
  <2>3. At(v) = At(w)
    <3>1. Count(text, c) + 1 = Count(text, d) + 1
      BY <2>1
    <3> HIDE DEF c, d
    <3>2. Count(text, c) \in Nat /\ Count(text, d) \in Nat
      BY <1>4, <2>2
    <3>3. Count(text, c) = Count(text, d)
      BY <3>1, <3>2
    <3>4. c = d
      BY <1>1, <2>2, <3>3, SameCount
    <3> QED
      BY <3>4 DEF c, d
  <2>4. B(At(w)) \in Nat /\ v \in Nat /\ w \in Nat
    BY <1>5, <1>6
  <2> QED
    BY <2>1, <2>3, <2>4
<1>9. ASSUME NEW p \in WordsSaid PROVE \E w \in Words(text) : P(w) = p
  <2>1. PICK k \in 1..Len(said) : p \in {k} \X Words(said[k])
    BY <1>1 DEF WordsSaid
  <2>2. PICK i \in Words(said[k]) : p = <<k, i>>
    BY <2>1
  <2>3. PICK c \in {0} \cup Matches(text) : Count(text, c) = k - 1
    <3>1. Len(said) \in {Count(text, Taken), Count(text, Taken) + 1}
      BY DEF ReadInv, RestOut
    <3>2. k - 1 \in 0..Count(text, Taken)
      BY <1>1, <3>1
    <3> QED
      BY <1>1, <3>2, NumberOf
  <2>4. Count(text, c) + 1 = k
    BY <2>3
  <2>5. said[k] = Strip(X(c))
    BY <1>4, <2>4
  <2>6. Solid(X(c)) # {}
    <3> SUFFICES ASSUME Solid(X(c)) = {} PROVE FALSE
      OBVIOUS
    <3>1. Strip(X(c)) = << >>
      BY DEF Strip
    <3>2. Words(<< >>) = {}
      BY DEF Words, Solid
    <3> QED
      BY <2>2, <2>5, <3>1, <3>2
  <2> DEFINE w == B(c) + i
  <2>7. w \in Words(text) /\ c < w /\ w <= EndOf(text, c) /\ i \in Nat /\ B(c) \in Nat
    BY <1>5, <2>2, <2>5, <2>6
  <2>8. w - B(c) = i
    BY <2>7
  <2> HIDE DEF w
  <2>9. At(w) = c
    BY <1>6, <2>7
  <2> QED
    BY <2>2, <2>4, <2>7, <2>8, <2>9
<1>10. F \in Bijection(Words(text), WordsSaid)
  <2> HIDE DEF P
  <2>1. F \in [Words(text) -> WordsSaid]
    BY <1>7
  <2>2. \A v, w \in Words(text) : F[v] = F[w] => v = w
    BY <1>8
  <2>3. \A p \in WordsSaid : \E w \in Words(text) : F[w] = p
    BY <1>9
  <2> HIDE DEF F
  <2> QED
    BY <2>1, <2>2, <2>3 DEF Bijection, Injection, Surjection, IsInjective
<1> QED
  BY <1>3, <1>10, FS_Bijection DEF ExistsBijection

(* The sentences of a reply are the sentences of its text, and it shows as *)
(* many words as the text has, however the stream was cut into chunks.     *)
THEOREM SentencesAreRight == SpeakingSpec => []SentencesRight
<1>1. SpeakingInit => ReadInv
  <2> SUFFICES ASSUME SpeakingInit PROVE ReadInv
    OBVIOUS
  <2>1. reader = "pull" /\ buf = << >> /\ text = << >> /\ said = << >>
    BY DEF SpeakingInit, SentencesInit
  <2>2. Taken = 0 /\ ~Ended
    BY <2>1, NoText DEF Taken, Ended
  <2> QED
    BY <2>1, <2>2, NoText
    DEF ReadInv, ReadTypes, Position, SentencesOut, RestOut, Searched
<1>2. ReadInv /\ [SpeakingNext]_speakingVars => ReadInv'
  BY NextRead
<1>3. ReadInv => SentencesRight
  BY SentencesAsCut, WordsAsMany DEF SentencesRight
<1> QED
  BY <1>1, <1>2, <1>3, PTL DEF SpeakingSpec
===============================================================================
