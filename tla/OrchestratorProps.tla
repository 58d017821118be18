--------------------------- MODULE OrchestratorProps ---------------------------
(***************************************************************************)
(* What is claimed of core/orchestrator.py.                                *)
(***************************************************************************)
EXTENDS Orchestrator, FiniteSets

Stages == {"idle", "ack", "stamp", "capture", "hear", "arm", "armed", "stream",
           "reveal", "word", "await", "join", "disarm", "unwind", "wrap"}
Replying == {"stream", "reveal", "word", "await", "join", "disarm", "unwind"}
Watching == Replying \cup {"armed"}
Outcomes == {"none", "ignored", "failed", "interrupted", "replied"}
Ages == 0..(IdleAck + 1)
Turns == [person_id : Persons, said : Utterances, replied : Seq(Nat)]

(* Every variable has a value of its kind, and a history that was read     *)
(* back is never longer than asked for.                                    *)
TypeOK ==
  /\ pc \in Stages
  /\ skip_wake \in BOOLEAN /\ outcome \in Outcomes
  /\ person_id \in Persons \cup {Pending, Failed}
  /\ said \in Utterances \cup {Noise, Pending, Failed}
  /\ pairs \in Seq(Turns)
  /\ reply \in Seq(Nat) /\ streamed \in 0..MaxWords /\ left \in 0..streamed
  /\ player \in Players \cup {NoPlayer}
  /\ late \in BOOLEAN /\ barge \in BOOLEAN /\ overrun \in Nat
  /\ sinceTurn \in Ages /\ sinceNow \in Ages /\ sinceAck \in Ages
  /\ unstamped \in BOOLEAN
  /\ armed \in BOOLEAN /\ speaking \in BOOLEAN /\ unannounced \in BOOLEAN
  /\ Voice!TypeOK /\ strays \subseteq Players
  /\ enrolled \subseteq People
  /\ recent \in [Persons -> Seq(Turns)]
  /\ \A p \in Persons : Len(recent[p]) <= HistoryLimit
  /\ display \in [person : Persons, text : Seq(Nat)]

(* The microphone watcher runs all through a reply and, however the turn   *)
(* got there and left, outside of one in a single case: the observer       *)
(* raised when it was told of the arming, before the finally clause was in *)
(* force.  Then the watcher stays until a later reply has been given.      *)
ArmedOnlyInReply ==
  /\ pc \in Watching => (armed <=> BargeIn)
  /\ armed => BargeIn /\ (pc \in Watching \/ unannounced)

(* Between turns, the wake word is waived exactly when the turn before was *)
(* filed and cut short: not after silence, nor after a failure before the  *)
(* filing, nor twice for one interruption.                                 *)
WaiverFollowsInterrupt == pc = "idle" => (skip_wake <=> outcome = "interrupted")

Answered == pc = "idle" /\ outcome \in {"interrupted", "replied"}
Filed == recent[person_id][Len(recent[person_id])]

(* The remembered reply is the stream's words in order with none missing:  *)
(* all of them, or as many as had been revealed when the user cut in.      *)
FiledAsSpoken ==
  Answered =>
    /\ Filed.said = said /\ Filed.replied = reply
    /\ \A i \in 1..Len(reply) : reply[i] = i
    /\ outcome = "replied" => Len(reply) = streamed

(* When a turn is over the screen shows the reply that was filed, to the   *)
(* person it was filed under -- unless it was cut short before its first   *)
(* word: then `rendered` is set all the same and the old text stays up.    *)
ShownAsFiled ==
  Answered /\ (outcome = "replied" \/ reply # << >>) =>
    display = [person |-> Filed.person_id, text |-> Filed.replied]

(* A living playback thread is the current sentence's or one that was      *)
(* given up: by the user, an exception, or the cap on waiting.  The voice  *)
(* does not run ahead of the caption.                                      *)
OneVoice ==
  \A t \in Players : Voice!Live(t) =>
    \/ t \in strays
    \/ t = player /\ pc \in {"reveal", "word", "await", "join"}

(* Once the detector has heard the user, at most the word that was being   *)
(* put up is still revealed, whatever the poll was doing.                  *)
PromptStop == overrun <= 1

(* Once the interruption is noticed nothing new is said in that turn.      *)
NothingNewAfterBarge ==
  [][barge /\ barge' =>
       \A t \in Players : ~Voice!Live(t) => players'[t] = "done"]_vars

(* A turn is answered from the speaker's own history as it stands when the *)
(* reply is filed, and every history holds its owner's turns only.  A      *)
(* guest has none to read.                                                 *)
OwnHistory ==
  /\ \A p \in Persons : \A i \in 1..Len(recent[p]) : recent[p][i].person_id = p
  /\ pc \in Replying \cup {"arm", "armed", "wrap"} =>
       pairs = IF person_id = GUEST THEN << >> ELSE recent[person_id]

(* Two spoken acknowledgements are more than idle_ack_seconds apart,       *)
(* counted from wake word to wake word, whatever failed in between -- but  *)
(* for one failure: _last_turn_ts is assigned after the acknowledgement is *)
(* spoken, and a turn that fails between the two is acknowledged again.    *)
AcksSpaced == pc = "ack" => sinceAck > IdleAck \/ unstamped

(* The turns of this module are turns of the abstract conversation.        *)
Conversing == C!Spec

(* A captured clip is answered, ignored or reported as an error: playback  *)
(* that hangs, an endless barge-in and a failing adapter all let the turn  *)
(* return.                                                                 *)
TurnsReturn == (pc = "hear") ~> (pc = "idle")

(* How many steps a turn can still take before the next wake word, if      *)
(* nobody has to be waited for.  A word is polled for and shown, a         *)
(* sentence is synthesized, waited for and joined; every sentence has a    *)
(* word at least.                                                          *)
Outstanding(result) == IF result = Pending THEN 1 ELSE 0
BeforeSentence == 6 * (MaxWords - streamed) + 3
StepsLeft ==
  CASE pc = "hear"   -> 6 * MaxWords + 6 + Outstanding(person_id) + Outstanding(said)
    [] pc = "arm"    -> 6 * MaxWords + 5
    [] pc = "armed"  -> 6 * MaxWords + 4
    [] pc = "stream" -> BeforeSentence
    [] pc = "reveal" -> BeforeSentence + 2 * left + 3
    [] pc = "word"   -> BeforeSentence + 2 * left + 2
    [] pc = "await"  -> BeforeSentence + 2
    [] pc = "join"   -> BeforeSentence + 1
    [] pc = "disarm" -> 2
    [] pc \in {"wrap", "unwind"} -> 1
    [] OTHER -> 0

TurnStep == Identify \/ Transcribe \/ Lookup \/ ReplyStep \/ Fail \/ ReplyFail

(* Why TurnsReturn holds: once the clip is there, each step of a turn is   *)
(* one less to take and nothing that happens beside it adds any.  The one  *)
(* exception is another 50 ms for a sentence that still plays, as long as  *)
(* the cap on playback has not passed.                                     *)
PlaysOn == pc = "join" /\ pc' = "await" /\ ~late
TurnWindsDown ==
  [][pc \notin {"idle", "ack", "stamp", "capture"} /\ ~PlaysOn =>
       /\ StepsLeft' <= StepsLeft
       /\ TurnStep => StepsLeft' < StepsLeft]_vars

(***************************************************************************)
(* What comments and documents say and the code does not do.               *)
(***************************************************************************)
(* _stream_reply: "abort (stop the audio, drop the rest) the moment the    *)
(* user talks over the reply".                                             *)
BargeSilences == barge => \A t \in Players : players[t] # "playing"

(* What BargeSilences would need: no thread is still on its way to sd.play *)
(* when the orchestrator stops the audio.                                  *)
StopsInTime == ~barge /\ barge' => \A t \in Players : players[t] # "starting"
===============================================================================
