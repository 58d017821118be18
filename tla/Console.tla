-------------------------------- MODULE Console --------------------------------
(***************************************************************************)
(* console.py around the listen loop: the turns the worker runs, as far as *)
(* the microphone and the browser can tell; voice enrolment on threads of  *)
(* its own; and the events and status messages that reach the page of      *)
(* web/console.html, each in the order in which they were sent.  An event  *)
(* concerns the page's badge and a status its button, so that the order of *)
(* an event and a status does not matter here.                             *)
(* A definition Bug... is a slip the definition after it could have;       *)
(* nothing uses it but the tests of the properties.                        *)
(***************************************************************************)
EXTENDS ListenLoop, Integers, Sequences

CONSTANTS
  Enrollers,   \* names for enrolment threads
  MaxOutbox,   \* bound on the events, and on the statuses, on their way
  BargeIn      \* is a barge_in detector configured?

ASSUME ConsoleAssumption == MaxOutbox \in Nat \ {0} /\ BargeIn \in BOOLEAN

VARIABLES
  stage,       \* stage[w]: how far worker w's turn is
  skip_wake,   \* orch._skip_wake
  enroll,      \* enroll[e]: how far enrolment thread e is
  outbox,      \* events scheduled on the event loop and not yet received
  inTurn,      \* the page's badge says "Responding"
  seen,        \* seen[e]: the flag in the status that e is about to send
  statuses,    \* the flags of the statuses scheduled and not yet received
  button,      \* the page's `listening`
  (* A history variable: no step reads it. *)
  overtaken    \* the last status was sent after the flag in it had changed

statusVars == <<seen, statuses, button, overtaken>>
consoleVars == <<loopVars, stage, skip_wake, enroll, outbox, inTurn, statusVars>>

Stages == {"none", "waiting", "hearing", "thinking", "replying", "filing"}
Enrolments == {"none", "begun", "recording", "embedding", "reporting", "sending"}

\* "over" stands for ignored, spoken and interrupted: the page treats them alike.
Events == {"wake", "over", "error"}

ConsoleInit ==
  /\ Init
  /\ stage = [w \in Workers |-> "none"]
  /\ skip_wake = FALSE
  /\ enroll = [e \in Enrollers |-> "none"]
  /\ outbox = << >>
  /\ inTurn = FALSE
  /\ seen = [e \in Enrollers |-> FALSE]
  /\ statuses = << >> /\ button = FALSE /\ overtaken = FALSE

Emit(event) ==
  Len(outbox) < MaxOutbox /\ outbox' = Append(outbox, event)

\* _broadcast(_status_msg()), as far as the flag is concerned.
Tell(flag) ==
  /\ Len(statuses) < MaxOutbox
  /\ statuses' = Append(statuses, flag)
  /\ overtaken' = (flag # on')
  /\ UNCHANGED button

(***************************************************************************)
(* The turns of the listen loop                                            *)
(***************************************************************************)
BugReadFlag(w) ==
  /\ Check(w)
  /\ stage' = [stage EXCEPT ![w] = "waiting"]
  /\ UNCHANGED <<skip_wake, enroll, outbox, inTurn, statusVars>>

ReadFlag(w) ==
  /\ Check(w)
  /\ stage' = [stage EXCEPT ![w] = IF on THEN "waiting" ELSE "none"]
  /\ UNCHANGED <<skip_wake, enroll, outbox, inTurn, statusVars>>

Pass(w, from, to) ==
  /\ stage[w] = from
  /\ stage' = [stage EXCEPT ![w] = to]
  /\ UNCHANGED <<loopVars, enroll, inTurn, statusVars>>

\* The wake word is heard, or waived by the interruption before.
Wake(w) ==
  /\ Pass(w, "waiting", "hearing")
  /\ Emit("wake")
  /\ skip_wake' = FALSE

Captured(w) == Pass(w, "hearing", "thinking") /\ UNCHANGED <<skip_wake, outbox>>

Reply(w) == Pass(w, "thinking", "replying") /\ UNCHANGED <<skip_wake, outbox>>

\* _disarm_barge may report a dead microphone before the turn is over.
Disarmed(w) ==
  /\ Pass(w, "replying", "filing")
  /\ (BargeIn /\ Emit("error")) \/ UNCHANGED outbox
  /\ UNCHANGED skip_wake

EndTurn(w) ==
  /\ TurnOver(w)
  /\ stage' = [stage EXCEPT ![w] = "none"]
  /\ UNCHANGED <<enroll, inTurn, statusVars>>

Ignored(w) ==
  /\ stage[w] = "thinking"
  /\ EndTurn(w) /\ Emit("over") /\ UNCHANGED skip_wake

Replied(w) ==
  /\ stage[w] = "filing"
  /\ EndTurn(w) /\ Emit("over")
  /\ skip_wake' \in {FALSE, BargeIn}

BugFailed(w) == EndTurn(w) /\ UNCHANGED <<skip_wake, outbox>>

\* _run_turn: whatever run_once raises becomes an event.
Failed(w) ==
  /\ stage[w] = "waiting" => ~skip_wake
  /\ EndTurn(w) /\ Emit("error") /\ UNCHANGED skip_wake

Leave(w) ==
  Exit(w) /\ UNCHANGED <<stage, skip_wake, enroll, outbox, inTurn, statusVars>>

(***************************************************************************)
(* Commands; the event loop handles one at a time and ends each with a     *)
(* status.  If list_people raises, the connection breaks instead: the same *)
(* as to lose that status in a Reconnect.                                  *)
(***************************************************************************)
SetListen ==
  /\ \/ Toggle /\ (IF on' THEN UNCHANGED statusVars ELSE Tell(on') /\ UNCHANGED seen)
     \/ Spawn /\ Tell(on) /\ UNCHANGED seen
  /\ UNCHANGED <<stage, skip_wake, enroll, outbox, inTurn>>

\* tune, voice, and listen with the flag as it is.
OtherCommand ==
  /\ setter = "idle"
  /\ UNCHANGED <<loopVars, stage, skip_wake, enroll, outbox, inTurn, seen>>
  /\ Tell(on)

EnrollRefused ==
  /\ setter = "idle" /\ on
  /\ UNCHANGED <<loopVars, stage, skip_wake, enroll, inTurn, seen>>
  /\ Emit("error") /\ Tell(on)

Advance(e, from, to) ==
  /\ enroll[e] = from
  /\ enroll' = [enroll EXCEPT ![e] = to]
  /\ UNCHANGED <<loopVars, stage, skip_wake, inTurn>>

Enroll(e) ==
  /\ setter = "idle" /\ ~on
  /\ Advance(e, "none", "begun")
  /\ Tell(on)
  /\ UNCHANGED <<outbox, seen>>

\* The sample is recorded, then embedded and registered.
Record(e) ==
  /\ \/ Advance(e, "begun", "recording") \/ Advance(e, "recording", "embedding")
     \/ Advance(e, "embedding", "reporting")
  /\ UNCHANGED <<outbox, statusVars>>

\* run_enroll: the microphone, the embedding or the memory raises.
EnrollFails(e) ==
  /\ Advance(e, "recording", "reporting") \/ Advance(e, "embedding", "reporting")
  /\ Emit("error")
  /\ UNCHANGED statusVars

\* worker(): the import of the recorder or _status_msg raises, and the thread
\* is gone without a word.
EnrollDies(e) ==
  /\ Advance(e, "begun", "none") \/ Advance(e, "reporting", "none")
  /\ UNCHANGED <<outbox, statusVars>>

\* The thread's own status is put together here and sent a step later.
ReadStatus(e) ==
  /\ Advance(e, "reporting", "sending")
  /\ seen' = [seen EXCEPT ![e] = on]
  /\ UNCHANGED <<outbox, statuses, button, overtaken>>

SendStatus(e) ==
  /\ Advance(e, "sending", "none")
  /\ Tell(seen[e])
  /\ UNCHANGED <<outbox, seen>>

(***************************************************************************)
(* The page                                                                *)
(***************************************************************************)
Receive ==
  /\ outbox # << >>
  /\ outbox' = Tail(outbox)
  /\ inTurn' = (Head(outbox) = "wake")
  /\ UNCHANGED <<loopVars, stage, skip_wake, enroll, statusVars>>

\* applyStatus
ReceiveStatus ==
  /\ statuses # << >>
  /\ statuses' = Tail(statuses)
  /\ button' = Head(statuses)
  /\ UNCHANGED <<loopVars, stage, skip_wake, enroll, outbox, inTurn, seen, overtaken>>

BugReconnect ==
  /\ setter = "idle"
  /\ outbox' = << >> /\ inTurn' = FALSE
  /\ statuses' = << >> /\ overtaken' = FALSE
  /\ UNCHANGED <<loopVars, stage, skip_wake, enroll, seen, button>>

\* The connection breaks, what was on its way is lost and the badge reset; the
\* new connection is sent a status first.
Reconnect ==
  /\ setter = "idle"
  /\ outbox' = << >> /\ inTurn' = FALSE
  /\ statuses' = <<on>> /\ overtaken' = FALSE
  /\ UNCHANGED <<loopVars, stage, skip_wake, enroll, seen, button>>

(***************************************************************************)
(* The specification                                                       *)
(***************************************************************************)
\* Steps of a turn that wait neither for the wake word nor for an utterance.
TurnStep(w) ==
  \/ Reply(w) \/ Ignored(w) \/ Disarmed(w) \/ Replied(w) \/ Failed(w)
  \/ ReadFlag(w) \/ Leave(w)

EnrollStep(e) ==
  \/ Record(e) \/ EnrollFails(e) \/ EnrollDies(e)
  \/ ReadStatus(e) \/ SendStatus(e)

ConsoleNext ==
  \/ SetListen \/ OtherCommand \/ EnrollRefused
  \/ \E w \in Workers : TurnStep(w) \/ Wake(w) \/ Captured(w)
  \/ \E e \in Enrollers : Enroll(e) \/ EnrollStep(e)
  \/ Receive \/ ReceiveStatus \/ Reconnect

ConsoleSpec == ConsoleInit /\ [][ConsoleNext]_consoleVars

(***************************************************************************)
(* The event loop delivers and the worker runs, but may wait for ever for  *)
(* the wake word or the end of an utterance.                               *)
(***************************************************************************)
ConsoleFairSpec ==
  /\ ConsoleSpec
  /\ WF_consoleVars(Receive)
  /\ \A w \in Workers :
       SF_consoleVars(TurnStep(w) /\ stage[w] \notin {"waiting", "hearing"})

-------------------------------------------------------------------------------
ConsoleTypeOK ==
  /\ TypeOK
  /\ stage \in [Workers -> Stages]
  /\ skip_wake \in BOOLEAN
  /\ enroll \in [Enrollers -> Enrolments]
  /\ outbox \in Seq(Events) /\ Len(outbox) <= MaxOutbox
  /\ inTurn \in BOOLEAN
  /\ seen \in [Enrollers -> BOOLEAN]
  /\ statuses \in Seq(BOOLEAN) /\ Len(statuses) <= MaxOutbox
  /\ button \in BOOLEAN /\ overtaken \in BOOLEAN
  /\ \A w \in Workers : stage[w] # "none" <=> worker[w] = "turn"

(* The badge never sticks: with no turn past its wake word and nothing on  *)
(* its way, the page does not say "Responding", whatever failed.           *)
BadgeClears ==
  /\ outbox = << >>
  /\ \A w \in Workers : stage[w] \in {"none", "waiting"}
  => ~inTurn

(* Docstring: "Stop takes effect after the in-flight turn returns".  Once  *)
(* a turn is past the microphone, stopping ends the worker -- unless the   *)
(* user starts listening again.                                            *)
StopHonoured ==
  \A w \in Workers :
    (~on /\ stage[w] \in {"thinking", "replying", "filing"}) ~> (on \/ ~Alive(w))

WorkerStepsLeft(w) ==
  CASE worker[w] = "dead" -> 0
    [] worker[w] = "leave" -> 1
    [] worker[w] = "check" -> 2
    [] worker[w] = "turn" -> CASE stage[w] = "filing" -> 3
                               [] stage[w] = "replying" -> 4
                               [] stage[w] = "thinking" -> 5
                               [] OTHER -> 6

(* The safety half of StopHonoured: while listening is off, whatever else  *)
(* happens brings a worker past the microphone no further from its end,    *)
(* and each step of its own nearer -- so it never waits there again.       *)
StopWindsDown ==
  [][\A w \in Workers :
       ~on /\ Alive(w) /\ stage[w] \notin {"waiting", "hearing"} =>
         /\ WorkerStepsLeft(w)' <= WorkerStepsLeft(w)
         /\ TurnStep(w) => WorkerStepsLeft(w)' < WorkerStepsLeft(w)]_consoleVars

(* The page's button: with no command in hand and nothing on its way, it   *)
(* offers to stop exactly when the server listens, through broken          *)
(* connections, failed enrolments and any order of commands -- but for one *)
(* case: the status an enrolment sends at its end reads the flag before it *)
(* is sent, and one that was read before a toggle and sent after it        *)
(* leaves the button wrong until the next status.                          *)
ButtonFollowsFlag ==
  setter = "idle" /\ statuses = << >> => (button <=> on) \/ overtaken

HoldsMic(w) ==
  \/ stage[w] = "waiting" /\ ~skip_wake
  \/ stage[w] = "hearing"
  \/ stage[w] = "replying" /\ BargeIn

(* _enroll: "The listen loop holds the mic while waiting for a wake word,  *)
(* so enrolling then would fight it for the input device. Require          *)
(* listening off."                                                         *)
MicExclusive ==
  \A e \in Enrollers, w \in Workers : ~(enroll[e] = "recording" /\ HoldsMic(w))

(* What the refusal in _enroll would need of its user for MicExclusive: to *)
(* begin an enrolment only when the worker has ended, not just when the    *)
(* flag is off, and not to start listening while one is under way.  The    *)
(* button then needs no exception.                                         *)
UserWaits ==
  /\ \A e \in Enrollers : Enroll(e) => \A w \in Workers : ~Alive(w)
  /\ ~on /\ on' => \A e \in Enrollers : enroll[e] = "none"

ButtonTrue == setter = "idle" /\ statuses = << >> => (button <=> on)
===============================================================================
