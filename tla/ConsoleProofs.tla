---------------------------- MODULE ConsoleProofs -----------------------------
(***************************************************************************)
(* Proofs about console.py: no sequence of toggles, however it falls       *)
(* between the worker's steps, ever leaves two workers alive -- for any    *)
(* set of thread names -- and what the page says of the turn.              *)
(***************************************************************************)
EXTENDS Console, TLAPS

(* What makes AtMostOneWorker inductive: the only thread that can be alive *)
(* is the one _thread names, so set(True), which looks at that one alone,  *)
(* has looked at all of them.                                              *)
OnlyTheNamedThread == \A w \in Workers : Alive(w) => thread = w

Inv == TypeOK /\ OnlyTheNamedThread

(* Init establishes the invariant: no thread exists.                       *)
LEMMA InitInv == Init => Inv
  BY NoThreadAssumption
     DEF Init, Inv, TypeOK, OnlyTheNamedThread, Alive, WorkerStates

(* Every step of the event loop and of the worker keeps it.                *)
LEMMA NextInv == Inv /\ [Next]_loopVars => Inv'
<1> SUFFICES ASSUME Inv, [Next]_loopVars PROVE Inv'
  OBVIOUS
<1> USE DEF Inv, TypeOK, OnlyTheNamedThread, Alive, WorkerStates
<1>1. CASE Toggle
  BY <1>1 DEF Toggle
<1>2. CASE Spawn
  <2>1. CASE NeedsWorker
    <3>1. \A w \in Workers : ~Alive(w)
      BY <2>1, NoThreadAssumption DEF NeedsWorker
    <3>2. PICK w \in Workers :
            thread' = w /\ worker' = [worker EXCEPT ![w] = "check"]
      BY <1>2, <2>1 DEF Spawn
    <3> QED
      BY <1>2, <3>1, <3>2 DEF Spawn
  <2>2. CASE ~NeedsWorker
    BY <1>2, <2>2 DEF Spawn
  <2> QED
    BY <2>1, <2>2
<1>3. ASSUME NEW w \in Workers, Check(w) PROVE Inv'
  BY <1>3 DEF Check
<1>4. ASSUME NEW w \in Workers, TurnOver(w) PROVE Inv'
  BY <1>4 DEF TurnOver
<1>5. ASSUME NEW w \in Workers, Exit(w) PROVE Inv'
  BY <1>5 DEF Exit
<1>6. CASE UNCHANGED loopVars
  BY <1>6 DEF loopVars
<1> QED
  BY <1>1, <1>2, <1>3, <1>4, <1>5, <1>6 DEF Next

(* Class docstring of ListenLoop: "never more than one live worker         *)
(* thread".                                                                *)
THEOREM SingleWorker == Spec => []AtMostOneWorker
<1>1. Inv => AtMostOneWorker
  BY DEF Inv, OnlyTheNamedThread, AtMostOneWorker
<1> QED
  BY <1>1, InitInv, NextInv, PTL DEF Spec

(***************************************************************************)
(* The console around the loop                                             *)
(***************************************************************************)
(* Each step of the console is one of the loop or invisible to it.         *)
LEMMA ConsoleStep == [ConsoleNext]_consoleVars => [Next]_loopVars
BY DEF ConsoleNext, consoleVars, SetListen, OtherCommand, EnrollRefused, TurnStep, Wake,
       Captured, Reply, Ignored, Disarmed, Replied, Failed, ReadFlag, Leave, Pass, EndTurn,
       Enroll, EnrollStep, Record, EnrollFails, EnrollDies, ReadStatus, SendStatus, Advance,
       Receive, ReceiveStatus, Reconnect, Next

(* A turn uses the loop as its class does.                                 *)
THEOREM ConsoleUsesLoop == ConsoleSpec => Spec
<1>1. ConsoleInit => Init
  BY DEF ConsoleInit
<1> QED
  BY <1>1, ConsoleStep, PTL DEF ConsoleSpec, Spec

InHand(w) == stage[w] \notin {"none", "waiting"}
LastEvent == IF outbox = << >> THEN inTurn ELSE outbox[Len(outbox)] = "wake"

(* What the page says now, or will have been told when all events on their *)
(* way have arrived, is that a turn is in hand only if one is.             *)
Announced == LastEvent => \E w \in Workers : InHand(w)

StatusOK ==
  /\ seen \in [Enrollers -> BOOLEAN]
  /\ statuses \in Seq(BOOLEAN) /\ Len(statuses) <= MaxOutbox
  /\ button \in BOOLEAN /\ overtaken \in BOOLEAN

ConsoleInv == ConsoleTypeOK /\ OnlyTheNamedThread /\ Announced

LEMMA InitConsole == ConsoleInit => ConsoleInv
<1> SUFFICES ASSUME ConsoleInit PROVE ConsoleInv
  OBVIOUS
<1>1. Inv
  BY InitInv DEF ConsoleInit
<1>2. outbox = << >> /\ inTurn = FALSE /\ skip_wake = FALSE
  BY DEF ConsoleInit
<1>3. stage \in [Workers -> Stages] /\ enroll \in [Enrollers -> Enrolments]
  BY DEF ConsoleInit, Stages, Enrolments
<1>4. \A w \in Workers : stage[w] = "none" /\ worker[w] = "dead"
  BY DEF ConsoleInit, Init
<1>5. outbox \in Seq(Events) /\ Len(outbox) <= MaxOutbox
  BY <1>2, ConsoleAssumption
<1>6. StatusOK
  <2>1. << >> \in Seq(BOOLEAN) /\ Len(<< >>) <= MaxOutbox
    BY ConsoleAssumption
  <2> QED
    BY <2>1 DEF ConsoleInit, StatusOK
<1>7. inTurn \in BOOLEAN /\ skip_wake \in BOOLEAN /\ ~LastEvent
  BY <1>2 DEF LastEvent
<1> QED
  BY <1>1, <1>3, <1>4, <1>5, <1>6, <1>7
  DEF Inv, StatusOK, ConsoleInv, ConsoleTypeOK, Announced

(* An event that goes out is the last on its way.                          *)
LEMMA Emitted ==
  ASSUME outbox \in Seq(Events), NEW event \in Events, Emit(event)
  PROVE  /\ outbox' \in Seq(Events) /\ Len(outbox') <= MaxOutbox
         /\ LastEvent' <=> event = "wake"
<1>1. outbox' = Append(outbox, event) /\ Len(outbox) < MaxOutbox
  BY DEF Emit
<1>2. /\ outbox' \in Seq(Events) /\ Len(outbox') = Len(outbox) + 1 /\ outbox' # << >>
      /\ outbox'[Len(outbox')] = event
  BY <1>1
<1> QED
  BY <1>1, <1>2, ConsoleAssumption DEF LastEvent

(* The worker of a turn, from one stage to the next.                       *)
LEMMA PassInv ==
  ASSUME ConsoleInv, NEW w \in Workers, NEW from \in Stages \ {"none"},
         NEW to \in Stages \ {"none", "waiting"}, Pass(w, from, to),
         skip_wake' \in BOOLEAN, StatusOK',
         outbox' = outbox \/ \E event \in Events : Emit(event)
  PROVE  ConsoleInv'
<1>1. /\ stage[w] = from /\ stage' = [stage EXCEPT ![w] = to]
      /\ UNCHANGED <<on, thread, setter, worker, enroll, inTurn>>
  BY DEF Pass, loopVars
<1>2. stage' \in [Workers -> Stages] /\ stage'[w] = to
      /\ \A v \in Workers : v # w => stage'[v] = stage[v]
  BY <1>1 DEF ConsoleInv, ConsoleTypeOK
<1>3. outbox' \in Seq(Events) /\ Len(outbox') <= MaxOutbox
  BY Emitted DEF ConsoleInv, ConsoleTypeOK
<1>4. InHand(w)'
  BY <1>2 DEF InHand
<1>5. ConsoleTypeOK'
  BY <1>1, <1>2, <1>3 DEF ConsoleInv, ConsoleTypeOK, TypeOK, StatusOK
<1>6. OnlyTheNamedThread'
  BY <1>1 DEF ConsoleInv, OnlyTheNamedThread, Alive
<1> QED
  BY <1>4, <1>5, <1>6 DEF ConsoleInv, Announced

(* However a turn ends, the page is told.                                  *)
LEMMA EndTurnInv ==
  ASSUME ConsoleInv, NEW w \in Workers, EndTurn(w), skip_wake' \in BOOLEAN, StatusOK',
         NEW event \in {"over", "error"}, Emit(event)
  PROVE  ConsoleInv'
<1>1. Inv'
  <2>1. Inv /\ [Next]_loopVars
    BY DEF ConsoleInv, ConsoleTypeOK, Inv, EndTurn, Next
  <2> QED
    BY <2>1, NextInv
<1>2. /\ stage' = [stage EXCEPT ![w] = "none"] /\ worker' = [worker EXCEPT ![w] = "check"]
      /\ UNCHANGED <<enroll, inTurn>>
  BY DEF EndTurn, TurnOver
<1>3. /\ outbox' \in Seq(Events) /\ Len(outbox') <= MaxOutbox /\ ~LastEvent'
  BY Emitted DEF ConsoleInv, ConsoleTypeOK, Events
<1>4. /\ stage' \in [Workers -> Stages]
      /\ \A v \in Workers : stage'[v] # "none" <=> worker'[v] = "turn"
  BY <1>2 DEF ConsoleInv, ConsoleTypeOK, TypeOK, Stages
<1> QED
  BY <1>1, <1>2, <1>3, <1>4 DEF Inv, ConsoleInv, ConsoleTypeOK, StatusOK, Announced

(* The flag is read between turns.                                         *)
LEMMA ReadFlagInv ==
  ASSUME ConsoleInv, NEW w \in Workers, ReadFlag(w), StatusOK' PROVE ConsoleInv'
<1>1. Inv'
  <2>1. Inv /\ [Next]_loopVars
    BY DEF ConsoleInv, ConsoleTypeOK, Inv, ReadFlag, Next
  <2> QED
    BY <2>1, NextInv
<1>2. /\ worker[w] = "check" /\ stage' = [stage EXCEPT ![w] = IF on THEN "waiting" ELSE "none"]
      /\ worker' = [worker EXCEPT ![w] = IF on THEN "turn" ELSE "leave"]
      /\ UNCHANGED <<skip_wake, enroll, outbox, inTurn>>
  BY DEF ReadFlag, Check
<1>3. /\ stage' \in [Workers -> Stages] /\ stage[w] = "none"
      /\ \A v \in Workers : stage'[v] # "none" <=> worker'[v] = "turn"
      /\ \A v \in Workers : v # w => stage'[v] = stage[v]
  BY <1>2 DEF ConsoleInv, ConsoleTypeOK, TypeOK, Stages
<1>4. Announced'
  BY <1>2, <1>3 DEF ConsoleInv, Announced, LastEvent, InHand
<1> QED
  BY <1>1, <1>2, <1>3, <1>4 DEF Inv, ConsoleInv, ConsoleTypeOK, StatusOK

LEMMA TailLast ==
  ASSUME NEW S, NEW s \in Seq(S), s # << >>
  PROVE  /\ Tail(s) \in Seq(S) /\ Len(Tail(s)) <= Len(s)
         /\ Tail(s) = << >> => Head(s) = s[Len(s)]
         /\ Tail(s) # << >> => Tail(s)[Len(Tail(s))] = s[Len(s)]
<1>1. Len(s) >= 1 /\ Tail(s) \in Seq(S) /\ Len(Tail(s)) = Len(s) - 1
  OBVIOUS
<1>2. CASE Tail(s) = << >>
  <2>1. Len(s) = 1
    <3>1. Len(Tail(s)) = Len(<< >>)
      BY <1>2, Zenon
    <3>2. Len(<< >>) = 0 /\ Len(s) \in Nat
      OBVIOUS
    <3> DEFINE n == Len(s)
               m == Len(Tail(s))
    <3>3. m = 0 /\ m = n - 1 /\ n \in Nat
      BY <1>1, <3>1, <3>2
    <3> HIDE DEF m, n
    <3>4. n = 1
      BY <3>3
    <3> QED
      BY <3>4 DEF n
  <2>2. Head(s) = s[1]
    OBVIOUS
  <2>3. Head(s) = s[Len(s)]
    BY <2>1, <2>2
  <2>4. Len(Tail(s)) <= Len(s)
    BY <1>1
  <2> QED
    BY <1>1, <1>2, <2>3, <2>4, Zenon
<1>3. CASE Tail(s) # << >>
  <2>1. Len(Tail(s)) \in 1..Len(Tail(s))
    BY <1>1, <1>3
  <2> QED
    BY <1>1, <1>3, <2>1
<1> QED
  BY <1>1, <1>2, <1>3

(* A status that goes out is the last on its way.                          *)
LEMMA Told ==
  ASSUME StatusOK, NEW flag \in BOOLEAN, Tell(flag), on' \in BOOLEAN
  PROVE  /\ statuses' \in Seq(BOOLEAN) /\ Len(statuses') <= MaxOutbox
         /\ statuses' # << >> /\ statuses'[Len(statuses')] = flag
         /\ button' = button /\ overtaken' \in BOOLEAN
         /\ overtaken' <=> flag # on'
<1>1. statuses' = Append(statuses, flag) /\ Len(statuses) < MaxOutbox
  BY DEF Tell
<1>2. /\ statuses' \in Seq(BOOLEAN) /\ Len(statuses') = Len(statuses) + 1
      /\ statuses' # << >> /\ statuses'[Len(statuses')] = flag
  BY <1>1 DEF StatusOK
<1>3. Len(statuses') <= MaxOutbox
  BY <1>1, <1>2, ConsoleAssumption DEF StatusOK
<1>4. button' = button /\ overtaken' \in BOOLEAN /\ (overtaken' <=> flag # on')
  BY Zenon DEF Tell
<1> QED
  BY <1>2, <1>3, <1>4

(* What a step can do to the statuses.                                     *)
LEMMA StatusSteps ==
  ASSUME [ConsoleNext]_consoleVars
  PROVE  \/ UNCHANGED statusVars /\ (on' = on \/ setter' = "flagged")
         \/ Tell(on') /\ UNCHANGED seen
         \/ ReceiveStatus
         \/ Reconnect
         \/ \E e \in Enrollers : ReadStatus(e) \/ SendStatus(e)
<1>1. CASE SetListen
  BY <1>1 DEF SetListen, Toggle, Spawn
<1>2. CASE OtherCommand \/ EnrollRefused \/ \E e \in Enrollers : Enroll(e)
  BY <1>2 DEF OtherCommand, EnrollRefused, Enroll, Advance, loopVars
<1>3. ASSUME NEW w \in Workers, TurnStep(w) \/ Wake(w) \/ Captured(w)
      PROVE  UNCHANGED statusVars /\ on' = on
  BY <1>3 DEF TurnStep, Reply, Ignored, Disarmed, Replied, Failed, ReadFlag, Leave, Wake,
              Captured, Pass, EndTurn, Check, TurnOver, Exit, loopVars
<1>4. ASSUME NEW e \in Enrollers, EnrollStep(e)
      PROVE  \/ UNCHANGED statusVars /\ on' = on
             \/ ReadStatus(e) \/ SendStatus(e)
  BY <1>4 DEF EnrollStep, Record, EnrollFails, EnrollDies, Advance, loopVars
<1>5. CASE Receive \/ UNCHANGED consoleVars
  BY <1>5 DEF Receive, consoleVars, loopVars
<1> QED
  BY <1>1, <1>2, <1>3, <1>4, <1>5 DEF ConsoleNext

LEMMA NextStatus == ConsoleInv /\ [ConsoleNext]_consoleVars => StatusOK'
<1> SUFFICES ASSUME ConsoleInv, [ConsoleNext]_consoleVars PROVE StatusOK'
  OBVIOUS
<1>1. StatusOK /\ on \in BOOLEAN
  BY DEF ConsoleInv, ConsoleTypeOK, TypeOK, StatusOK
<1>2. on' \in BOOLEAN
  BY ConsoleStep, NextInv DEF ConsoleInv, ConsoleTypeOK, Inv, TypeOK
<1>3. CASE UNCHANGED statusVars
  BY <1>1, <1>3 DEF StatusOK, statusVars
<1>4. CASE Tell(on') /\ UNCHANGED seen
  BY <1>1, <1>2, <1>4, Told DEF StatusOK
<1>5. CASE ReceiveStatus
  <2>1. statuses # << >> /\ statuses' = Tail(statuses) /\ button' = Head(statuses)
        /\ UNCHANGED <<seen, overtaken>>
    BY <1>5 DEF ReceiveStatus
  <2>2. statuses' \in Seq(BOOLEAN) /\ Len(statuses') <= Len(statuses)
    BY <1>1, <2>1, TailLast DEF StatusOK
  <2>3. Head(statuses) \in BOOLEAN /\ Len(statuses') <= MaxOutbox
    BY <1>1, <2>1, <2>2, ConsoleAssumption DEF StatusOK
  <2> QED
    BY <1>1, <2>1, <2>2, <2>3 DEF StatusOK
<1>6. CASE Reconnect
  <2>1. <<on>> \in Seq(BOOLEAN) /\ Len(<<on>>) <= MaxOutbox
    BY <1>1, ConsoleAssumption
  <2>2. statuses' = <<on>> /\ overtaken' = FALSE /\ UNCHANGED <<seen, button>>
    BY <1>6 DEF Reconnect
  <2> QED
    BY <1>1, <2>1, <2>2 DEF StatusOK
<1>7. ASSUME NEW e \in Enrollers, ReadStatus(e) PROVE StatusOK'
  BY <1>1, <1>7 DEF ReadStatus, StatusOK
<1>8. ASSUME NEW e \in Enrollers, SendStatus(e) PROVE StatusOK'
  <2>1. Tell(seen[e]) /\ UNCHANGED seen /\ seen[e] \in BOOLEAN
    BY <1>1, <1>8 DEF SendStatus, StatusOK
  <2> QED
    BY <1>1, <1>2, <2>1, Told DEF StatusOK
<1> QED
  BY <1>3, <1>4, <1>5, <1>6, <1>7, <1>8, StatusSteps

(* The rest leaves the turns alone.                                        *)
LEMMA OtherInv ==
  ASSUME ConsoleInv, [Next]_loopVars, UNCHANGED stage,
         \A w \in Workers : worker'[w] = "turn" <=> worker[w] = "turn",
         skip_wake' = skip_wake, enroll' \in [Enrollers -> Enrolments], StatusOK',
         \/ UNCHANGED <<outbox, inTurn>> \/ (Emit("error") /\ UNCHANGED inTurn)
         \/ Receive \/ Reconnect
  PROVE  ConsoleInv'
<1>1. Inv'
  BY NextInv DEF ConsoleInv, ConsoleTypeOK, Inv
<1>2. outbox \in Seq(Events) /\ Len(outbox) <= MaxOutbox /\ inTurn \in BOOLEAN
  BY DEF ConsoleInv, ConsoleTypeOK
<1>3. /\ outbox' \in Seq(Events) /\ Len(outbox') <= MaxOutbox /\ inTurn' \in BOOLEAN
      /\ LastEvent' => LastEvent
  <2>1. CASE UNCHANGED <<outbox, inTurn>>
    BY <1>2, <2>1 DEF LastEvent
  <2>2. CASE Emit("error") /\ UNCHANGED inTurn
    BY <1>2, <2>2, Emitted DEF Events
  <2>3. CASE Receive
    <3>1. outbox # << >> /\ outbox' = Tail(outbox) /\ inTurn' = (Head(outbox) = "wake")
      BY <2>3 DEF Receive
    <3>2. outbox' \in Seq(Events) /\ Len(outbox') <= MaxOutbox
      BY <1>2, <3>1, TailLast, ConsoleAssumption
    <3>3. LastEvent <=> outbox[Len(outbox)] = "wake"
      BY <3>1 DEF LastEvent
    <3>4. ASSUME outbox' = << >> PROVE LastEvent' => LastEvent
      <4>1. LastEvent' => Head(outbox) = "wake"
        BY <3>1, <3>4 DEF LastEvent
      <4>2. Head(outbox) = outbox[Len(outbox)]
        BY <1>2, <3>1, <3>4, TailLast
      <4> QED
        BY <3>3, <4>1, <4>2
    <3>5. ASSUME outbox' # << >> PROVE LastEvent' => LastEvent
      <4>1. LastEvent' => outbox'[Len(outbox')] = "wake"
        BY <3>5 DEF LastEvent
      <4>2. outbox'[Len(outbox')] = outbox[Len(outbox)]
        BY <1>2, <3>1, <3>5, TailLast
      <4> QED
        BY <3>3, <4>1, <4>2
    <3>6. inTurn' \in BOOLEAN
      BY <3>1
    <3> QED
      BY <3>2, <3>4, <3>5, <3>6
  <2>4. CASE Reconnect
    <3>1. outbox' = << >> /\ inTurn' = FALSE
      BY <2>4 DEF Reconnect
    <3>2. ~LastEvent'
      BY <3>1 DEF LastEvent
    <3>3. << >> \in Seq(Events) /\ Len(<< >>) <= MaxOutbox
      BY ConsoleAssumption
    <3> QED
      BY <3>1, <3>2, <3>3
  <2> QED
    BY <2>1, <2>2, <2>3, <2>4
<1>4. Announced'
  BY <1>3 DEF ConsoleInv, Announced, InHand
<1> QED
  BY <1>1, <1>3, <1>4 DEF Inv, ConsoleInv, ConsoleTypeOK, StatusOK

LEMMA NextConsole == ConsoleInv /\ [ConsoleNext]_consoleVars => ConsoleInv'
<1> SUFFICES ASSUME ConsoleInv, [ConsoleNext]_consoleVars PROVE ConsoleInv'
  OBVIOUS
<1>0. [Next]_loopVars /\ StatusOK'
  BY ConsoleStep, NextStatus
<1>1. skip_wake \in BOOLEAN /\ enroll \in [Enrollers -> Enrolments] /\ BargeIn \in BOOLEAN
  BY ConsoleAssumption DEF ConsoleInv, ConsoleTypeOK
<1>2. ASSUME NEW w \in Workers, Wake(w) PROVE ConsoleInv'
  BY <1>0, <1>2, PassInv DEF Wake, Stages, Events
<1>3. ASSUME NEW w \in Workers, Captured(w) \/ Reply(w) PROVE ConsoleInv'
  BY <1>0, <1>1, <1>3, PassInv DEF Captured, Reply, Stages
<1>4. ASSUME NEW w \in Workers, Disarmed(w) PROVE ConsoleInv'
  BY <1>0, <1>1, <1>4, PassInv DEF Disarmed, Stages, Events
<1>5. ASSUME NEW w \in Workers, Ignored(w) \/ Replied(w) \/ Failed(w) PROVE ConsoleInv'
  BY <1>0, <1>1, <1>5, EndTurnInv DEF Ignored, Replied, Failed
<1>6. ASSUME NEW w \in Workers, ReadFlag(w) PROVE ConsoleInv'
  BY <1>0, <1>6, ReadFlagInv
<1>7. ASSUME NEW w \in Workers, Leave(w) PROVE ConsoleInv'
  <2>1. worker[w] = "leave" /\ worker' = [worker EXCEPT ![w] = "dead"]
    BY <1>7 DEF Leave, Exit
  <2>2. \A v \in Workers : worker'[v] = "turn" <=> worker[v] = "turn"
    BY <2>1 DEF ConsoleInv, ConsoleTypeOK, TypeOK
  <2> QED
    BY <1>0, <1>1, <1>7, <2>2, OtherInv DEF Leave
<1>8. CASE SetListen
  <2>1. \A v \in Workers : worker'[v] = "turn" <=> worker[v] = "turn"
    BY <1>8 DEF SetListen, Toggle, Spawn, Alive, ConsoleInv, ConsoleTypeOK, TypeOK
  <2> QED
    BY <1>0, <1>1, <1>8, <2>1, OtherInv DEF SetListen
<1>9. CASE OtherCommand \/ EnrollRefused \/ Receive \/ ReceiveStatus \/ Reconnect
  <2>1. UNCHANGED <<worker, stage, skip_wake, enroll>>
    BY <1>9 DEF OtherCommand, EnrollRefused, Receive, ReceiveStatus, Reconnect, loopVars
  <2> QED
    BY <1>0, <1>1, <1>9, <2>1, OtherInv DEF OtherCommand, EnrollRefused, ReceiveStatus
<1>10. ASSUME NEW e \in Enrollers, Enroll(e) \/ EnrollStep(e) PROVE ConsoleInv'
  <2>1. UNCHANGED <<worker, stage, skip_wake, inTurn>>
    BY <1>10
    DEF Enroll, EnrollStep, Record, EnrollFails, EnrollDies, ReadStatus, SendStatus, Advance,
        loopVars
  <2>2. enroll' \in [Enrollers -> Enrolments]
    BY <1>1, <1>10
    DEF Enroll, EnrollStep, Record, EnrollFails, EnrollDies, ReadStatus, SendStatus, Advance,
        Enrolments
  <2>3. outbox' = outbox \/ Emit("error")
    BY <1>10
    DEF Enroll, EnrollStep, Record, EnrollFails, EnrollDies, ReadStatus, SendStatus
  <2> QED
    BY <1>0, <1>1, <2>1, <2>2, <2>3, OtherInv
<1>11. CASE UNCHANGED consoleVars
  BY <1>0, <1>1, <1>11, OtherInv DEF consoleVars, loopVars
<1> QED
  BY <1>2, <1>3, <1>4, <1>5, <1>6, <1>7, <1>8, <1>9, <1>10, <1>11 DEF ConsoleNext, TurnStep

LEMMA ConsoleInvariance == ConsoleSpec => []ConsoleInv
BY InitConsole, NextConsole, PTL DEF ConsoleSpec

(* The page's badge: with nothing on its way and no turn past its wake     *)
(* word it does not say "Responding", for any workers and any queue.       *)
THEOREM BadgeIsCleared == ConsoleSpec => []BadgeClears
<1>1. ConsoleInv => BadgeClears
  BY DEF ConsoleInv, ConsoleTypeOK, Stages, Announced, LastEvent, InHand, BadgeClears
<1> QED
  BY <1>1, ConsoleInvariance, PTL

(* The console's state has its type; a thread is in a turn exactly while   *)
(* that turn is at one of its stages.                                      *)
THEOREM ConsoleTyped == ConsoleSpec => []ConsoleTypeOK
<1>1. ConsoleInv => ConsoleTypeOK
  BY DEF ConsoleInv
<1> QED
  BY <1>1, ConsoleInvariance, PTL

(***************************************************************************)
(* The button                                                              *)
(***************************************************************************)
\* What the button shows when all statuses on their way have arrived.
LastStatus == IF statuses = << >> THEN button ELSE statuses[Len(statuses)]
Followed == setter = "idle" => (LastStatus <=> on) \/ overtaken

(* A command does not end without a status.                                *)
LEMMA FlagFirst ==
  ASSUME [ConsoleNext]_consoleVars, UNCHANGED statusVars, setter' = "idle", ConsoleInv
  PROVE  setter = "idle"
<1>1. CASE SetListen
  <2>1. Tell(on) => Len(statuses') = Len(statuses) + 1
    BY DEF Tell, ConsoleInv, ConsoleTypeOK
  <2>2. ~Tell(on)
    BY <2>1 DEF statusVars, ConsoleInv, ConsoleTypeOK
  <2> QED
    BY <1>1, <2>2 DEF SetListen, Toggle
<1>2. CASE ~SetListen
  BY <1>2 DEF ConsoleNext, consoleVars, OtherCommand, EnrollRefused, TurnStep, Wake,
       Captured, Reply, Ignored, Disarmed, Replied, Failed, ReadFlag, Leave, Pass, EndTurn,
       Enroll, EnrollStep, Record, EnrollFails, EnrollDies, ReadStatus, SendStatus, Advance,
       Receive, ReceiveStatus, Reconnect, Check, TurnOver, Exit, loopVars
<1> QED
  BY <1>1, <1>2

(* A status is the loop's own and tells the flag as it is, or an           *)
(* enrolment's.                                                            *)
LEMMA NextFollowed ==
  ConsoleInv /\ Followed /\ [ConsoleNext]_consoleVars => Followed'
<1> SUFFICES ASSUME ConsoleInv, Followed, [ConsoleNext]_consoleVars, setter' = "idle"
             PROVE  (LastStatus' <=> on') \/ overtaken'
  BY DEF Followed
<1>1. StatusOK /\ on \in BOOLEAN /\ on' \in BOOLEAN
  BY ConsoleStep, NextInv DEF ConsoleInv, ConsoleTypeOK, Inv, TypeOK, StatusOK
<1>2. CASE UNCHANGED statusVars /\ (on' = on \/ setter' = "flagged")
  <2>1. setter = "idle"
    BY <1>2, FlagFirst
  <2> QED
    BY <1>2, <2>1 DEF Followed, LastStatus, statusVars
<1>3. CASE Tell(on') /\ UNCHANGED seen
  BY <1>1, <1>3, Told DEF LastStatus
<1>4. CASE ReceiveStatus
  <2>1. statuses # << >> /\ statuses' = Tail(statuses) /\ button' = Head(statuses)
        /\ UNCHANGED <<on, setter, overtaken>>
    BY <1>4 DEF ReceiveStatus, loopVars
  <2>2. LastStatus = statuses[Len(statuses)]
    BY <2>1 DEF LastStatus
  <2>3. LastStatus' = statuses[Len(statuses)]
    BY <1>1, <2>1, TailLast DEF LastStatus, StatusOK
  <2> QED
    BY <2>1, <2>2, <2>3 DEF Followed
<1>5. CASE Reconnect
  BY <1>5 DEF Reconnect, LastStatus, loopVars
<1>6. ASSUME NEW e \in Enrollers, ReadStatus(e) PROVE (LastStatus' <=> on') \/ overtaken'
  BY <1>6 DEF ReadStatus, Advance, loopVars, Followed, LastStatus
<1>7. ASSUME NEW e \in Enrollers, SendStatus(e) PROVE (LastStatus' <=> on') \/ overtaken'
  <2>1. Tell(seen[e]) /\ seen[e] \in BOOLEAN
    BY <1>1, <1>7 DEF SendStatus, StatusOK
  <2> QED
    BY <1>1, <2>1, Told DEF LastStatus
<1> QED
  BY <1>2, <1>3, <1>4, <1>5, <1>6, <1>7, StatusSteps

(* The button shows the flag when everything has arrived, whatever breaks  *)
(* or fails, unless the last status was an enrolment's that was overtaken. *)
THEOREM ButtonFollows == ConsoleSpec => []ButtonFollowsFlag
<1>1. ConsoleInit => Followed
  BY DEF ConsoleInit, Init, Followed, LastStatus
<1>2. Followed => ButtonFollowsFlag
  BY DEF Followed, LastStatus, ButtonFollowsFlag
<1> QED
  BY <1>1, <1>2, NextFollowed, ConsoleInvariance, PTL DEF ConsoleSpec

(***************************************************************************)
(* How far two docstrings hold                                             *)
(***************************************************************************)
(* With listening on, no worker is on its way out, and once set(True) has  *)
(* returned one is at work.                                                *)
Listening ==
  /\ on => \A w \in Workers : worker[w] # "leave"
  /\ on /\ setter = "idle" => \E w \in Workers : worker[w] \in {"check", "turn"}

LEMMA NextListening ==
  Inv /\ Listening /\ [Next]_loopVars /\ [NotWhileLeaving]_loopVars => Listening'
<1> SUFFICES ASSUME Inv, Listening, [Next]_loopVars, [NotWhileLeaving]_loopVars
             PROVE  Listening'
  OBVIOUS
<1> USE DEF Inv, TypeOK, Listening, WorkerStates
<1>1. CASE Toggle
  <2>1. on' = ~on /\ worker' = worker /\ (on' => setter' = "flagged")
    BY <1>1 DEF Toggle
  <2>2. on' => \A w \in Workers : worker[w] # "leave"
    BY <2>1 DEF NotWhileLeaving, loopVars
  <2> QED
    BY <2>1, <2>2
<1>2. CASE Spawn
  <2>1. CASE NeedsWorker
    <3>1. PICK w \in Workers :
            on' = on /\ worker' = [worker EXCEPT ![w] = "check"]
      BY <1>2, <2>1 DEF Spawn
    <3>2. worker'[w] = "check" /\ \A v \in Workers : v # w => worker'[v] = worker[v]
      BY <3>1
    <3> QED
      BY <3>1, <3>2
  <2>2. CASE ~NeedsWorker
    <3>1. thread \in Workers /\ worker[thread] # "dead" /\ UNCHANGED <<on, worker>>
      BY <1>2, <2>2 DEF Spawn, NeedsWorker, Alive
    <3> QED
      BY <3>1
  <2> QED
    BY <2>1, <2>2
<1>3. ASSUME NEW w \in Workers, Check(w) PROVE Listening'
  BY <1>3 DEF Check
<1>4. ASSUME NEW w \in Workers, TurnOver(w) PROVE Listening'
  BY <1>4 DEF TurnOver
<1>5. ASSUME NEW w \in Workers, Exit(w) PROVE Listening'
  BY <1>5 DEF Exit
<1>6. CASE UNCHANGED loopVars
  BY <1>6 DEF loopVars
<1> QED
  BY <1>1, <1>2, <1>3, <1>4, <1>5, <1>6 DEF Next

(* set(True) leaves a worker listening unless listening was turned on      *)
(* while the old worker was on its way out: the race that                  *)
(* ListeningHasWorker.cfg shows is the only one, for any number of threads *)
(* and toggles.                                                            *)
THEOREM ListeningHolds == Spec /\ [][NotWhileLeaving]_loopVars => []ListeningHasWorker
<1>1. Init => Listening
  BY DEF Init, Listening
<1>2. Listening => ListeningHasWorker
  BY DEF Listening, ListeningHasWorker
<1> QED
  BY <1>1, <1>2, InitInv, NextInv, NextListening, PTL DEF Spec

(* An enrolment is under way only with listening off and the worker gone.  *)
EnrolsAlone ==
  \A e \in Enrollers :
    enroll[e] # "none" => ~on /\ setter = "idle" /\ \A w \in Workers : ~Alive(w)

LEMMA NextEnrols ==
  ConsoleInv /\ EnrolsAlone /\ [ConsoleNext]_consoleVars /\ [UserWaits]_consoleVars
  => EnrolsAlone'
<1> SUFFICES ASSUME ConsoleInv, EnrolsAlone, [ConsoleNext]_consoleVars,
                    [UserWaits]_consoleVars, NEW d \in Enrollers, enroll'[d] # "none"
             PROVE  ~on' /\ setter' = "idle" /\ \A w \in Workers : ~Alive(w)'
  BY DEF EnrolsAlone
<1> DEFINE Alone == ~on /\ setter = "idle" /\ \A w \in Workers : ~Alive(w)
<1>0. enroll \in [Enrollers -> Enrolments] /\ worker \in [Workers -> WorkerStates]
  BY DEF ConsoleInv, ConsoleTypeOK, TypeOK
<1>1. enroll' = enroll => Alone
  BY DEF EnrolsAlone
<1>2. UNCHANGED loopVars /\ Alone => Alone'
  BY DEF loopVars, Alive
<1>3. ASSUME NEW w \in Workers, TurnStep(w) \/ Wake(w) \/ Captured(w) PROVE Alone'
  <2>1. enroll' = enroll
    BY <1>3 DEF TurnStep, Reply, Ignored, Disarmed, Replied, Failed, ReadFlag, Leave, Wake,
                Captured, Pass, EndTurn
  <2>2. CASE UNCHANGED loopVars
    BY <1>1, <1>2, <2>1, <2>2
  <2>3. CASE Check(w) \/ TurnOver(w) \/ Exit(w)
    BY <1>1, <2>1, <2>3 DEF Check, TurnOver, Exit, Alive
  <2> QED
    BY <1>3, <2>2, <2>3 DEF TurnStep, Reply, Ignored, Disarmed, Replied, Failed, ReadFlag,
                            Leave, Wake, Captured, Pass, EndTurn
<1>4. CASE SetListen
  <2>1. enroll' = enroll
    BY <1>4 DEF SetListen
  <2>2. setter = "idle" /\ ~on
    BY <1>1, <2>1
  <2>3. Toggle /\ on' = TRUE
    BY <1>4, <2>2 DEF SetListen, Toggle, Spawn
  <2>4. UserWaits
    BY <2>2, <2>3 DEF consoleVars, loopVars
  <2> QED
    BY <2>1, <2>2, <2>3, <2>4 DEF UserWaits
<1>5. CASE OtherCommand \/ EnrollRefused \/ Receive \/ ReceiveStatus \/ Reconnect
  BY <1>1, <1>2, <1>5 DEF OtherCommand, EnrollRefused, Receive, ReceiveStatus, Reconnect
<1>6. ASSUME NEW e \in Enrollers, Enroll(e) PROVE Alone'
  <2>1. enroll[e] = "none" /\ enroll' = [enroll EXCEPT ![e] = "begun"]
        /\ setter = "idle" /\ ~on /\ UNCHANGED loopVars
    BY <1>6 DEF Enroll, Advance
  <2>2. enroll' # enroll
    BY <1>0, <2>1
  <2>3. \A w \in Workers : ~Alive(w)
    BY <1>6, <2>2 DEF UserWaits, consoleVars
  <2> QED
    BY <1>2, <2>1, <2>3
<1>7. ASSUME NEW e \in Enrollers, EnrollStep(e) PROVE Alone'
  <2>1. UNCHANGED loopVars /\ enroll[e] # "none"
    BY <1>7 DEF EnrollStep, Record, EnrollFails, EnrollDies, ReadStatus, SendStatus, Advance
  <2> QED
    BY <1>2, <2>1 DEF EnrolsAlone
<1>8. CASE UNCHANGED consoleVars
  BY <1>1, <1>2, <1>8 DEF consoleVars
<1> QED
  BY <1>3, <1>4, <1>5, <1>6, <1>7, <1>8 DEF ConsoleNext

(* No one else holds the microphone while an enrolment records, if the     *)
(* user does what UserWaits asks: enrolling while a stopped worker is      *)
(* still at it (MicExclusive.cfg) and listening during an enrolment are    *)
(* the only ways to have it disturbed.                                     *)
THEOREM EnrolsUndisturbed ==
  ConsoleSpec /\ [][UserWaits]_consoleVars => []MicExclusive
<1>1. ConsoleInit => EnrolsAlone
  BY DEF ConsoleInit, EnrolsAlone
<1>2. ConsoleInv /\ EnrolsAlone => MicExclusive
  BY DEF ConsoleInv, ConsoleTypeOK, EnrolsAlone, MicExclusive, HoldsMic, Alive
<1> QED
  BY <1>1, <1>2, InitConsole, NextConsole, NextEnrols, PTL DEF ConsoleSpec

(* An enrolment's status is then as good as the loop's own.                *)
Fresh ==
  /\ ~overtaken
  /\ \A e \in Enrollers : enroll[e] = "sending" => ~seen[e]

LEMMA NextFresh ==
  ConsoleInv /\ EnrolsAlone /\ EnrolsAlone' /\ Fresh /\ [ConsoleNext]_consoleVars => Fresh'
<1> SUFFICES ASSUME ConsoleInv, EnrolsAlone, EnrolsAlone', Fresh, [ConsoleNext]_consoleVars
             PROVE  Fresh'
  OBVIOUS
<1>1. /\ StatusOK /\ on \in BOOLEAN /\ on' \in BOOLEAN
      /\ enroll \in [Enrollers -> Enrolments]
  BY ConsoleStep, NextInv DEF ConsoleInv, ConsoleTypeOK, Inv, TypeOK, StatusOK
<1>2. \A e \in Enrollers : enroll'[e] = "sending" => enroll[e] = "sending" \/ ReadStatus(e)
  BY <1>1 DEF ConsoleNext, consoleVars, SetListen, OtherCommand, EnrollRefused, TurnStep, Wake,
       Captured, Reply, Ignored, Disarmed, Replied, Failed, ReadFlag, Leave, Pass, EndTurn,
       Enroll, EnrollStep, Record, EnrollFails, EnrollDies, ReadStatus, SendStatus, Advance,
       Receive, ReceiveStatus, Reconnect
<1>3. ASSUME NEW e \in Enrollers, enroll'[e] = "sending" PROVE ~seen'[e]
  <2>1. CASE ReadStatus(e)
    BY <1>1, <1>3, <2>1 DEF ReadStatus, Advance, EnrolsAlone, StatusOK
  <2>2. CASE ~ReadStatus(e)
    <3>1. enroll[e] = "sending" /\ ~seen[e]
      BY <1>2, <1>3, <2>2 DEF Fresh
    <3>2. seen'[e] = seen[e]
      BY <1>1, <2>2, StatusSteps
      DEF statusVars, ReceiveStatus, Reconnect, ReadStatus, SendStatus, StatusOK
    <3> QED
      BY <3>1, <3>2
  <2> QED
    BY <2>1, <2>2
<1>4. ~overtaken'
  <2>1. CASE UNCHANGED statusVars \/ ReceiveStatus \/ Reconnect
    BY <2>1 DEF Fresh, statusVars, ReceiveStatus, Reconnect
  <2>2. CASE Tell(on') /\ UNCHANGED seen
    BY <1>1, <2>2, Told
  <2>3. ASSUME NEW e \in Enrollers, ReadStatus(e) PROVE ~overtaken'
    BY <2>3 DEF Fresh, ReadStatus
  <2>4. ASSUME NEW e \in Enrollers, SendStatus(e) PROVE ~overtaken'
    <3>1. enroll[e] = "sending" /\ Tell(seen[e]) /\ on' = on
      BY <2>4 DEF SendStatus, Advance, loopVars
    <3>2. seen[e] = FALSE /\ on = FALSE
      BY <1>1, <3>1 DEF Fresh, EnrolsAlone, StatusOK
    <3> QED
      BY <1>1, <3>1, <3>2, Told
  <2> QED
    BY <2>1, <2>2, <2>3, <2>4, StatusSteps
<1> QED
  BY <1>3, <1>4 DEF Fresh

(* With a user who does so the page's button is never wrong.               *)
THEOREM ButtonIsTrue ==
  ConsoleSpec /\ [][UserWaits]_consoleVars => []ButtonTrue
<1>1. ConsoleInit => EnrolsAlone /\ Fresh
  BY DEF ConsoleInit, EnrolsAlone, Fresh
<1>2. Fresh /\ ButtonFollowsFlag => ButtonTrue
  BY DEF Fresh, ButtonFollowsFlag, ButtonTrue
<1> QED
  BY <1>1, <1>2, InitConsole, NextConsole, NextEnrols, NextFresh, ButtonFollows, PTL
  DEF ConsoleSpec

(***************************************************************************)
(* What has begun runs out of steps                                        *)
(***************************************************************************)
(* A worker's own step, with listening off and past the microphone.        *)
LEMMA WorkerStepCounts ==
  ASSUME ConsoleTypeOK, NEW w \in Workers, ~on, stage[w] \notin {"waiting", "hearing"},
         TurnStep(w)
  PROVE  WorkerStepsLeft(w)' < WorkerStepsLeft(w)
<1>1. /\ stage \in [Workers -> Stages] /\ worker \in [Workers -> WorkerStates]
      /\ stage[w] # "none" <=> worker[w] = "turn"
  BY DEF ConsoleTypeOK, TypeOK
<1>2. CASE Reply(w) \/ Disarmed(w)
  <2>1. /\ worker' = worker
        /\ \/ stage[w] = "thinking" /\ stage'[w] = "replying"
           \/ stage[w] = "replying" /\ stage'[w] = "filing"
    BY <1>1, <1>2 DEF Reply, Disarmed, Pass, loopVars
  <2> QED
    BY <1>1, <2>1 DEF WorkerStepsLeft
<1>3. CASE Ignored(w) \/ Replied(w) \/ Failed(w)
  <2>1. worker[w] = "turn" /\ worker'[w] = "check"
    BY <1>1, <1>3 DEF Ignored, Replied, Failed, EndTurn, TurnOver
  <2>2. stage[w] \in {"thinking", "replying", "filing"}
    BY <1>1, <2>1 DEF Stages
  <2>3. WorkerStepsLeft(w)' = 2
    BY <2>1 DEF WorkerStepsLeft
  <2>4. WorkerStepsLeft(w) \in {3, 4, 5}
    BY <2>1, <2>2 DEF WorkerStepsLeft
  <2> QED
    BY <2>3, <2>4
<1>4. CASE ReadFlag(w)
  <2>1. worker[w] = "check" /\ worker'[w] = "leave"
    BY <1>1, <1>4 DEF ReadFlag, Check
  <2>2. WorkerStepsLeft(w) = 2 /\ WorkerStepsLeft(w)' = 1
    BY <2>1 DEF WorkerStepsLeft
  <2> QED
    BY <2>2
<1>5. CASE Leave(w)
  <2>1. worker[w] = "leave" /\ worker'[w] = "dead"
    BY <1>1, <1>5 DEF Leave, Exit
  <2>2. WorkerStepsLeft(w) = 1 /\ WorkerStepsLeft(w)' = 0
    BY <2>1 DEF WorkerStepsLeft
  <2> QED
    BY <2>2
<1> QED
  BY <1>2, <1>3, <1>4, <1>5 DEF TurnStep

(* Every other step leaves a living worker where it is.                    *)
LEMMA OthersLeaveWorker ==
  ASSUME ConsoleTypeOK, NEW w \in Workers, Alive(w), stage[w] \notin {"waiting", "hearing"},
         [ConsoleNext]_consoleVars, ~TurnStep(w)
  PROVE  worker'[w] = worker[w] /\ stage'[w] = stage[w]
<1>1. stage \in [Workers -> Stages] /\ worker \in [Workers -> WorkerStates]
  BY DEF ConsoleTypeOK, TypeOK
<1>2. CASE SetListen
  BY <1>1, <1>2 DEF SetListen, Toggle, Spawn, Alive
<1>3. ASSUME NEW v \in Workers, TurnStep(v) \/ Wake(v) \/ Captured(v)
      PROVE  worker'[w] = worker[w] /\ stage'[w] = stage[w]
  <2>1. v # w
    BY <1>3 DEF Wake, Captured, Pass
  <2> QED
    BY <1>1, <1>3, <2>1
    DEF TurnStep, Reply, Ignored, Disarmed, Replied, Failed, ReadFlag, Leave, Wake, Captured,
        Pass, EndTurn, Check, TurnOver, Exit, loopVars
<1>4. ASSUME NEW e \in Enrollers, Enroll(e) \/ EnrollStep(e)
      PROVE  UNCHANGED <<worker, stage>>
  BY <1>4 DEF Enroll, EnrollStep, Record, EnrollFails, EnrollDies, ReadStatus, SendStatus,
              Advance, loopVars
<1>5. CASE \/ OtherCommand \/ EnrollRefused \/ Receive \/ ReceiveStatus \/ Reconnect
           \/ UNCHANGED consoleVars
  BY <1>5 DEF OtherCommand, EnrollRefused, Receive, ReceiveStatus, Reconnect, consoleVars,
              loopVars
<1> QED
  BY <1>2, <1>3, <1>4, <1>5 DEF ConsoleNext

(* With listening off a worker past the microphone has at most five steps  *)
(* left and never waits at the microphone again: the safety half of        *)
(* "Stop takes effect after the in-flight turn returns".                   *)
THEOREM StopRunsOut == ConsoleSpec => StopWindsDown
<1> DEFINE Down(w) == ~on /\ Alive(w) /\ stage[w] \notin {"waiting", "hearing"} =>
                        /\ WorkerStepsLeft(w)' <= WorkerStepsLeft(w)
                        /\ TurnStep(w) => WorkerStepsLeft(w)' < WorkerStepsLeft(w)
<1>1. ConsoleInv /\ ConsoleInv' /\ [ConsoleNext]_consoleVars
      => [\A w \in Workers : Down(w)]_consoleVars
  <2> SUFFICES ASSUME ConsoleInv, ConsoleInv', [ConsoleNext]_consoleVars, NEW w \in Workers,
                      ~on, Alive(w), stage[w] \notin {"waiting", "hearing"}
               PROVE  /\ WorkerStepsLeft(w)' <= WorkerStepsLeft(w)
                      /\ TurnStep(w) => WorkerStepsLeft(w)' < WorkerStepsLeft(w)
    OBVIOUS
  <2>1. ConsoleTypeOK /\ ConsoleTypeOK'
    BY DEF ConsoleInv
  <2>2. WorkerStepsLeft(w) \in Int /\ WorkerStepsLeft(w)' \in Int
    <3>1. worker[w] \in WorkerStates /\ worker'[w] \in WorkerStates
      BY <2>1 DEF ConsoleTypeOK, TypeOK
    <3> QED
      BY <3>1 DEF WorkerStepsLeft, WorkerStates
  <2>3. CASE TurnStep(w)
    BY <2>1, <2>2, <2>3, WorkerStepCounts
  <2>4. CASE ~TurnStep(w)
    <3>1. worker'[w] = worker[w] /\ stage'[w] = stage[w]
      BY <2>1, <2>4, OthersLeaveWorker
    <3>2. WorkerStepsLeft(w)' = WorkerStepsLeft(w)
      BY <3>1 DEF WorkerStepsLeft
    <3> QED
      BY <2>2, <2>4, <3>2
  <2> QED
    BY <2>3, <2>4
<1> QED
  BY <1>1, ConsoleInvariance, PTL DEF ConsoleSpec, StopWindsDown
===============================================================================
