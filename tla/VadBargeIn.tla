------------------------------ MODULE VadBargeIn ------------------------------
(***************************************************************************)
(* adapters/bargein_vad.py: the detector behind the BargeInDetector port.  *)
(* Every arm() starts a listening thread; all of them share one _stop and  *)
(* one _speaking event.  disarm() sets _stop and waits up to a second for  *)
(* the thread, which looks at _stop only when a microphone frame arrives.  *)
(* A definition Bug... is a slip the definition after it could have;       *)
(* nothing uses it but the tests of the properties.                        *)
(***************************************************************************)
EXTENDS Integers

CONSTANTS
  Listeners,      \* names for listening threads; a dead one's is used again
  NoListener,
  Onset,          \* onset_frames
  ReadsInTime     \* does a microphone read always return within the join?

ASSUME ListenerAssumption ==
  /\ NoListener \notin Listeners
  /\ Onset \in Nat \ {0}
  /\ ReadsInTime \in BOOLEAN

VARIABLES
  caller,      \* the turn thread: "off", in arm(), "armed", or in disarm()
  speaking,    \* _speaking.is_set()
  stop,        \* _stop.is_set()
  error,       \* is `error` not None?
  thread,      \* _thread
  listener,    \* listener[l]: where thread l is in _listen
  run          \* run[l]: its count of speech frames in a row

flags == <<speaking, stop, error>>
threads == <<thread, listener, run>>
vars == <<caller, flags, threads>>

CallerStates == {"off", "cleared", "ready", "armed", "joining"}
ListenerStates == {"dead", "opening", "reading", "judging"}

Init ==
  /\ caller = "off"
  /\ speaking = FALSE /\ stop = FALSE /\ error = FALSE
  /\ thread = NoListener
  /\ listener = [l \in Listeners |-> "dead"]
  /\ run = [l \in Listeners |-> 0]

Alive(l) == listener[l] # "dead"

CallerGoes(from, to) == caller = from /\ caller' = to
Goes(l, from, to) == listener[l] = from /\ listener' = [listener EXCEPT ![l] = to]

(***************************************************************************)
(* arm(), step by step: an older listener may run between any two          *)
(***************************************************************************)
BugArmClear == CallerGoes("off", "cleared") /\ UNCHANGED <<flags, threads>>
ArmClear ==
  /\ CallerGoes("off", "cleared")
  /\ speaking' = FALSE
  /\ UNCHANGED <<stop, error, threads>>

ArmReady ==
  /\ CallerGoes("cleared", "ready")
  /\ stop' = FALSE
  /\ UNCHANGED <<speaking, error, threads>>

BugArmStart ==
  /\ CallerGoes("ready", "armed")
  /\ \E l \in Listeners :
       Goes(l, "dead", "opening") /\ thread' = l /\ run' = [run EXCEPT ![l] = 0]
  /\ UNCHANGED flags

ArmStart ==
  /\ CallerGoes("ready", "armed")
  /\ error' = FALSE
  /\ \E l \in Listeners :
       Goes(l, "dead", "opening") /\ thread' = l /\ run' = [run EXCEPT ![l] = 0]
  /\ UNCHANGED <<speaking, stop>>

(***************************************************************************)
(* disarm()                                                                *)
(***************************************************************************)
BugDisarm == CallerGoes("armed", "joining") /\ UNCHANGED <<flags, threads>>
Disarm ==
  /\ CallerGoes("armed", "joining")
  /\ stop' = TRUE
  /\ UNCHANGED <<speaking, error, threads>>

BugJoined == TRUE
Joined == ~Alive(thread) \/ ~ReadsInTime

Disarmed ==
  /\ CallerGoes("joining", "off")
  /\ Joined
  /\ thread' = NoListener
  /\ UNCHANGED <<flags, listener, run>>

(***************************************************************************)
(* _listen                                                                 *)
(***************************************************************************)
Open(l) == Goes(l, "opening", "reading") /\ UNCHANGED <<caller, flags, thread, run>>

\* A frame arrives: only now is _stop looked at.
Frame(l) ==
  /\ Goes(l, "reading", IF stop THEN "dead" ELSE "judging")
  /\ UNCHANGED <<caller, flags, thread, run>>

BugIsOnset(count) == count > Onset
IsOnset(count) == count >= Onset

Judge(l) ==
  \E is_speech \in BOOLEAN :
    LET count == IF is_speech THEN run[l] + 1 ELSE 0
    IN  /\ Goes(l, "judging", IF IsOnset(count) THEN "dead" ELSE "reading")
        /\ run' = [run EXCEPT ![l] = count]
        /\ speaking' = (speaking \/ IsOnset(count))
        /\ UNCHANGED <<caller, stop, error, thread>>

\* The device or the echo canceller raises.
Fail(l) ==
  /\ \E s \in ListenerStates \ {"dead"} : Goes(l, s, "dead")
  /\ error' = TRUE
  /\ UNCHANGED <<caller, speaking, stop, thread, run>>

CallerStep == ArmClear \/ ArmReady \/ ArmStart \/ Disarm \/ Disarmed
Listen(l) == Open(l) \/ Frame(l) \/ Judge(l) \/ Fail(l)
Next == CallerStep \/ \E l \in Listeners : Listen(l)

Spec == Init /\ [][Next]_vars

\* The device delivers frames or fails; a disarm that has been called goes on.
FairSpec ==
  Spec /\ WF_vars(Disarmed) /\ \A l \in Listeners : WF_vars(Listen(l))

-------------------------------------------------------------------------------
TypeOK ==
  /\ caller \in CallerStates
  /\ speaking \in BOOLEAN /\ stop \in BOOLEAN /\ error \in BOOLEAN
  /\ thread \in Listeners \cup {NoListener}
  /\ listener \in [Listeners -> ListenerStates]
  /\ run \in [Listeners -> 0..Onset]

(* The microphone is watched by one thread at a time, and by none once     *)
(* disarm has returned.                                                    *)
OneListener == \A l \in Listeners : Alive(l) => l = thread

(* An error is reported of the reply it happened in, and only when the     *)
(* detector was deaf for the rest of that reply: `error` and `speaking`    *)
(* exclude each other.                                                     *)
ErrorMeansDeaf ==
  error /\ caller \in {"armed", "joining"} =>
    ~speaking /\ \A l \in Listeners : ~Alive(l)

(* disarm does not hang the turn.                                          *)
DisarmReturns == (caller = "joining") ~> (caller = "off")

ListenerStepsLeft(l) ==
  CASE listener[l] = "dead" -> 0
    [] listener[l] = "reading" -> 1
    [] OTHER -> 2

(* The safety half of DisarmReturns: once disarm has set _stop a listener  *)
(* ends within two of its steps, whatever it hears in them.                *)
DisarmWindsDown ==
  [][caller = "joining" =>
       \A l \in Listeners :
         /\ ListenerStepsLeft(l)' <= ListenerStepsLeft(l)
         /\ Listen(l) => ListenerStepsLeft(l)' < ListenerStepsLeft(l)]_vars

(* While reads are in time the adapter is a Detector: speech is reported   *)
(* only between arm and disarm, never left over from an earlier reply.     *)
D == INSTANCE Detector WITH armed <- caller # "off"
IsDetector == D!Spec

(* ports.py on the detector: "`arm` starts listening (before a reply),     *)
(* `speaking` is polled during the reply, `disarm` stops (after)": the one *)
(* that reports speech during a reply is the listener armed for it.        *)
HeardInThisReply ==
  [][caller = "armed" /\ ~speaking /\ speaking' =>
       Alive(thread) /\ listener'[thread] = "dead"]_vars
===============================================================================
