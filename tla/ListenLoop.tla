------------------------------ MODULE ListenLoop ------------------------------
(***************************************************************************)
(* The listen thread of console.py.  set(on) is called from the websocket  *)
(* event loop, one call at a time; beside it runs the worker it started,   *)
(* reading the flag between turns.  Assigning the flag and looking whether *)
(* the old worker is alive are two steps of set(True).                     *)
(* A definition Bug... is a slip the definition after it could have;       *)
(* nothing uses it but the tests of the properties.                        *)
(***************************************************************************)
CONSTANTS
  Workers,    \* names for worker threads; a dead one's is used again
  NoThread

ASSUME NoThreadAssumption == NoThread \notin Workers

VARIABLES
  on,        \* _on
  thread,    \* _thread
  setter,    \* "idle", or "flagged": set(True) has assigned the flag
  worker     \* worker[w]: where thread w is in _loop

loopVars == <<on, thread, setter, worker>>

WorkerStates == {"dead", "check", "turn", "leave"}

Init ==
  /\ on = FALSE
  /\ thread = NoThread
  /\ setter = "idle"
  /\ worker = [w \in Workers |-> "dead"]

Alive(w) == worker[w] # "dead"

\* set() with the flag as it is returns at once: no step.
Toggle ==
  /\ setter = "idle"
  /\ on' = ~on
  /\ setter' = IF on' THEN "flagged" ELSE "idle"
  /\ UNCHANGED <<thread, worker>>

BugNeedsWorker == TRUE
NeedsWorker == thread = NoThread \/ ~Alive(thread)

Spawn ==
  /\ setter = "flagged"
  /\ setter' = "idle"
  /\ IF NeedsWorker
     THEN \E w \in Workers :
            /\ ~Alive(w)
            /\ thread' = w
            /\ worker' = [worker EXCEPT ![w] = "check"]
     ELSE UNCHANGED <<thread, worker>>
  /\ UNCHANGED on

BugCheck(w) ==
  /\ worker[w] = "check"
  /\ worker' = [worker EXCEPT ![w] = "turn"]
  /\ UNCHANGED <<on, thread, setter>>

\* `while self._on`: having read FALSE the thread is still alive for a while.
Check(w) ==
  /\ worker[w] = "check"
  /\ worker' = [worker EXCEPT ![w] = IF on THEN "turn" ELSE "leave"]
  /\ UNCHANGED <<on, thread, setter>>

\* _run_turn returns; ConsoleServer's turns never raise.
TurnOver(w) ==
  /\ worker[w] = "turn"
  /\ worker' = [worker EXCEPT ![w] = "check"]
  /\ UNCHANGED <<on, thread, setter>>

Exit(w) ==
  /\ worker[w] = "leave"
  /\ worker' = [worker EXCEPT ![w] = "dead"]
  /\ UNCHANGED <<on, thread, setter>>

Next ==
  \/ Toggle \/ Spawn
  \/ \E w \in Workers : Check(w) \/ TurnOver(w) \/ Exit(w)

Spec == Init /\ [][Next]_loopVars

-------------------------------------------------------------------------------
TypeOK ==
  /\ on \in BOOLEAN
  /\ thread \in Workers \cup {NoThread}
  /\ setter \in {"idle", "flagged"}
  /\ worker \in [Workers -> WorkerStates]

(* Class docstring: "never more than one live worker thread".              *)
AtMostOneWorker == \A v, w \in Workers : Alive(v) /\ Alive(w) => v = w

(* Class docstring: on/off toggling is idempotent -- when set(True) has    *)
(* returned and nobody has turned listening off, somebody listens.         *)
ListeningHasWorker ==
  on /\ setter = "idle" => \E w \in Workers : worker[w] \in {"check", "turn"}

(* The one moment to avoid for ListeningHasWorker to hold: listening is    *)
(* turned on while the worker has read the flag off and not yet ended.     *)
NotWhileLeaving == ~on /\ on' => \A w \in Workers : worker[w] # "leave"
===============================================================================
