----------------------------- MODULE Conversation -----------------------------
(***************************************************************************)
(* What one listening agent promises its family, whatever happens inside a *)
(* turn: turns do not overlap; a turn adds at most one record, to at most  *)
(* one person's memory, and only as its last step; only a turn that was    *)
(* recorded and cut short by the user invites the next one without the     *)
(* wake word, and the invitation serves a single turn.                     *)
(***************************************************************************)
EXTENDS Integers, Sequences

CONSTANTS
  Persons,        \* the ids a turn can be filed under
  HistoryLimit    \* how many turns of a person are ever read back

VARIABLES
  phase,     \* "waiting" between turns, "turn" inside one
  invited,   \* the next turn needs no wake word
  recent     \* recent[p]: the last HistoryLimit turns filed under p

convVars == <<phase, invited, recent>>

\* A slip the next definition could have, to test properties with.
BugRemember(log, t) == Append(log, t)

\* The tail of a person's log that can still be read after t is appended.
Remember(log, t) ==
  LET full == Append(log, t)
  IN  IF Len(full) <= HistoryLimit THEN full ELSE Tail(full)

Init ==
  /\ phase = "waiting"
  /\ invited = FALSE
  /\ recent = [p \in Persons |-> << >>]

Begin ==
  /\ phase = "waiting"
  /\ phase' = "turn"
  /\ invited' = FALSE
  /\ UNCHANGED recent

\* A turn that fails or hears no words leaves no trace.
Drop ==
  /\ phase = "turn"
  /\ phase' = "waiting"
  /\ UNCHANGED <<invited, recent>>

Answer ==
  /\ phase = "turn"
  /\ phase' = "waiting"
  /\ invited' \in BOOLEAN
  /\ \E p \in Persons :
       /\ recent'[p] # << >>
       /\ LET t == recent'[p][Len(recent'[p])]
          IN  /\ t.person_id = p
              /\ recent' = [recent EXCEPT ![p] = Remember(@, t)]

Next == Begin \/ Drop \/ Answer

Spec == Init /\ [][Next]_convVars
===============================================================================
