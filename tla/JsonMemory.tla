------------------------------ MODULE JsonMemory ------------------------------
(***************************************************************************)
(* adapters/memory_json.py: one directory per person, with a profile that  *)
(* is rewritten in place and a log of turns that is appended to.  Its      *)
(* clients are the turn thread, which reads every profile to recognise a   *)
(* voice, then the speaker's profile and log, and appends; and enrolments, *)
(* each in a thread or a process of its own, which rewrite one profile.    *)
(* Nothing locks a file and nothing writes one atomically: two enrolments  *)
(* may have the same profile open, and a fault (a process dies, the disk   *)
(* is full) leaves what was written.                                       *)
(* A definition Bug... is a slip the definition after it could have;       *)
(* nothing uses it but the tests of the properties.                        *)
(***************************************************************************)
EXTENDS FiniteSets, Functions, Integers, Sequences

CONSTANTS
  People,        \* ids somebody may enroll under
  GUEST,         \* the id of everybody else
  Nobody,        \* no id
  Writers,       \* names for enrolment threads and processes
  HistoryLimit,  \* the n of recent_turns
  MaxTurns,      \* bound on the turns saved
  MaxFaults      \* bound on crashes and write errors

ASSUME MemoryAssumption ==
  /\ GUEST \notin People /\ Nobody \notin People \cup {GUEST}
  /\ HistoryLimit \in Nat \ {0} /\ MaxTurns \in Nat /\ MaxFaults \in Nat

Persons == People \cup {GUEST}
Garbled == 0    \* a line json.loads raises on; turns are numbered from 1

VARIABLES
  profile,    \* profile[p]: is profile.json "absent", "empty", "torn" or "whole"?
  log,        \* log[p]: the lines of turns.jsonl
  open,       \* open[p]: the last of them has no newline yet
  pc,         \* where the turn thread is
  unread,     \* profiles list_people has still to read
  known,      \* people it has found
  speaker,    \* whose turn it is
  history,    \* what recent_turns returned
  enrolling,  \* enrolling[w]: whose profile w has open for writing
  (* History variables: no step reads them but for a bound. *)
  filed,      \* filed[p]: the turns of which every byte was written
  turns,      \* how many turns were saved or begun to be
  faults,     \* how many faults there were
  overlapped  \* profiles opened for writing while they were, and not since

files == <<profile, log, open>>
turnVars == <<pc, unread, known, speaker, history>>
ghosts == <<filed, turns, faults, overlapped>>
vars == <<files, turnVars, enrolling, ghosts>>

Init ==
  /\ profile \in [People -> {"absent", "whole"}]
  /\ log = [p \in Persons |-> << >>]
  /\ open = [p \in Persons |-> FALSE]
  /\ pc = "idle" /\ unread = {} /\ known = {} /\ speaker = GUEST /\ history = << >>
  /\ enrolling = [w \in Writers |-> Nobody]
  /\ filed = [p \in Persons |-> << >>] /\ turns = 0 /\ faults = 0 /\ overlapped = {}

(***************************************************************************)
(* Reading                                                                 *)
(***************************************************************************)
\* get_person: None without a file, an exception on half a file.
BugPerson(p) == IF profile[p] = "whole" THEN p ELSE Nobody
Person(p) == IF profile[p] = "absent" THEN Nobody ELSE p
Readable(p) == profile[p] = "whole" \/ Person(p) = Nobody

BugLastOf(s, n) == IF Len(s) <= n THEN s ELSE SubSeq(s, Len(s) - n, Len(s))
LastOf(s, n) == IF Len(s) <= n THEN s ELSE SubSeq(s, Len(s) - n + 1, Len(s))

\* recent_turns parses the last n lines, whatever they are.
BugRecent(p) ==
  LastOf(SelectSeq(log[p], LAMBDA line : line # Garbled), HistoryLimit)
Recent(p) == LastOf(log[p], HistoryLimit)

TurnFails ==
  /\ pc' = "idle"
  /\ UNCHANGED <<files, unread, known, speaker, history, enrolling, ghosts>>

\* identify: list_people goes through the directories one by one.
Listen ==
  /\ pc = "idle" /\ turns < MaxTurns
  /\ pc' = "scan" /\ unread' = People /\ known' = {}
  /\ UNCHANGED <<files, speaker, history, enrolling, ghosts>>

ReadProfile(p) ==
  /\ pc = "scan" /\ p \in unread /\ Readable(p)
  /\ unread' = unread \ {p}
  /\ known' = known \cup ({Person(p)} \ {Nobody})
  /\ UNCHANGED <<files, pc, speaker, history, enrolling, ghosts>>

ScanFails == pc = "scan" /\ (\E p \in unread : ~Readable(p)) /\ TurnFails

Recognise ==
  /\ pc = "scan" /\ unread = {}
  /\ \E p \in known \cup {GUEST} :
       /\ speaker' = p
       /\ pc' = IF p = GUEST THEN "reply" ELSE "lookup"
  /\ history' = << >>
  /\ UNCHANGED <<files, unread, known, enrolling, ghosts>>

\* run_once's own get_person: None makes the speaker a guest.
Lookup ==
  /\ pc = "lookup" /\ Readable(speaker)
  /\ IF Person(speaker) = Nobody
     THEN speaker' = GUEST /\ pc' = "reply"
     ELSE pc' = "recall" /\ UNCHANGED speaker
  /\ UNCHANGED <<files, unread, known, history, enrolling, ghosts>>

LookupFails == pc = "lookup" /\ ~Readable(speaker) /\ TurnFails

Parses(lines) == \A i \in 1..Len(lines) : lines[i] # Garbled

Recall ==
  /\ pc = "recall" /\ Parses(Recent(speaker))
  /\ history' = Recent(speaker)
  /\ pc' = "reply"
  /\ UNCHANGED <<files, unread, known, speaker, enrolling, ghosts>>

RecallFails == pc = "recall" /\ ~Parses(Recent(speaker)) /\ TurnFails

ReplyFails == pc = "reply" /\ TurnFails

(***************************************************************************)
(* Writing                                                                 *)
(***************************************************************************)
\* What a file holds once `line` is appended: after an unfinished line it
\* becomes part of that one.
Appended(lines, unfinished, line) ==
  IF unfinished THEN [lines EXCEPT ![Len(lines)] = Garbled] ELSE Append(lines, line)

BugLeftOpen == TRUE
LeftOpen == FALSE

Save ==
  LET turn == turns + 1
  IN  /\ pc = "reply" /\ turns < MaxTurns
      /\ log' = [log EXCEPT ![speaker] = Appended(@, open[speaker], turn)]
      /\ open' = [open EXCEPT ![speaker] = LeftOpen]
      /\ filed' = [filed EXCEPT ![speaker] = Append(@, turn)]
      /\ turns' = turn /\ pc' = "idle"
      /\ UNCHANGED <<profile, unread, known, speaker, history, enrolling, faults,
                     overlapped>>

Open(p) == \E w \in Writers : enrolling[w] = p

\* upsert_person: write_text opens the file, which empties it, ...
Truncate(w, p) ==
  /\ enrolling[w] = Nobody
  /\ enrolling' = [enrolling EXCEPT ![w] = p]
  /\ profile' = [profile EXCEPT ![p] = "empty"]
  /\ overlapped' = IF Open(p) THEN overlapped \cup {p} ELSE overlapped \ {p}
  /\ UNCHANGED <<log, open, turnVars, filed, turns, faults>>

\* A text that is written from the start of the file; of a longer one that
\* was there already the end is left.
BugWritten(before) == {"whole", "torn"}
Written(before) == IF before = "empty" THEN {"whole"} ELSE {"whole", "torn"}

\* ... and writes it.
Write(w) ==
  LET p == enrolling[w]
  IN  /\ p # Nobody
      /\ enrolling' = [enrolling EXCEPT ![w] = Nobody]
      /\ \E after \in Written(profile[p]) : profile' = [profile EXCEPT ![p] = after]
      /\ UNCHANGED <<log, open, turnVars, ghosts>>

(***************************************************************************)
(* Faults                                                                  *)
(***************************************************************************)
Fault == faults < MaxFaults /\ faults' = faults + 1 /\ UNCHANGED overlapped

\* Some writers stop where they are, the text written in part or not at all.
Stopped(dead) ==
  /\ enrolling' = [w \in Writers |-> IF w \in dead THEN Nobody ELSE enrolling[w]]
  /\ \E part \in SUBSET {enrolling[w] : w \in dead} :
       profile' = [p \in People |-> IF p \in part THEN "torn" ELSE profile[p]]

\* An append stops part of the way, or short of nothing but the newline; the
\* write raised, or the process died.
TearTurn ==
  LET turn == turns + 1
  IN  /\ Fault
      /\ pc = "reply" /\ turns < MaxTurns
      /\ \E line \in {Garbled, turn} :
           /\ log' = [log EXCEPT ![speaker] = Appended(@, open[speaker], line)]
           /\ filed' = IF line = turn
                       THEN [filed EXCEPT ![speaker] = Append(@, turn)] ELSE filed
      /\ open' = [open EXCEPT ![speaker] = TRUE]
      /\ turns' = turn /\ pc' = "idle"
      /\ \E dead \in SUBSET Writers : Stopped(dead)
      /\ UNCHANGED <<unread, known, speaker, history>>

\* The write of a profile raises, or the process that enrolls dies.
TearProfile ==
  /\ Fault
  /\ \E w \in Writers : enrolling[w] # Nobody /\ Stopped({w})
  /\ UNCHANGED <<log, open, turnVars, filed, turns>>

\* The agent dies between two operations of the turn thread, and starts
\* again; enrolments of its own die with it.
Restart ==
  /\ Fault
  /\ pc # "idle" /\ pc' = "idle"
  /\ \E dead \in SUBSET Writers : Stopped(dead)
  /\ UNCHANGED <<log, open, unread, known, speaker, history, filed, turns>>

Next ==
  \/ Listen \/ (\E p \in People : ReadProfile(p)) \/ ScanFails \/ Recognise
  \/ Lookup \/ LookupFails \/ Recall \/ RecallFails \/ ReplyFails \/ Save
  \/ \E w \in Writers : Write(w) \/ \E p \in People : Truncate(w, p)
  \/ TearTurn \/ TearProfile \/ Restart

Spec == Init /\ [][Next]_vars

-------------------------------------------------------------------------------
TypeOK ==
  /\ profile \in [People -> {"absent", "empty", "torn", "whole"}]
  /\ \A p \in Persons : log[p] \in Seq(0..MaxTurns) /\ (open[p] => log[p] # << >>)
  /\ open \in [Persons -> BOOLEAN]
  /\ pc \in {"idle", "scan", "lookup", "recall", "reply"}
  /\ unread \subseteq People /\ known \subseteq People /\ speaker \in Persons
  /\ history \in Seq(1..MaxTurns) /\ Len(history) <= HistoryLimit
  /\ enrolling \in [Writers -> People \cup {Nobody}]
  /\ \A p \in Persons : filed[p] \in Seq(1..turns)
  /\ turns \in 0..MaxTurns /\ faults \in 0..MaxFaults /\ overlapped \subseteq People

(* Whoever was recognised is answered under that name or not at all: an    *)
(* enrolment that rewrites the profile between the two reads of it does    *)
(* not turn a known speaker into a guest.                                  *)
KnownOrFailed == [][pc = "lookup" => speaker' = speaker]_vars

(* The turns an enrolled speaker is answered from are that person's last   *)
(* ones, as many as asked for, in order and without a gap -- also when     *)
(* appends were torn before: those fail the turn instead.                  *)
HistoryHasNoGap ==
  pc = "reply" /\ speaker # GUEST => history = LastOf(filed[speaker], HistoryLimit)

(* Without a fault a log is never damaged, and a profile is unreadable     *)
(* only while it is being written or, until the next enrolment under that  *)
(* name, because two of them had it open at once: the shorter text is then *)
(* written over the longer one.                                            *)
DamageNeedsFault ==
  faults = 0 =>
    /\ \A p \in People : ~Readable(p) => Open(p) \/ p \in overlapped
    /\ \A p \in Persons : ~open[p] /\ Parses(log[p])

Lost == UNION {Range(filed[p]) \ Range(log[p]) : p \in Persons}

(* One torn append costs at most two turns that were completely written:   *)
(* the one without its newline and the one that ends up on the same line.  *)
LossPerFault == Cardinality(Lost) <= 2 * faults
===============================================================================
