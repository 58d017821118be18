--------------------------- MODULE JsonMemoryProofs ---------------------------
(***************************************************************************)
(* Proofs about adapters/memory_json.py for any people, any number of      *)
(* turns and faults and any length of history.                             *)
(***************************************************************************)
EXTENDS JsonMemory, FiniteSetTheorems, SequenceTheorems, TLAPS

Types ==
  /\ profile \in [People -> {"absent", "empty", "torn", "whole"}]
  /\ log \in [Persons -> Seq(0..MaxTurns)]
  /\ open \in [Persons -> BOOLEAN]
  /\ \A p \in Persons : open[p] => log[p] # << >>
  /\ pc \in {"idle", "scan", "lookup", "recall", "reply"}
  /\ unread \subseteq People /\ known \subseteq People /\ speaker \in Persons
  /\ history \in Seq(1..MaxTurns) /\ Len(history) <= HistoryLimit
  /\ enrolling \in [Writers -> People \cup {Nobody}] /\ overlapped \subseteq People
  /\ filed \in [Persons -> Seq(Nat)]
  /\ \A p \in Persons : \A i \in 1..Len(filed[p]) : filed[p][i] \in 1..turns
  /\ turns \in 0..MaxTurns /\ faults \in 0..MaxFaults

(* A profile that was found is never removed, and one recognised was found.*)
Found ==
  /\ \A p \in known : profile[p] # "absent"
  /\ pc \in {"lookup", "recall"} => speaker \in People
  /\ pc = "lookup" => speaker \in known

(* The log of an enrolled person is what was filed, or ends in a line that *)
(* does not parse: nobody who has one of these is answered, so no line     *)
(* comes after it.                                                         *)
Sound(p) == log[p] = filed[p] /\ Parses(log[p])
Spoilt(p) == log[p] # << >> /\ log[p][Len(log[p])] = Garbled

Logs ==
  /\ \A p \in People : Sound(p) \/ Spoilt(p)
  /\ pc = "reply" /\ speaker # GUEST => Sound(speaker) /\ history = Recent(speaker)

(* Without a fault, a profile that is written by one enrolment alone is    *)
(* empty until it is whole.                                                *)
Alone ==
  faults = 0 =>
    \A p \in People \ overlapped, w \in Writers :
      enrolling[w] = p =>
        profile[p] = "empty" /\ \A v \in Writers : enrolling[v] = p => v = w

IInv == Types /\ Found /\ Logs /\ DamageNeedsFault /\ Alone

(***************************************************************************)
(* The operators                                                           *)
(***************************************************************************)
(* The last n of a sequence are a sequence of the same kind, at most n, all*)
(* from it, and end as it does.                                            *)
LEMMA LastOfSeq ==
  ASSUME NEW S, NEW s \in Seq(S), NEW n \in Nat \ {0}
  PROVE  /\ LastOf(s, n) \in Seq(S)
         /\ Len(LastOf(s, n)) <= n
         /\ s # << >> =>
              /\ Len(LastOf(s, n)) \in 1..Len(s)
              /\ LastOf(s, n)[Len(LastOf(s, n))] = s[Len(s)]
<1>1. CASE Len(s) <= n
  BY <1>1 DEF LastOf
<1>2. CASE Len(s) > n
  BY <1>2 DEF LastOf
<1> QED
  BY <1>1, <1>2

(* A log that ends in a garbled line cannot be recalled.                   *)
LEMMA SpoiltFails ==
  ASSUME Types, NEW p \in Persons, Spoilt(p)
  PROVE  ~Parses(Recent(p))
<1>1. log[p] \in Seq(0..MaxTurns) /\ HistoryLimit \in Nat \ {0}
  BY MemoryAssumption DEF Types
<1> QED
  BY <1>1, LastOfSeq DEF Spoilt, Parses, Recent

(* An append to a sound log leaves it sound if the line before was         *)
(* finished, and spoilt if it was not.                                     *)
LEMMA AppendSound ==
  ASSUME NEW S, NEW s \in Seq(S), NEW line \in Nat \ {0}, Parses(s)
  PROVE  /\ Parses(Append(s, line))
         /\ Append(s, line)[Len(Append(s, line))] = line
  BY DEF Parses, Garbled

(* What follows an unfinished line garbles it.                             *)
LEMMA GarbleLast ==
  ASSUME NEW s \in Seq(0..MaxTurns), s # << >>
  PROVE  LET g == [s EXCEPT ![Len(s)] = Garbled]
         IN  g \in Seq(0..MaxTurns) /\ g # << >> /\ g[Len(g)] = Garbled
<1> DEFINE g == [s EXCEPT ![Len(s)] = Garbled]
<1>1. Len(s) \in 1..Len(s) /\ Garbled \in 0..MaxTurns
  BY MemoryAssumption DEF Garbled
<1>2. g \in Seq(0..MaxTurns) /\ Len(g) = Len(s) /\ g[Len(s)] = Garbled
  BY <1>1, ExceptSeq
<1>3. g # << >>
  BY <1>1, <1>2
<1> QED
  BY <1>2, <1>3

(***************************************************************************)
(* The invariant                                                           *)
(***************************************************************************)
(* At first there are no turns and no half-written profiles.               *)
LEMMA InitIInv == Init => IInv
<1> SUFFICES ASSUME Init PROVE IInv
  OBVIOUS
<1> USE MemoryAssumption DEF Init, Persons
<1>1. Types
  BY DEF Types
<1>2. Found /\ Logs
  BY DEF Found, Logs, Sound, Parses
<1>3. DamageNeedsFault /\ Alone
  BY DEF DamageNeedsFault, Alone, Readable, Person, Parses
<1> QED
  BY <1>1, <1>2, <1>3 DEF IInv

(* Writers that stop remove no profile.                                    *)
LEMMA StoppedFiles ==
  ASSUME Types, NEW dead \in SUBSET Writers, Stopped(dead)
  PROVE  /\ enrolling' \in [Writers -> People \cup {Nobody}]
         /\ profile' \in [People -> {"absent", "empty", "torn", "whole"}]
         /\ \A p \in People : profile[p] # "absent" => profile'[p] # "absent"
<1>1. enrolling' = [w \in Writers |-> IF w \in dead THEN Nobody ELSE enrolling[w]]
  BY DEF Stopped
<1>2. PICK part : profile' = [p \in People |-> IF p \in part THEN "torn" ELSE profile[p]]
  BY DEF Stopped
<1>3. enrolling' \in [Writers -> People \cup {Nobody}]
  BY <1>1 DEF Types
<1>4. profile' \in [People -> {"absent", "empty", "torn", "whole"}]
  BY <1>2 DEF Types
<1> QED
  BY <1>2, <1>3, <1>4

(* After a fault nothing is claimed of the files.                          *)
LEMMA AfterFault ==
  ASSUME Types, Fault
  PROVE  faults' # 0 /\ faults' \in 0..MaxFaults /\ DamageNeedsFault' /\ Alone'
<1>1. faults' # 0 /\ faults' \in 0..MaxFaults
  BY MemoryAssumption DEF Types, Fault
<1> QED
  BY <1>1 DEF DamageNeedsFault, Alone

(* Whoever leaves the files alone does not damage them.                    *)
LEMMA DamageKept ==
  ASSUME DamageNeedsFault, Alone, UNCHANGED <<files, enrolling, faults, overlapped>>
  PROVE  DamageNeedsFault' /\ Alone'
  BY DEF DamageNeedsFault, Alone, Readable, Person, Open, Parses, files

(* What is filed or torn under the name of the speaker.                    *)
LEMMA WriteTurn ==
  ASSUME IInv, pc = "reply", turns < MaxTurns,
         NEW line \in {Garbled, turns + 1},
         NEW left \in BOOLEAN,
         line = Garbled => left,
         log' = [log EXCEPT ![speaker] = Appended(@, open[speaker], line)],
         open' = [open EXCEPT ![speaker] = left],
         filed' = IF line = turns + 1
                  THEN [filed EXCEPT ![speaker] = Append(@, turns + 1)] ELSE filed,
         turns' = turns + 1, pc' = "idle",
         UNCHANGED <<unread, known, speaker, history>>,
         \/ ~left /\ UNCHANGED <<profile, enrolling, faults, overlapped>>
         \/ Fault /\ \E dead \in SUBSET Writers : Stopped(dead)
  PROVE  IInv'
<1> USE MemoryAssumption
<1> DEFINE s == log[speaker]
           t == Appended(s, open[speaker], line)
<1>1. /\ s \in Seq(0..MaxTurns) /\ line \in 0..MaxTurns
      /\ open[speaker] \in BOOLEAN /\ (open[speaker] => s # << >>)
  BY DEF IInv, Types, Garbled
<1>2. /\ t \in Seq(0..MaxTurns) /\ t # << >>
      /\ open[speaker] \/ line = Garbled => t[Len(t)] = Garbled
  <2>1. CASE open[speaker]
    BY <1>1, <2>1, GarbleLast DEF Appended
  <2>2. CASE ~open[speaker]
    <3>1. t = Append(s, line)
      BY <2>2 DEF Appended
    <3> QED
      BY <1>1, <2>2, <3>1
  <2> QED
    BY <2>1, <2>2
<1>3. log' = [log EXCEPT ![speaker] = t]
  OBVIOUS
<1> HIDE DEF t
<1>4. Types'
  <2>1. /\ log' \in [Persons -> Seq(0..MaxTurns)]
        /\ open' \in [Persons -> BOOLEAN]
        /\ \A p \in Persons : open'[p] => log'[p] # << >>
    <3>1. log' \in [Persons -> Seq(0..MaxTurns)]
      BY <1>2, <1>3 DEF IInv, Types
    <3>2. open' \in [Persons -> BOOLEAN]
      BY DEF IInv, Types
    <3>3. ASSUME NEW p \in Persons, open'[p] PROVE log'[p] # << >>
      <4>1. CASE p = speaker
        BY <1>2, <1>3, <4>1 DEF IInv, Types
      <4>2. CASE p # speaker
        BY <1>3, <3>3, <4>2 DEF IInv, Types
      <4> QED
        BY <4>1, <4>2
    <3> QED
      BY <3>1, <3>2, <3>3
  <2>2. /\ filed' \in [Persons -> Seq(Nat)]
        /\ \A p \in Persons : \A i \in 1..Len(filed'[p]) : filed'[p][i] \in 1..turns'
    <3>1. CASE filed' = filed
      BY <3>1 DEF IInv, Types
    <3>2. CASE filed' = [filed EXCEPT ![speaker] = Append(@, turns + 1)]
      <4> DEFINE more == Append(filed[speaker], turns + 1)
      <4>1. filed \in [Persons -> Seq(Nat)] /\ speaker \in Persons /\ turns + 1 \in Nat
        BY DEF IInv, Types
      <4>2. more \in Seq(Nat)
        BY <4>1
      <4>3. \A i \in 1..Len(more) : more[i] \in 1..turns'
        <5> DEFINE before == filed[speaker]
        <5>1. before \in Seq(Nat) /\ turns \in Nat /\ turns' = turns + 1
          BY <4>1 DEF IInv, Types
        <5>2. \A i \in 1..Len(before) : before[i] \in 1..turns
          BY <4>1 DEF IInv, Types
        <5> HIDE DEF before
        <5>3. /\ Len(Append(before, turns + 1)) = Len(before) + 1
              /\ \A i \in 1..(Len(before) + 1) :
                   Append(before, turns + 1)[i] = IF i <= Len(before) THEN before[i]
                                                                     ELSE turns + 1
          BY <5>1
        <5>4. \A i \in 1..(Len(before) + 1) : Append(before, turns + 1)[i] \in 1..(turns + 1)
          BY <5>1, <5>2, <5>3
        <5> QED
          BY <5>1, <5>3, <5>4 DEF before
      <4> HIDE DEF more
      <4>4. filed' = [filed EXCEPT ![speaker] = more]
        BY <3>2 DEF more
      <4>5. ASSUME NEW p \in Persons PROVE \A i \in 1..Len(filed'[p]) : filed'[p][i] \in 1..turns'
        <5>1. CASE p = speaker
          BY <4>1, <4>3, <4>4, <5>1
        <5>2. CASE p # speaker
          <6>1. filed'[p] = filed[p] /\ turns \in Nat /\ turns' = turns + 1
            BY <4>1, <4>4, <5>2 DEF IInv, Types
          <6>2. \A i \in 1..Len(filed[p]) : filed[p][i] \in 1..turns
            BY DEF IInv, Types
          <6>3. 1..turns \subseteq 1..turns'
            BY <6>1
          <6> QED
            BY <6>1, <6>2, <6>3
        <5> QED
          BY <5>1, <5>2
      <4> QED
        BY <4>1, <4>2, <4>4, <4>5
    <3> QED
      BY <3>1, <3>2
  <2>3. turns' \in 0..MaxTurns /\ faults' \in 0..MaxFaults /\ overlapped' \subseteq People
    BY DEF Fault, IInv, Types
  <2>4. /\ enrolling' \in [Writers -> People \cup {Nobody}]
        /\ profile' \in [People -> {"absent", "empty", "torn", "whole"}]
    BY StoppedFiles DEF IInv, Types
  <2>5. /\ pc' \in {"idle", "scan", "lookup", "recall", "reply"}
        /\ unread' \subseteq People /\ known' \subseteq People /\ speaker' \in Persons
        /\ history' \in Seq(1..MaxTurns) /\ Len(history') <= HistoryLimit
    BY DEF IInv, Types
  <2> QED
    BY <2>1, <2>2, <2>3, <2>4, <2>5, Zenon DEF Types
<1>5. Found'
  <2>1. \A p \in People : profile[p] # "absent" => profile'[p] # "absent"
    BY StoppedFiles DEF IInv
  <2> QED
    BY <2>1 DEF IInv, Found, Types
<1>6. Logs'
  <2> SUFFICES ASSUME NEW p \in People PROVE Sound(p)' \/ Spoilt(p)'
    BY DEF Logs
  <2>1. CASE p # speaker
    <3>1. log'[p] = log[p] /\ filed'[p] = filed[p]
      BY <1>3, <2>1 DEF IInv, Types, Persons
    <3> QED
      BY <3>1 DEF IInv, Logs, Sound, Spoilt, Parses
  <2>2. CASE p = speaker /\ (open[speaker] \/ line = Garbled)
    <3>1. log'[p] = t
      BY <1>3, <2>2 DEF IInv, Types
    <3> QED
      BY <3>1, <1>2, <2>2 DEF Spoilt, Garbled
  <2>3. CASE p = speaker /\ ~open[speaker] /\ line # Garbled
    <3>1. t = Append(s, turns + 1)
      BY <2>3 DEF t, Appended
    <3>2. s = filed[p] /\ Parses(s)
      BY <2>3 DEF IInv, Logs, Sound
    <3>3. log'[p] = Append(s, turns + 1) /\ filed'[p] = Append(s, turns + 1)
      BY <1>3, <2>3, <3>1, <3>2 DEF IInv, Types
    <3>4. turns + 1 \in Nat \ {0}
      BY DEF IInv, Types
    <3>5. Parses(Append(s, turns + 1))
      BY <3>2, <3>4, <1>1, AppendSound
    <3> QED
      BY <3>3, <3>5 DEF Sound, Parses
  <2> QED
    BY <2>1, <2>2, <2>3
<1>7. CASE Fault
  BY <1>4, <1>5, <1>6, <1>7, AfterFault DEF IInv
<1>8. CASE ~left /\ UNCHANGED <<profile, enrolling, faults, overlapped>>
  <2>0. Alone'
    BY <1>8 DEF IInv, Alone
  <2> SUFFICES ASSUME faults' = 0 PROVE DamageNeedsFault'
    BY <1>4, <1>5, <1>6, <2>0 DEF IInv, DamageNeedsFault
  <2>1. line = turns + 1
    BY <1>8
  <2>2. /\ \A p \in People : ~Readable(p) => Open(p) \/ p \in overlapped
        /\ \A p \in Persons : ~open[p] /\ Parses(log[p])
    BY <1>8 DEF IInv, DamageNeedsFault
  <2>3. t = Append(s, turns + 1)
    BY <2>1, <2>2 DEF t, Appended, IInv, Types
  <2>4. Parses(t)
    BY <2>2, <2>3, <1>1, AppendSound DEF IInv, Types
  <2>5. \A p \in Persons : ~open'[p] /\ Parses(log'[p])
    <3> SUFFICES ASSUME NEW p \in Persons PROVE ~open'[p] /\ Parses(log'[p])
      OBVIOUS
    <3>1. CASE p = speaker
      BY <3>1, <1>8, <2>4, <1>3 DEF IInv, Types
    <3>2. CASE p # speaker
      BY <3>2, <2>2, <1>3 DEF IInv, Types
    <3> QED
      BY <3>1, <3>2
  <2> QED
    BY <1>8, <2>2, <2>5 DEF DamageNeedsFault, Parses, Readable, Person, Open
<1> QED
  BY <1>7, <1>8

(* A step that leaves the logs and what was filed alone keeps what is said *)
(* of them, unless it is the one that goes on to the reply.                *)
LEMMA LogsKept ==
  ASSUME Logs, UNCHANGED <<log, filed, speaker, history>>, pc' # "reply" \/ pc' = pc
  PROVE  Logs'
  BY DEF Logs, Sound, Spoilt, Parses, Recent

(* Every step of the turn thread, of an enrolment and of a fault keeps the *)
(* invariant.                                                              *)
LEMMA NextIInv == IInv /\ [Next]_vars => IInv'
<1> SUFFICES ASSUME IInv, [Next]_vars PROVE IInv'
  OBVIOUS
<1> USE MemoryAssumption DEF files, turnVars, ghosts
<1>1. CASE Listen
  BY <1>1, LogsKept, DamageKept DEF Listen, IInv, Types, Found
<1>2. ASSUME NEW p \in People, ReadProfile(p) PROVE IInv'
  <2>1. Found'
    BY <1>2 DEF ReadProfile, Person, IInv, Found, Types
  <2>2. Types'
    BY <1>2 DEF ReadProfile, Person, IInv, Types
  <2> QED
    BY <1>2, <2>1, <2>2, LogsKept, DamageKept DEF ReadProfile, IInv
<1>3. CASE TurnFails
  BY <1>3, LogsKept, DamageKept DEF TurnFails, IInv, Types, Found
<1>4. CASE Recognise
  <2> PICK p \in known \cup {GUEST} :
        /\ speaker' = p
        /\ pc' = IF p = GUEST THEN "reply" ELSE "lookup"
    BY <1>4 DEF Recognise
  <2>1. Types'
    BY <1>4 DEF Recognise, IInv, Types, Persons
  <2>2. Found' /\ DamageNeedsFault' /\ Alone'
    BY <1>4, DamageKept DEF Recognise, IInv, Types, Found
  <2>3. Logs'
    BY <1>4 DEF Recognise, IInv, Logs, Sound, Spoilt, Parses
  <2> QED
    BY <2>1, <2>2, <2>3 DEF IInv
<1>5. CASE Lookup
  <2>1. Person(speaker) # Nobody
    BY <1>5 DEF Lookup, Person, IInv, Found, Types
  <2>2. pc' = "recall" /\ UNCHANGED <<files, unread, known, speaker, history,
                                      enrolling, ghosts>>
    BY <1>5, <2>1 DEF Lookup
  <2> QED
    BY <1>5, <2>2, LogsKept, DamageKept DEF Lookup, IInv, Types, Found
<1>6. CASE Recall
  <2>1. speaker \in People /\ Sound(speaker)
    BY <1>6, SpoiltFails DEF Recall, IInv, Found, Logs, Types
  <2>2. history' \in Seq(1..MaxTurns) /\ Len(history') <= HistoryLimit
    <3>1. /\ history' \in Seq(0..MaxTurns)
          /\ Len(history') <= HistoryLimit
      BY <1>6, LastOfSeq DEF Recall, Recent, IInv, Types
    <3>2. \A i \in 1..Len(history') : history'[i] # 0
      BY <1>6 DEF Recall, Parses, Garbled
    <3> QED
      BY <3>1, <3>2
  <2>3. Types'
    BY <1>6, <2>2 DEF Recall, IInv, Types
  <2>4. Found' /\ DamageNeedsFault' /\ Alone'
    BY <1>6, DamageKept DEF Recall, IInv, Found
  <2>5. Logs'
    BY <1>6, <2>1 DEF Recall, IInv, Logs, Sound, Spoilt, Parses, Recent
  <2> QED
    BY <2>3, <2>4, <2>5 DEF IInv
<1>7. CASE Save
  <2>1. turns + 1 # Garbled
    BY DEF IInv, Types, Garbled
  <2> QED
    BY <1>7, <2>1, WriteTurn DEF Save, LeftOpen
<1>8. ASSUME NEW w \in Writers, NEW p \in People, Truncate(w, p) PROVE IInv'
  <2>1. /\ enrolling[w] = Nobody /\ enrolling' = [enrolling EXCEPT ![w] = p]
        /\ profile' = [profile EXCEPT ![p] = "empty"]
        /\ overlapped' = IF Open(p) THEN overlapped \cup {p} ELSE overlapped \ {p}
        /\ UNCHANGED <<log, open, turnVars, filed, turns, faults>>
    BY <1>8 DEF Truncate
  <2>2. Types' /\ Found' /\ Logs'
    BY <2>1, LogsKept DEF IInv, Types, Found
  <2>3. /\ enrolling'[w] = p /\ profile'[p] = "empty"
        /\ \A v \in Writers : v # w => enrolling'[v] = enrolling[v]
        /\ \A q \in People : q # p => profile'[q] = profile[q]
    BY <2>1 DEF IInv, Types
  <2>4. Alone'
    BY <2>1, <2>3 DEF IInv, Alone, Open
  <2>5. ASSUME faults' = 0, NEW q \in People, ~Readable(q)'
        PROVE  Open(q)' \/ q \in overlapped'
    BY <2>1, <2>3, <2>5 DEF IInv, DamageNeedsFault, Open, Readable, Person
  <2>6. DamageNeedsFault'
    BY <2>1, <2>5 DEF IInv, DamageNeedsFault, Parses
  <2> QED
    BY <2>2, <2>4, <2>6 DEF IInv
<1>9. ASSUME NEW w \in Writers, Write(w) PROVE IInv'
  <2> DEFINE p == enrolling[w]
  <2>1. /\ p \in People /\ enrolling' = [enrolling EXCEPT ![w] = Nobody]
        /\ UNCHANGED <<log, open, turnVars, ghosts>>
    BY <1>9 DEF Write, IInv, Types
  <2>2. PICK after \in Written(profile[p]) : profile' = [profile EXCEPT ![p] = after]
    BY <1>9 DEF Write
  <2> HIDE DEF p
  <2>3. after \in {"whole", "torn"} /\ (profile[p] = "empty" => after = "whole")
    BY <2>2 DEF Written
  <2>4. Types' /\ Found' /\ Logs'
    BY <2>1, <2>2, <2>3, LogsKept DEF IInv, Types, Found
  <2>5. /\ enrolling'[w] = Nobody /\ profile'[p] = after
        /\ \A v \in Writers : v # w => enrolling'[v] = enrolling[v]
        /\ \A q \in People : q # p => profile'[q] = profile[q]
    BY <2>1, <2>2 DEF IInv, Types
  <2>6. Alone'
    BY <2>1, <2>5 DEF IInv, Alone, p
  <2>7. ASSUME faults' = 0, NEW q \in People, ~Readable(q)'
        PROVE  Open(q)' \/ q \in overlapped'
    <3>1. CASE q = p
      BY <2>1, <2>3, <2>5, <2>7, <3>1 DEF IInv, Alone, Readable, p
    <3>2. CASE q # p
      <4>1. ~Readable(q)
        BY <2>5, <2>7, <3>2 DEF Readable, Person
      <4>2. Open(q) \/ q \in overlapped
        BY <2>1, <2>7, <4>1 DEF IInv, DamageNeedsFault
      <4> QED
        BY <2>1, <2>5, <3>2, <4>2 DEF Open, p
    <3> QED
      BY <3>1, <3>2
  <2>8. DamageNeedsFault'
    BY <2>1, <2>7 DEF IInv, DamageNeedsFault, Parses
  <2> QED
    BY <2>4, <2>6, <2>8 DEF IInv
<1>10. CASE TearTurn
  <2> PICK line \in {Garbled, turns + 1} :
         /\ log' = [log EXCEPT ![speaker] = Appended(@, open[speaker], line)]
         /\ filed' = IF line = turns + 1
                     THEN [filed EXCEPT ![speaker] = Append(@, turns + 1)] ELSE filed
    BY <1>10 DEF TearTurn
  <2> QED
    BY <1>10, WriteTurn DEF TearTurn
<1>11. CASE TearProfile
  <2>1. PICK w \in Writers : Stopped({w})
    BY <1>11 DEF TearProfile
  <2>2. Fault /\ UNCHANGED <<log, open, turnVars, filed, turns>>
    BY <1>11 DEF TearProfile
  <2>3. DamageNeedsFault' /\ Alone' /\ faults' \in 0..MaxFaults /\ overlapped' = overlapped
    BY <2>2, AfterFault DEF IInv, Fault
  <2> QED
    BY <2>1, <2>2, <2>3, StoppedFiles, LogsKept DEF IInv, Types, Found
<1>12. CASE Restart
  <2>1. PICK dead \in SUBSET Writers : Stopped(dead)
    BY <1>12 DEF Restart
  <2>2. Fault /\ pc' = "idle" /\ UNCHANGED <<log, open, unread, known, speaker, history,
                                             filed, turns>>
    BY <1>12 DEF Restart
  <2>3. DamageNeedsFault' /\ Alone' /\ faults' \in 0..MaxFaults /\ overlapped' = overlapped
    BY <2>2, AfterFault DEF IInv, Fault
  <2> QED
    BY <2>1, <2>2, <2>3, StoppedFiles, LogsKept DEF IInv, Types, Found
<1>13. CASE UNCHANGED vars
  BY <1>13, LogsKept, DamageKept DEF vars, IInv, Types, Found
<1> QED
  BY <1>1, <1>2, <1>3, <1>4, <1>5, <1>6, <1>7, <1>8, <1>9, <1>10, <1>11, <1>12, <1>13
     DEF Next, ScanFails, LookupFails, RecallFails, ReplyFails

(* The invariant holds in every reachable state.                           *)
LEMMA Invariance == Spec => []IInv
  BY InitIInv, NextIInv, PTL DEF Spec

(***************************************************************************)
(* The theorems                                                            *)
(***************************************************************************)
(* Files and variables keep their kind; a history that is read has the     *)
(* length asked for at most, and parses.                                   *)
THEOREM TypeCorrect == Spec => []TypeOK
<1>1. IInv => TypeOK
  <2> SUFFICES ASSUME IInv PROVE TypeOK
    OBVIOUS
  <2>1. \A p \in Persons : filed[p] \in Seq(1..turns)
    <3> SUFFICES ASSUME NEW p \in Persons PROVE filed[p] \in Seq(1..turns)
      OBVIOUS
    <3>1. /\ filed[p] \in Seq(Nat)
          /\ \A i \in 1..Len(filed[p]) : filed[p][i] \in 1..turns
      BY DEF IInv, Types
    <3>2. filed[p] \in [1..Len(filed[p]) -> 1..turns] /\ Len(filed[p]) \in Nat
      BY <3>1
    <3> QED
      BY <3>2, SeqDef
  <2> QED
    BY <2>1 DEF IInv, Types, TypeOK
<1> QED
  BY <1>1, Invariance, PTL

(* An enrolled speaker is answered from that person's last turns without a *)
(* gap, however many appends were torn before.                             *)
THEOREM NoGaps == Spec => []HistoryHasNoGap
<1>1. IInv => HistoryHasNoGap
  BY DEF IInv, Logs, Sound, Recent, HistoryHasNoGap
<1> QED
  BY <1>1, Invariance, PTL

(* Without a fault no log is damaged, and a profile only by enrolments     *)
(* under one name that overlap -- until the next one that does not.        *)
THEOREM NoDamageWithoutFault == Spec => []DamageNeedsFault
<1>1. IInv => DamageNeedsFault
  BY DEF IInv
<1> QED
  BY <1>1, Invariance, PTL

(* A recognised speaker is not taken for a guest between the two reads of  *)
(* the profile.                                                            *)
THEOREM RecognisedStays == Spec => KnownOrFailed
<1>1. IInv /\ [Next]_vars => [pc = "lookup" => speaker' = speaker]_vars
  <2> SUFFICES ASSUME IInv, Next, pc = "lookup" PROVE speaker' = speaker
    BY DEF vars
  <2>1. CASE Lookup
    BY <2>1, MemoryAssumption DEF Lookup, Person, IInv, Found, Types
  <2> QED
    BY <2>1 DEF Next, Listen, ReadProfile, ScanFails, Recognise, LookupFails, Recall,
                RecallFails, ReplyFails, TurnFails, Save, Truncate, Write, TearTurn,
                TearProfile, Restart, turnVars
<1> QED
  BY <1>1, Invariance, PTL DEF Spec, KnownOrFailed

(***************************************************************************)
(* What faults cost                                                        *)
(***************************************************************************)
(* A log with an unfinished line is a loss to come: whoever appends next   *)
(* pays for it, so it is counted with what is lost already.                *)
Unfinished == {p \in Persons : open[p]}
LossInv ==
  /\ IsFiniteSet(Lost) /\ IsFiniteSet(Unfinished)
  /\ Cardinality(Lost) + 2 * Cardinality(Unfinished) <= 2 * faults

(* An append to a finished line loses nothing; after an unfinished one it  *)
(* loses at most that line and itself.                                     *)
LEMMA LostByAppend ==
  ASSUME Types, NEW line \in {Garbled, turns + 1},
         log' = [log EXCEPT ![speaker] = Appended(@, open[speaker], line)],
         filed' = IF line = turns + 1
                  THEN [filed EXCEPT ![speaker] = Append(@, turns + 1)] ELSE filed
  PROVE  Lost' \subseteq
           Lost \cup (IF open[speaker] THEN {log[speaker][Len(log[speaker])], turns + 1}
                                       ELSE {})
<1> DEFINE s == log[speaker]
           f == filed[speaker]
<1>1. /\ s \in Seq(0..MaxTurns) /\ f \in Seq(Nat) /\ Len(s) \in Nat /\ Len(f) \in Nat
      /\ open[speaker] => s # << >>
  BY DEF Types
<1> SUFFICES ASSUME NEW p \in Persons, NEW x \in Range(filed'[p]), x \notin Range(log'[p])
             PROVE  \/ x \in Lost
                    \/ open[speaker] /\ x \in {s[Len(s)], turns + 1}
  BY DEF Lost
<1>2. CASE p # speaker
  <2>1. log'[p] = log[p] /\ filed'[p] = filed[p]
    BY <1>2 DEF Types
  <2> QED
    BY <2>1 DEF Lost
<1>3. CASE p = speaker
  <2>1. log'[p] = Appended(s, open[speaker], line)
    BY <1>3 DEF Types
  <2>2. filed'[p] = IF line = turns + 1 THEN Append(f, turns + 1) ELSE f
    BY <1>3 DEF Types
  <2>3. CASE x \in Range(f) /\ x \notin Range(s)
    BY <1>3, <2>3 DEF Lost
  <2>4. CASE x \in Range(s)
    <3>1. PICK i \in 1..Len(s) : s[i] = x
      <4>1. \E i \in DOMAIN s : s[i] = x
        BY <2>4 DEF Range
      <4>2. DOMAIN s = 1..Len(s)
        BY <1>1
      <4> QED
        BY <4>1, <4>2
    <3>2. CASE open[speaker]
      <4>1. log'[p] = [s EXCEPT ![Len(s)] = Garbled]
        BY <2>1, <3>2 DEF Appended
      <4>2. ASSUME i # Len(s) PROVE i \in DOMAIN log'[p] /\ log'[p][i] = x
        <5>1. DOMAIN s = 1..Len(s)
          BY <1>1
        <5> QED
          BY <3>1, <4>1, <4>2, <5>1
      <4>3. i = Len(s)
        BY <4>2 DEF Range
      <4> QED
        BY <3>1, <3>2, <4>3
    <3>3. CASE ~open[speaker]
      <4>1. log'[p] = Append(s, line)
        BY <2>1, <3>3 DEF Appended
      <4>2. i \in DOMAIN log'[p] /\ log'[p][i] = x
        BY <1>1, <3>1, <4>1
      <4> QED
        BY <4>2 DEF Range
    <3> QED
      BY <3>2, <3>3
  <2>5. CASE x \notin Range(f)
    <3>1. line = turns + 1 /\ x \in Range(Append(f, turns + 1))
      BY <1>3, <2>2, <2>5
    <3>2. x = turns + 1
      BY <1>1, <2>5, <3>1 DEF Range
    <3>3. CASE ~open[speaker]
      <4>1. log'[p] = Append(s, x)
        BY <2>1, <3>1, <3>2, <3>3 DEF Appended
      <4>2. Len(s) + 1 \in DOMAIN log'[p] /\ log'[p][Len(s) + 1] = x
        BY <1>1, <4>1
      <4> QED
        BY <4>2 DEF Range
    <3> QED
      BY <3>2, <3>3
  <2> QED
    BY <2>3, <2>4, <2>5
<1> QED
  BY <1>2, <1>3

(* One element more is at most one more.                                   *)
LEMMA OneMore ==
  ASSUME NEW S, NEW x, IsFiniteSet(S)
  PROVE  /\ IsFiniteSet(S \cup {x})
         /\ Cardinality(S) \in Nat /\ Cardinality(S \cup {x}) \in Nat
         /\ Cardinality(S \cup {x}) <= Cardinality(S) + 1
<1>1. Cardinality(S) \in Nat
  BY FS_CardinalityType
<1>2. /\ IsFiniteSet(S \cup {x})
      /\ Cardinality(S \cup {x}) = IF x \in S THEN Cardinality(S) ELSE Cardinality(S) + 1
  BY FS_AddElement
<1> QED
  BY <1>1, <1>2

(* A finished append settles what an unfinished one left to pay, and a     *)
(* fault pays in advance.                                                  *)
LEMMA WriteLoss ==
  ASSUME Types, LossInv, NEW line \in {Garbled, turns + 1}, NEW left \in BOOLEAN,
         log' = [log EXCEPT ![speaker] = Appended(@, open[speaker], line)],
         open' = [open EXCEPT ![speaker] = left],
         filed' = IF line = turns + 1
                  THEN [filed EXCEPT ![speaker] = Append(@, turns + 1)] ELSE filed,
         faults' = IF left THEN faults + 1 ELSE faults
  PROVE  LossInv'
<1> DEFINE last == log[speaker][Len(log[speaker])]
           U == Unfinished
           L == IF open[speaker] THEN (Lost \cup {last}) \cup {turns + 1} ELSE Lost
<1>1. /\ IsFiniteSet(Lost) /\ IsFiniteSet(U) /\ faults \in Nat
      /\ Cardinality(Lost) + 2 * Cardinality(U) <= 2 * faults
      /\ open \in [Persons -> BOOLEAN] /\ speaker \in Persons
  BY DEF Types, LossInv
<1>2. Lost' \subseteq L
  BY LostByAppend
<1>3. IsFiniteSet(L) /\ Cardinality(L) <= Cardinality(Lost) + (IF open[speaker] THEN 2 ELSE 0)
  <2>1. CASE ~open[speaker]
    BY <1>1, <2>1, FS_CardinalityType
  <2>2. CASE open[speaker]
    <3>1. /\ IsFiniteSet(Lost \cup {last}) /\ Cardinality(Lost) \in Nat
          /\ Cardinality(Lost \cup {last}) \in Nat
          /\ Cardinality(Lost \cup {last}) <= Cardinality(Lost) + 1
      BY <1>1, OneMore
    <3>2. /\ IsFiniteSet((Lost \cup {last}) \cup {turns + 1})
          /\ Cardinality((Lost \cup {last}) \cup {turns + 1}) \in Nat
          /\ Cardinality((Lost \cup {last}) \cup {turns + 1})
               <= Cardinality(Lost \cup {last}) + 1
      BY <3>1, OneMore
    <3> QED
      BY <2>2, <3>1, <3>2
  <2> QED
    BY <2>1, <2>2
<1>4. IsFiniteSet(Lost') /\ Cardinality(Lost') <= Cardinality(L)
  BY <1>2, <1>3, FS_Subset
<1>5. Unfinished' = IF left THEN U \cup {speaker} ELSE U \ {speaker}
  BY <1>1 DEF Unfinished
<1>6. speaker \in U <=> open[speaker]
  BY <1>1 DEF Unfinished
<1>7. /\ IsFiniteSet(Unfinished')
      /\ Cardinality(Unfinished') = Cardinality(U) + (IF left THEN 1 ELSE 0)
                                                   - (IF open[speaker] THEN 1 ELSE 0)
  <2>1. Cardinality(U) \in Nat
    BY <1>1, FS_CardinalityType
  <2>2. CASE left
    BY <1>1, <1>5, <1>6, <2>1, <2>2, FS_AddElement
  <2>3. CASE ~left
    BY <1>1, <1>5, <1>6, <2>1, <2>3, FS_RemoveElement
  <2> QED
    BY <2>2, <2>3
<1>8. /\ Cardinality(Lost) \in Nat /\ Cardinality(U) \in Nat /\ Cardinality(L) \in Nat
      /\ Cardinality(Lost') \in Nat /\ Cardinality(Unfinished') \in Nat
  BY <1>1, <1>3, <1>4, <1>7, FS_CardinalityType
<1>9. Cardinality(Lost') + 2 * Cardinality(Unfinished') <= 2 * faults'
  BY <1>1, <1>3, <1>4, <1>7, <1>8
<1> QED
  BY <1>4, <1>7, <1>9 DEF LossInv

LEMMA NextLoss == IInv /\ LossInv /\ [Next]_vars => LossInv'
<1> SUFFICES ASSUME IInv, LossInv, [Next]_vars PROVE LossInv'
  OBVIOUS
<1>1. Types /\ turns + 1 # Garbled /\ faults \in Nat
  BY MemoryAssumption DEF IInv, Types, Garbled
<1>2. CASE Save
  <2>1. /\ log' = [log EXCEPT ![speaker] = Appended(@, open[speaker], turns + 1)]
        /\ open' = [open EXCEPT ![speaker] = FALSE]
        /\ filed' = [filed EXCEPT ![speaker] = Append(@, turns + 1)]
        /\ faults' = faults
    BY <1>2 DEF Save, LeftOpen
  <2> QED
    BY <1>1, <2>1, WriteLoss
<1>3. CASE TearTurn
  <2>1. PICK line \in {Garbled, turns + 1} :
          /\ log' = [log EXCEPT ![speaker] = Appended(@, open[speaker], line)]
          /\ filed' = IF line = turns + 1
                      THEN [filed EXCEPT ![speaker] = Append(@, turns + 1)] ELSE filed
    BY <1>3 DEF TearTurn
  <2>2. open' = [open EXCEPT ![speaker] = TRUE] /\ faults' = faults + 1
    BY <1>3 DEF TearTurn, Fault
  <2> QED
    BY <1>1, <2>1, <2>2, WriteLoss
<1>4. CASE UNCHANGED <<log, open, filed>> /\ faults' \in {faults, faults + 1}
  <2>1. Lost' = Lost /\ Unfinished' = Unfinished
    BY <1>4 DEF Lost, Unfinished
  <2>2. Cardinality(Lost) \in Nat /\ Cardinality(Unfinished) \in Nat
    BY FS_CardinalityType DEF LossInv
  <2> QED
    BY <1>1, <1>4, <2>1, <2>2 DEF LossInv
<1> QED
  BY <1>2, <1>3, <1>4
  DEF Next, vars, files, ghosts, turnVars, Listen, ReadProfile, ScanFails, Recognise, Lookup,
      LookupFails, Recall, RecallFails, ReplyFails, TurnFails, Truncate, Write, TearProfile,
      Restart, Fault

(* At most two turns that were completely written are lost per fault, for  *)
(* any number of people, turns and faults.                                 *)
THEOREM LossIsBounded == Spec => []LossPerFault
<1>1. Init => LossInv
  <2> SUFFICES ASSUME Init PROVE LossInv
    OBVIOUS
  <2>1. Lost = {} /\ Unfinished = {} /\ faults = 0
    BY DEF Init, Lost, Unfinished, Range
  <2> QED
    BY <2>1, FS_EmptySet DEF LossInv
<1>2. IInv /\ LossInv => LossPerFault
  <2> SUFFICES ASSUME IInv, LossInv PROVE Cardinality(Lost) <= 2 * faults
    BY DEF LossPerFault
  <2>1. Cardinality(Lost) \in Nat /\ Cardinality(Unfinished) \in Nat /\ faults \in Nat
    BY MemoryAssumption, FS_CardinalityType DEF IInv, Types, LossInv
  <2> QED
    BY <2>1 DEF LossInv
<1> QED
  BY <1>1, <1>2, NextLoss, Invariance, PTL DEF Spec
===============================================================================
