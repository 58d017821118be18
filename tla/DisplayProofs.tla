---------------------------- MODULE DisplayProofs -----------------------------
(***************************************************************************)
(* Proofs about adapters/display_web.py for any pages, any number of       *)
(* renders and any number of broadcasts under way.                         *)
(***************************************************************************)
EXTENDS WebDisplay, TLAPS

(* A page that is connected shows a text that was rendered, and is either  *)
(* yet to be served by a broadcast that runs or has its text already.      *)
ServedOrDue ==
  \A p \in Pages : Live(p) =>
    /\ p \in clients /\ shown[p] <= last
    /\ \A t \in tasks : t.runs => p \in t.left \/ shown[p] >= t.render

DisplayInv ==
  /\ DisplayTypeOK
  /\ scheduling => last > 0
  /\ served <= last /\ \A t \in tasks : t.render <= last
  /\ ServedOrDue
  /\ PagesCatchUp

Forward(p) == Live(p) /\ shown'[p] \in Nat => shown'[p] >= shown[p]

(* What a page shows without a connection is no text.                      *)
LEMMA NoText == Connecting \notin Nat /\ Disconnected \notin Nat
BY DisplayAssumption

LEMMA Numbers ==
  ASSUME DisplayTypeOK
  PROVE  /\ last \in Nat /\ served \in Nat /\ MaxRenders \in Nat
         /\ \A t \in tasks : t.render \in Nat /\ t.render > 0
         /\ tasks \subseteq Tasks
BY DisplayAssumption DEF DisplayTypeOK, Tasks

LEMMA InitDisplay == DisplayInit => DisplayInv
<1> SUFFICES ASSUME DisplayInit PROVE DisplayInv
  OBVIOUS
<1>0. DisplayTypeOK
  <2>1. tasks = {} /\ clients = {} /\ last = 0 /\ served = 0 /\ scheduling = FALSE
    BY DEF DisplayInit
  <2>2. shown \in [Pages -> 0..MaxRenders \cup {Connecting, Disconnected}]
    BY DEF DisplayInit
  <2>3. 0 \in 0..MaxRenders
    BY DisplayAssumption
  <2> QED
    BY <2>1, <2>2, <2>3 DEF DisplayTypeOK
<1>1. tasks = {} /\ last = 0 /\ served = 0 /\ scheduling = FALSE
  BY DEF DisplayInit
<1>2. \A p \in Pages : ~Live(p)
  BY NoText DEF DisplayInit, Live
<1> QED
  BY <1>0, <1>1, <1>2 DEF DisplayInv, ServedOrDue, PagesCatchUp

(* Nothing a page shows changes on the turn thread.                        *)
LEMMA TurnThread ==
  ASSUME DisplayInv, Render \/ Schedule
  PROVE  DisplayInv' /\ UNCHANGED shown
<1> USE Numbers DEF DisplayInv
<1>1. CASE Render
  <2>1. DisplayTypeOK'
    BY <1>1 DEF DisplayTypeOK, Render
  <2>2. last' = last + 1 /\ UNCHANGED <<clients, tasks, shown, served>>
    BY <1>1 DEF Render
  <2>3. \A p \in Pages : Live(p) => shown[p] \in Nat
    BY DEF Live
  <2> QED
    BY <2>1, <2>2, <2>3 DEF ServedOrDue, PagesCatchUp, Live
<1>2. CASE Schedule
  <2> DEFINE new == [render |-> last, runs |-> FALSE, left |-> {}]
  <2>1. /\ tasks' = tasks \cup {new} /\ scheduling' = FALSE
        /\ UNCHANGED <<last, clients, shown, served>>
    BY <1>2 DEF Schedule
  <2>2. new \in Tasks
    BY <1>2 DEF Schedule, Tasks, DisplayTypeOK
  <2>3. ~new.runs /\ new.render = last
    OBVIOUS
  <2> HIDE DEF new
  <2>4. DisplayTypeOK'
    BY <2>1, <2>2 DEF DisplayTypeOK
  <2> QED
    BY <2>1, <2>3, <2>4 DEF ServedOrDue, PagesCatchUp, Live
<1> QED
  BY <1>1, <1>2

(* A page starts with the last text, and leaves by showing none.           *)
LEMMA PageStep ==
  ASSUME DisplayInv, NEW p \in Pages, Page(p)
  PROVE  DisplayInv' /\ \A q \in Pages : Forward(q)
<1> USE Numbers, NoText DEF DisplayInv
<1>1. UNCHANGED <<last, scheduling, tasks, served>>
  BY DEF Page, Connect, Discard, Close, Reload
<1>2. CASE Connect(p)
  <2>1. PICK what \in {last, Disconnected} : shown' = [shown EXCEPT ![p] = what]
    BY <1>2 DEF Connect
  <2>2. clients' = clients \cup {p} /\ ~Live(p)
    BY <1>2 DEF Connect, Live
  <2>3. DisplayTypeOK'
    BY <1>1, <2>1, <2>2 DEF DisplayTypeOK
  <2>4. \A q \in Pages : q # p => shown'[q] = shown[q]
    BY <2>1 DEF DisplayTypeOK
  <2>5. shown'[p] = last \/ shown'[p] = Disconnected
    BY <2>1 DEF DisplayTypeOK
  <2>6. \A q \in Pages : Forward(q)
    BY <2>2, <2>4, Numbers DEF Forward, Live
  <2>7. ServedOrDue' /\ PagesCatchUp'
    BY <1>1, <2>2, <2>4, <2>5 DEF ServedOrDue, PagesCatchUp, Live
  <2> QED
    BY <1>1, <2>3, <2>6, <2>7
<1>3. CASE Discard(p)
  <2>1. clients' = clients \ {p} /\ UNCHANGED shown /\ ~Live(p)
    BY <1>3 DEF Discard, Live
  <2>2. DisplayTypeOK'
    BY <1>1, <2>1 DEF DisplayTypeOK
  <2> QED
    BY <1>1, <2>1, <2>2 DEF ServedOrDue, PagesCatchUp, Live, Forward
<1>4. CASE Close(p) \/ Reload(p)
  <2>1. PICK what \in {Connecting, Disconnected} : shown' = [shown EXCEPT ![p] = what]
    BY <1>4 DEF Close, Reload
  <2>2. clients' = clients
    BY <1>4 DEF Close, Reload
  <2>3. DisplayTypeOK'
    BY <1>1, <2>1, <2>2 DEF DisplayTypeOK
  <2>4. \A q \in Pages : q # p => shown'[q] = shown[q]
    BY <2>1 DEF DisplayTypeOK
  <2>5. shown'[p] \notin Nat
    BY <2>1 DEF DisplayTypeOK
  <2> QED
    BY <1>1, <2>2, <2>3, <2>4, <2>5 DEF ServedOrDue, PagesCatchUp, Live, Forward
<1> QED
  BY <1>2, <1>3, <1>4 DEF Page

LEMMA BroadcastStep ==
  ASSUME DisplayInv, NEW t \in tasks, Broadcast(t)
  PROVE  DisplayInv' /\ \A q \in Pages : Forward(q)
<1> USE Numbers DEF DisplayInv
<1>0. UNCHANGED <<last, scheduling>> /\ t \in Tasks
  BY DEF Broadcast, Run, Sent, Send
<1>1. CASE Run(t)
  <2> DEFINE new == [t EXCEPT !.runs = TRUE, !.left = clients]
  <2>1. tasks' = (tasks \ {t}) \cup {new} /\ UNCHANGED <<clients, shown, served>>
    BY <1>1 DEF Run
  <2>2. new \in Tasks /\ new.render = t.render /\ new.left = clients
    BY <1>0 DEF Tasks, DisplayTypeOK
  <2> HIDE DEF new
  <2>3. DisplayTypeOK'
    BY <1>0, <2>1, <2>2 DEF DisplayTypeOK
  <2>4. ServedOrDue'
    BY <1>0, <2>1, <2>2 DEF ServedOrDue, Live
  <2> QED
    BY <1>0, <2>1, <2>2, <2>3, <2>4 DEF PagesCatchUp, Live, Forward
<1>2. CASE Sent(t)
  <2>1. /\ t.runs /\ t.left = {} /\ tasks' = tasks \ {t} /\ UNCHANGED <<clients, shown>>
        /\ served' = t.render \/ served' = served
    BY <1>2 DEF Sent
  <2>2. DisplayTypeOK'
    BY <1>0, <2>1 DEF DisplayTypeOK, Tasks
  <2>3. PagesCatchUp'
    BY <2>1 DEF ServedOrDue, PagesCatchUp, Live
  <2> QED
    BY <1>0, <2>1, <2>2, <2>3 DEF ServedOrDue, Live, Forward
<1>3. ASSUME NEW p \in Pages, Send(t, p)
      PROVE  DisplayInv' /\ \A q \in Pages : Forward(q)
  <2> DEFINE new == [t EXCEPT !.left = @ \ {p}]
  <2>1. tasks' = (tasks \ {t}) \cup {new} /\ served' = served
    BY <1>3 DEF Send
  <2>2. /\ new \in Tasks /\ new.render = t.render /\ new.runs = t.runs
        /\ new.left = t.left \ {p}
    BY <1>0 DEF Tasks
  <2> HIDE DEF new
  <2>3. CASE Live(p)
    <3>1. shown' = [shown EXCEPT ![p] = last] /\ clients' = clients
      BY <1>3, <2>3 DEF Send, Payload
    <3>2. DisplayTypeOK'
      BY <1>0, <2>1, <2>2, <3>1 DEF DisplayTypeOK
    <3>3. shown'[p] = last /\ \A q \in Pages : q # p => shown'[q] = shown[q]
      BY <3>1 DEF DisplayTypeOK
    <3>4. \A q \in Pages : Live(q) => shown[q] \in Nat
      BY DEF Live
    <3>5. ServedOrDue'
      <4>1. \A q \in Pages : Live(q)' => Live(q)
        BY <2>3, <3>3 DEF Live
      <4> QED
        BY <1>0, <2>1, <2>2, <2>3, <3>1, <3>3, <3>4, <4>1 DEF ServedOrDue, Live
    <3> QED
      BY <1>0, <2>1, <2>2, <2>3, <3>1, <3>2, <3>3, <3>4, <3>5
      DEF ServedOrDue, PagesCatchUp, Live, Forward
  <2>4. CASE ~Live(p)
    <3>1. clients' = clients \ {p} /\ shown' = shown
      BY <1>3, <2>4 DEF Send
    <3>2. DisplayTypeOK'
      BY <1>0, <2>1, <2>2, <3>1 DEF DisplayTypeOK
    <3>3. ServedOrDue'
      BY <1>0, <2>1, <2>2, <2>4, <3>1 DEF ServedOrDue, Live
    <3> QED
      BY <1>0, <2>1, <2>2, <3>1, <3>2, <3>3 DEF PagesCatchUp, Live, Forward
  <2> QED
    BY <2>3, <2>4
<1> QED
  BY <1>1, <1>2, <1>3 DEF Broadcast

LEMMA NextDisplay ==
  DisplayInv /\ [DisplayNext]_displayVars => DisplayInv' /\ \A p \in Pages : Forward(p)
<1> SUFFICES ASSUME DisplayInv, [DisplayNext]_displayVars
             PROVE  DisplayInv' /\ \A p \in Pages : Forward(p)
  OBVIOUS
<1>1. CASE Render \/ Schedule
  BY <1>1, TurnThread DEF Forward, Live
<1>2. CASE UNCHANGED displayVars
  BY <1>2 DEF displayVars, DisplayInv, DisplayTypeOK, ServedOrDue, PagesCatchUp, Live, Forward
<1> QED
  BY <1>1, <1>2, BroadcastStep, PageStep DEF DisplayNext

LEMMA DisplayInvariant == DisplaySpec => []DisplayInv
BY InitDisplay, NextDisplay, PTL DEF DisplaySpec

(* render and broadcast: when the broadcast of a text is through, every    *)
(* page connected shows it or a later one.                                 *)
THEOREM PagesDoCatchUp == DisplaySpec => []PagesCatchUp
<1>1. DisplayInv => PagesCatchUp
  BY DEF DisplayInv
<1> QED
  BY <1>1, DisplayInvariant, PTL

(* The payload is read when it is sent: no page goes back to an older text.*)
THEOREM DisplayNeverBack == DisplaySpec => NeverBack
<1>1. DisplayInv /\ [DisplayNext]_displayVars =>
        [\A p \in Pages : Live(p) /\ shown'[p] \in Nat => shown'[p] >= shown[p]]_displayVars
  BY NextDisplay DEF Forward
<1> QED
  BY <1>1, DisplayInvariant, PTL DEF DisplaySpec, NeverBack

(* The state of the display has its type.                                  *)
THEOREM DisplayTyped == DisplaySpec => []DisplayTypeOK
<1>1. DisplayInv => DisplayTypeOK
  BY DEF DisplayInv
<1> QED
  BY <1>1, DisplayInvariant, PTL
===============================================================================
