------------------------------ MODULE WebDisplay ------------------------------
(***************************************************************************)
(* adapters/display_web.py and web/index.html: render, on the turn thread, *)
(* assigns _last and schedules a broadcast; the event loop runs broadcasts *)
(* and connections, changing over at every send that has to wait.  Texts   *)
(* are numbered in the order they are rendered in.                         *)
(* A definition Bug... is a slip the definition after it could have;       *)
(* nothing uses it but the tests of the properties.                        *)
(***************************************************************************)
EXTENDS Integers, FiniteSets

CONSTANTS
  Pages,        \* connections; a name is used again when the server has let go
  Connecting, Disconnected,   \* what a page shows of itself
  MaxRenders,   \* bound on the renders
  MaxTasks      \* bound on the broadcasts under way

ASSUME DisplayAssumption ==
  {Connecting, Disconnected} \cap Nat = {} /\ MaxRenders \in Nat

VARIABLES
  last,         \* _last
  scheduling,   \* render has assigned _last and not yet scheduled the broadcast
  clients,      \* _clients
  tasks,        \* broadcasts: the render each was made for, does it run, and the
                \* clients it has yet to serve
  shown,        \* shown[p]: what page p shows
  (* History variable: no step reads it. *)
  served        \* the last render of which a broadcast has finished

displayVars == <<last, scheduling, clients, tasks, shown, served>>

Live(p) == shown[p] \in Nat
Tasks == [render : 1..MaxRenders, runs : BOOLEAN, left : SUBSET Pages]

DisplayInit ==
  /\ last = 0 /\ scheduling = FALSE /\ clients = {} /\ tasks = {}
  /\ shown = [p \in Pages |-> Connecting] /\ served = 0

(***************************************************************************)
(* The turn thread.                                                        *)
(***************************************************************************)
Render ==
  /\ ~scheduling /\ last < MaxRenders
  /\ last' = last + 1 /\ scheduling' = TRUE
  /\ UNCHANGED <<clients, tasks, shown, served>>

Schedule ==
  /\ scheduling /\ Cardinality(tasks) < MaxTasks
  /\ scheduling' = FALSE
  /\ tasks' = tasks \cup {[render |-> last, runs |-> FALSE, left |-> {}]}
  /\ UNCHANGED <<last, clients, shown, served>>

(***************************************************************************)
(* The event loop.                                                         *)
(***************************************************************************)
BugConnect(p) ==
  /\ shown[p] = Connecting /\ p \notin clients
  /\ shown' = [shown EXCEPT ![p] = last]
  /\ UNCHANGED <<last, scheduling, clients, tasks, served>>

\* handler: the page may be gone already.
Connect(p) ==
  /\ shown[p] = Connecting /\ p \notin clients
  /\ clients' = clients \cup {p}
  /\ \E what \in {last, Disconnected} : shown' = [shown EXCEPT ![p] = what]
  /\ UNCHANGED <<last, scheduling, tasks, served>>

\* Tasks are started in the order they were scheduled in.
Run(t) ==
  /\ ~t.runs /\ \A u \in tasks : ~u.runs => t.render <= u.render
  /\ tasks' = (tasks \ {t}) \cup {[t EXCEPT !.runs = TRUE, !.left = clients]}
  /\ UNCHANGED <<last, scheduling, clients, shown, served>>

BugPayload(t) == t.render
Payload(t) == last

\* list(clients) has any order; the send raises if the page is gone.
Send(t, p) ==
  /\ p \in t.left
  /\ tasks' = (tasks \ {t}) \cup {[t EXCEPT !.left = @ \ {p}]}
  /\ IF Live(p)
     THEN shown' = [shown EXCEPT ![p] = Payload(t)] /\ UNCHANGED clients
     ELSE clients' = clients \ {p} /\ UNCHANGED shown
  /\ UNCHANGED <<last, scheduling, served>>

Sent(t) ==
  /\ t.runs /\ t.left = {}
  /\ tasks' = tasks \ {t}
  /\ served' = IF t.render > served THEN t.render ELSE served
  /\ UNCHANGED <<last, scheduling, clients, shown>>

\* The handler of a connection that was closed returns.
Discard(p) ==
  /\ shown[p] = Disconnected
  /\ clients' = clients \ {p}
  /\ UNCHANGED <<last, scheduling, tasks, shown, served>>

(***************************************************************************)
(* A page.                                                                 *)
(***************************************************************************)
Close(p) ==
  /\ Live(p)
  /\ shown' = [shown EXCEPT ![p] = Disconnected]
  /\ UNCHANGED <<last, scheduling, clients, tasks, served>>

\* It never reconnects; it may be loaded again.
Reload(p) ==
  /\ shown[p] = Disconnected /\ p \notin clients
  /\ \A t \in tasks : p \notin t.left
  /\ shown' = [shown EXCEPT ![p] = Connecting]
  /\ UNCHANGED <<last, scheduling, clients, tasks, served>>

Page(p) == Connect(p) \/ Discard(p) \/ Close(p) \/ Reload(p)
Broadcast(t) == Run(t) \/ Sent(t) \/ \E p \in Pages : Send(t, p)

DisplayNext ==
  Render \/ Schedule \/ (\E t \in tasks : Broadcast(t)) \/ \E p \in Pages : Page(p)

DisplaySpec == DisplayInit /\ [][DisplayNext]_displayVars

-------------------------------------------------------------------------------
DisplayTypeOK ==
  /\ last \in 0..MaxRenders /\ scheduling \in BOOLEAN /\ clients \subseteq Pages
  /\ tasks \subseteq Tasks /\ served \in 0..MaxRenders
  /\ shown \in [Pages -> 0..MaxRenders \cup {Connecting, Disconnected}]

(* Once the broadcast of a text is through, every page that is connected   *)
(* shows it or a later one -- those that were connecting while it went     *)
(* round, and those served by several broadcasts at a time, included.      *)
PagesCatchUp == \A p \in Pages : Live(p) => shown[p] >= served

(* A page never goes back to an earlier text, however broadcasts overtake  *)
(* each other.                                                             *)
NeverBack ==
  [][\A p \in Pages : Live(p) /\ shown'[p] \in Nat => shown'[p] >= shown[p]]_displayVars
===============================================================================
