------------------------------- MODULE Playback -------------------------------
(***************************************************************************)
(* The voice: the daemon threads the orchestrator starts, one per          *)
(* sentence, and the one output stream of sounddevice they share.  play()  *)
(* of either TTS adapter is sd.play (which cuts whatever was playing) and  *)
(* sd.wait; stop() is sd.stop, which silences the stream of the moment and *)
(* nothing else: a thread that has not reached sd.play yet is not stopped  *)
(* by it.  The names of finished threads are used again.                   *)
(***************************************************************************)
EXTENDS FiniteSets, Integers

CONSTANTS
  Players,    \* names for playback threads
  MaxStuck    \* bound: how many of them may hang in the audio device

VARIABLE players    \* players[t]: how far thread t has come

PlayerStates == {"done", "starting", "playing", "stuck"}

TypeOK == players \in [Players -> PlayerStates]

Init == players = [t \in Players |-> "done"]

Live(t) == players[t] # "done"

\* What is left of the threads when the shared stream is stopped.
Silenced == [t \in Players |->
               IF players[t] = "playing" THEN "done" ELSE players[t]]

\* threading.Thread(target=tts.play) and start()
Start(t) == ~Live(t) /\ players' = [players EXCEPT ![t] = "starting"]

\* The thread reaches sd.play.
Begin(t) ==
  players[t] = "starting" /\ players' = [Silenced EXCEPT ![t] = "playing"]

\* sd.wait returns.
Finish(t) == players[t] = "playing" /\ players' = [players EXCEPT ![t] = "done"]

\* There is nothing to play, or the decoder or the device raises: the
\* exception ends the daemon thread and nobody else hears of it.
Break(t) == players[t] = "starting" /\ players' = [players EXCEPT ![t] = "done"]

\* The device never reports the end of the buffer.
Stall(t) ==
  /\ players[t] = "playing"
  /\ Cardinality({u \in Players : players[u] = "stuck"}) < MaxStuck
  /\ players' = [players EXCEPT ![t] = "stuck"]

\* tts.stop(): sd.stop
Stop == players' = Silenced

\* What the threads do by themselves.
Step(t) == Begin(t) \/ Finish(t) \/ Break(t) \/ Stall(t)
===============================================================================
