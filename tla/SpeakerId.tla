------------------------------ MODULE SpeakerId -------------------------------
(***************************************************************************)
(* adapters/speakerid_ecapa.py: identify compares the best scores with     *)
(* threshold and then with margin, which the console's tune command may be *)
(* assigning -- one after the other -- on the event loop's thread.         *)
(* A definition Bug... is a slip the definition after it could have;       *)
(* nothing uses it but the tests of the properties.                        *)
(***************************************************************************)
EXTENDS Integers

CONSTANTS
  Enrolled,     \* who may have a profile
  GUEST,
  Scores,       \* cosine similarities
  Thresholds, Margins

ASSUME SpeakerAssumption ==
  /\ GUEST \notin Enrolled
  /\ Scores \subseteq Int /\ Thresholds \subseteq Int /\ Margins \subseteq Nat

VARIABLES
  threshold, margin,
  tune,         \* {m}: handle_command has yet to assign margin m; or {}
  scores,       \* the clip's score against every profile there is
  identify,     \* "off", "scored", "passed" the threshold, "known", "failed"
  best_id,      \* what identify returned last
  (* History variables: no step reads them. *)
  settings,     \* the pairs the console had set since identify began
  torn          \* a new one was set between its two comparisons

tuneVars == <<threshold, margin, tune>>
idVars == <<scores, identify, best_id>>
speakerVars == <<tuneVars, idVars, settings, torn>>

SpeakerInit ==
  /\ threshold \in Thresholds /\ margin \in Margins /\ tune = {}
  /\ scores = << >> /\ identify = "off" /\ best_id = GUEST
  /\ settings = {} /\ torn = FALSE

\* Both values are in one message; it is handled without a break.
TuneThreshold(t, m) ==
  /\ tune = {}
  /\ threshold' = t /\ tune' = {m}
  /\ settings' = IF identify \in {"scored", "passed"} THEN settings \cup {<<t, m>>}
                                                    ELSE settings
  /\ torn' = (torn \/ identify = "passed")
  /\ UNCHANGED <<margin, idVars>>

TuneMargin ==
  /\ tune # {}
  /\ margin' \in tune /\ tune' = {}
  /\ UNCHANGED <<threshold, idVars, settings, torn>>

\* The clip is embedded and compared with every profile, of which there may be
\* none.
Score ==
  /\ identify = "off" /\ identify' = "scored"
  /\ \E found \in SUBSET Enrolled : scores' \in [found -> Scores]
  /\ settings' = {<<threshold, m>> : m \in IF tune = {} THEN {margin} ELSE tune}
  /\ UNCHANGED <<tuneVars, best_id, torn>>

\* The embedding, or a profile, raises.
ScoreFails ==
  /\ identify = "off" /\ identify' = "failed"
  /\ UNCHANGED <<tuneVars, scores, best_id, settings, torn>>

\* identify returns p: its scores are gone.
Known(p) ==
  /\ identify' = "known" /\ best_id' = p
  /\ scores' = << >> /\ settings' = {} /\ torn' = FALSE

Found == DOMAIN scores
\* sorted() puts the best last; between equals, the greater id.
Best(p) == \A q \in Found : scores[q] <= scores[p]
BugRunnersUp(p) == {q \in Found : scores[q] < scores[p]}
RunnersUp(p) == Found \ {p}

CheckThreshold ==
  /\ identify = "scored"
  /\ IF Found = {} \/ \E p \in Found : Best(p) /\ scores[p] < threshold
     THEN Known(GUEST)
     ELSE identify' = "passed" /\ UNCHANGED <<scores, best_id, settings, torn>>
  /\ UNCHANGED tuneVars

CheckMargin ==
  /\ identify = "passed"
  /\ \E p \in Found :
       /\ Best(p)
       /\ IF \E q \in RunnersUp(p) : scores[p] - scores[q] < margin
          THEN Known(GUEST)
          ELSE Known(p)
  /\ UNCHANGED tuneVars

\* The turn has taken best_id, or the exception.
Returned ==
  /\ identify \in {"known", "failed"} /\ identify' = "off"
  /\ best_id' = GUEST
  /\ UNCHANGED <<tuneVars, scores, settings, torn>>

Identify == Score \/ ScoreFails \/ CheckThreshold \/ CheckMargin
Tune == (\E t \in Thresholds, m \in Margins : TuneThreshold(t, m)) \/ TuneMargin

-------------------------------------------------------------------------------
SpeakerTypeOK ==
  /\ threshold \in Thresholds /\ margin \in Margins /\ tune \subseteq Margins
  /\ scores \in UNION {[found -> Scores] : found \in SUBSET Enrolled}
  /\ best_id \in Enrolled \cup {GUEST}
  /\ identify \in {"off", "scored", "passed", "known", "failed"}
  /\ settings \subseteq Thresholds \X Margins /\ torn \in BOOLEAN

Clear(p, t, m) ==
  scores[p] >= t /\ \A q \in Found \ {p} : scores[p] - scores[q] >= m

(* However the settings are moved while identify is at work, the person it *)
(* returns is the one that a pair of threshold and margin which the console*)
(* had set in the meantime picks out: clear of both -- or a guest, where   *)
(* that pair picks nobody.  The exception is a pair that was set between   *)
(* the two comparisons, or not to the end: then the threshold of one may   *)
(* have met the margin of another -- but never is anybody recognised who is*)
(* not the closest, and above a threshold in force.                        *)
Mixed == identify = "passed" /\ (torn \/ tune # {})
Picks(s, p) ==
  IF p = GUEST THEN \A q \in Found : ~Clear(q, s[1], s[2])
  ELSE p \in Found /\ Clear(p, s[1], s[2])
Verdict(p) ==
  /\ ~Mixed => \E s \in settings : Picks(s, p)
  /\ p # GUEST => p \in Found /\ Best(p) /\ \E s \in settings : scores[p] >= s[1]
IdentifiedAsTuned ==
  [][identify # "known" /\ identify' = "known" => Verdict(best_id')]_speakerVars
===============================================================================
