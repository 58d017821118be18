------------------------------ MODULE GateProofs ------------------------------
(***************************************************************************)
(* Proofs about PullRequest: for every set of gates, levels, trees and     *)
(* files, only a rewritten ratchet loosens a gate on the way into master,  *)
(* it refuses nobody who tightens them, and the diff parser reads the lines*)
(* right.                                                                  *)
(***************************************************************************)
EXTENDS PullRequest, FiniteSetTheorems, TLAPS

(***************************************************************************)
(* The ratchet                                                             *)
(***************************************************************************)
(* check_coverage and its like: a numeric floor that passed is not lower.  *)
LEMMA FloorKept ==
  ASSUME NEW cur \in Nat \cup {Absent}, NEW old \in Nat \cup {Absent},
         AtLeast(cur, old), NEW value \in Measures,
         cur = Absent \/ value >= cur
  PROVE  old = Absent \/ value >= old
BY GateAssumption DEF AtLeast

(* check_mccabe and check_vulture: a ceiling that passed is not higher.    *)
LEMMA CeilingKept ==
  ASSUME NEW cur \in Nat \cup {Absent}, NEW old \in Nat \cup {Absent},
         AtMost(cur, old), NEW value \in Measures,
         cur = Absent \/ value <= cur
  PROVE  old = Absent \/ value <= old
BY GateAssumption DEF AtMost

(* check_mutation_floor and mutation_score.py: scores that meet a floor    *)
(* meet every lower one.                                                   *)
LEMMA ScoreKept ==
  ASSUME NEW cur \in Nat \cup {Absent}, NEW old \in Nat \cup {Absent},
         AtLeast(cur, old), NEW killed \in Counts, NEW survived \in Counts,
         cur = Absent \/ MeetsFloor(killed, survived, cur)
  PROVE  old = Absent \/ MeetsFloor(killed, survived, old)
<1>1. CASE old = Absent
  BY <1>1
<1>2. CASE old # Absent
  <2>1. cur \in Nat /\ old \in Nat /\ cur >= old
    BY <1>2, GateAssumption DEF AtLeast
  <2>2. MeetsFloor(killed, survived, cur)
    BY <2>1, GateAssumption
  <2>3. killed \in Nat /\ survived \in Nat
    BY GateAssumption
  <2>4. \A n \in Nat : old * n <= cur * n
    BY <2>1
  <2>5. /\ old * (killed + survived) <= cur * (killed + survived)
        /\ old * (killed + survived) \in Nat /\ cur * (killed + survived) \in Nat
    BY <2>1, <2>3, <2>4
  <2> QED
    BY <2>2, <2>3, <2>5 DEF MeetsFloor
<1> QED
  BY <1>1, <1>2

(* What of a configuration is compared: Configs have it, and so have they  *)
(* with the tools' defaults filled in.                                     *)
Comparable(c) ==
  /\ c.fail_under \in Nat \cup {Absent} /\ c.min \in Nat \cup {Absent}
  /\ \A g \in Ceilings : c.ceiling[g] \in Nat \cup {Absent}
  /\ \A r \in Reports : c.report[r] \in Strictness \cup {Absent}

(* gate_ratchet.py as a whole: a tree that passes a configuration the      *)
(* ratchet let through passes the one it was compared with.                *)
LEMMA PassesTightens ==
  ASSUME NEW cur, NEW old, Comparable(cur), Comparable(old), Passes(cur, old),
         NEW t \in Trees, Stated(cur, t)
  PROVE  Stated(old, t)
<1> DEFINE
  Floors(c) == c.fail_under = Absent \/ t.coverage >= c.fail_under
  Ceils(c) == \A g \in Ceilings : c.ceiling[g] = Absent \/ t.worst[g] <= c.ceiling[g]
  Lints(c) == c.select \cap t.findings = {}
  Types(c) == (c.strict => t.typed) /\ \A r \in t.missing : c.report[r] # 2
  Score(c) == c.min = Absent \/ MeetsFloor(t.killed, t.survived, c.min)
<1>1. cur.pyproject /\ run(cur, old) /\ check_mutation_floor(cur, old)
  BY DEF Passes
<1>2. Floors(cur) /\ Ceils(cur) /\ Lints(cur) /\ Types(cur) /\ Score(cur)
  BY <1>1 DEF Stated
<1>3. Score(old)
  <2>1. cur.min \in Nat \cup {Absent} /\ old.min \in Nat \cup {Absent}
    BY DEF Comparable
  <2>2. t.killed \in Counts /\ t.survived \in Counts
    BY DEF Trees
  <2> QED
    BY <1>1, <1>2, <2>1, <2>2, ScoreKept DEF check_mutation_floor
<1>4. ASSUME old.pyproject
      PROVE  Floors(old) /\ Ceils(old) /\ Lints(old) /\ Types(old)
  <2>1. /\ check_coverage(cur, old) /\ check_ceilings(cur, old)
        /\ check_ruff_select(cur, old) /\ check_pyright(cur, old)
    BY <1>1, <1>4 DEF run
  <2>2. Floors(old)
    <3>1. /\ cur.fail_under \in Nat \cup {Absent} /\ old.fail_under \in Nat \cup {Absent}
          /\ t.coverage \in Measures
      BY DEF Comparable, Trees
    <3> QED
      BY <1>2, <2>1, <3>1, FloorKept DEF check_coverage
  <2>3. Ceils(old)
    <3>1. SUFFICES ASSUME NEW g \in Ceilings
                   PROVE  old.ceiling[g] = Absent \/ t.worst[g] <= old.ceiling[g]
      OBVIOUS
    <3>2. /\ cur.ceiling[g] \in Nat \cup {Absent} /\ old.ceiling[g] \in Nat \cup {Absent}
          /\ t.worst[g] \in Measures
      BY DEF Comparable, Trees
    <3> QED
      BY <1>2, <2>1, <3>2, CeilingKept DEF check_ceilings
  <2>4. Lints(old)
    BY <1>2, <2>1 DEF check_ruff_select
  <2>5. Types(old)
    <3>1. cur.strict /\ \A r \in Reports : AtLeast(cur.report[r], old.report[r])
      BY <2>1 DEF check_pyright
    <3>2. SUFFICES ASSUME NEW r \in t.missing, old.report[r] = 2
                   PROVE  FALSE
      BY <1>2, <3>1
    <3>3. r \in Reports
      BY DEF Trees
    <3>4. cur.report[r] \in 0..2 \cup {Absent} /\ cur.report[r] # 2
      BY <1>2, <3>3 DEF Comparable, Strictness
    <3> QED
      BY <3>1, <3>2, <3>3, <3>4, GateAssumption DEF AtLeast
  <2> QED
    BY <2>2, <2>3, <2>4, <2>5
<1> QED
  BY <1>3, <1>4 DEF Stated

LEMMA ConfigsComparable ==
  ASSUME NEW c \in Configs
  PROVE  Comparable(c) /\ Comparable(InForce(c))
<1>1. Comparable(c)
  BY GateAssumption DEF Configs, Comparable
<1>2. InForce(c).fail_under = c.fail_under /\ InForce(c).min = c.min
  BY DEF InForce, Configs
<1>3. ASSUME NEW g \in Ceilings PROVE InForce(c).ceiling[g] \in Nat \cup {Absent}
  <2>1. InForce(c).ceiling[g] \in {c.ceiling[g], DefaultCeiling[g]}
    BY <1>3 DEF InForce, Configs
  <2> QED
    BY <1>1, <1>3, <2>1, GateAssumption DEF Comparable
<1>4. ASSUME NEW r \in Reports PROVE InForce(c).report[r] \in Strictness \cup {Absent}
  <2>1. InForce(c).report[r] \in {c.report[r], 2, DefaultReport[r]}
    BY <1>4 DEF InForce, Configs
  <2> QED
    BY <1>1, <1>4, <2>1, GateAssumption DEF Comparable, Strictness
<1> QED
  BY <1>1, <1>2, <1>3, <1>4 DEF Comparable

(* A branch that adds no key leaves the defaults as they were: what passed *)
(* the ratchet passes it with them filled in.                              *)
LEMMA PassesInForce ==
  ASSUME NEW cur \in Configs, NEW old \in Configs, Passes(cur, old), ~Adds(cur, old)
  PROVE  Passes(InForce(cur), InForce(old))
<1> DEFINE Same(c) ==
      /\ InForce(c).pyproject = c.pyproject /\ InForce(c).strict = c.strict
      /\ InForce(c).fail_under = c.fail_under /\ InForce(c).min = c.min
      /\ InForce(c).contracts = c.contracts
<1>1. Same(cur) /\ Same(old)
  BY DEF InForce, Configs
<1>2. cur.pyproject /\ check_mutation_floor(cur, old)
  BY DEF Passes
<1>3. ASSUME old.pyproject
      PROVE  run(InForce(cur), InForce(old))
  <2>1. /\ check_coverage(cur, old) /\ check_ceilings(cur, old)
        /\ check_ruff_select(cur, old) /\ check_pyright(cur, old)
        /\ check_importlinter(cur, old)
    BY <1>3 DEF Passes, run
  <2>2. check_coverage(InForce(cur), InForce(old))
    BY <1>1, <2>1 DEF check_coverage
  <2>3. check_importlinter(InForce(cur), InForce(old))
    BY <1>1, <2>1 DEF check_importlinter
  <2>4. check_ceilings(InForce(cur), InForce(old))
    <3> SUFFICES ASSUME NEW g \in Ceilings
                 PROVE  AtMost(InForce(cur).ceiling[g], InForce(old).ceiling[g])
      BY DEF check_ceilings
    <3> DEFINE Filled(c) == IF c.ceiling[g] # Absent THEN c.ceiling[g] ELSE DefaultCeiling[g]
    <3>1. InForce(cur).ceiling[g] = Filled(cur) /\ InForce(old).ceiling[g] = Filled(old)
      BY DEF InForce, Configs
    <3>2. AtMost(cur.ceiling[g], old.ceiling[g])
      BY <2>1 DEF check_ceilings
    <3>3. old.ceiling[g] = Absent => cur.ceiling[g] = Absent
      BY DEF Adds
    <3>4. DefaultCeiling[g] \in Nat \cup {Absent}
      BY GateAssumption
    <3> QED
      BY <3>1, <3>2, <3>3, <3>4, GateAssumption DEF AtMost
  <2>5. check_ruff_select(InForce(cur), InForce(old))
    <3>1. old.select \subseteq cur.select /\ (old.select = {} => cur.select = {})
      BY <2>1 DEF check_ruff_select, Adds
    <3>2. /\ InForce(cur).select = IF cur.select # {} THEN cur.select ELSE DefaultRules
          /\ InForce(old).select = IF old.select # {} THEN old.select ELSE DefaultRules
      BY DEF InForce, Configs
    <3> QED
      BY <3>1, <3>2 DEF check_ruff_select
  <2>6. check_pyright(InForce(cur), InForce(old))
    <3>1. InForce(cur).strict /\ cur.strict
      BY <1>1, <2>1 DEF check_pyright
    <3>2. ASSUME NEW r \in Reports
          PROVE  AtLeast(InForce(cur).report[r], InForce(old).report[r])
      <4> DEFINE Filled(c) == IF c.report[r] # Absent THEN c.report[r]
                              ELSE IF c.strict THEN 2 ELSE DefaultReport[r]
      <4>1. InForce(cur).report[r] = Filled(cur) /\ InForce(old).report[r] = Filled(old)
        BY DEF InForce, Configs
      <4>2. AtLeast(cur.report[r], old.report[r])
        BY <2>1 DEF check_pyright
      <4>3. old.report[r] = Absent => cur.report[r] = Absent
        BY DEF Adds
      <4>4. DefaultReport[r] \in 0..2 /\ 2 # Absent
        BY GateAssumption DEF Strictness
      <4> QED
        BY <3>1, <4>1, <4>2, <4>3, <4>4, GateAssumption DEF AtLeast
    <3> QED
      BY <3>1, <3>2 DEF check_pyright
  <2> QED
    BY <2>2, <2>3, <2>4, <2>5, <2>6 DEF run
<1>4. check_mutation_floor(InForce(cur), InForce(old))
  BY <1>1, <1>2 DEF check_mutation_floor
<1>5. run(InForce(cur), InForce(old))
  BY <1>1, <1>3 DEF run
<1> QED
  BY <1>1, <1>2, <1>4, <1>5 DEF Passes

(***************************************************************************)
(* What a write can do to the gates                                        *)
(***************************************************************************)
LEMMA EditsAreConfigs ==
  ASSUME NEW c \in Configs, NEW d \in PyprojectEdits(c)
  PROVE  d \in Configs
<1>1. CASE d = [c EXCEPT !.pyproject = ~@] \/ d = [c EXCEPT !.strict = ~@]
  BY <1>1 DEF Configs
<1>2. CASE \E v \in Levels \cup {Absent} : d = [c EXCEPT !.fail_under = v]
  BY <1>2 DEF Configs
<1>3. CASE \E g \in Ceilings, v \in Levels \cup {Absent} : d = [c EXCEPT !.ceiling[g] = v]
  BY <1>3 DEF Configs
<1>4. CASE \E r \in Reports, v \in Strictness \cup {Absent} : d = [c EXCEPT !.report[r] = v]
  BY <1>4 DEF Configs
<1>5. CASE \E s \in SUBSET Rules : d = [c EXCEPT !.select = s]
  BY <1>5 DEF Configs
<1>6. CASE \E s \in SUBSET Contracts : d = [c EXCEPT !.contracts = s]
  BY <1>6 DEF Configs
<1> QED
  BY <1>1, <1>2, <1>3, <1>4, <1>5, <1>6 DEF PyprojectEdits

LEMMA EditKeepsConfigs ==
  ASSUME NEW file \in Paths, head \in Configs, Edit(file)
  PROVE  head' \in Configs
<1>1. CASE file = PyprojectPath /\ head' \in PyprojectEdits(head)
  BY <1>1, EditsAreConfigs
<1>2. CASE \E v \in Levels \cup {Absent} : head' = [head EXCEPT !.min = v]
  BY <1>2 DEF Configs
<1>3. CASE \E s \in Scripts : head' = [head EXCEPT !.script = s]
  BY <1>3 DEF Configs
<1> QED
  BY <1>1, <1>2, <1>3 DEF Edit

(***************************************************************************)
(* The way into master.  A branch on which the job goes on has passed the  *)
(* ratchet against the master it will be merged into, or a rewritten one.  *)
(***************************************************************************)
GateInv ==
  /\ master \in Configs /\ head \in Configs
  /\ job \in {"diffing", "green"} =>
       Passes(head, master) \/ "rewritten" \in {master.script, head.script}

LEMMA InitGate == Init => GateInv
BY BaselineAssumption DEF Init, GateInv

LEMMA NextGate == GateInv /\ [Next]_vars => GateInv'
<1> SUFFICES ASSUME GateInv, [Next]_vars
             PROVE  GateInv'
  OBVIOUS
<1>1. ASSUME NEW call \in EditCalls, ToolCall(call)
      PROVE  GateInv'
  <2>1. call.path \in Paths
    BY DEF EditCalls, Calls
  <2>2. head' \in Configs
    BY <1>1, <2>1, EditKeepsConfigs DEF ToolCall, GateInv
  <2> QED
    BY <1>1, <2>2 DEF ToolCall, GateInv
<1>2. CASE EditOverride
  BY <1>2 DEF EditOverride, GateInv
<1>3. CASE Push
  BY <1>3 DEF Push, Goto, GateInv
<1>4. CASE Judge
  BY <1>4 DEF Judge, Goto, GateInv, Verdicts
<1>5. CASE Fallback
  BY <1>5 DEF Fallback, Goto, GateInv, Verdicts
<1>6. CASE Scan
  BY <1>6 DEF Scan, GateInv
<1>7. CASE Finish
  BY <1>7 DEF Finish, Goto, GateInv
<1>8. CASE Merge
  BY <1>8 DEF Merge, Over, GateInv
<1>9. CASE Close
  BY <1>9 DEF Close, Over, GateInv
<1>10. CASE UNCHANGED vars
  BY <1>10 DEF vars, prVars, GateInv
<1> QED
  BY <1>1, <1>2, <1>3, <1>4, <1>5, <1>6, <1>7, <1>8, <1>9, <1>10 DEF Next

LEMMA OnlyMergesMove == [Next]_vars /\ master' # master => Merge
BY DEF Next, vars, prVars, ToolCall, EditOverride, Push, Judge, Fallback, Scan, Finish,
       Close, Over, Goto

LEMMA ContractsCounted ==
  ASSUME NEW cur \in Configs, NEW old \in Configs, Passes(cur, old), old.pyproject
  PROVE  Cardinality(cur.contracts) >= Cardinality(old.contracts)
BY DEF Passes, run, check_importlinter

LEMMA MergesJudged ==
  ASSUME GateInv, [Next]_vars, master' # master
  PROVE  /\ master \in Configs /\ master' \in Configs
         /\ Passes(master', master) \/ "rewritten" \in {master.script, master'.script}
<1>1. Merge
  BY OnlyMergesMove
<1> QED
  BY <1>1 DEF Merge, GateInv

(* gate_ratchet.py: "Fail CI if any quality gate was weakened": where no   *)
(* rewritten copy of it has a say no merge lets a tree in that a key of an *)
(* earlier master refused, nor one that a tool's default did, unless the   *)
(* branch adds a key in its place.                                         *)
THEOREM NothingLoosened == Spec => NeverLoosened
<1> DEFINE Tighter ==
      master' # master /\ "rewritten" \notin {master.script, master'.script} =>
        /\ \A t \in Trees : Stated(master', t) => Stated(master, t)
        /\ \/ Adds(master', master)
           \/ \A t \in Trees : Accepts(master', t) => Accepts(master, t)
        /\ master.pyproject =>
             Cardinality(master'.contracts) >= Cardinality(master.contracts)
<1>1. GateInv /\ [Next]_vars => [Tighter]_vars
  <2> SUFFICES ASSUME GateInv, [Next]_vars, master' # master,
                      "rewritten" \notin {master.script, master'.script}
               PROVE  Tighter
    BY DEF vars, prVars
  <2>1. master \in Configs /\ master' \in Configs /\ Passes(master', master)
    BY MergesJudged
  <2> DEFINE cur == master'
  <2>2. cur \in Configs /\ Passes(cur, master)
    BY <2>1
  <2> HIDE DEF cur
  <2>3. ASSUME NEW t \in Trees, Stated(cur, t)
        PROVE  Stated(master, t)
    BY <2>1, <2>2, <2>3, PassesTightens, ConfigsComparable
  <2>4. ASSUME ~Adds(cur, master), NEW t \in Trees, Accepts(cur, t)
        PROVE  Accepts(master, t)
    <3>1. Passes(InForce(cur), InForce(master))
      BY <2>1, <2>2, <2>4, PassesInForce
    <3>2. Comparable(InForce(cur)) /\ Comparable(InForce(master))
      BY <2>1, <2>2, ConfigsComparable
    <3> QED
      BY <2>4, <3>1, <3>2, PassesTightens DEF Accepts
  <2>5. master.pyproject => Cardinality(cur.contracts) >= Cardinality(master.contracts)
    BY <2>1, <2>2, ContractsCounted
  <2> QED
    BY <2>3, <2>4, <2>5 DEF cur
<1> QED
  BY <1>1, InitGate, NextGate, PTL DEF Spec, NeverLoosened

(* ci.yml: "run origin/master's copy of the judge, NOT the PR's own": where*)
(* master has one, whatever gets in has passed it, or brings a rewritten   *)
(* copy along.                                                             *)
THEOREM OnlyRewritesOverrule ==
  Spec => [][master' # master /\ master.script = "genuine" =>
               Passes(master', master) \/ master'.script = "rewritten"]_vars
<1> DEFINE Judged == master' # master /\ master.script = "genuine" =>
                       Passes(master', master) \/ master'.script = "rewritten"
<1>1. GateInv /\ [Next]_vars => [Judged]_vars
  BY MergesJudged
<1> QED
  BY <1>1, InitGate, NextGate, PTL DEF Spec

(* Over any number of merges, while no rewritten ratchet is let in: what a *)
(* key in master's files has once refused is refused for good, so no series*)
(* of branches brings in what one branch could not.                        *)
THEOREM RefusedForGood ==
  ASSUME NEW t \in Trees
  PROVE  Spec /\ [](master.script # "rewritten") =>
           [](~Stated(master, t) => []~Stated(master, t))
<1> DEFINE R == ~Stated(master, t)
           G == master.script # "rewritten"
<1>1. GateInv /\ G /\ G' /\ R /\ [Next]_vars => R'
  <2> SUFFICES ASSUME GateInv, G, G', R, [Next]_vars PROVE R'
    OBVIOUS
  <2>1. CASE master' = master
    BY <2>1 DEF Stated, MeetsFloor
  <2>2. CASE master' # master
    <3> DEFINE cur == master'
    <3>1. master \in Configs /\ cur \in Configs /\ Passes(cur, master)
      BY <2>2, MergesJudged
    <3> HIDE DEF cur
    <3>2. ~Stated(cur, t)
      BY <3>1, PassesTightens, ConfigsComparable
    <3> QED
      BY <3>2 DEF cur, Stated, MeetsFloor
  <2> QED
    BY <2>1, <2>2
<1> HIDE DEF R, G
<1>2. Spec /\ []G => [](R => []R)
  BY <1>1, InitGate, NextGate, PTL DEF Spec
<1> QED
  BY <1>2 DEF R, G

(* The ratchet lets every strict set of gates pass that has not moved.     *)
LEMMA PassesItself ==
  ASSUME NEW c \in Configs, c.pyproject, c.strict
  PROVE  Passes(c, c)
<1>1. \A v \in Levels \cup Strictness \cup {Absent} : AtLeast(v, v) /\ AtMost(v, v)
  BY GateAssumption DEF AtLeast, AtMost, Strictness
<1>2. /\ c.fail_under \in Levels \cup {Absent} /\ c.min \in Levels \cup {Absent}
      /\ \A g \in Ceilings : c.ceiling[g] \in Levels \cup {Absent}
      /\ \A r \in Reports : c.report[r] \in Strictness \cup {Absent}
      /\ c.contracts \subseteq Contracts
  BY DEF Configs
<1>3. check_importlinter(c, c)
  <2>1. Cardinality(c.contracts) \in Nat
    BY <1>2, GateAssumption, FS_Subset, FS_CardinalityType
  <2> QED
    BY <2>1 DEF check_importlinter
<1>4. check_coverage(c, c) /\ check_ceilings(c, c) /\ check_mutation_floor(c, c)
  BY <1>1, <1>2 DEF check_coverage, check_ceilings, check_mutation_floor
<1>5. check_ruff_select(c, c) /\ check_pyright(c, c)
  BY <1>1, <1>2 DEF check_ruff_select, check_pyright
<1> QED
  BY <1>3, <1>4, <1>5 DEF Passes, run

LEMMA LoweredRefused ==
  ASSUME NEW c \in Configs, c.pyproject, c.fail_under # Absent
  PROVE  ~Passes(Lowered(c), c)
<1>1. c.fail_under \in Nat
  BY GateAssumption DEF Configs
<1>2. Lowered(c).fail_under = c.fail_under - 10
  BY DEF Lowered, Configs
<1>3. ~(Lowered(c).fail_under >= c.fail_under)
  BY <1>1, <1>2
<1> QED
  BY <1>3 DEF Passes, run, check_coverage, AtLeast

(* verify.py's proof: it succeeds wherever there is a floor to lower, and  *)
(* only because that was lowered, for any gates and levels.                *)
THEOREM ProofConcludes == Spec => []ProofIsConclusive
<1>1. GateInv => ProofIsConclusive
  BY LoweredRefused, PassesItself DEF GateInv, ProofIsConclusive, ProofBites, Verdicts
<1> QED
  BY <1>1, InitGate, NextGate, PTL DEF Spec

(***************************************************************************)
(* The suppression diff.  The parser is at git's file and line but for     *)
(* files with an added line that looks like a part of the diff; a file     *)
(* header brings it back.                                                  *)
(***************************************************************************)
InStep ==
  /\ lines \subseteq Lines /\ truth \subseteq Lines
  /\ gitLine \in Nat /\ new_lineno \in Nat
  /\ gitFile \in Files \cup {NoFile}
  /\ hunk => gitFile \in Files
  /\ path = gitFile \/ (path = Elsewhere /\ gitFile \in Misread)
  /\ hunk /\ gitFile \notin Misread => new_lineno = gitLine
  /\ path = Elsewhere => \E l \in truth : l.text = "header"

DiffInv == InStep /\ LinesRight

LEMMA SilencesAnnotated ==
  ASSUME NEW ls \in SUBSET Lines, NEW l \in ls, Silences(l)
  PROVE  l \in Annotated(ls)
BY DiffAssumption
DEF Silences, Annotated, find_suppressions, find_allowlist_growth, InIgnores, Lines

LEMMA InitLines == DiffInit => DiffInv
BY DiffAssumption DEF DiffInit, DiffInv, InStep, LinesRight

LEMMA ClearLines == Clear => DiffInv'
BY DiffAssumption DEF Clear, DiffInv, InStep, LinesRight, Misread

LEMMA HeaderInStep ==
  ASSUME DiffInv, NEW f \in Files \cup {NoFile}, Header(f)
  PROVE  DiffInv'
<1>1. UNCHANGED <<lines, truth>>
  BY DEF Header
<1>2. LinesRight'
  BY <1>1 DEF DiffInv, LinesRight, Misread
<1>3. gitFile' \in Files \cup {NoFile} /\ path' = gitFile' /\ gitLine' \in Nat
  BY DEF Header
<1>4. path' # Elsewhere /\ hunk' = FALSE
  BY DiffAssumption DEF Header
<1>5. new_lineno' \in Nat /\ lines' \subseteq Lines /\ truth' \subseteq Lines
  BY <1>1 DEF Header, DiffInv, InStep
<1>6. InStep'
  BY <1>3, <1>4, <1>5 DEF InStep
<1> QED
  BY <1>2, <1>6 DEF DiffInv

LEMMA HunkInStep ==
  ASSUME DiffInv, NEW n \in 1..MaxLine, Hunk(n)
  PROVE  DiffInv'
<1>1. UNCHANGED <<lines, truth, path, gitFile>>
  BY DEF Hunk
<1>2. LinesRight'
  BY <1>1 DEF DiffInv, LinesRight, Misread
<1>3. UNCHANGED Misread
  BY <1>1 DEF Misread
<1>4. gitFile' \in Files /\ gitLine' \in Nat /\ new_lineno' \in Nat /\ new_lineno' = gitLine'
  BY <1>1, DiffAssumption DEF DiffInv, InStep, Hunk
<1>5. InStep'
  BY <1>1, <1>3, <1>4 DEF DiffInv, InStep
<1> QED
  BY <1>2, <1>5 DEF DiffInv

LEMMA MisreadBy ==
  ASSUME NEW l \in truth', l.text \in {"header", "plus"}
  PROVE  l.path \in Misread'
BY DEF Misread

LEMMA AddedInStep ==
  ASSUME DiffInv, NEW text \in Texts, Added(text)
  PROVE  DiffInv'
<1> DEFINE new == [path |-> gitFile, line |-> gitLine, text |-> text]
<1>0. /\ truth' = truth \cup {new} /\ gitLine' = gitLine + 1
      /\ gitFile' = gitFile /\ hunk' = hunk /\ hunk
  BY DEF Added
<1>1. gitFile \in Files /\ gitFile # Elsewhere /\ gitFile # NoFile /\ gitLine \in Nat
  BY <1>0, DiffAssumption DEF DiffInv, InStep
<1>2. new \in Lines /\ truth' \subseteq Lines /\ lines \subseteq Lines
  BY <1>0, <1>1 DEF DiffInv, InStep, Lines
<1>3. Misread \subseteq Misread'
  BY <1>0, <1>1 DEF Misread
<1>4. CASE text = "header"
  <2>1. path' = Elsewhere /\ UNCHANGED <<new_lineno, lines>>
    BY <1>4 DEF Added, Parse
  <2>2. gitFile \in Misread' /\ new \in truth' /\ new.text = "header" /\ new.path = gitFile
    <3>1. new \in truth' /\ new.text = "header" /\ new.path = gitFile
      BY <1>0, <1>4
    <3> HIDE DEF new
    <3> QED
      BY <3>1, MisreadBy
  <2>3. InStep'
    <3>1. gitFile' \in Misread' /\ gitFile' \in Files /\ gitLine' \in Nat
      BY <1>0, <1>1, <2>2
    <3>2. new_lineno' \in Nat /\ lines' \subseteq Lines
      BY <2>1 DEF DiffInv, InStep
    <3>3. path' = Elsewhere /\ \E l \in truth' : l.text = "header"
      BY <2>1, <2>2
    <3> QED
      BY <1>2, <3>1, <3>2, <3>3 DEF InStep
  <2>4. LinesRight'
    <3>1. ASSUME NEW l \in truth', l.path \notin Misread'
          PROVE  l \in lines' /\ (Silences(l) => l \in Annotated(lines'))
      <4>1. l # new
        BY <2>2, <3>1
      <4> QED
        BY <1>0, <1>1, <1>3, <2>1, <3>1, <4>1 DEF DiffInv, LinesRight
    <3>2. ASSUME NEW l \in lines'
          PROVE  l \in truth' \/ l.path \in Misread' \/ l.path = Elsewhere
      BY <1>0, <1>1, <1>3, <2>1 DEF DiffInv, LinesRight
    <3> QED
      BY <3>1, <3>2, <2>2 DEF LinesRight
  <2> QED
    BY <2>3, <2>4 DEF DiffInv
<1>5. CASE text = "plus"
  <2>1. UNCHANGED <<path, new_lineno, lines>>
    BY <1>5 DEF Added, Parse, parserVars
  <2>2. gitFile \in Misread' /\ new.path = gitFile
    <3>1. new \in truth' /\ new.text = "plus" /\ new.path = gitFile
      BY <1>0, <1>5
    <3> HIDE DEF new
    <3> QED
      BY <3>1, MisreadBy
  <2>3. InStep'
    <3>1. gitFile' \in Misread' /\ gitFile' \in Files /\ gitLine' \in Nat
      BY <1>0, <1>1, <2>2
    <3>2. new_lineno' \in Nat /\ lines' \subseteq Lines
      BY <2>1 DEF DiffInv, InStep
    <3>3. /\ path' \in {gitFile', Elsewhere}
          /\ path' = Elsewhere => \E l \in truth' : l.text = "header"
      BY <1>0, <2>1 DEF DiffInv, InStep
    <3> QED
      BY <1>2, <3>1, <3>2, <3>3 DEF InStep
  <2>4. LinesRight'
    <3>1. ASSUME NEW l \in truth', l.path \notin Misread'
          PROVE  l \in lines' /\ (Silences(l) => l \in Annotated(lines'))
      <4>1. l # new
        BY <2>2, <3>1
      <4> QED
        BY <1>0, <1>1, <1>3, <2>1, <3>1, <4>1 DEF DiffInv, LinesRight
    <3>2. ASSUME NEW l \in lines'
          PROVE  l \in truth' \/ l.path \in Misread' \/ l.path = Elsewhere
      BY <1>0, <1>1, <1>3, <2>1 DEF DiffInv, LinesRight
    <3>3. (\E l \in lines' : l.path = Elsewhere) => \E l \in truth' : l.text = "header"
      BY <1>0, <1>1, <2>1 DEF DiffInv, LinesRight
    <3> QED
      BY <3>1, <3>2, <3>3 DEF LinesRight
  <2> QED
    BY <2>3, <2>4 DEF DiffInv
<1>6. CASE text \notin {"header", "plus"}
  <2> DEFINE seen == [path |-> path, line |-> new_lineno, text |-> text]
  <2>1. path # NoFile
    BY <1>0, <1>1, DiffAssumption DEF DiffInv, InStep
  <2>2. path' = path /\ lines' = lines \cup {seen} /\ new_lineno' = new_lineno + 1
    BY <1>6, <2>1 DEF Added, Parse
  <2>3. seen \in Lines
    BY <1>0, <1>1 DEF DiffInv, InStep, Lines
  <2>4. Misread' = Misread
    BY <1>0, <1>1, <1>6 DEF Misread
  <2>5. InStep'
    BY <1>0, <1>1, <1>2, <1>3, <2>2, <2>3, <2>4 DEF DiffInv, InStep
  <2>6. gitFile \notin Misread => seen = new
    BY <1>0, <1>1 DEF DiffInv, InStep
  <2>7. LinesRight'
    <3>1. ASSUME NEW l \in truth', l.path \notin Misread'
          PROVE  l \in lines' /\ (Silences(l) => l \in Annotated(lines'))
      <4>1. l \in lines'
        <5>1. CASE l = new
          BY <1>0, <1>1, <1>3, <2>2, <2>6, <3>1, <5>1
        <5>2. CASE l \in truth
          BY <1>3, <2>2, <3>1, <5>2 DEF DiffInv, LinesRight
        <5> QED
          BY <1>0, <1>1, <5>1, <5>2
      <4>2. lines' \in SUBSET Lines
        BY <1>2, <2>2, <2>3
      <4> QED
        BY <4>1, <4>2, SilencesAnnotated
    <3>2. ASSUME NEW l \in lines'
          PROVE  l \in truth' \/ l.path \in Misread' \/ l.path = Elsewhere
      <4>1. CASE l \in lines
        BY <1>0, <1>1, <1>3, <4>1 DEF DiffInv, LinesRight
      <4>2. CASE l = seen
        <5>1. path = gitFile \/ path = Elsewhere
          BY DEF DiffInv, InStep
        <5>2. seen.path = path
          OBVIOUS
        <5>3. CASE gitFile \in Misread
          BY <1>3, <4>2, <5>1, <5>2, <5>3
        <5>4. CASE gitFile \notin Misread
          BY <1>0, <1>1, <2>6, <4>2, <5>4
        <5> QED
          BY <5>3, <5>4
      <4> QED
        BY <2>2, <4>1, <4>2
    <3>3. (\E l \in lines' : l.path = Elsewhere) => \E l \in truth' : l.text = "header"
      BY <1>0, <1>1, <2>2 DEF DiffInv, InStep, LinesRight
    <3> QED
      BY <3>1, <3>2, <3>3 DEF LinesRight
  <2> QED
    BY <2>5, <2>7 DEF DiffInv
<1> QED
  BY <1>4, <1>5, <1>6

LEMMA NextLines == DiffInv /\ [Next]_vars => DiffInv'
<1> SUFFICES ASSUME DiffInv, [Next]_vars
             PROVE  DiffInv'
  OBVIOUS
<1>1. CASE DiffStep
  BY <1>1, HeaderInStep, HunkInStep, AddedInStep DEF DiffStep
<1>2. CASE UNCHANGED diffVars
  BY <1>2 DEF diffVars, parserVars, DiffInv, InStep, LinesRight, Misread
<1>3. CASE Clear
  BY <1>3, ClearLines
<1> QED
  BY <1>1, <1>2, <1>3
  DEF Next, vars, ToolCall, EditOverride, Push, Judge, Fallback, Scan, Finish, Merge, Close,
      Over

(* parse_added_lines and main: whatever is added where, in any number of   *)
(* files and hunks, it is seen at its place and annotated if it silences a *)
(* check, but for what LinesRight excepts.                                 *)
THEOREM LinesReadRight == Spec => []LinesRight
<1>1. Init => DiffInv
  BY InitLines DEF Init
<1>2. DiffInv => LinesRight
  BY DEF DiffInv
<1> QED
  BY <1>1, <1>2, NextLines, PTL DEF Spec

(***************************************************************************)
(* Types.  The parser's line number is bounded because it never runs ahead *)
(* of git's: a line that it does not recognise is not counted.             *)
(***************************************************************************)
NumbersInv ==
  /\ gitLine \in 1..(MaxLine + 1) /\ new_lineno \in 0..(MaxLine + 1)
  /\ hunk => new_lineno <= gitLine

LEMMA StepNumbers == NumbersInv /\ DiffStep => NumbersInv'
<1> SUFFICES ASSUME NumbersInv, DiffStep PROVE NumbersInv'
  OBVIOUS
<1> USE DiffAssumption DEF NumbersInv
<1>1. CASE \E f \in Files \cup {NoFile} : Header(f)
  <2>1. gitLine' = 1 /\ ~hunk' /\ new_lineno' = new_lineno
    BY <1>1 DEF Header
  <2> QED
    BY <2>1
<1>2. CASE \E n \in 1..MaxLine : Hunk(n)
  BY <1>2 DEF Hunk
<1>3. CASE \E text \in Texts : Added(text)
  <2>1. hunk /\ hunk' = hunk /\ gitLine <= MaxLine /\ gitLine' = gitLine + 1
    BY <1>3 DEF Added
  <2>2. new_lineno' \in {new_lineno, new_lineno + 1}
    BY <1>3 DEF Added, Parse, parserVars
  <2> QED
    BY <2>1, <2>2
<1> QED
  BY <1>1, <1>2, <1>3 DEF DiffStep

LEMMA NextNumbers == NumbersInv /\ [Next]_vars => NumbersInv'
<1> SUFFICES ASSUME NumbersInv, [Next]_vars PROVE NumbersInv'
  OBVIOUS
<1>1. CASE DiffStep
  BY <1>1, StepNumbers
<1>2. CASE UNCHANGED diffVars
  BY <1>2 DEF diffVars, parserVars, NumbersInv
<1>3. CASE Clear
  <2>1. gitLine' = 1 /\ ~hunk' /\ new_lineno' = 0
    BY <1>3 DEF Clear
  <2> QED
    BY <2>1, DiffAssumption DEF NumbersInv
<1> QED
  BY <1>1, <1>2, <1>3
  DEF Next, vars, ToolCall, EditOverride, Push, Judge, Fallback, Scan, Finish, Merge, Close,
      Over

(* The rest: where the branch is, its size, and whose calls went unasked.  *)
BranchInv ==
  /\ job \in Jobs /\ size \in 0..MaxSize /\ merges \in 0..MaxMerges /\ override \in Overrides
  /\ slipped \subseteq EditCalls \cup {MergeCall}

LEMMA NextBranch == BranchInv /\ [Next]_vars => BranchInv'
<1> SUFFICES ASSUME BranchInv, [Next]_vars PROVE BranchInv'
  OBVIOUS
<1> USE BaselineAssumption DEF BranchInv, Jobs, Unasked
<1>1. ASSUME NEW call \in EditCalls, ToolCall(call) PROVE BranchInv'
  BY <1>1 DEF ToolCall, GateWeight
<1>2. CASE EditOverride
  BY <1>2 DEF EditOverride
<1>3. CASE Push \/ Judge \/ Fallback \/ Finish
  BY <1>3 DEF Push, Judge, Fallback, Finish, Goto
<1>4. CASE Scan
  BY <1>4 DEF Scan
<1>5. CASE Merge
  BY <1>5 DEF Merge, Over
<1>6. CASE Close
  BY <1>6 DEF Close, Over
<1>7. CASE UNCHANGED vars
  BY <1>7 DEF vars, prVars
<1> QED
  BY <1>1, <1>2, <1>3, <1>4, <1>5, <1>6, <1>7 DEF Next

(* A branch, the job that judges it and the parser that reads its diff     *)
(* stay what they are, for any gates, files and line numbers.              *)
THEOREM PullRequestTypeCorrect == Spec => []TypeOK
<1>1. Init => BranchInv /\ NumbersInv /\ DiffInv
  <2>1. Init => BranchInv
    BY BaselineAssumption DEF Init, BranchInv, Jobs
  <2>2. Init => NumbersInv
    <3> SUFFICES ASSUME Init PROVE NumbersInv
      OBVIOUS
    <3>1. gitLine = 1 /\ ~hunk /\ new_lineno = 0
      BY DEF Init, DiffInit
    <3> QED
      BY <3>1, DiffAssumption DEF NumbersInv
  <2> QED
    BY <2>1, <2>2, InitLines DEF Init
<1>2. GateInv /\ BranchInv /\ NumbersInv /\ DiffInv => TypeOK
  BY DEF GateInv, BranchInv, NumbersInv, DiffInv, InStep, TypeOK
<1> QED
  BY <1>1, <1>2, InitGate, NextGate, NextBranch, NextNumbers, NextLines, PTL DEF Spec

(***************************************************************************)
(* No false alarm.  A check that fails names a level that was moved, and a *)
(* tree measured at that level is accepted now and was not before.         *)
(***************************************************************************)
(* Percentages tell: what the tools report and mutants counted up to 100.  *)
LEMMA PercentagesTell ==
  ASSUME Levels \subseteq 1..100, 0..101 \subseteq Measures, 0..100 \subseteq Counts
  PROVE  Telling
<1>1. ASSUME NEW v \in Levels PROVE \E m \in Measures : m > v
  BY 101 \in 0..101
<1>2. ASSUME NEW v \in Levels \cup {0}, NEW u \in Levels, v < u
      PROVE  \E k, s \in Counts : MeetsFloor(k, s, v) /\ ~MeetsFloor(k, s, u)
  <2>1. v \in 0..100 /\ u \in 1..100 /\ v \in Counts /\ 100 - v \in Counts
    OBVIOUS
  <2>2. v + (100 - v) = 100
    BY <2>1
  <2>3. MeetsFloor(v, 100 - v, v) /\ ~MeetsFloor(v, 100 - v, u)
    BY <1>2, <2>1, <2>2 DEF MeetsFloor
  <2> QED
    BY <2>1, <2>3
<1> QED
  BY <1>1, <1>2 DEF Telling

(* A tree without findings, at the coverage floor of c, is accepted by c if*)
(* its complexity and its mutants are.                                     *)
FloorOf(c) == IF c.fail_under = Absent THEN 0 ELSE c.fail_under
Sample(coverage, worst, killed, survived) ==
  [coverage |-> coverage, worst |-> worst, findings |-> {}, typed |-> TRUE,
   missing |-> {}, killed |-> killed, survived |-> survived]
Simple == [g \in Ceilings |-> 0]

LEMMA SampleAccepted ==
  ASSUME Telling, NEW c \in Configs, NEW coverage \in Measures, coverage >= FloorOf(c),
         NEW worst \in [Ceilings -> Measures],
         \A g \in Ceilings : c.ceiling[g] = Absent \/ worst[g] <= c.ceiling[g],
         NEW killed \in Counts, NEW survived \in Counts,
         c.min = Absent \/ MeetsFloor(killed, survived, c.min)
  PROVE  /\ Sample(coverage, worst, killed, survived) \in Trees
         /\ Stated(c, Sample(coverage, worst, killed, survived))
<1> DEFINE t == Sample(coverage, worst, killed, survived)
<1>1. t \in Trees
  BY DEF Sample, Trees
<1>2. /\ t.coverage = coverage /\ t.worst = worst /\ t.findings = {} /\ t.typed
      /\ t.missing = {} /\ t.killed = killed /\ t.survived = survived
  BY DEF Sample
<1>3. c.fail_under = Absent \/ t.coverage >= c.fail_under
  BY <1>2 DEF FloorOf
<1> HIDE DEF t
<1>4. Stated(c, t)
  BY <1>2, <1>3 DEF Stated
<1> QED
  BY <1>1, <1>4 DEF t

LEMMA SimpleFits ==
  ASSUME Telling, NEW c \in Configs
  PROVE  /\ Simple \in [Ceilings -> Measures]
         /\ \A g \in Ceilings : c.ceiling[g] = Absent \/ Simple[g] <= c.ceiling[g]
         /\ FloorOf(c) \in Measures /\ FloorOf(c) >= FloorOf(c)
<1>1. /\ c.fail_under \in Levels \cup {Absent}
      /\ \A g \in Ceilings : c.ceiling[g] \in Levels \cup {Absent}
  BY DEF Configs
<1>2. 0 \in Measures /\ Levels \subseteq Measures /\ Levels \subseteq Nat
  BY GateAssumption DEF Telling
<1>3. Simple \in [Ceilings -> Measures]
  BY <1>2 DEF Simple
<1>4. ASSUME NEW g \in Ceilings, c.ceiling[g] # Absent PROVE Simple[g] <= c.ceiling[g]
  <2>1. c.ceiling[g] \in Nat
    BY <1>1, <1>2, <1>4
  <2>2. Simple[g] = 0
    BY DEF Simple
  <2> QED
    BY <2>1, <2>2
<1>5. FloorOf(c) \in Measures /\ FloorOf(c) \in Nat
  BY <1>1, <1>2 DEF FloorOf
<1> QED
  BY <1>3, <1>4, <1>5

(* check_coverage: the tree at the new floor meets the old one.            *)
LEMMA CoverageTold ==
  ASSUME Telling, NEW c \in Configs, NEW old \in Configs, Tightened(c, old), old.pyproject
  PROVE  check_coverage(c, old)
<1> SUFFICES ASSUME old.fail_under # Absent
             PROVE  c.fail_under # Absent /\ c.fail_under >= old.fail_under
  BY DEF check_coverage, AtLeast
<1> DEFINE t == Sample(FloorOf(c), Simple, 0, 0)
<1>1. 0 \in Counts /\ MeetsFloor(0, 0, c.min)
  BY DEF Telling, MeetsFloor
<1>2. t \in Trees /\ Stated(c, t)
  BY <1>1, SimpleFits, SampleAccepted
<1>3. Stated(old, t)
  BY <1>2 DEF Tightened
<1>4. t.coverage = FloorOf(c)
  BY DEF Sample
<1>5. FloorOf(c) >= old.fail_under
  BY <1>3, <1>4 DEF Stated
<1>6. old.fail_under \in Nat /\ old.fail_under > 0
  BY GateAssumption DEF Configs, Telling
<1> QED
  BY <1>5, <1>6 DEF FloorOf

(* check_ceilings: what the new ceiling allows the old one does.           *)
LEMMA CeilingsTold ==
  ASSUME Telling, NEW c \in Configs, NEW old \in Configs, Tightened(c, old), old.pyproject
  PROVE  check_ceilings(c, old)
<1> SUFFICES ASSUME NEW g \in Ceilings, old.ceiling[g] # Absent
             PROVE  c.ceiling[g] # Absent /\ c.ceiling[g] <= old.ceiling[g]
  BY DEF check_ceilings, AtMost
<1>1. /\ old.ceiling[g] \in Levels /\ old.ceiling[g] \in Nat
      /\ \A h \in Ceilings : c.ceiling[h] \in Levels \cup {Absent}
  BY GateAssumption DEF Configs
<1>2. PICK m \in Measures : IF c.ceiling[g] = Absent THEN m > old.ceiling[g]
                                                     ELSE m = c.ceiling[g]
  <2>1. CASE c.ceiling[g] = Absent
    BY <1>1, <2>1 DEF Telling
  <2>2. CASE c.ceiling[g] # Absent
    BY <1>1, <2>2 DEF Telling
  <2> QED
    BY <2>1, <2>2
<1> DEFINE worst == [h \in Ceilings |-> IF h = g THEN m ELSE 0]
           t == Sample(FloorOf(c), worst, 0, 0)
<1>3. /\ worst \in [Ceilings -> Measures]
      /\ \A h \in Ceilings : c.ceiling[h] = Absent \/ worst[h] <= c.ceiling[h]
  <2>1. 0 \in Measures /\ m \in Nat /\ Levels \subseteq Nat
    BY GateAssumption DEF Telling
  <2>2. worst \in [Ceilings -> Measures]
    BY <2>1
  <2>3. ASSUME NEW h \in Ceilings, c.ceiling[h] # Absent PROVE worst[h] <= c.ceiling[h]
    <3>1. c.ceiling[h] \in Nat
      BY <1>1, <2>1, <2>3
    <3>2. CASE h = g
      <4>1. worst[h] = c.ceiling[h]
        BY <1>2, <2>3, <3>2
      <4> QED
        BY <3>1, <4>1
    <3>3. CASE h # g
      <4>1. worst[h] = 0
        BY <3>3
      <4> QED
        BY <3>1, <4>1
    <3> QED
      BY <3>2, <3>3
  <2> QED
    BY <2>2, <2>3
<1>4. 0 \in Counts /\ MeetsFloor(0, 0, c.min)
  BY DEF Telling, MeetsFloor
<1> HIDE DEF worst
<1>5. t \in Trees /\ Stated(c, t)
  BY <1>3, <1>4, SimpleFits, SampleAccepted
<1>6. Stated(old, t)
  BY <1>5 DEF Tightened
<1>7. t.worst = worst
  BY DEF Sample
<1>8. worst[g] <= old.ceiling[g]
  BY <1>6, <1>7 DEF Stated
<1>9. m <= old.ceiling[g] /\ m \in Nat
  BY <1>8, GateAssumption DEF worst
<1> QED
  BY <1>1, <1>2, <1>9

(* check_mutation_floor: scores that meet the new floor meet the old one.  *)
LEMMA MutantsTold ==
  ASSUME Telling, NEW c \in Configs, NEW old \in Configs, Tightened(c, old)
  PROVE  check_mutation_floor(c, old)
<1> SUFFICES ASSUME old.min # Absent, c.min = Absent \/ ~(c.min >= old.min)
             PROVE  FALSE
  BY DEF check_mutation_floor, AtLeast
<1> DEFINE v == IF c.min = Absent THEN 0 ELSE c.min
<1>1. v \in Levels \cup {0} /\ old.min \in Levels /\ v < old.min
  BY GateAssumption DEF Configs, Telling
<1>2. PICK k \in Counts, s \in Counts : MeetsFloor(k, s, v) /\ ~MeetsFloor(k, s, old.min)
  BY <1>1 DEF Telling
<1> DEFINE t == Sample(FloorOf(c), Simple, k, s)
<1>3. c.min = Absent \/ MeetsFloor(k, s, c.min)
  BY <1>2
<1>4. t \in Trees /\ Stated(c, t)
  BY <1>3, SimpleFits, SampleAccepted
<1>5. Stated(old, t)
  BY <1>4 DEF Tightened
<1>6. t.killed = k /\ t.survived = s
  BY DEF Sample
<1> QED
  BY <1>2, <1>5, <1>6 DEF Stated

(* The whole of gate_ratchet.py against the definition of being tighter.   *)
LEMMA TightenedPasses ==
  ASSUME Telling, NEW c \in Configs, NEW old \in Configs, Tightened(c, old)
  PROVE  Passes(c, old)
<1>1. c.pyproject /\ c.strict /\ check_ruff_select(c, old)
  BY DEF Tightened, check_ruff_select
<1>2. check_pyright(c, old)
  <2>1. ASSUME NEW r \in Reports, old.report[r] # Absent
        PROVE  c.report[r] # Absent /\ c.report[r] >= old.report[r]
    <3>1. old.report[r] \in 0..2 /\ c.report[r] \in old.report[r]..2
      BY <2>1 DEF Tightened, Configs, Strictness
    <3> QED
      BY <3>1, GateAssumption
  <2> QED
    BY <1>1, <2>1 DEF check_pyright, AtLeast
<1>3. check_importlinter(c, old)
  <2>1. c.contracts \subseteq Contracts /\ old.contracts \subseteq c.contracts
    BY DEF Configs, Tightened
  <2>2. IsFiniteSet(c.contracts)
    BY <2>1, GateAssumption, FS_Subset
  <2>3. /\ Cardinality(old.contracts) <= Cardinality(c.contracts)
        /\ Cardinality(c.contracts) \in Nat /\ IsFiniteSet(old.contracts)
    BY <2>1, <2>2, FS_Subset, FS_CardinalityType
  <2>4. Cardinality(old.contracts) \in Nat
    BY <2>3, FS_CardinalityType
  <2> QED
    BY <2>3, <2>4 DEF check_importlinter
<1>4. old.pyproject => check_coverage(c, old) /\ check_ceilings(c, old)
  BY CoverageTold, CeilingsTold
<1>5. check_mutation_floor(c, old)
  BY MutantsTold
<1> QED
  BY <1>1, <1>2, <1>3, <1>4, <1>5 DEF Passes, run

(* Who comes to the branch's own ratchet was refused by master's.          *)
Refused == job = "fallback" /\ master.script = "genuine" => ~Passes(head, master)

LEMMA NextRefused == Refused /\ [Next]_vars => Refused'
BY DEF Refused, Verdicts, Next, vars, prVars, ToolCall, EditOverride, Push, Judge, Fallback, Scan,
       Finish, Merge, Close, Over, Goto

(* The ratchet refuses no branch that keeps or tightens every gate, for any*)
(* gates and levels that can be told apart by what is measured.            *)
THEOREM NoAlarmIsFalse == Telling /\ Spec => []NoFalseAlarm
<1>1. Init => Refused
  BY DEF Init, Refused
<1>2. Telling /\ GateInv /\ Refused => NoFalseAlarm
  BY TightenedPasses DEF GateInv, Refused, NoFalseAlarm
<1>3. CASE Telling
  BY <1>1, <1>2, <1>3, InitGate, NextGate, NextRefused, PTL DEF Spec
<1>4. CASE ~Telling
  BY <1>4
<1> QED
  BY <1>3, <1>4
===============================================================================
