----------------------------- MODULE GateRatchet ------------------------------
(***************************************************************************)
(* scripts/gate_ratchet.py: is a tree's set of quality gates weakened in   *)
(* comparison to origin/master's?  And what the gates themselves let pass, *)
(* scripts/mutation_score.py included.                                     *)
(* A definition Bug... is a slip the definition after it could have;       *)
(* nothing uses it but the tests of the properties.                        *)
(***************************************************************************)
EXTENDS Integers, FiniteSets

CONSTANTS
  Ceilings,    \* max-complexity and min_confidence: higher is weaker
  Reports,     \* pyright's reportMissing... settings
  Rules,       \* ruff rules
  Contracts,   \* import-linter contracts
  Levels,      \* percentages and thresholds
  Measures,    \* what the tools may measure of a tree
  Counts,      \* how many mutants may be killed, and how many survive
  Absent,      \* the key, the table or the file is not there
  (* What the tools go by where pyproject.toml has no key. *)
  DefaultCeiling, DefaultRules,
  DefaultReport   \* unless typeCheckingMode is strict, which reports errors

\* _STRICTNESS: "none", "warning", "error".
Strictness == 0..2

ASSUME GateAssumption ==
  /\ Levels \cup Measures \cup Counts \subseteq Nat /\ Absent \notin Int
  /\ IsFiniteSet(Contracts)
  /\ DefaultCeiling \in [Ceilings -> Nat \cup {Absent}] /\ DefaultRules \subseteq Rules
  /\ DefaultReport \in [Reports -> Strictness]

\* The gate_ratchet.py of a tree: none, this one, or one that was rewritten and
\* may say anything.
Scripts == {"absent", "genuine", "rewritten"}

Configs ==
  [pyproject : BOOLEAN,                        \* is there a pyproject.toml?
   fail_under : Levels \cup {Absent},          \* coverage
   ceiling : [Ceilings -> Levels \cup {Absent}],
   select : SUBSET Rules,                      \* select and extend-select; {}: neither
   strict : BOOLEAN,                           \* typeCheckingMode = "strict"
   report : [Reports -> Strictness \cup {Absent}],
   contracts : SUBSET Contracts,
   min : Levels \cup {Absent},                 \* nightly-mutation.yml's --min
   script : Scripts]

\* A repository before the first gate.
NoGates ==
  [pyproject |-> FALSE, fail_under |-> Absent, ceiling |-> [g \in Ceilings |-> Absent],
   select |-> {}, strict |-> FALSE, report |-> [r \in Reports |-> Absent],
   contracts |-> {}, min |-> Absent, script |-> "absent"]

\* Nothing to compare with, or not deleted and not lowered (raised).
BugAtLeast(cur, old) == old # Absent /\ cur # Absent => cur >= old
AtLeast(cur, old) == old # Absent => cur # Absent /\ cur >= old
AtMost(cur, old) == old # Absent => cur # Absent /\ cur <= old

check_coverage(cur, old) == AtLeast(cur.fail_under, old.fail_under)
BugCheckCeilings(cur, old) ==
  \A g \in Ceilings : AtLeast(cur.ceiling[g], old.ceiling[g])
check_ceilings(cur, old) ==
  \A g \in Ceilings : AtMost(cur.ceiling[g], old.ceiling[g])
check_ruff_select(cur, old) == old.select \subseteq cur.select
check_pyright(cur, old) ==
  cur.strict /\ \A r \in Reports : AtLeast(cur.report[r], old.report[r])
check_importlinter(cur, old) ==
  Cardinality(cur.contracts) >= Cardinality(old.contracts)
check_mutation_floor(cur, old) == AtLeast(cur.min, old.min)

run(cur, old) ==
  old.pyproject =>
    /\ check_coverage(cur, old) /\ check_ceilings(cur, old)
    /\ check_ruff_select(cur, old) /\ check_pyright(cur, old)
    /\ check_importlinter(cur, old)

\* main(): without a pyproject.toml of its own the tree fails, whatever it had.
Passes(cur, old) ==
  cur.pyproject /\ run(cur, old) /\ check_mutation_floor(cur, old)

\* Does `python` of a tree's copy exit with 0?
Verdicts(script, cur, old) ==
  {ok \in BOOLEAN : script = "rewritten" \/ ok = (script = "genuine" /\ Passes(cur, old))}

(***************************************************************************)
(* What a gate is for: trees, as the tools measure them                    *)
(***************************************************************************)
\* Mutants killed and survived: no result, no evidence either way.
MeetsFloor(killed, survived, floor) ==
  killed + survived = 0 \/ 100 * killed >= floor * (killed + survived)

Trees ==
  [coverage : Measures, worst : [Ceilings -> Measures], findings : SUBSET Rules,
   typed : BOOLEAN, missing : SUBSET Reports, killed : Counts, survived : Counts]

\* Is the tree accepted by every gate c has a key for (the contracts apart)?
Stated(c, t) ==
  /\ c.pyproject =>
       /\ c.fail_under = Absent \/ t.coverage >= c.fail_under
       /\ \A g \in Ceilings : c.ceiling[g] = Absent \/ t.worst[g] <= c.ceiling[g]
       /\ c.select \cap t.findings = {}
       /\ c.strict => t.typed
       /\ \A r \in t.missing : c.report[r] # 2
  /\ c.min = Absent \/ MeetsFloor(t.killed, t.survived, c.min)

\* And by what the tools do of their own accord?
InForce(c) ==
  [c EXCEPT
     !.ceiling = [g \in Ceilings |->
                    IF c.ceiling[g] # Absent THEN c.ceiling[g] ELSE DefaultCeiling[g]],
     !.select = IF c.select # {} THEN c.select ELSE DefaultRules,
     !.report = [r \in Reports |->
                   IF c.report[r] # Absent THEN c.report[r]
                   ELSE IF c.strict THEN 2 ELSE DefaultReport[r]]]
Accepts(c, t) == Stated(InForce(c), t)

\* Keys that take the place of a default.
Adds(c, old) ==
  \/ old.select = {} /\ c.select # {}
  \/ \E g \in Ceilings : old.ceiling[g] = Absent /\ c.ceiling[g] # Absent
  \/ \E r \in Reports : old.report[r] = Absent /\ c.report[r] # Absent

\* verify.py lowers the coverage floor of a copy and wants it refused.
BugLowered(c) == [c EXCEPT !.fail_under = @ + 10]
Lowered(c) == [c EXCEPT !.fail_under = @ - 10]
ProofBites(c) ==
  /\ c.script # "absent" /\ c.pyproject /\ c.fail_under # Absent
  /\ FALSE \in Verdicts(c.script, Lowered(c), c)
===============================================================================
