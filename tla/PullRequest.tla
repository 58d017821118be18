----------------------------- MODULE PullRequest ------------------------------
(***************************************************************************)
(* The way of a change into origin/master: an agent's tool calls under the *)
(* guard hook, then the quality-gate job of ci.yml -- master's copy of the *)
(* ratchet, or the branch's where that fails, then the suppression diff,   *)
(* then the rest -- and the merge.  Branches must be up to date to merge   *)
(* (ruleset.json), so one branch at a time is all master sees.  The branch *)
(* may delete the ratchet, add it or rewrite it; the job itself it leaves  *)
(* alone.                                                                  *)
(* A definition Bug... is a slip the definition after it could have;       *)
(* nothing uses it but the tests of the properties.                        *)
(***************************************************************************)
EXTENDS GateRatchet, SuppressionDiff, GuardHook

CONSTANTS
  PyprojectPath, NightlyPath, GithubPath, RatchetPath,
  Baselines,   \* the gates master may have to begin with
  MaxSize,     \* bound on the size of a branch; a gate edit counts GateWeight
  MaxMerges    \* bound on merges

ASSUME BaselineAssumption ==
  Baselines \subseteq Configs /\ MaxSize \in Nat /\ MaxMerges \in Nat

ASSUME PathAssumption ==
  /\ {PyprojectPath, NightlyPath, RatchetPath} \subseteq Seq(STRING)
  /\ PyprojectPath # << >> /\ Last(PyprojectPath) \in ProtectedNames
  /\ RatchetPath # << >> /\ Last(RatchetPath) \in ProtectedNames
  /\ Len(NightlyPath) >= 2 /\ NightlyPath[1] = GITHUB_DIR
  /\ GithubPath = <<GITHUB_DIR>>

\* A gate edit is at least a file header, a hunk header and a line.
GateWeight == 3

VARIABLES
  master, head,   \* Configs of origin/master and of the branch
  size,           \* how much the branch changes
  merges,
  override,       \* .claude/protected-paths.json
  slipped,        \* the tool call just made, if no human was asked
  job             \* where the branch is

prVars == <<master, head, size, merges, override, slipped, job>>
vars == <<prVars, diffVars>>

Overrides == {"absent", "list", "broken"}
Jobs == {"editing", "judging", "fallback", "diffing", "green", "red"}

Init ==
  /\ master \in Baselines /\ head = master
  /\ size = 0 /\ merges = 0 /\ slipped = {} /\ job = "editing"
  /\ override \in Overrides
  /\ DiffInit

(***************************************************************************)
(* Editing                                                                 *)
(***************************************************************************)
\* What a write to pyproject.toml can do to the gates.
PyprojectEdits(c) ==
  {[c EXCEPT !.pyproject = ~@], [c EXCEPT !.strict = ~@]}
    \cup {[c EXCEPT !.fail_under = v] : v \in Levels \cup {Absent}}
    \cup {[c EXCEPT !.ceiling[g] = v] : g \in Ceilings, v \in Levels \cup {Absent}}
    \cup {[c EXCEPT !.report[r] = v] : r \in Reports, v \in Strictness \cup {Absent}}
    \cup {[c EXCEPT !.select = s] : s \in SUBSET Rules}
    \cup {[c EXCEPT !.contracts = s] : s \in SUBSET Contracts}

\* And a write to any of these.
Edit(file) ==
  \/ file = PyprojectPath /\ head' \in PyprojectEdits(head)
  \/ file = NightlyPath /\ \E v \in Levels \cup {Absent} : head' = [head EXCEPT !.min = v]
  \/ file = GithubPath /\ head' = [head EXCEPT !.min = Absent]
  \/ file = RatchetPath /\ \E s \in Scripts : head' = [head EXCEPT !.script = s]

Paths == {PyprojectPath, NightlyPath, GithubPath, RatchetPath}
EditCalls ==
  {call \in Calls(Paths) :
     ~call.bypass /\ (call.indicated \/ call.spelled => call.tool = "Bash")}
MergeCall ==
  [tool |-> "Bash", path |-> << >>, spelled |-> FALSE, indicated |-> FALSE,
   bypass |-> TRUE, sound |-> TRUE]

\* A call is executed unless a human, asked, says no.
Unasked(call) == IF Asks(call, override) THEN {} ELSE {call}

ToolCall(call) ==
  /\ job = "editing" /\ merges < MaxMerges /\ size + GateWeight <= MaxSize
  /\ Edit(call.path) /\ head' # head
  /\ size' = size + GateWeight
  /\ slipped' = Unasked(call)
  /\ UNCHANGED <<master, merges, override, job, diffVars>>

EditOverride ==
  /\ job = "editing" /\ size = 0
  /\ override' \in Overrides \ {override}
  /\ slipped' = {}
  /\ UNCHANGED <<master, head, size, merges, job, diffVars>>

(***************************************************************************)
(* The quality-gate job                                                    *)
(***************************************************************************)
Goto(from, to) ==
  job = from /\ job' = to /\ slipped' = {} /\ UNCHANGED <<master, head, size, merges, override>>

Push == merges < MaxMerges /\ Goto("editing", "judging") /\ UNCHANGED diffVars

\* `git show origin/master:... && python ... || python scripts/gate_ratchet.py`
Judge ==
  /\ \E ok \in Verdicts(master.script, head, master) :
       Goto("judging", IF ok THEN "diffing" ELSE "fallback")
  /\ UNCHANGED diffVars

Fallback ==
  /\ \E ok \in Verdicts(head.script, head, master) :
       Goto("fallback", IF ok THEN "diffing" ELSE "red")
  /\ UNCHANGED diffVars

Scan ==
  /\ job = "diffing" /\ size < MaxSize
  /\ size' = size + 1 /\ slipped' = {}
  /\ UNCHANGED <<master, head, merges, override, job>>
  /\ DiffStep

\* pre-commit: tests, linters and the gates themselves.
Finish ==
  /\ Goto("diffing", "green") \/ Goto("diffing", "red")
  /\ UNCHANGED diffVars

Clear ==
  /\ path' = NoFile /\ new_lineno' = 0 /\ lines' = {}
  /\ gitFile' = NoFile /\ gitLine' = 1 /\ hunk' = FALSE /\ truth' = {}

Over ==
  /\ head' = master' /\ size' = 0 /\ job' = "editing"
  /\ UNCHANGED override
  /\ Clear

\* By a human, or by the agent's gh pr merge.
Merge ==
  /\ job = "green" /\ merges < MaxMerges
  /\ master' = head /\ merges' = merges + 1
  /\ slipped' \in {{}, Unasked(MergeCall)}
  /\ Over

Close ==
  /\ job \in {"green", "red"}
  /\ slipped' = {}
  /\ UNCHANGED <<master, merges>>
  /\ Over

Next ==
  \/ \E call \in EditCalls : ToolCall(call)
  \/ EditOverride \/ Push \/ Judge \/ Fallback \/ Scan \/ Finish \/ Merge \/ Close

Spec == Init /\ [][Next]_vars

-------------------------------------------------------------------------------
TypeOK ==
  /\ master \in Configs /\ head \in Configs
  /\ job \in Jobs /\ size \in 0..MaxSize /\ merges \in 0..MaxMerges /\ override \in Overrides
  /\ slipped \subseteq EditCalls \cup {MergeCall}
  /\ lines \subseteq Lines /\ truth \subseteq Lines
  /\ path \in Files \cup {NoFile, Elsewhere} /\ gitFile \in Files \cup {NoFile}
  /\ gitLine \in 1..(MaxLine + 1) /\ new_lineno \in 0..(MaxLine + 1)

(* "Fail CI if any quality gate was weakened": what a key in master's files*)
(* refuses is refused by those of every later master, however many gates   *)
(* one branch moves and in whatever order gates, ratchet and files are     *)
(* added and deleted; and so is what only a tool's default refuses, unless *)
(* the branch adds a key in its place, which the ratchet takes for a new   *)
(* gate.  Contracts are only counted.  Nothing is claimed of a branch that *)
(* rewrites the ratchet, nor of the branch after it.                       *)
NeverLoosened ==
  [][master' # master /\ "rewritten" \notin {master.script, master'.script} =>
       /\ \A t \in Trees : Stated(master', t) => Stated(master, t)
       /\ \/ Adds(master', master)
          \/ \A t \in Trees : Accepts(master', t) => Accepts(master, t)
       /\ master.pyproject =>
            Cardinality(master'.contracts) >= Cardinality(master.contracts)]_vars

(* "Run origin/master's copy of the judge, NOT the PR's own -- otherwise a *)
(* PR that neuters this script would pass itself.  The bootstrap fallback  *)
(* (PR copy) only fires when master has no gate_ratchet.py yet" (ci.yml):  *)
(* while master has one, no gate of it is weakened.                        *)
MasterJudges ==
  [][master' # master /\ master.script = "genuine" =>
       \A t \in Trees : Stated(master', t) => Stated(master, t)]_vars

(* The ratchet refuses no branch that keeps or tightens every gate, once   *)
(* it is strict: a verdict is about weakening and about nothing else.      *)
Tightened(c, old) ==
  /\ c.pyproject /\ c.strict
  /\ old.select \subseteq c.select /\ old.contracts \subseteq c.contracts
  /\ \A r \in Reports : old.report[r] # Absent => c.report[r] \in old.report[r]..2
  /\ \A t \in Trees : Stated(c, t) => Stated(old, t)

NoFalseAlarm ==
  job = "fallback" /\ master.script = "genuine" => ~Tightened(head, master)

\* Enough is measured to tell any two levels apart, and each from no gate at
\* all: no level is 0, for nothing fails a floor of 0, yet to drop it is refused.
Telling ==
  /\ Levels \subseteq Measures \ {0} /\ 0 \in Measures /\ 0 \in Counts
  /\ \A v \in Levels : \E m \in Measures : m > v
  /\ \A v \in Levels \cup {0}, u \in Levels :
       v < u => \E k, s \in Counts : MeetsFloor(k, s, v) /\ ~MeetsFloor(k, s, u)

(* verify.py's proof: wherever there is a floor to lower the installed     *)
(* ratchet bites; and it bites because the floor was lowered, not because  *)
(* it refuses everything -- unless the project is not strict yet.          *)
ProofIsConclusive ==
  master.script = "genuine" =>
    /\ master.pyproject /\ master.fail_under # Absent => ProofBites(master)
    /\ ProofBites(master) => Passes(master, master) \/ ~master.strict

(* While the hook's list of files parses, a human is asked before an agent *)
(* edits a file the gates are read from by Edit, Write or MultiEdit, before*)
(* a shell command that spells the file out writes it in a way the hook    *)
(* knows, and before a merge.  Only .github itself, named without a slash, *)
(* is an Edit's business and not a command's.                              *)
GuardedEdits ==
  \A call \in slipped : override # "broken" /\ call.sound =>
    /\ call.tool # "Edit" /\ ~call.bypass
    /\ call.tool = "Bash" /\ call.indicated =>
         ~call.spelled \/ call.path = GithubPath
===============================================================================
