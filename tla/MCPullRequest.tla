---------------------------- MODULE MCPullRequest ----------------------------
(* One gate of each kind; a repository without gates, one with them, and   *)
(* one that is not strict yet.                                             *)
EXTENDS PullRequest

Established ==
  [pyproject |-> TRUE, fail_under |-> 10, ceiling |-> [g \in Ceilings |-> 10],
   select |-> Rules, strict |-> TRUE, report |-> [r \in Reports |-> 1],
   contracts |-> {CHOOSE c \in Contracts : TRUE}, min |-> 10, script |-> "genuine"]

ASSUME TellingAssumption == Telling

MCBaselines == {NoGates, Established, [Established EXCEPT !.strict = FALSE]}
MCDefaultCeiling == [g \in Ceilings |-> 10]
MCDefaultReport == [r \in Reports |-> 0]
MCPyproject == <<"pyproject.toml">>
MCNightly == <<".github", "workflows", "nightly-mutation.yml">>
MCGithub == <<".github">>
MCRatchet == <<"scripts", "gate_ratchet.py">>
===============================================================================
