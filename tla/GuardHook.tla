------------------------------ MODULE GuardHook -------------------------------
(***************************************************************************)
(* scripts/guard_protected_paths.py: before an agent's tool call, must a   *)
(* human be asked?  A path is the sequence of its components; of a shell   *)
(* command counts whether it matches _WRITE_INDICATORS, whether its text   *)
(* spells out the path it writes -- there are globs, variables and cd --   *)
(* and whether it is a push, a merge or the like.                          *)
(* A definition Bug... is a slip the definition after it could have;       *)
(* nothing uses it but the tests of the properties.                        *)
(***************************************************************************)
EXTENDS Integers, Sequences

CONSTANTS
  ProtectedNames,   \* PROTECTED_BASENAMES
  ExtraNames,       \* the names listed in .claude/protected-paths.json
  GITHUB_DIR, CLAUDE_DIR, Settings   \* path components

Last(path) == path[Len(path)]
EndsInSettings(path) ==
  Len(path) >= 2 /\ path[Len(path) - 1] = CLAUDE_DIR /\ Last(path) \in Settings

\* An override that is not a list adds nothing, like none at all.
basenames(override) ==
  ProtectedNames \cup (IF override = "list" THEN ExtraNames ELSE {})

is_protected_path(path, names) ==
  \/ Last(path) \in names
  \/ \E i \in DOMAIN path : path[i] = GITHUB_DIR
  \/ EndsInSettings(path)

\* Is one of _protected_tokens -- a name, ".github/", ".claude/settings.json" --
\* a part of the command?
spells_protected(path, names) ==
  \/ \E i \in DOMAIN path : path[i] \in names
  \/ \E i \in 1..(Len(path) - 1) : path[i] = GITHUB_DIR
  \/ \E i \in 2..Len(path) : path[i - 1] = CLAUDE_DIR /\ path[i] \in Settings

\* "Edit" stands for Write and MultiEdit too.
Tools == {"Edit", "Bash", "Other"}

\* path is file_path, or what the command writes to, or << >>; spelled: is it in
\* the command's text?  What else the text spells can only make the hook ask.
\* sound: is the payload a JSON object whose fields have the expected types?
Calls(Paths) ==
  [tool : Tools, path : Paths, spelled : BOOLEAN,
   indicated : BOOLEAN, bypass : BOOLEAN, sound : BOOLEAN]

decision(call, names) ==
  \/ call.tool = "Edit" /\ is_protected_path(call.path, names)
  \/ /\ call.tool = "Bash"
     /\ \/ call.indicated /\ call.spelled /\ spells_protected(call.path, names)
        \/ call.bypass

BugAsks(call, override) ==
  override = "list" /\ call.sound /\ decision(call, basenames(override))

\* main(): on any error, an override that does not parse included, say nothing.
Asks(call, override) ==
  override # "broken" /\ call.sound /\ decision(call, basenames(override))
===============================================================================
