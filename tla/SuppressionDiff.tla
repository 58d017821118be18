--------------------------- MODULE SuppressionDiff ----------------------------
(***************************************************************************)
(* scripts/suppression_diff.py reads `git diff --unified=0` line by line   *)
(* and reports added lines that silence a check.  Beside the parser's      *)
(* state runs git's own: which line of which file it is printing.          *)
(* Removed lines and git's other headers touch neither and are left out.   *)
(* A definition Bug... is a slip the definition after it could have;       *)
(* nothing uses it but the tests of the properties.                        *)
(***************************************************************************)
EXTENDS Integers

CONSTANTS
  Files,        \* files of the repository
  NoFile,       \* "", and what +++ /dev/null stands for
  Elsewhere,    \* what the rest of an added line "++ ..." says
  MaxLine,      \* bound on line numbers
  SelfExclude,  \* SELF_EXCLUDE
  Watched,      \* .vulture_allowlist.py and .gitleaks.toml
  Pyproject,
  IgnoresFrom,  \* the line of pyproject.toml's per-file-ignores header ...
  IgnoresTo     \* ... and that of the next header

ASSUME DiffAssumption ==
  /\ NoFile \notin Files /\ Elsewhere \notin Files /\ Elsewhere # NoFile
  /\ MaxLine \in Nat /\ IgnoresFrom \in Nat /\ IgnoresTo \in Nat

VARIABLES
  path, new_lineno, lines,     \* the parser's, as in parse_added_lines
  gitFile, gitLine, hunk,      \* git's file, next line, and: in a hunk?
  truth                        \* the lines that were added

parserVars == <<path, new_lineno, lines>>
diffVars == <<parserVars, gitFile, gitLine, hunk, truth>>

\* Ordinary code, a suppression, and what the parser reads otherwise with the
\* diff's + before it: code that begins with ++ and a space, like a file header,
\* or with ++ alone.
Texts == {"code", "mark", "header", "plus"}
Lines == [path : Files \cup {Elsewhere}, line : Nat, text : Texts]

DiffInit ==
  /\ path = NoFile /\ new_lineno = 0 /\ lines = {}
  /\ gitFile = NoFile /\ gitLine = 1 /\ hunk = FALSE /\ truth = {}

\* The file header "+++ b/<f>" (f = NoFile: the file was deleted).
Header(f) ==
  /\ \A l \in truth : l.path # f
  /\ gitFile' = f /\ gitLine' = 1 /\ hunk' = FALSE
  /\ path' = f
  /\ UNCHANGED <<new_lineno, lines, truth>>

BugHunk(n) ==
  /\ gitFile # NoFile /\ n \in gitLine..MaxLine
  /\ gitLine' = n /\ hunk' = TRUE
  /\ UNCHANGED <<path, new_lineno, lines, gitFile, truth>>

\* "@@ -a,b +n,c @@": hunks come in the order of their lines.
Hunk(n) ==
  /\ gitFile # NoFile /\ n \in gitLine..MaxLine
  /\ gitLine' = n /\ hunk' = TRUE
  /\ new_lineno' = n
  /\ UNCHANGED <<path, lines, gitFile, truth>>

BugParse(text) ==
  IF text = "header"
  THEN path' = text /\ UNCHANGED <<new_lineno, lines>>
  ELSE UNCHANGED parserVars

\* What the parser makes of "+" followed by the line's text.
Parse(text) ==
  IF text = "header"
  THEN path' = Elsewhere /\ UNCHANGED <<new_lineno, lines>>
  ELSE IF text = "plus" \/ path = NoFile
  THEN UNCHANGED parserVars
  ELSE /\ lines' = lines \cup {[path |-> path, line |-> new_lineno, text |-> text]}
       /\ new_lineno' = new_lineno + 1
       /\ UNCHANGED path

Added(text) ==
  /\ hunk /\ gitLine <= MaxLine
  /\ truth' = truth \cup {[path |-> gitFile, line |-> gitLine, text |-> text]}
  /\ gitLine' = gitLine + 1
  /\ Parse(text)
  /\ UNCHANGED <<gitFile, hunk>>

DiffStep ==
  \/ \E f \in Files \cup {NoFile} : Header(f)
  \/ \E n \in 1..MaxLine : Hunk(n)
  \/ \E text \in Texts : Added(text)

(***************************************************************************)
(* What is annotated                                                       *)
(***************************************************************************)
find_suppressions(ls) == {l \in ls : l.text = "mark" /\ l.path \notin SelfExclude}

\* _sections: from its header to the next one.
InIgnores(n) == IgnoresFrom <= n /\ n < IgnoresTo
find_allowlist_growth(ls) ==
  {l \in ls : l.path \in Watched \/ (l.path = Pyproject /\ InIgnores(l.line))}

Annotated(ls) == find_suppressions(ls) \cup find_allowlist_growth(ls)

-------------------------------------------------------------------------------
\* The files to which a line beginning with ++ was added.
Misread == {l.path : l \in {m \in truth : m.text \in {"header", "plus"}}}

Silences(l) ==
  \/ l.text = "mark" /\ l.path \notin SelfExclude
  \/ l.path = Pyproject /\ l.line > IgnoresFrom /\ l.line < IgnoresTo

(* Every line added to a file is seen under its own path and number, and   *)
(* annotated if it silences a check; nothing else is seen -- but for files *)
(* with an added line that looks like a part of the diff: what is lost or  *)
(* misplaced there (to the file named in the line) stays there, and the    *)
(* next file is read right again.                                          *)
LinesRight ==
  /\ \A l \in truth : l.path \notin Misread =>
       l \in lines /\ (Silences(l) => l \in Annotated(lines))
  /\ \A l \in lines : l \in truth \/ l.path \in Misread \/ l.path = Elsewhere
  /\ (\E l \in lines : l.path = Elsewhere) => \E l \in truth : l.text = "header"
===============================================================================
