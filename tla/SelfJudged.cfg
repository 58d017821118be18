\* One merge of a branch with two gate edits.
SPECIFICATION Spec
CONSTANTS
  Absent = absent
  Ceilings = {"max-complexity"}
  Reports = {"reportMissingTypeStubs"}
  Rules = {"E"}
  Contracts = {"pure", "layers"}
  Levels = {10, 100}
  Measures = {0, 10, 100, 101}
  Counts = {0, 1}
  DefaultCeiling <- MCDefaultCeiling
  DefaultRules = {"E"}
  DefaultReport <- MCDefaultReport
  Files = {"scripts/x.py", "pyproject.toml"}
  NoFile = ""
  Elsewhere = "x"
  MaxLine = 3
  SelfExclude = {}
  Watched = {}
  Pyproject = "pyproject.toml"
  IgnoresFrom = 1
  IgnoresTo = 3
  ProtectedNames = {"pyproject.toml", "gate_ratchet.py"}
  ExtraNames = {"x.py"}
  GITHUB_DIR = ".github"
  CLAUDE_DIR = ".claude"
  Settings = {"settings.json", "settings.local.json"}
  PyprojectPath <- MCPyproject
  NightlyPath <- MCNightly
  GithubPath <- MCGithub
  RatchetPath <- MCRatchet
  Baselines <- MCBaselines
  MaxSize = 6
  MaxMerges = 1
PROPERTIES MasterJudges
