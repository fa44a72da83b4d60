SPECIFICATION Spec
CONSTANTS
  Content <- ContentMC
  Repositories <- RepositoriesMC
  InitialWorlds <- InitialWorldsMC
  Commits <- CommitsMC
  Protections <- ProtectionsMC
  Views <- ViewsMC
  Profiles <- ProfilesMC
  Days <- DaysMC
  MaxChanges = 1
  MaxArtifacts = 2
  CodeOwners = {"CODEOWNERS"}
  SecurityFiles = {"SECURITY.md"}
  Licenses = {"LICENSE"}
  IssueTemplates = {}
  PullTemplates = {}
  Dependabot = {"dependabot.yml"}
  Renovate = {"renovate.json"}
  WorkflowFiles = {".github/workflows/ci.yml", ".github/workflows/release.yml"}
  HooksProfile = "hooks.yaml"
  PreCommit = ".pre-commit-config.yaml"
  LefthookYml = "lefthook.yml"
  LefthookYaml = "lefthook.yaml"
  HuskyHooks = {}
  CustomHooks = {}
  EnvProfile = "env.yaml"
  Flake = "flake.nix"
  FlakeLock = "flake.lock"
CHECK_DEADLOCK FALSE
INVARIANTS
  TypeOK
  VerdictIsEarned
