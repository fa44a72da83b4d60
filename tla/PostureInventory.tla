--------------------------- MODULE PostureInventory ---------------------------
(***************************************************************************)
(* From what GitHub showed to named facts: the repository inventory        *)
(* (internal/posture/github.go and workflow.go) and its conversion to      *)
(* policy inputs (internal/posturepolicy/adapters.go).  HooksPosture and   *)
(* CIEnvironmentPosture add the other two collectors.                      *)
(*                                                                         *)
(* A reading g is what one collector got:                                  *)
(*   repo, stage     the repository, and the read that was unavailable     *)
(*                   ("repository", "branch", "tree") or "complete";       *)
(*   branch, commit  the default branch and the commit at its tip;         *)
(*   protected, settings   its protection, Unreadable if access is denied; *)
(*   tree, truncated the paths the tree listed, and whether it was cut;    *)
(*   lost, limit     the paths whose blob was unavailable, and the size up *)
(*                   to which a file is inspected, in MiB.                 *)
(* Content[c][p] is the file p of commit c: a record of the properties of  *)
(* its text the collectors ask for; every entry of a tree is a file.  The  *)
(* name of a fact is the sequence of its parts; paths the code recognises  *)
(* by a pattern are constant sets of paths.                                *)
(***************************************************************************)
EXTENDS PosturePolicy

CONSTANTS Content,                \* commit -> path -> file
          CodeOwners, SecurityFiles, Licenses, IssueTemplates, PullTemplates,
          Dependabot, Renovate,   \* their configuration files
          WorkflowFiles

\* A job has a sequence of uses; what the text of a use is decides what it names.
IsJob(job) == /\ IsFiniteSet(DOMAIN job.uses)
              /\ \A i, k \in DOMAIN job.uses :
                   job.uses[i].name = job.uses[k].name => job.uses[i] = job.uses[k]
IsFile(file) == /\ file.size \in Nat
                /\ IsFiniteSet(DOMAIN file.jobs)
                /\ \A j \in DOMAIN file.jobs : IsJob(file.jobs[j])
ASSUME ContentAssumption ==
  /\ IsFiniteSet(WorkflowFiles)
  /\ \A c \in DOMAIN Content : \A p \in DOMAIN Content[c] : IsFile(Content[c][p])

Str(s) == Value("string", s)
Bool(b) == Value("bool", b)
List(s) == Value("list", s)
Count(n) == Value("number", Numeral(FALSE, Digits(n), <<>>, 0))

\* Mutant: an incomplete inventory is counted.
StateInputAlways(state, value) == [state |-> state, value |-> value]

\* stateInput: the value goes only with an observed state.
StateInput(state, value) ==
  [state |-> state, value |-> IF state = "observed" THEN value ELSE NoValue]

\* addEntries: facts side by side; parts have no name in common.
Merged(parts) ==
  [n \in UNION {DOMAIN parts[i] : i \in DOMAIN parts} |->
     parts[CHOOSE i \in DOMAIN parts : n \in DOMAIN parts[i]][n]]

Unreadable == [unreadable |-> TRUE]
File(g, p) == Content[g.commit][p]
TooLong(g, p) == File(g, p).size > g.limit

------------------------------------------------------------------------------
(* The tree (github.go, hooks.go).  Absence is only known of a whole tree. *)

\* Mutant: what the tree does not list is absent.
PresenceOfListed(g, candidates) == Observed(Bool(candidates \cap g.tree # {}))

Presence(g, candidates) ==
  IF candidates \cap g.tree # {} THEN Observed(Bool(TRUE))
  ELSE IF g.truncated THEN Unknown ELSE Observed(Bool(FALSE))

AnyPathPresent(g, paths) == IF paths = {} THEN Unknown ELSE Presence(g, paths)

DependencyAutomation(g) ==
  LET found == (IF Dependabot \cap g.tree # {} THEN {"dependabot"} ELSE {})
                 \union (IF Renovate \cap g.tree # {} THEN {"renovate"} ELSE {})
  IN  IF found # {} \/ ~g.truncated THEN Observed(List(found)) ELSE Unknown

Workflows(g) == WorkflowFiles \cap g.tree

WorkflowsState(g) ==
  CASE g.stage # "complete" -> "unavailable"
    [] g.stage = "complete" /\ g.truncated -> "unknown"
    [] g.stage = "complete" /\ ~g.truncated -> "observed"

WorkflowsFact(g, area) ==
  [n \in {<<area, "workflows_state">>} |-> StateInput(WorkflowsState(g), Str("observed"))]

\* ciAggregateState, of the states of the workflows: one that was not read spoils
\* the counts.
AggregateState(g, states) ==
  CASE WorkflowsState(g) # "observed" -> WorkflowsState(g)
    [] WorkflowsState(g) = "observed" /\ "unavailable" \in states -> "unavailable"
    [] WorkflowsState(g) = "observed" /\ "unavailable" \notin states ->
         IF "unknown" \in states THEN "unknown" ELSE "observed"

------------------------------------------------------------------------------
(* The repository inventory (CollectGitHub, AddInventory)                  *)

SettingFacts == {"required_status_checks", "required_reviews", "force_push_protected",
                 "deletion_protected"}
Permitted(answer) == IF answer = "omitted" THEN Unknown ELSE Observed(Bool(answer = "denied"))

SettingFact(g, a) ==
  IF g.protected /\ g.settings = Unreadable THEN Unavailable
  ELSE CASE a = "required_status_checks" ->
              Observed(List(IF g.protected THEN g.settings.checks ELSE {}))
         [] a = "required_reviews" ->
              Observed(Count(IF g.protected THEN g.settings.reviews ELSE 0))
         [] a = "force_push_protected" ->
              IF g.protected THEN Permitted(g.settings.forcePushes) ELSE Observed(Bool(FALSE))
         [] a = "deletion_protected" ->
              IF g.protected THEN Permitted(g.settings.deletions) ELSE Observed(Bool(FALSE))

TreeFacts == {"codeowners_present", "security_md_present", "license_present",
              "issue_template_present", "pull_request_template_present",
              "dependency_update_automation", "workflow_paths"}
TreeFact(g, a) ==
  CASE a = "codeowners_present" -> Presence(g, CodeOwners)
    [] a = "security_md_present" -> Presence(g, SecurityFiles)
    [] a = "license_present" -> Presence(g, Licenses)
    [] a = "issue_template_present" -> Presence(g, IssueTemplates)
    [] a = "pull_request_template_present" -> Presence(g, PullTemplates)
    [] a = "dependency_update_automation" -> DependencyAutomation(g)
    [] a = "workflow_paths" -> IF g.truncated THEN Unknown ELSE Observed(List(Workflows(g)))

\* What an unavailable read leaves: setRepositoryUnavailable and the like.
RepositoryFact(g, a) ==
  CASE a = "default_branch" ->
         IF g.stage = "repository" THEN Unavailable ELSE Observed(Str(g.branch))
    [] a = "default_branch_protected" ->
         IF g.stage \in {"repository", "branch"} THEN Unavailable ELSE Observed(Bool(g.protected))
    [] a \in SettingFacts ->
         IF g.stage \in {"repository", "branch"} THEN Unavailable ELSE SettingFact(g, a)
    [] a \in TreeFacts -> IF g.stage = "complete" THEN TreeFact(g, a) ELSE Unavailable

RepositoryFacts(g) ==
  [n \in {<<"repository", a>> : a \in SettingFacts \union TreeFacts
                                        \union {"default_branch", "default_branch_protected"}}
     |-> RepositoryFact(g, n[2])]

\* classifyAction: an action is [name, form, owner, ref]; form is "local", "docker"
\* or "repository", ref how it names a version.
ThirdParty(use) == CASE use.form = "local" -> FALSE
                     [] use.form = "docker" -> TRUE
                     [] use.form = "repository" -> use.owner \notin {"actions", "github", "self"}
Pinning(use) ==
  CASE use.form = "local" -> "local"
    [] use.form = "docker" -> IF use.ref = "digest" THEN "immutable-digest" ELSE "mutable-ref"
    [] use.form = "repository" -> CASE use.ref = "none" -> "unversioned"
                                    [] use.ref = "sha" -> "immutable-sha"
                                    [] use.ref \notin {"none", "sha"} -> "mutable-ref"

\* classifySelfHostedLabel over the labels of runs-on, a set.
SelfHosted(runsOn) ==
  CASE runsOn = {} -> Unknown
    [] "self-hosted" \in runsOn -> Observed(Bool(TRUE))
    [] "self-hosted" \notin runsOn /\ "dynamic" \in runsOn -> Unknown
    [] runsOn # {} /\ runsOn \cap {"self-hosted", "dynamic"} = {} -> Observed(Bool(FALSE))

\* populateWorkflows and parseWorkflow: text that is too long or no YAML mapping
\* is unknown, and has no jobs.
ParseState(g, p) ==
  CASE p \in g.lost -> "unavailable"
    [] p \notin g.lost /\ (TooLong(g, p) \/ ~File(g, p).yaml) -> "unknown"
    [] p \notin g.lost /\ ~TooLong(g, p) /\ File(g, p).yaml -> "observed"
Parsed(g) == {p \in Workflows(g) : ParseState(g, p) = "observed"}
Jobs(g) == UNION {{<<p, j>> : j \in DOMAIN File(g, p).jobs} : p \in Parsed(g)}
Uses(g) == UNION {{<<j[1], j[2], i>> : i \in DOMAIN File(g, j[1]).jobs[j[2]].uses} : j \in Jobs(g)}
UseAt(g, u) == File(g, u[1]).jobs[u[2]].uses[u[3]]

Mutable(use) == ThirdParty(use) /\ Pinning(use) \notin {"immutable-sha", "immutable-digest"}

\* addCIAggregates
CICounts == {"workflow_count", "third_party_action_count", "mutable_third_party_action_count",
             "pull_request_target_workflow_count",
             "workflows_without_declared_permissions_count"}
CICount(g, a) ==
  CASE a = "workflow_count" -> Cardinality(Workflows(g))
    [] a = "third_party_action_count" -> Cardinality({u \in Uses(g) : ThirdParty(UseAt(g, u))})
    [] a = "mutable_third_party_action_count" -> Cardinality({u \in Uses(g) : Mutable(UseAt(g, u))})
    [] a = "pull_request_target_workflow_count" ->
         Cardinality({p \in Parsed(g) : File(g, p).pullRequestTarget})
    [] a = "workflows_without_declared_permissions_count" ->
         Cardinality({p \in Parsed(g) : ~File(g, p).permissions})
CIAggregates(g) ==
  LET state == AggregateState(g, {ParseState(g, p) : p \in Workflows(g)})
  IN  [n \in {<<"ci", a>> : a \in CICounts} |-> StateInput(state, Count(CICount(g, n[2])))]

PerWorkflow(g) ==
  [n \in {<<"ci", "workflow", p, a>> : p \in Workflows(g),
             a \in {"state", "uses_pull_request_target", "permissions_declared"}} |->
     StateInput(ParseState(g, n[3]),
                CASE n[4] = "state" -> Str("observed")
                  [] n[4] = "uses_pull_request_target" -> Bool(File(g, n[3]).pullRequestTarget)
                  [] n[4] = "permissions_declared" -> Bool(File(g, n[3]).permissions))]
PerJob(g) ==
  [n \in {<<"ci", "job", j[1], j[2], "self_hosted_label">> : j \in Jobs(g)} |->
     SelfHosted(File(g, n[3]).jobs[n[4]].runsOn)]
PerAction(g) ==
  [n \in {<<"ci", "action", u[1], u[2], UseAt(g, u).name, a>> :
             u \in Uses(g), a \in {"pinning", "third_party"}} |->
     LET use == UseAt(g, CHOOSE u \in Uses(g) : /\ u[1] = n[3] /\ u[2] = n[4]
                                               /\ UseAt(g, u).name = n[5])
     IN  Observed(IF n[6] = "pinning" THEN Str(Pinning(use)) ELSE Bool(ThirdParty(use)))]

InventoryFacts(g) ==
  Merged(<<WorkflowsFact(g, "ci"), RepositoryFacts(g), CIAggregates(g), PerWorkflow(g),
           PerJob(g), PerAction(g)>>)
=============================================================================
