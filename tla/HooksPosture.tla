---------------------------- MODULE HooksPosture ----------------------------
(***************************************************************************)
(* The hooks inventory (internal/posture/hooks.go).  A repository may      *)
(* declare what to look for in a profile, a file of its own tree; without  *)
(* one the built-in baseline looks for nothing.  A file's text mentions    *)
(* checks and may load from the network; a profile's text has the field    *)
(* hooks.                                                                  *)
(***************************************************************************)
EXTENDS PostureInventory

CONSTANTS HooksProfile, PreCommit, LefthookYml, LefthookYaml, HuskyHooks, CustomHooks

BaselineHooks ==
  [manager |-> "", paths |-> {}, checks |-> {}, bootstrap |-> {}, bypass |-> {}]

\* loadHooksProfile: the state in which the declared expectations are known.
HooksProfileState(g) ==
  CASE HooksProfile \notin g.tree -> IF g.truncated THEN "unknown" ELSE "observed"
    [] HooksProfile \in g.tree \cap g.lost -> "unavailable"
    [] HooksProfile \in g.tree \ g.lost ->
         IF TooLong(g, HooksProfile) \/ ~File(g, HooksProfile).yaml
              \/ File(g, HooksProfile).hooks = Unreadable
         THEN "unknown" ELSE "observed"
HooksExpected(g) ==
  IF HooksProfile \in g.tree THEN File(g, HooksProfile).hooks ELSE BaselineHooks

\* detectHookManager: the first kind of configuration found, and its files.
DetectedHooks(g) ==
  CASE PreCommit \in g.tree -> [manager |-> "pre-commit", paths |-> {PreCommit}]
    [] PreCommit \notin g.tree /\ LefthookYml \in g.tree ->
         [manager |-> "lefthook", paths |-> {LefthookYml}]
    [] {PreCommit, LefthookYml} \cap g.tree = {} /\ LefthookYaml \in g.tree ->
         [manager |-> "lefthook", paths |-> {LefthookYaml}]
    [] {PreCommit, LefthookYml, LefthookYaml} \cap g.tree = {} ->
         CASE HuskyHooks \cap g.tree # {} -> [manager |-> "husky", paths |-> HuskyHooks \cap g.tree]
           [] HuskyHooks \cap g.tree = {} /\ CustomHooks \cap g.tree # {} ->
                [manager |-> "custom", paths |-> CustomHooks \cap g.tree]
           [] (HuskyHooks \union CustomHooks) \cap g.tree = {} -> [manager |-> "", paths |-> {}]

HookManager(g) ==
  LET manager == IF HooksExpected(g).manager # "" THEN HooksExpected(g).manager
                                                  ELSE DetectedHooks(g).manager
  IN  IF manager # "" THEN Observed(Str(manager))
      ELSE IF g.truncated THEN Unknown ELSE Observed(Str("none"))

NetworkLoaded(g, p) ==
  CASE p \notin g.tree -> Unknown
    [] p \in g.tree \cap g.lost -> Unavailable
    [] p \in g.tree \ g.lost ->
         IF TooLong(g, p) THEN Unknown ELSE Observed(Bool(File(g, p).network))

\* collectWorkflowText: the text of all the workflows, longer ones left out.
CoverageState(g) ==
  CASE Workflows(g) \cap g.lost # {} -> "unavailable"
    [] Workflows(g) \cap g.lost = {} /\ g.truncated -> "unknown"
    [] Workflows(g) \cap g.lost = {} /\ ~g.truncated -> "observed"
WorkflowText(g) ==
  IF Workflows(g) \cap g.lost # {} THEN {}
  ELSE UNION {File(g, p).mentions : p \in {q \in Workflows(g) : ~TooLong(g, q)}}
Covered(g, check) ==
  IF check \in WorkflowText(g) THEN Observed(Bool(TRUE))
  ELSE StateInput(CoverageState(g), Bool(FALSE))

Entrypoints(g) ==
  LET paths == DetectedHooks(g).paths \union HooksExpected(g).paths
  IN  [n \in {<<"hooks", "entrypoint", p, a>> : p \in paths,
                a \in {"configured", "executable", "network_loaded"}} |->
         CASE n[4] = "configured" -> Presence(g, {n[3]})
           [] n[4] = "executable" -> Unknown
           [] n[4] = "network_loaded" -> NetworkLoaded(g, n[3])]
RequiredChecks(g) ==
  [n \in {<<"hooks", "required_check", c, a>> : c \in HooksExpected(g).checks,
            a \in {"configured", "ci_covered"}} |->
     IF n[4] = "configured" THEN Observed(Bool(TRUE)) ELSE Covered(g, n[3])]

\* What a branch, and its tip, were seen to be.
Identity(g, area) ==
  [n \in {<<area, a>> : a \in {"default_branch", "default_commit"}} |->
     CASE n[2] = "default_branch" ->
            IF g.stage = "repository" THEN Unavailable ELSE Observed(Str(g.branch))
       [] n[2] = "default_commit" ->
            IF g.stage \in {"repository", "branch"} THEN Unavailable ELSE Observed(Str(g.commit))]

\* The facts that wait for the profile.
HooksExpectation(g, a) ==
  IF HooksProfileState(g) # "observed" THEN StateInput(HooksProfileState(g), NoValue)
  ELSE CASE a = "manager" -> HookManager(g)
         [] a = "bootstrap_instructions_present" -> AnyPathPresent(g, HooksExpected(g).bootstrap)
         [] a = "bypass_documentation_present" -> AnyPathPresent(g, HooksExpected(g).bypass)

HooksDeclaration(g) ==
  [n \in {<<"hooks", a>> : a \in {"profile_declared", "manager",
            "bootstrap_instructions_present", "bypass_documentation_present"}} |->
     IF g.stage # "complete" THEN Unavailable
     ELSE IF n[2] = "profile_declared" THEN Presence(g, {HooksProfile})
     ELSE HooksExpectation(g, n[2])]

\* CollectGitHubHooks and AddHooks.
HooksFacts(g) ==
  Merged(IF g.stage = "complete" /\ HooksProfileState(g) = "observed"
         THEN <<Identity(g, "hooks"), HooksDeclaration(g), Entrypoints(g), RequiredChecks(g)>>
         ELSE <<Identity(g, "hooks"), HooksDeclaration(g)>>)
=============================================================================
