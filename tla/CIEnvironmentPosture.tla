------------------------ MODULE CIEnvironmentPosture ------------------------
(***************************************************************************)
(* The CI environment inventory (internal/posture/ci_environment.go): what *)
(* the repository declares of its CI in a profile of its own, its flake,   *)
(* and what its workflows invoke, install and provision.  The profile's    *)
(* text has the field env, an applicability and the classes of external    *)
(* inputs.                                                                 *)
(***************************************************************************)
EXTENDS HooksPosture

CONSTANTS EnvProfile, Flake, FlakeLock

ASSUME EnvAssumption ==
  \A c \in DOMAIN Content : \A p \in DOMAIN Content[c] :
    Content[c][p].env # Unreadable => IsFiniteSet(DOMAIN Content[c][p].env.inputs)

\* CIEnvironmentProfile.Validate
ValidEnv(env) ==
  /\ env # Unreadable
  /\ env.applicability \in {"applicable", "not-applicable", "unresolved"}
  /\ \A i \in DOMAIN env.inputs : env.inputs[i] \in {"bootstrap", "platform"}

\* loadCIEnvironmentProfile; a profile known to be absent leaves the
\* applicability unknown.
EnvProfileState(g) ==
  CASE EnvProfile \notin g.tree -> "unknown"
    [] EnvProfile \in g.tree \cap g.lost -> "unavailable"
    [] EnvProfile \in g.tree \ g.lost ->
         IF TooLong(g, EnvProfile) \/ ~File(g, EnvProfile).yaml
              \/ ~ValidEnv(File(g, EnvProfile).env)
         THEN "unknown" ELSE "observed"
ExternalInputs(g) ==
  IF g.stage = "complete" /\ EnvProfileState(g) = "observed"
  THEN File(g, EnvProfile).env.inputs ELSE <<>>

\* A workflow too long to inspect is unknown; malformed text is still searched,
\* only the tools and set-ups of its steps are not found.
ContentState(g, p) ==
  CASE p \in g.lost -> "unavailable"
    [] p \notin g.lost /\ TooLong(g, p) -> "unknown"
    [] p \notin g.lost /\ ~TooLong(g, p) -> "observed"
Tools(g, p) == IF File(g, p).yaml THEN File(g, p).tools ELSE {}
SetUps(g, p) == IF File(g, p).yaml THEN File(g, p).setups ELSE {}
AmbientTools(g, p) == Tools(g, p) \ SetUps(g, p)

Signals == {"flake_invocation_signals", "imperative_install_signals", "workload_tool_signals",
            "setup_provisioning_signals", "ambient_tool_candidates"}
Signal(g, p, a) ==
  CASE a = "flake_invocation_signals" -> File(g, p).flake
    [] a = "imperative_install_signals" -> File(g, p).installs
    [] a = "workload_tool_signals" -> Tools(g, p)
    [] a = "setup_provisioning_signals" -> SetUps(g, p)
    [] a = "ambient_tool_candidates" -> AmbientTools(g, p)

\* AddCIEnvironment: how many workflows show a signal.
EnvCounts == {"workflow_count", "workflows_with_flake_signals_count",
              "workflows_with_imperative_install_signals_count",
              "workflows_with_ambient_tool_candidates_count"}
EnvCount(g, a) ==
  LET showing(signal) == {p \in Workflows(g) : Signal(g, p, signal) # {}}
  IN  Cardinality(
        CASE a = "workflow_count" -> Workflows(g)
          [] a = "workflows_with_flake_signals_count" -> showing("flake_invocation_signals")
          [] a = "workflows_with_imperative_install_signals_count" ->
               showing("imperative_install_signals")
          [] a = "workflows_with_ambient_tool_candidates_count" ->
               showing("ambient_tool_candidates"))
EnvAggregates(g) ==
  LET state == AggregateState(g, {ContentState(g, p) : p \in Workflows(g)})
  IN  [n \in {<<"ci_environment", a>> : a \in EnvCounts} |->
         StateInput(state, Count(EnvCount(g, n[2])))]

EnvPerWorkflow(g) ==
  [n \in {<<"ci_environment", "workflow", p, a>> : p \in Workflows(g),
            a \in Signals \union {"content_state"}} |->
     StateInput(ContentState(g, n[3]), IF n[4] = "content_state" THEN Str("observed")
                                       ELSE List(Signal(g, n[3], n[4])))]
EnvInputs(g) ==
  [n \in {<<"ci_environment", "external_input", i, "class">> : i \in DOMAIN ExternalInputs(g)} |->
     Observed(Str(ExternalInputs(g)[n[3]]))]

EnvDeclaration(g) ==
  [n \in {<<"ci_environment", a>> : a \in {"profile_declared", "declared_applicability",
            "flake_present", "flake_lock_present"}} |->
     IF g.stage # "complete" THEN Unavailable
     ELSE CASE n[2] = "profile_declared" -> Presence(g, {EnvProfile})
            [] n[2] = "declared_applicability" ->
                 StateInput(EnvProfileState(g), Str(File(g, EnvProfile).env.applicability))
            [] n[2] = "flake_present" -> Presence(g, {Flake})
            [] n[2] = "flake_lock_present" -> Presence(g, {FlakeLock})]
EnvInputCount(g) ==
  [n \in {<<"ci_environment", "external_input_count">>} |->
     Observed(Count(Cardinality(DOMAIN ExternalInputs(g))))]

\* CollectGitHubCIEnvironment and AddCIEnvironment.
EnvFacts(g) ==
  Merged(<<Identity(g, "ci_environment"), EnvDeclaration(g), WorkflowsFact(g, "ci_environment"),
           EnvAggregates(g), EnvPerWorkflow(g), EnvInputCount(g), EnvInputs(g)>>)
=============================================================================
