------------------------------ MODULE MCPosture ------------------------------
(* Two repositories; the first is observed at two commits, one of them with *)
(* a workflow too long to inspect.                                         *)
EXTENDS Posture, TLC

Plain == [size |-> 1, yaml |-> TRUE, pullRequestTarget |-> FALSE, permissions |-> TRUE,
          jobs |-> <<>>, network |-> FALSE, mentions |-> {}, flake |-> {}, installs |-> {},
          tools |-> {}, setups |-> {}, hooks |-> Unreadable, env |-> Unreadable]
Use(name, form, owner, ref) == [name |-> name, form |-> form, owner |-> owner, ref |-> ref]
Ci == ".github/workflows/ci.yml"
Release == ".github/workflows/release.yml"
CiFile ==
  [Plain EXCEPT !.mentions = {"gofmt"}, !.tools = {"go"}, !.flake = {"flake-check"},
     !.jobs = "build" :> [runsOn |-> {"ubuntu"},
                          uses |-> <<Use("checkout", "repository", "actions", "tag"),
                                     Use("lint", "repository", "acme", "sha"),
                                     Use("image", "docker", "none", "digest")>>]]
ReleaseFile ==
  [Plain EXCEPT !.permissions = FALSE, !.mentions = {"govet"},
     !.jobs = "publish" :> [runsOn |-> {"self-hosted"},
                            uses |-> <<Use("upload", "repository", "acme", "tag")>>]]
HooksFile(manager, paths) ==
  [Plain EXCEPT !.hooks = [manager |-> manager, paths |-> paths, checks |-> {"govet"},
                           bootstrap |-> {"CODEOWNERS"}, bypass |-> {}]]
EnvFile(a) == [Plain EXCEPT !.env = [applicability |-> a, inputs |-> "cache" :> "platform"]]

ContentMC ==
  ("c1" :> ("CODEOWNERS" :> Plain @@ Ci :> CiFile @@ Release :> ReleaseFile
              @@ "flake.nix" :> Plain @@ "renovate.json" :> Plain @@ "dependabot.yml" :> Plain
              @@ "lefthook.yml" :> [Plain EXCEPT !.network = TRUE] @@ "hooks.yaml" :> HooksFile("", {})
              @@ "env.yaml" :> EnvFile("applicable")))
  @@ ("c2" :> (Ci :> [CiFile EXCEPT !.yaml = FALSE] @@ Release :> [ReleaseFile EXCEPT !.size = 2]
              @@ "dependabot.yml" :> Plain @@ ".pre-commit-config.yaml" :> Plain
              @@ "lefthook.yml" :> Plain @@ "hooks.yaml" :> HooksFile("lefthook", {"lefthook.yml"})
              @@ "env.yaml" :> EnvFile("not-applicable")))
  @@ ("d1" :> ("CODEOWNERS" :> Plain @@ Ci :> CiFile))
ViewsMC == {{"env.yaml", "hooks.yaml", "lefthook.yml", "dependabot.yml", Ci},
            {"CODEOWNERS", Release, "hooks.yaml"}}

Strict == [on |-> TRUE, checks |-> {"ci"}, reviews |-> 2, forcePushes |-> "denied",
           deletions |-> "allowed"]
Open == [on |-> FALSE, checks |-> {}, reviews |-> 0, forcePushes |-> "allowed",
         deletions |-> "allowed"]
World(tip, protection) ==
  [default |-> "main", tip |-> tip, protection |-> [b \in DOMAIN tip |-> protection]]
InitialWorldsMC ==
  {[r \in {"acme/tool", "acme/site"} |->
      IF r = "acme/tool" THEN World("main" :> c @@ "next" :> "c2", p)
                         ELSE World("main" :> "d1", Strict)] : <<c, p>> \in {<<"c1", Strict>>, <<"c2", Open>>}}
CommitsMC == "acme/tool" :> {"c1", "c2"} @@ "acme/site" :> {"d1"}

Number(int, exp) == Value("number", Numeral(FALSE, int, <<>>, exp))
Rule(id, fact, severity, condition) ==
  [id |-> id, fact |-> fact, severity |-> severity, condition |-> condition, selected |-> FALSE]
When(rule, selector) ==
  [id |-> rule.id, fact |-> rule.fact, severity |-> rule.severity,
   condition |-> rule.condition, selected |-> TRUE, selector |-> selector]
CiApplies == Selector(<<"ci_environment", "declared_applicability">>,
                      Condition("equals", Str("applicable")),
                      Condition("equals", Str("not-applicable")))
Equals(v) == Condition("equals", v)
ProfilesMC ==
  <<[version |-> 2,
     rules |-> <<
       When(Rule("flake", <<"ci_environment", "flake_present">>, "high", Equals(Bool(TRUE))), CiApplies),
       When(Rule("pinned", <<"ci", "mutable_third_party_action_count">>, "high",
                 Condition("at_most", Number(<<0>>, 5))), CiApplies),
       Rule("reviews", <<"repository", "required_reviews">>, "medium",
            Condition("at_least", Number(<<2, 0>>, -1))),
       Rule("half", <<"repository", "required_reviews">>, "low",
            Condition("at_least", Value("number", Numeral(FALSE, <<0>>, <<5>>, 0)))),
       Rule("owners", <<"repository", "codeowners_present">>, "low", Equals(Bool(TRUE))),
       Rule("updates", <<"repository", "dependency_update_automation">>, "low",
            Equals(List({"dependabot", "renovate"})))>>,
     exceptions |-> <<[rule |-> "pinned", expires |-> 2], [rule |-> "owners", expires |-> 1]>>],
    [version |-> 1,
     rules |-> <<
       Rule("manager", <<"hooks", "manager">>, "low", Condition("non_empty", NoValue)),
       Rule("vet", <<"hooks", "required_check", "govet", "ci_covered">>, "high", Equals(Bool(TRUE))),
       Rule("workflows", <<"ci", "workflow_count">>, "low", Condition("at_least", Number(<<1>>, 1))),
       Rule("ambient", <<"ci_environment", "workflows_with_ambient_tool_candidates_count">>,
            "informational", Condition("at_most", Number(<<0>>, 0))),
       Rule("inputs", <<"ci_environment", "external_input_count">>, "low",
            Equals(Number(<<1>>, 0))),
       Rule("network", <<"hooks", "entrypoint", "lefthook.yml", "network_loaded">>, "low",
            Equals(Bool(FALSE))),
       Rule("owners", <<"repository", "codeowners_present">>, "low", Equals(Bool(TRUE)))>>,
     exceptions |-> <<>>]>>
RepositoriesMC == {"acme/tool", "acme/site"}
ProtectionsMC == {Strict, Open}
DaysMC == <<{2, 3}, {2}>>
=============================================================================
