---------------------------- MODULE MCBootstrap ----------------------------
(* A small root: the default manifest and a reviewed one, one workflow;     *)
(* a process that plans, one that applies or inspects, one that applies    *)
(* or initialises.                                                         *)
EXTENDS Bootstrap, TLC

CONSTANTS p1, p2, p3
Ci == "ci.yml"
ProcessesMC == {p1, p2, p3}
CommandsMC == (p1 :> {"plan"}) @@ (p2 :> {"apply", "inspect"}) @@ (p3 :> {"apply", "init"})
OthersMC == <<>>
WorkflowsMC == {Ci}

\* A manifest that decides the name, the license and CI.
Claim(k, v, a) ==
  [key |-> k, state |-> "resolved", value |-> v, authority |-> a, note |-> "none"]
Reviewed == Content("manifest", {},
  {Claim("repository.name", "word", "human"), Claim(DefaultBranch, "main", "pinned-policy"),
   [key |-> "delivery.ciProvider", state |-> "not-applicable", value |-> "none",
    authority |-> "human", note |-> "reason"],
   Unresolved("repository.license")})
TextsMC == {Absent, Torn, Directory, DefaultManifest, Reviewed}
InitialMC ==
  {[f \in Files |-> CASE f = Target -> t [] f = Input -> Reviewed [] f = Ci -> Torn
                      [] OTHER -> Absent] : t \in {Absent, Reviewed}}
=============================================================================
