------------------------------- MODULE Posture -------------------------------
(***************************************************************************)
(* Posture, end to end: collectors read a repository on GitHub while it    *)
(* changes (repoctl posture inventory, hooks, ci-environment), their       *)
(* artifacts are converged into policy inputs (posture converge) and a     *)
(* profile is evaluated over those (posture report).                       *)
(*                                                                         *)
(* A collector reads the repository, its default branch, that branch's     *)
(* protection and the tree of its tip one after the other; a read answers, *)
(* is unavailable (HTTP 401, 403, 404) or fails, which ends the command.   *)
(* Trees and blobs are named by their digest and never change, so they are *)
(* read in one step.                                                       *)
(***************************************************************************)
EXTENDS CIEnvironmentPosture

CONSTANTS Repositories, InitialWorlds, \* what each repository may be at first
          Commits, Protections,        \* what it may become
          Views,                       \* the parts a truncated tree may list
          Profiles, Days,              \* policies, a sequence; when each is evaluated
          MaxChanges, MaxArtifacts     \* bounds

\* Branches keep their names, and each has a tip and a protection.
IsProtection(p) ==
  /\ DOMAIN p = {"on", "checks", "reviews", "forcePushes", "deletions"}
  /\ p.on \in BOOLEAN /\ p.reviews \in Nat
IsWorld(w) ==
  /\ DOMAIN w = {"default", "tip", "protection"}
  /\ w.default \in DOMAIN w.tip
  /\ DOMAIN w.protection = DOMAIN w.tip
  /\ \A b \in DOMAIN w.tip : w.tip[b] \in DOMAIN Content /\ IsProtection(w.protection[b])
IsCondition(c) == c.expected.type = "number" => c.expected.v \in Numerals
IsProfile(p) ==
  /\ Len(p.rules) \in Nat /\ DOMAIN p.rules = 1 .. Len(p.rules)
  /\ \A i \in DOMAIN p.rules :
       LET rule == p.rules[i]
       IN  /\ rule.selected \in BOOLEAN /\ IsCondition(rule.condition)
           /\ rule.selected => /\ IsCondition(rule.selector.applicable)
                               /\ IsCondition(rule.selector.not)
  /\ \A e \in DOMAIN p.exceptions : p.exceptions[e].expires \in Int
ASSUME PostureAssumption ==
  /\ \A w \in InitialWorlds : \A r \in Repositories : IsWorld(w[r])
  /\ \A w \in InitialWorlds : DOMAIN w = Repositories
  /\ \A r \in Repositories : Commits[r] \subseteq DOMAIN Content
  /\ \A p \in Protections : IsProtection(p)
  /\ \A i \in DOMAIN Profiles : IsProfile(Profiles[i]) /\ Days[i] \subseteq Int
  /\ MaxChanges \in Nat

VARIABLES world, changes, job, artifacts, inputs, report
vars == <<world, changes, job, artifacts, inputs, report>>

Kinds == {"inventory", "hooks", "ci-environment"}
None == [none |-> TRUE]

Facts(kind, g) == CASE kind = "inventory" -> InventoryFacts(g)
                    [] kind = "hooks" -> HooksFacts(g)
                    [] kind = "ci-environment" -> EnvFacts(g)

Collected == {k \in Kinds : artifacts[k] # None}

\* The actual protection rides along, for the properties.
EmptyReading(r) ==
  [repo |-> r, stage |-> "complete", branch |-> "", commit |-> "", protected |-> FALSE,
   settings |-> Unreadable, actual |-> Unreadable, tree |-> {}, truncated |-> FALSE,
   lost |-> {}, limit |-> 1]

Init ==
  /\ world \in InitialWorlds
  /\ changes = 0
  /\ job = None
  /\ artifacts = [k \in Kinds |-> None]
  /\ inputs = None
  /\ report = None

------------------------------------------------------------------------------
(* The repository changes.                                                 *)

Change(r, w) ==
  /\ inputs = None             \* nothing reads it later
  /\ changes < MaxChanges
  /\ w # world[r]
  /\ changes' = changes + 1
  /\ world' = [world EXCEPT ![r] = w]
  /\ UNCHANGED <<job, artifacts, inputs, report>>

Push(r) == \E c \in Commits[r] : Change(r, [world[r] EXCEPT !.tip[world[r].default] = c])
Rename(r) == \E b \in DOMAIN world[r].tip : Change(r, [world[r] EXCEPT !.default = b])
Protect(r) == \E p \in Protections : Change(r, [world[r] EXCEPT !.protection[world[r].default] = p])

------------------------------------------------------------------------------
(* A collector                                                             *)

Start(kind, r) ==
  /\ job = None /\ inputs = None
  /\ artifacts[kind] = None
  /\ Cardinality(Collected) < MaxArtifacts
  /\ job' = [kind |-> kind, next |-> "repository", g |-> EmptyReading(r)]
  /\ UNCHANGED <<world, changes, artifacts, inputs, report>>

\* The artifact: its facts; the reading is kept for the properties.
Emit(g) ==
  /\ artifacts' = [artifacts EXCEPT ![job.kind] =
                     [repo |-> g.repo, facts |-> Facts(job.kind, g), g |-> g]]
  /\ job' = None
Continue(next, g) ==
  /\ job' = [job EXCEPT !.next = next, !.g = g]
  /\ UNCHANGED artifacts

At(step) ==
  /\ job # None
  /\ job.next = step
  /\ UNCHANGED <<world, changes, inputs, report>>
Here == world[job.g.repo]

ReadFails == \E s \in {"repository", "branch", "protection", "tree"} :
  At(s) /\ job' = None /\ UNCHANGED artifacts

ReadRepository ==
  /\ At("repository")
  /\ \/ Continue("branch", [job.g EXCEPT !.branch = Here.default])
     \/ Emit([job.g EXCEPT !.stage = "repository"])

\* The branch may be gone by now; only the inventory asks for its protection.
ReadBranch ==
  LET b == job.g.branch
      protected == Here.protection[b].on
      found == [job.g EXCEPT !.commit = Here.tip[b], !.protected = protected]
  IN  /\ At("branch")
      /\ \/ Continue(IF job.kind = "inventory" /\ protected THEN "protection" ELSE "tree", found)
         \/ Emit([job.g EXCEPT !.stage = "branch"])

\* A protection that was lifted is unavailable; a provider may omit fields.
ReadProtection ==
  LET p == Here.protection[job.g.branch]
      read == [job.g EXCEPT !.actual = p]
      partial == [p EXCEPT !.forcePushes = "omitted", !.deletions = "omitted"]
  IN  /\ At("protection")
      /\ \/ p.on /\ \E s \in {p, partial} : Continue("tree", [read EXCEPT !.settings = s])
         \/ Continue("tree", read)

\* The files a collector asks for, of a tree.
Asked(g) ==
  Workflows(g) \union
    (CASE job.kind = "inventory" -> {}
       [] job.kind = "hooks" ->
            g.tree \cap ({HooksProfile} \union DetectedHooks(g).paths
                           \union (IF HooksProfileState(g) = "observed"
                                   THEN HooksExpected(g).paths ELSE {}))
       [] job.kind = "ci-environment" -> g.tree \cap {EnvProfile})

\* The tree is whole or cut; one of the blobs asked for may be unavailable.
ReadTree ==
  LET files == DOMAIN Content[job.g.commit]
  IN  /\ At("tree")
      /\ \/ Emit([job.g EXCEPT !.stage = "tree"])
         \/ \E tree \in {files} \union {files \cap view : view \in Views} :
              LET read == [job.g EXCEPT !.tree = tree, !.truncated = (tree # files)]
              IN  \E lost \in {{}} \union {{p} : p \in Asked(read)} :
                    Emit([read EXCEPT !.lost = lost])

------------------------------------------------------------------------------
(* Convergence and evaluation                                              *)

\* Mutant: the artifacts of any repositories.
AnyRepository == TRUE

\* requireRepository: all the artifacts are of the repository of the first, in
\* the order of ConvergeArtifacts.
First == IF "inventory" \in Collected THEN "inventory"
         ELSE IF "hooks" \in Collected THEN "hooks" ELSE "ci-environment"
SameRepository == \A k \in Collected : artifacts[k].repo = artifacts[First].repo

Converge ==
  /\ job = None /\ inputs = None
  /\ Collected # {}
  /\ SameRepository
  /\ inputs' = [repo |-> artifacts[First].repo, from |-> Collected]
  /\ UNCHANGED <<world, changes, job, artifacts, report>>

Report(i, asOf) ==
  LET facts == Merged([k \in inputs.from |-> artifacts[k].facts])
  IN  /\ inputs # None /\ report = None
      /\ report' = [profile |-> i, asOf |-> asOf,
                    statuses |-> IF Evaluable(Profiles[i], facts, asOf)
                                 THEN Evaluate(Profiles[i], facts, asOf) ELSE <<>>]
      /\ UNCHANGED <<world, changes, job, artifacts, inputs>>

Next ==
  \/ \E r \in Repositories : Push(r) \/ Rename(r) \/ Protect(r)
  \/ \E k \in Kinds, r \in Repositories : Start(k, r)
  \/ ReadFails \/ ReadRepository \/ ReadBranch \/ ReadProtection \/ ReadTree
  \/ Converge
  \/ \E i \in DOMAIN Profiles : \E d \in Days[i] : Report(i, d)

Spec == Init /\ [][Next]_vars

------------------------------------------------------------------------------
(* Properties                                                              *)

\* Every fact of an artifact has one of the three states, a value exactly when
\* it was observed (posture/model.go validateFact), and a report comes from
\* converged inputs.
TypeOK ==
  /\ changes \in 0 .. MaxChanges
  /\ \A k \in Kinds : artifacts[k] # None =>
       /\ artifacts[k].repo \in Repositories
       /\ LET facts == artifacts[k].facts
          IN  \A n \in DOMAIN facts :
                /\ facts[n].state \in {"observed", "unknown", "unavailable"}
                /\ facts[n].state = "observed" <=> facts[n].value.type # "none"
  /\ inputs # None => inputs.from \subseteq Collected
  /\ report # None => /\ inputs # None
                      /\ Len(report.statuses) \in {0, Len(Profiles[report.profile].rules)}

\* The reading a collector would have got of the same commit with full access:
\* nothing unavailable, cut, or too long.
Whole(g) ==
  IF g.stage \in {"repository", "branch"} THEN g
  ELSE [g EXCEPT !.stage = "complete", !.tree = DOMAIN Content[g.commit], !.truncated = FALSE,
                 !.lost = {}, !.limit = 1000,
                 !.settings = IF g.actual = Unreadable THEN g.settings ELSE g.actual]

\* What is so of the repository the report names.
Truth == Merged([k \in {j \in inputs.from : artifacts[j].repo = inputs.repo} |->
                  Facts(k, Whole(artifacts[k].g))])

Met(c, fact) ==
  /\ fact.state = "observed"
  /\ CASE c.op = "equals" ->
            /\ fact.value.type = c.expected.type
            /\ IF c.expected.type = "number"
               THEN Difference(fact.value.v, c.expected.v) = 0
               ELSE fact.value.v = c.expected.v
       [] c.op = "non_empty" -> /\ fact.value.type \in {"string", "list"}
                                /\ fact.value.v # (IF fact.value.type = "list" THEN {} ELSE "")
       [] c.op = "at_least" -> Difference(fact.value.v, c.expected.v) >= 0
       [] c.op = "at_most" -> Difference(fact.value.v, c.expected.v) <= 0
NotMet(c, fact) == fact.state = "observed" /\ ~Met(c, fact)

\* The facts whose observed value may be wrong when the evidence is partial:
\* the update tools of a cut tree (github.go:496), the hook manager detected in
\* one and its entry points (hooks.go:301), checks that only a workflow too long to
\* search mentions (hooks.go:388), and the external inputs of a profile that was
\* not read (adapters.go:187).
KnownGap(kind, g, name) ==
  CASE kind = "inventory" ->
         name = <<"repository", "dependency_update_automation">> /\ g.truncated
    [] kind = "hooks" /\ name[1] = "hooks" ->
         \/ name[2] = "manager" /\ g.truncated /\ HooksExpected(g).manager = ""
         \/ name[2] = "entrypoint" /\ g.truncated /\ name[3] \notin HooksExpected(g).paths
         \/ /\ name[2] = "required_check" /\ name[4] = "ci_covered"
            /\ \E p \in Workflows(g) : TooLong(g, p)
    [] kind = "hooks" /\ name[1] # "hooks" -> FALSE
    [] kind = "ci-environment" ->
         /\ name = <<"ci_environment", "external_input_count">>
         /\ g.stage # "complete" \/ EnvProfileState(g) # "observed"
InGap(name) == \E kind \in inputs.from : KnownGap(kind, artifacts[kind].g, name)

\* The facts a rule asks for, with what it asks of them.
Asks(rule) ==
  {<<rule.fact, rule.condition>>} \union
    (IF rule.selected THEN {<<rule.selector.fact, rule.selector.applicable>>,
                            <<rule.selector.fact, rule.selector.not>>}
                      ELSE {})

\* The order of zero and a positive number below one is known to be reversed
\* (number.go:83).
Misordered(c, fact) ==
  /\ c.op \in {"at_least", "at_most"} /\ fact.state = "observed"
  /\ fact.value.type = "number" /\ c.expected.type = "number"
  /\ ZeroAgainstFraction(fact.value.v, c.expected.v)

Earned(rule, status, truth) ==
  LET fact == InputFact(truth, rule.fact)
      scope == InputFact(truth, rule.selector.fact)
      excused == \E e \in DOMAIN Profiles[report.profile].exceptions :
                   /\ Profiles[report.profile].exceptions[e].rule = rule.id
                   /\ report.asOf <= Profiles[report.profile].exceptions[e].expires
  IN  /\ status = "pass" => Met(rule.condition, fact)
      /\ status \in {"fail", "warning"} => NotMet(rule.condition, fact) /\ ~excused
      /\ status = "excepted" => NotMet(rule.condition, fact) /\ excused
      /\ status \in {"pass", "fail", "warning", "excepted"} /\ rule.selected =>
           Met(rule.selector.applicable, scope) /\ NotMet(rule.selector.not, scope)
      /\ status = "not-applicable" =>
           Met(rule.selector.not, scope) /\ NotMet(rule.selector.applicable, scope)

\* A verdict is what full evidence would give: whatever could not be read, was
\* cut or was too long, whoever changed the repository meanwhile, no rule passes,
\* fails, is excepted or does not apply unless that is so of the commit its
\* facts were read from, in the repository the report names, with numbers
\* compared as numbers and exceptions up to their last day; the facts in KnownGap
\* and the comparisons in Misordered aside.
VerdictIsEarned ==
  report # None =>
    LET truth == Truth
    IN  \A i \in DOMAIN report.statuses :
          LET rule == Profiles[report.profile].rules[i]
          IN  (\A ask \in Asks(rule) : /\ ~InGap(ask[1])
                                       /\ ~Misordered(ask[2], InputFact(truth, ask[1])))
                => Earned(rule, report.statuses[i], truth)

\* A rule with at_least passes only on a value greater than or equal to the expected
\* one, and one with at_most on a value less than or equal to it
\* (docs/posture-policy.md:104-105).  Not so in the code: Misordered.
OrderIsNumeric ==
  report # None =>
    LET facts == Merged([k \in inputs.from |-> artifacts[k].facts])
    IN  \A i \in DOMAIN report.statuses :
          LET rule == Profiles[report.profile].rules[i]
          IN  /\ rule.condition.op \in {"at_least", "at_most"}
              /\ report.statuses[i] = "pass"
              => Met(rule.condition, facts[rule.fact])

\* A required check is reported as not covered by CI only when no workflow mentions
\* it, never for want of evidence (docs/posture-inventory.md:28).  Not so in the code:
\* KnownGap.
UncoveredIsObserved ==
  artifacts["hooks"] # None =>
    LET facts == artifacts["hooks"].facts
        whole == HooksFacts(Whole(artifacts["hooks"].g))
    IN  \A n \in DOMAIN facts :
          n[2] = "required_check" /\ facts[n] = Observed(Bool(FALSE)) => whole[n] = Observed(Bool(FALSE))
=============================================================================
