---------------------------- MODULE PostureProofs ----------------------------
(***************************************************************************)
(* Proofs about Posture: its facts are well formed, what a partial reading *)
(* observes is what the whole commit shows (FactsAreSound), and so every   *)
(* verdict is earned.                                                      *)
(***************************************************************************)
EXTENDS Posture, DecimalProofs, FiniteSetTheorems

------------------------------------------------------------------------------
(* Facts are well formed.                                                  *)

States == {"observed", "unknown", "unavailable"}

\* A fact has a value exactly when it was observed, and a number is a numeral.
FactOK(f) ==
  /\ f.state \in States
  /\ f.state = "observed" <=> f.value.type # "none"
  /\ f.value.type = "number" => f.value.v \in Numerals
FactsOK(facts) == \A n \in DOMAIN facts : FactOK(facts[n])

\* What the collectors say without a number.
LEMMA PlainFacts ==
  /\ FactOK(Unknown) /\ FactOK(Unavailable)
  /\ \A s : FactOK(Observed(Str(s))) /\ FactOK(Observed(Bool(s))) /\ FactOK(Observed(List(s)))
BY DEF FactOK, States, Unknown, Unavailable, Observed, Str, Bool, List, Value, NoValue

\* A count is a numeral.
LEMMA CountFact ==
  ASSUME NEW n \in Nat
  PROVE  FactOK(Observed(Count(n)))
<1>1. Numeral(FALSE, Digits(n), <<>>, 0) \in Numerals
  BY DigitsOfCount DEF Numeral, Numerals
<1> QED BY <1>1 DEF FactOK, States, Observed, Count, Value

\* stateInput keeps facts well formed.
LEMMA StateInputFact ==
  ASSUME NEW state \in States, NEW value, state = "observed" => FactOK(Observed(value))
  PROVE  FactOK(StateInput(state, value))
BY DEF FactOK, States, StateInput, Observed, NoValue

\* The states of a collector's reads.
LEMMA StatesAreStates ==
  ASSUME NEW g
  PROVE  /\ (g.truncated \in BOOLEAN) => WorkflowsState(g) \in States
         /\ \A states : (g.truncated \in BOOLEAN) => AggregateState(g, states) \in States
         /\ \A p : ParseState(g, p) \in States /\ ContentState(g, p) \in States
         /\ EnvProfileState(g) \in States
         /\ (g.truncated \in BOOLEAN) => HooksProfileState(g) \in States
         /\ (g.truncated \in BOOLEAN) => CoverageState(g) \in States
<1>1. (g.truncated \in BOOLEAN) => WorkflowsState(g) \in States
  BY DEF WorkflowsState, States
<1>2. \A states : (g.truncated \in BOOLEAN) => AggregateState(g, states) \in States
  BY <1>1 DEF AggregateState, States
<1>3. \A p : ParseState(g, p) \in States
  BY DEF ParseState, States
<1>4. \A p : ContentState(g, p) \in States
  BY DEF ContentState, States
<1>5. EnvProfileState(g) \in States
  BY DEF EnvProfileState, States
<1>6. (g.truncated \in BOOLEAN) => HooksProfileState(g) \in States
  BY DEF HooksProfileState, States
<1>7. (g.truncated \in BOOLEAN) => CoverageState(g) \in States
  BY DEF CoverageState, States
<1> QED BY <1>1, <1>2, <1>3, <1>4, <1>5, <1>6, <1>7

------------------------------------------------------------------------------
(* What is counted is finite.                                              *)

\* The paths a reading lists are files of its commit.
Listed(g) == \A p \in g.tree : g.commit \in DOMAIN Content /\ p \in DOMAIN Content[g.commit]

\* The images of a finite set.
LEMMA FiniteImage ==
  ASSUME NEW S, IsFiniteSet(S), NEW f, f = [x \in S |-> f[x]]
  PROVE  IsFiniteSet({f[x] : x \in S})
<1> DEFINE T == {f[x] : x \in S}
<1>1. f \in Surjection(S, T)
  BY DEF Surjection
<1> QED BY <1>1, FS_Surjection

\* A listed file is one.
LEMMA ListedFile ==
  ASSUME NEW g, Listed(g), NEW p \in g.tree
  PROVE  IsFile(File(g, p))
BY ContentAssumption DEF Listed, File

\* The workflows, and so the parsed ones.
LEMMA WorkflowsFinite ==
  ASSUME NEW g
  PROVE  IsFiniteSet(Workflows(g)) /\ IsFiniteSet(Parsed(g))
<1>1. IsFiniteSet(Workflows(g))
  BY FS_Subset, ContentAssumption DEF Workflows
<1> QED BY <1>1, FS_Subset DEF Parsed

\* What each parsed workflow has, when finite, is finite together.
LEMMA FiniteUnion ==
  ASSUME NEW S, IsFiniteSet(S), NEW f, f = [x \in S |-> f[x]], \A x \in S : IsFiniteSet(f[x])
  PROVE  IsFiniteSet(UNION {f[x] : x \in S})
<1>1. IsFiniteSet({f[x] : x \in S})
  BY FiniteImage
<1> QED BY <1>1, FS_UNION

\* The jobs, and the uses of their actions.
LEMMA UsesFinite ==
  ASSUME NEW g, Listed(g)
  PROVE  IsFiniteSet(Jobs(g)) /\ IsFiniteSet(Uses(g))
<1>1. IsFiniteSet(Jobs(g))
  <2> DEFINE f == [p \in Parsed(g) |-> {<<p, j>> : j \in DOMAIN File(g, p).jobs}]
  <2>1. ASSUME NEW p \in Parsed(g) PROVE IsFiniteSet(f[p])
    <3> DEFINE names == DOMAIN File(g, p).jobs
               h == [j \in names |-> <<p, j>>]
    <3>1. IsFiniteSet(names)
      BY ListedFile DEF Parsed, Workflows, IsFile
    <3>2. h = [j \in names |-> h[j]] /\ {h[j] : j \in names} = f[p]
      OBVIOUS
    <3> HIDE DEF names, h, f
    <3> QED BY <3>1, <3>2, FiniteImage
  <2>2. f = [p \in Parsed(g) |-> f[p]] /\ UNION {f[p] : p \in Parsed(g)} = Jobs(g)
    BY DEF Jobs
  <2> HIDE DEF f
  <2> QED BY <2>1, <2>2, FiniteUnion, WorkflowsFinite
<1>2. IsFiniteSet(Uses(g))
  <2> DEFINE f == [j \in Jobs(g) |-> {<<j[1], j[2], i>> : i \in DOMAIN File(g, j[1]).jobs[j[2]].uses}]
  <2>1. ASSUME NEW j \in Jobs(g) PROVE IsFiniteSet(f[j])
    <3> DEFINE places == DOMAIN File(g, j[1]).jobs[j[2]].uses
               h == [i \in places |-> <<j[1], j[2], i>>]
    <3>1. j[1] \in g.tree /\ j[2] \in DOMAIN File(g, j[1]).jobs
      BY DEF Jobs, Parsed, Workflows
    <3>2. IsFiniteSet(places)
      BY <3>1, ListedFile DEF IsFile, IsJob
    <3>3. h = [i \in places |-> h[i]] /\ {h[i] : i \in places} = f[j]
      OBVIOUS
    <3> HIDE DEF places, h, f
    <3> QED BY <3>2, <3>3, FiniteImage
  <2>2. f = [j \in Jobs(g) |-> f[j]] /\ UNION {f[j] : j \in Jobs(g)} = Uses(g)
    BY DEF Uses
  <2> HIDE DEF f
  <2> QED BY <1>1, <2>1, <2>2, FiniteUnion
<1> QED BY <1>1, <1>2

------------------------------------------------------------------------------
(* Readings                                                                *)

\* Settings as a provider may answer them: fields may be omitted.
SettingsOf(settings, actual) ==
  /\ settings.checks = actual.checks /\ settings.reviews = actual.reviews
  /\ settings.forcePushes \in {"omitted", actual.forcePushes}
  /\ settings.deletions \in {"omitted", actual.deletions}

\* A reading that became an artifact.
GoodReading(kind, g) ==
  /\ g.stage \in {"repository", "branch", "tree", "complete"}
  /\ g.truncated \in BOOLEAN
  /\ g.limit = 1
  /\ g.stage # "complete" => g.tree = {}
  /\ g.stage \in {"tree", "complete"} =>
       /\ g.commit \in DOMAIN Content
       /\ g.protected \in BOOLEAN
       /\ kind = "inventory" /\ g.protected =>
            /\ IsProtection(g.actual)
            /\ g.settings = Unreadable \/ SettingsOf(g.settings, g.actual)
  /\ g.stage = "complete" =>
       /\ g.tree \subseteq DOMAIN Content[g.commit]
       /\ g.truncated = (g.tree # DOMAIN Content[g.commit])
Fields == {"repo", "stage", "branch", "commit", "protected", "settings", "actual", "tree",
           "truncated", "lost", "limit"}

\* The paths of a reading are files of its commit.
LEMMA ReadingListed ==
  ASSUME NEW kind, NEW g, GoodReading(kind, g)
  PROVE  Listed(g)
BY DEF GoodReading, Listed

\* Counts are numbers.
LEMMA CountsAreNumbers ==
  ASSUME NEW g, Listed(g)
  PROVE  /\ \A a \in CICounts : CICount(g, a) \in Nat
         /\ \A a \in EnvCounts : EnvCount(g, a) \in Nat
<1>1. \A S \in SUBSET Workflows(g) : Cardinality(S) \in Nat
  BY WorkflowsFinite, FS_Subset, FS_CardinalityType
<1>2. \A S \in SUBSET Parsed(g) : Cardinality(S) \in Nat
  BY WorkflowsFinite, FS_Subset, FS_CardinalityType
<1>3. \A S \in SUBSET Uses(g) : Cardinality(S) \in Nat
  BY UsesFinite, FS_Subset, FS_CardinalityType
<1>4. ASSUME NEW a \in CICounts PROVE CICount(g, a) \in Nat
  BY <1>1, <1>2, <1>3, <1>4 DEF CICounts, CICount
<1>5. ASSUME NEW a \in EnvCounts PROVE EnvCount(g, a) \in Nat
  BY <1>1, <1>5 DEF EnvCounts, EnvCount
<1> QED BY <1>4, <1>5

\* A tree shows facts.
LEMMA PresenceFact ==
  ASSUME NEW g, g.truncated \in BOOLEAN, NEW paths
  PROVE  FactOK(Presence(g, paths)) /\ FactOK(AnyPathPresent(g, paths))
BY PlainFacts DEF Presence, AnyPathPresent

\* The facts of the repository inventory, part by part.
LEMMA RepositoryFactsOK ==
  ASSUME NEW g, GoodReading("inventory", g)
  PROVE  FactsOK(RepositoryFacts(g))
<1>1. ASSUME NEW a \in TreeFacts, g.truncated \in BOOLEAN PROVE FactOK(TreeFact(g, a))
  BY <1>1, PlainFacts, PresenceFact DEF TreeFacts, TreeFact, DependencyAutomation
<1>2. ASSUME NEW a \in SettingFacts, g.stage \in {"tree", "complete"} PROVE FactOK(SettingFact(g, a))
  <2>1. g.protected \in BOOLEAN /\ (g.protected /\ g.settings # Unreadable => g.settings.reviews \in Nat)
    BY <1>2 DEF GoodReading, IsProtection, SettingsOf
  <2>2. CASE g.protected /\ g.settings = Unreadable
    BY <2>2, PlainFacts DEF SettingFact
  <2>3. CASE ~(g.protected /\ g.settings = Unreadable) /\ a = "required_reviews"
    <3>1. (IF g.protected THEN g.settings.reviews ELSE 0) \in Nat
      BY <2>1, <2>3
    <3> QED BY <2>3, <3>1, CountFact DEF SettingFact
  <2>4. CASE ~(g.protected /\ g.settings = Unreadable) /\ a # "required_reviews"
    BY <1>2, <2>1, <2>4, PlainFacts DEF SettingFact, SettingFacts, Permitted
  <2> QED BY <2>2, <2>3, <2>4
<1>3. ASSUME NEW a \in SettingFacts \union TreeFacts \union {"default_branch", "default_branch_protected"}
      PROVE  FactOK(RepositoryFact(g, a))
  <2>1. CASE a \in SettingFacts
    <3>1. RepositoryFact(g, a) =
            IF g.stage \in {"repository", "branch"} THEN Unavailable ELSE SettingFact(g, a)
      BY <2>1 DEF RepositoryFact, SettingFacts, TreeFacts
    <3>2. g.stage \in {"repository", "branch"} \/ g.stage \in {"tree", "complete"}
      BY DEF GoodReading
    <3> QED BY <1>2, <2>1, <3>1, <3>2, PlainFacts
  <2>2. CASE a \in TreeFacts
    BY <1>1, <2>2, PlainFacts DEF RepositoryFact, SettingFacts, TreeFacts, GoodReading
  <2>3. CASE a \in {"default_branch", "default_branch_protected"}
    BY <2>3, PlainFacts DEF RepositoryFact, SettingFacts, TreeFacts
  <2> QED BY <1>3, <2>1, <2>2, <2>3
<1>4. ASSUME NEW n \in DOMAIN RepositoryFacts(g) PROVE FactOK(RepositoryFacts(g)[n])
  BY <1>3, <1>4 DEF RepositoryFacts
<1> QED BY <1>4 DEF FactsOK

\* Whether the workflows are known is a fact.
LEMMA WorkflowsFactOK ==
  ASSUME NEW g, g.truncated \in BOOLEAN, NEW area
  PROVE  FactsOK(WorkflowsFact(g, area))
BY PlainFacts, StatesAreStates, StateInputFact DEF FactsOK, WorkflowsFact

\* So are the facts about them.
LEMMA CIFactsOK ==
  ASSUME NEW g, g.truncated \in BOOLEAN, Listed(g)
  PROVE  /\ FactsOK(CIAggregates(g)) /\ FactsOK(PerWorkflow(g))
         /\ FactsOK(PerJob(g)) /\ FactsOK(PerAction(g))
<1>1. FactsOK(CIAggregates(g))
  <2>1. PICK states : states = {ParseState(g, p) : p \in Workflows(g)}
    OBVIOUS
  <2> DEFINE state == AggregateState(g, states)
  <2>2. state \in States
    BY StatesAreStates
  <2>3. ASSUME NEW a \in CICounts PROVE FactOK(StateInput(state, Count(CICount(g, a))))
    BY <2>2, <2>3, CountsAreNumbers, CountFact, StateInputFact
  <2>4. CIAggregates(g) = [n \in {<<"ci", a>> : a \in CICounts} |->
                             StateInput(state, Count(CICount(g, n[2])))]
    BY <2>1 DEF CIAggregates
  <2> QED BY <2>3, <2>4 DEF FactsOK
<1>2. FactsOK(PerWorkflow(g))
  <2>1. ASSUME NEW p, NEW a \in {"state", "uses_pull_request_target", "permissions_declared"}
        PROVE  FactOK(StateInput(ParseState(g, p),
                CASE a = "state" -> Str("observed")
                  [] a = "uses_pull_request_target" -> Bool(File(g, p).pullRequestTarget)
                  [] a = "permissions_declared" -> Bool(File(g, p).permissions)))
    BY <2>1, PlainFacts, StatesAreStates, StateInputFact
  <2> QED BY <2>1 DEF FactsOK, PerWorkflow
<1>3. FactsOK(PerJob(g))
  BY PlainFacts DEF FactsOK, PerJob, SelfHosted
<1>4. FactsOK(PerAction(g))
  BY PlainFacts DEF FactsOK, PerAction
<1> QED BY <1>1, <1>2, <1>3, <1>4

\* A name of merged facts is a name of one of them.
LEMMA MergedName ==
  ASSUME NEW parts, NEW n \in DOMAIN Merged(parts)
  PROVE  \E i \in DOMAIN parts : n \in DOMAIN parts[i] /\ Merged(parts)[n] = parts[i][n]
<1> DEFINE i == CHOOSE i \in DOMAIN parts : n \in DOMAIN parts[i]
<1>1. \E k \in DOMAIN parts : n \in DOMAIN parts[k]
  BY DEF Merged
<1>2. i \in DOMAIN parts /\ n \in DOMAIN parts[i]
  BY <1>1
<1>3. Merged(parts)[n] = parts[i][n]
  BY DEF Merged
<1> QED BY <1>2, <1>3

\* Facts side by side are facts.
LEMMA MergedFactsOK ==
  ASSUME NEW parts, \A i \in DOMAIN parts : FactsOK(parts[i])
  PROVE  FactsOK(Merged(parts))
BY MergedName DEF FactsOK

\* The facts of the hooks inventory.
LEMMA IdentityFactsOK ==
  ASSUME NEW g, NEW area
  PROVE  FactsOK(Identity(g, area))
BY PlainFacts DEF FactsOK, Identity

\* What is declared, found and covered are facts.
LEMMA HooksFactsOK ==
  ASSUME NEW g, g.truncated \in BOOLEAN
  PROVE  FactsOK(HooksDeclaration(g)) /\ FactsOK(Entrypoints(g)) /\ FactsOK(RequiredChecks(g))
<1>1. \A a : a \in {"manager", "bootstrap_instructions_present", "bypass_documentation_present"}
               => FactOK(HooksExpectation(g, a))
  <2>1. HooksProfileState(g) # "observed" => FactOK(StateInput(HooksProfileState(g), NoValue))
    BY StatesAreStates, StateInputFact
  <2>2. FactOK(HookManager(g))
    BY PlainFacts DEF HookManager
  <2> QED BY <2>1, <2>2, PresenceFact DEF HooksExpectation
<1>2. FactsOK(HooksDeclaration(g))
  BY <1>1, PlainFacts, PresenceFact DEF FactsOK, HooksDeclaration
<1>3. FactsOK(Entrypoints(g))
  <2>1. \A p : FactOK(NetworkLoaded(g, p))
    BY PlainFacts DEF NetworkLoaded
  <2> QED BY <2>1, PlainFacts, PresenceFact DEF FactsOK, Entrypoints
<1>4. FactsOK(RequiredChecks(g))
  <2>1. \A c : FactOK(Covered(g, c))
    BY PlainFacts, StatesAreStates, StateInputFact DEF Covered
  <2>2. PICK yes : yes = Observed(Bool(TRUE)) /\ FactOK(yes)
    BY PlainFacts
  <2>3. RequiredChecks(g) = [n \in {<<"hooks", "required_check", c, a>> :
                                c \in HooksExpected(g).checks, a \in {"configured", "ci_covered"}} |->
                               IF n[4] = "configured" THEN yes ELSE Covered(g, n[3])]
    BY <2>2 DEF RequiredChecks
  <2>4. \A n : FactOK(IF n[4] = "configured" THEN yes ELSE Covered(g, n[3]))
    BY <2>1, <2>2
  <2> QED BY <2>3, <2>4 DEF FactsOK
<1> QED BY <1>2, <1>3, <1>4

\* The facts of the CI environment inventory.
LEMMA ExternalInputsFinite ==
  ASSUME NEW g, Listed(g)
  PROVE  Cardinality(DOMAIN ExternalInputs(g)) \in Nat
<1>1. CASE g.stage = "complete" /\ EnvProfileState(g) = "observed"
  <2>1. EnvProfile \in g.tree /\ File(g, EnvProfile).env # Unreadable
    BY <1>1 DEF EnvProfileState, ValidEnv
  <2>2. IsFiniteSet(DOMAIN File(g, EnvProfile).env.inputs)
    BY <2>1, EnvAssumption DEF Listed, File
  <2> QED BY <1>1, <2>2, FS_CardinalityType DEF ExternalInputs
<1>2. CASE ~(g.stage = "complete" /\ EnvProfileState(g) = "observed")
  <2>1. DOMAIN ExternalInputs(g) = {}
    BY <1>2 DEF ExternalInputs
  <2> QED BY <2>1, FS_EmptySet
<1> QED BY <1>1, <1>2

\* What the profile, the flake and the workflows show are facts.
LEMMA EnvFactsOK ==
  ASSUME NEW g, g.truncated \in BOOLEAN, Listed(g)
  PROVE  /\ FactsOK(EnvDeclaration(g)) /\ FactsOK(EnvAggregates(g)) /\ FactsOK(EnvPerWorkflow(g))
         /\ FactsOK(EnvInputCount(g)) /\ FactsOK(EnvInputs(g))
<1>1. FactsOK(EnvDeclaration(g))
  <2>1. FactOK(StateInput(EnvProfileState(g), Str(File(g, EnvProfile).env.applicability)))
    BY PlainFacts, StatesAreStates, StateInputFact
  <2> QED BY <2>1, PlainFacts, PresenceFact DEF FactsOK, EnvDeclaration
<1>2. FactsOK(EnvAggregates(g))
  <2>1. PICK states : states = {ContentState(g, p) : p \in Workflows(g)}
    OBVIOUS
  <2> DEFINE state == AggregateState(g, states)
  <2>2. state \in States
    BY StatesAreStates
  <2>3. ASSUME NEW a \in EnvCounts PROVE FactOK(StateInput(state, Count(EnvCount(g, a))))
    BY <2>2, <2>3, CountsAreNumbers, CountFact, StateInputFact
  <2>4. EnvAggregates(g) = [n \in {<<"ci_environment", a>> : a \in EnvCounts} |->
                              StateInput(state, Count(EnvCount(g, n[2])))]
    BY <2>1 DEF EnvAggregates
  <2> QED BY <2>3, <2>4 DEF FactsOK
<1>3. FactsOK(EnvPerWorkflow(g))
  <2>1. ASSUME NEW p, NEW a
        PROVE  FactOK(StateInput(ContentState(g, p), IF a = "content_state" THEN Str("observed")
                                                     ELSE List(Signal(g, p, a))))
    BY PlainFacts, StatesAreStates, StateInputFact
  <2> QED BY <2>1 DEF FactsOK, EnvPerWorkflow
<1>4. FactsOK(EnvInputCount(g))
  BY ExternalInputsFinite, CountFact DEF FactsOK, EnvInputCount
<1>5. FactsOK(EnvInputs(g))
  BY PlainFacts DEF FactsOK, EnvInputs
<1> QED BY <1>1, <1>2, <1>3, <1>4, <1>5

\* The facts of an artifact.
LEMMA ArtifactFactsOK ==
  ASSUME NEW kind \in Kinds, NEW g, GoodReading(kind, g)
  PROVE  FactsOK(Facts(kind, g))
<1>1. g.truncated \in BOOLEAN /\ Listed(g)
  BY ReadingListed DEF GoodReading
<1>2. CASE kind = "inventory"
  <2>1. FactsOK(RepositoryFacts(g))
    BY <1>2, RepositoryFactsOK
  <2>2. FactsOK(InventoryFacts(g))
    BY <1>1, <2>1, WorkflowsFactOK, CIFactsOK, MergedFactsOK DEF InventoryFacts
  <2> QED BY <1>2, <2>2 DEF Facts
<1>3. CASE kind = "hooks"
  <2>1. /\ FactsOK(Identity(g, "hooks")) /\ FactsOK(HooksDeclaration(g))
        /\ FactsOK(Entrypoints(g)) /\ FactsOK(RequiredChecks(g))
    BY <1>1, IdentityFactsOK, HooksFactsOK
  <2>2. PICK few : few = <<Identity(g, "hooks"), HooksDeclaration(g)>>
    OBVIOUS
  <2>3. PICK all : all = <<Identity(g, "hooks"), HooksDeclaration(g), Entrypoints(g),
                           RequiredChecks(g)>>
    OBVIOUS
  <2>4. /\ \A i \in DOMAIN few : FactsOK(few[i])
        /\ \A i \in DOMAIN all : FactsOK(all[i])
    BY <2>1, <2>2, <2>3
  <2>5. FactsOK(Merged(few)) /\ FactsOK(Merged(all))
    BY <2>4, MergedFactsOK
  <2> QED BY <1>3, <2>2, <2>3, <2>5 DEF Facts, HooksFacts
<1>4. CASE kind = "ci-environment"
  <2>1. FactsOK(EnvFacts(g))
    BY <1>1, IdentityFactsOK, WorkflowsFactOK, EnvFactsOK, MergedFactsOK DEF EnvFacts
  <2> QED BY <1>4, <2>1 DEF Facts
<1> QED BY <1>2, <1>3, <1>4 DEF Kinds

------------------------------------------------------------------------------
(* What a partial reading observes, a full reading of the commit shows.     *)

\* The facts f observes among the names are so in h.
Sound(f, h, names) ==
  \A n \in DOMAIN f \cap names : f[n].state = "observed" => n \in DOMAIN h /\ h[n] = f[n]

\* w is a full reading of the commit of g.
Fuller(g, w) ==
  /\ g.stage \in {"tree", "complete"} /\ w.stage = "complete"
  /\ w.branch = g.branch /\ w.commit = g.commit /\ w.protected = g.protected
  /\ g.commit \in DOMAIN Content
  /\ w.tree = DOMAIN Content[g.commit] /\ g.tree \subseteq w.tree
  /\ g.truncated \in BOOLEAN /\ w.truncated = FALSE /\ w.lost = {}
  /\ g.stage # "complete" => g.tree = {}
  /\ g.stage = "complete" /\ ~g.truncated => g.tree = w.tree
  /\ \A p \in w.tree : ~TooLong(g, p) => ~TooLong(w, p)

\* The whole of a reading that reached the commit is one.
LEMMA WholeIsFuller ==
  ASSUME NEW kind, NEW g, GoodReading(kind, g), DOMAIN g = Fields, g.stage \in {"tree", "complete"}
  PROVE  Fuller(g, Whole(g))
<1> DEFINE w == Whole(g)
<1>1. /\ w.stage = "complete" /\ w.branch = g.branch /\ w.commit = g.commit
      /\ w.protected = g.protected /\ w.tree = DOMAIN Content[g.commit]
      /\ w.truncated = FALSE /\ w.lost = {} /\ w.limit = 1000
  BY DEF Whole, Fields
<1> HIDE DEF w
<1>2. ASSUME NEW p \in w.tree, ~TooLong(g, p) PROVE ~TooLong(w, p)
  <2>1. File(w, p) = File(g, p) /\ File(g, p).size \in Nat
    BY <1>1, ContentAssumption DEF File, IsFile, GoodReading
  <2>2. g.limit = 1
    BY DEF GoodReading
  <2> QED BY <1>1, <1>2, <2>1, <2>2 DEF TooLong
<1>3. Fuller(g, w)
  BY <1>1, <1>2 DEF Fuller, GoodReading
<1> QED BY <1>3 DEF w

\* The same files, and a workflow, job or use of an action seen is there.
LEMMA MoreIsSeen ==
  ASSUME NEW g, NEW w, Fuller(g, w)
  PROVE  /\ \A p : File(w, p) = File(g, p)
         /\ Listed(g) /\ Listed(w)
         /\ Workflows(g) \subseteq Workflows(w)
         /\ \A p \in w.tree : ParseState(g, p) = "observed" => ParseState(w, p) = "observed"
         /\ \A p \in w.tree : ContentState(g, p) = "observed" => ContentState(w, p) = "observed"
         /\ Parsed(g) \subseteq Parsed(w)
         /\ Jobs(g) \subseteq Jobs(w)
         /\ Uses(g) \subseteq Uses(w)
         /\ \A u : UseAt(w, u) = UseAt(g, u)
<1>1. \A p : File(w, p) = File(g, p)
  BY DEF File, Fuller
<1>2. Listed(g) /\ Listed(w)
  BY DEF Fuller, Listed
<1>3. Workflows(g) \subseteq Workflows(w)
  BY DEF Workflows, Fuller
<1>4. \A p \in w.tree : ParseState(g, p) = "observed" => ParseState(w, p) = "observed"
  BY <1>1 DEF ParseState, Fuller
<1>5. \A p \in w.tree : ContentState(g, p) = "observed" => ContentState(w, p) = "observed"
  BY <1>1 DEF ContentState, Fuller
<1>6. Parsed(g) \subseteq Parsed(w)
  BY <1>3, <1>4 DEF Parsed, Workflows
<1>7. Jobs(g) \subseteq Jobs(w)
  BY <1>1, <1>6 DEF Jobs
<1>8. Uses(g) \subseteq Uses(w)
  BY <1>1, <1>7 DEF Uses
<1>9. \A u : UseAt(w, u) = UseAt(g, u)
  BY <1>1 DEF UseAt
<1> QED BY <1>1, <1>2, <1>3, <1>4, <1>5, <1>6, <1>7, <1>8, <1>9

\* Workflows are known from a whole tree.
LEMMA WorkflowsKnown ==
  ASSUME NEW g, NEW w, Fuller(g, w), WorkflowsState(g) = "observed"
  PROVE  g.tree = w.tree /\ Workflows(g) = Workflows(w) /\ WorkflowsState(w) = "observed"
<1>1. g.stage = "complete" /\ ~g.truncated
  BY DEF WorkflowsState, Fuller
<1>2. g.tree = w.tree
  BY <1>1 DEF Fuller
<1>3. WorkflowsState(w) = "observed"
  BY DEF WorkflowsState, Fuller
<1> QED BY <1>2, <1>3 DEF Workflows

\* They are counted when each was inspected.
LEMMA AggregateKnown ==
  ASSUME NEW g, NEW states, AggregateState(g, states) = "observed"
  PROVE  WorkflowsState(g) = "observed" /\ states \cap {"unavailable", "unknown"} = {}
<1>1. WorkflowsState(g) = "observed"
  BY DEF AggregateState
<1> QED BY <1>1 DEF AggregateState
\* And then the counts are known.
LEMMA AggregateObserved ==
  ASSUME NEW g, NEW states, WorkflowsState(g) = "observed",
         \A s \in states : s = "observed"
  PROVE  AggregateState(g, states) = "observed"
BY DEF AggregateState

\* Counts that are observed are the counts of the whole tree.
LEMMA CIAggregatesSound ==
  ASSUME NEW g, NEW w, Fuller(g, w), NEW names
  PROVE  Sound(CIAggregates(g), CIAggregates(w), names)
<1> DEFINE states(r) == {ParseState(r, p) : p \in Workflows(r)}
           state(r) == AggregateState(r, states(r))
<1>1. CASE state(g) = "observed"
  <2>1. WorkflowsState(g) = "observed" /\ states(g) \cap {"unavailable", "unknown"} = {}
    BY <1>1, AggregateKnown
  <2>2. \A p \in Workflows(g) : ParseState(g, p) = "observed"
    BY <2>1, StatesAreStates DEF States
  <2>3. Workflows(g) = Workflows(w) /\ WorkflowsState(w) = "observed"
    BY <2>1, WorkflowsKnown
  <2>4. \A p \in Workflows(w) : ParseState(w, p) = "observed"
    BY <2>2, <2>3, MoreIsSeen DEF Workflows
  <2>5. state(w) = "observed"
    <3>1. \A s \in states(w) : s = "observed"
      BY <2>4
    <3> HIDE DEF states
    <3> QED BY <2>3, <3>1, AggregateObserved
  <2>6. Parsed(g) = Parsed(w)
    BY <2>2, <2>3, <2>4 DEF Parsed
  <2>7. \A p : File(w, p) = File(g, p)
    BY MoreIsSeen
  <2>8. Jobs(g) = Jobs(w)
    BY <2>6, <2>7 DEF Jobs
  <2>9. Uses(g) = Uses(w)
    BY <2>7, <2>8 DEF Uses
  <2>10. \A u : UseAt(w, u) = UseAt(g, u)
    BY MoreIsSeen
  <2>11. ASSUME NEW a \in CICounts PROVE CICount(g, a) = CICount(w, a)
    <3>1. {u \in Uses(g) : ThirdParty(UseAt(g, u))} = {u \in Uses(w) : ThirdParty(UseAt(w, u))}
      BY <2>9, <2>10
    <3>2. {u \in Uses(g) : Mutable(UseAt(g, u))} = {u \in Uses(w) : Mutable(UseAt(w, u))}
      BY <2>9, <2>10
    <3>3. {p \in Parsed(g) : File(g, p).pullRequestTarget}
            = {p \in Parsed(w) : File(w, p).pullRequestTarget}
      BY <2>6, <2>7
    <3>4. {p \in Parsed(g) : ~File(g, p).permissions} = {p \in Parsed(w) : ~File(w, p).permissions}
      BY <2>6, <2>7
    <3> QED BY <2>3, <2>11, <3>1, <3>2, <3>3, <3>4 DEF CICount, CICounts
  <2>12. CIAggregates(g) = CIAggregates(w)
    <3> DEFINE Names == {<<"ci", a>> : a \in CICounts}
    <3>1. \A r : CIAggregates(r) = [n \in Names |-> StateInput(state(r), Count(CICount(r, n[2])))]
      BY DEF CIAggregates
    <3>2. \A n \in Names : n[2] \in CICounts
      OBVIOUS
    <3> HIDE DEF state, Names
    <3>3. \A n \in Names : StateInput(state(g), Count(CICount(g, n[2])))
                            = StateInput(state(w), Count(CICount(w, n[2])))
      BY <1>1, <2>5, <2>11, <3>2
    <3> QED BY <3>1, <3>3
  <2> QED BY <2>12 DEF Sound
<1>2. CASE state(g) # "observed"
  <2>1. \A n \in DOMAIN CIAggregates(g) : CIAggregates(g)[n].state = state(g)
    BY DEF CIAggregates, StateInput
  <2> QED BY <1>2, <2>1 DEF Sound
<1> QED BY <1>1, <1>2

\* Workflows that are known are known of the whole tree.
LEMMA WorkflowsFactSound ==
  ASSUME NEW g, NEW w, Fuller(g, w), NEW area, NEW names
  PROVE  Sound(WorkflowsFact(g, area), WorkflowsFact(w, area), names)
BY WorkflowsKnown DEF Sound, WorkflowsFact, StateInput

\* A workflow, a job and a use say what they say, whatever else was read.
LEMMA PerWorkflowSound ==
  ASSUME NEW g, NEW w, Fuller(g, w), NEW names
  PROVE  Sound(PerWorkflow(g), PerWorkflow(w), names)
<1> DEFINE Aspects == {"state", "uses_pull_request_target", "permissions_declared"}
           Said(p, a) == CASE a = "state" -> Str("observed")
                           [] a = "uses_pull_request_target" -> Bool(File(g, p).pullRequestTarget)
                           [] a = "permissions_declared" -> Bool(File(g, p).permissions)
<1>1. PerWorkflow(g) = [n \in {<<"ci", "workflow", p, a>> : p \in Workflows(g), a \in Aspects} |->
                          StateInput(ParseState(g, n[3]), Said(n[3], n[4]))]
  BY DEF PerWorkflow
<1>2. PerWorkflow(w) = [n \in {<<"ci", "workflow", p, a>> : p \in Workflows(w), a \in Aspects} |->
                          StateInput(ParseState(w, n[3]), Said(n[3], n[4]))]
  <2>1. \A p : File(w, p) = File(g, p)
    BY MoreIsSeen
  <2> QED BY <2>1 DEF PerWorkflow
<1> HIDE DEF Said, Aspects
<1>3. ASSUME NEW p \in Workflows(g), NEW a \in Aspects, ParseState(g, p) = "observed"
      PROVE  p \in Workflows(w) /\ ParseState(w, p) = "observed"
  BY <1>3, MoreIsSeen DEF Workflows
<1>4. ASSUME NEW n \in DOMAIN PerWorkflow(g), PerWorkflow(g)[n].state = "observed"
      PROVE  n \in DOMAIN PerWorkflow(w) /\ PerWorkflow(w)[n] = PerWorkflow(g)[n]
  <2>1. PICK p \in Workflows(g), a \in Aspects : n = <<"ci", "workflow", p, a>>
    BY <1>1, <1>4
  <2>2. n[3] = p /\ n[4] = a
    BY <2>1
  <2>3. PerWorkflow(g)[n] = StateInput(ParseState(g, p), Said(p, a))
    BY <1>1, <1>4, <2>2
  <2>4. ParseState(g, p) = "observed"
    BY <1>4, <2>3 DEF StateInput
  <2> QED BY <1>2, <1>3, <2>1, <2>2, <2>3, <2>4
<1> QED BY <1>4 DEF Sound

\* A job runs on what it runs on.
LEMMA PerJobSound ==
  ASSUME NEW g, NEW w, Fuller(g, w), NEW names
  PROVE  Sound(PerJob(g), PerJob(w), names)
<1>1. Jobs(g) \subseteq Jobs(w) /\ \A p : File(w, p) = File(g, p)
  BY MoreIsSeen
<1> QED BY <1>1 DEF Sound, PerJob

\* A use is one of a job of a parsed workflow.
LEMMA UseMember ==
  ASSUME NEW g, NEW u \in Uses(g)
  PROVE  /\ u[1] \in g.tree /\ u[2] \in DOMAIN File(g, u[1]).jobs
         /\ u[3] \in DOMAIN File(g, u[1]).jobs[u[2]].uses
<1>1. PICK j \in Jobs(g) : \E i \in DOMAIN File(g, j[1]).jobs[j[2]].uses : u = <<j[1], j[2], i>>
  BY DEF Uses
<1>2. PICK i \in DOMAIN File(g, j[1]).jobs[j[2]].uses : u = <<j[1], j[2], i>>
  BY <1>1
<1>3. u[1] = j[1] /\ u[2] = j[2] /\ u[3] = i
  BY <1>2
<1>4. j[1] \in g.tree /\ j[2] \in DOMAIN File(g, j[1]).jobs
  BY DEF Jobs, Parsed, Workflows
<1> QED BY <1>2, <1>3, <1>4

\* An action is what it is: a name in a job stands for one use.
LEMMA PerActionSound ==
  ASSUME NEW g, NEW w, Fuller(g, w), NEW names
  PROVE  Sound(PerAction(g), PerAction(w), names)
<1> DEFINE Chosen(r, n) == CHOOSE u \in Uses(r) : /\ u[1] = n[3] /\ u[2] = n[4]
                                                  /\ UseAt(r, u).name = n[5]
           Said(n, use) == Observed(IF n[6] = "pinning" THEN Str(Pinning(use))
                                                        ELSE Bool(ThirdParty(use)))
           Names(r) == {<<"ci", "action", u[1], u[2], UseAt(r, u).name, a>> :
                          u \in Uses(r), a \in {"pinning", "third_party"}}
<1>1. \A r : PerAction(r) = [n \in Names(r) |-> Said(n, UseAt(r, Chosen(r, n)))]
  BY DEF PerAction
<1>2. Uses(g) \subseteq Uses(w) /\ \A u : UseAt(w, u) = UseAt(g, u)
  BY MoreIsSeen
<1>3. Names(g) \subseteq Names(w)
  BY <1>2
<1>4. ASSUME NEW n \in Names(g) PROVE UseAt(g, Chosen(g, n)) = UseAt(w, Chosen(w, n))
  <2>1. PICK v \in Uses(g) : v[1] = n[3] /\ v[2] = n[4] /\ UseAt(g, v).name = n[5]
    OBVIOUS
  <2>2. PICK u : u = Chosen(g, n) /\ u \in Uses(g) /\ u[1] = n[3] /\ u[2] = n[4]
                 /\ UseAt(g, u).name = n[5]
    BY <2>1
  <2>3. PICK t : t = Chosen(w, n) /\ t \in Uses(w) /\ t[1] = n[3] /\ t[2] = n[4]
                 /\ UseAt(g, t).name = n[5]
    BY <1>2, <2>1
  <2>4. PICK body : body = File(g, n[3]).jobs[n[4]]
    OBVIOUS
  <2>5. /\ n[3] \in g.tree /\ n[4] \in DOMAIN File(g, n[3]).jobs
        /\ u[3] \in DOMAIN body.uses /\ t[3] \in DOMAIN body.uses
    BY <2>2, <2>3, <2>4, UseMember, MoreIsSeen
  <2>6. IsJob(body)
    BY <2>4, <2>5, MoreIsSeen, ListedFile DEF IsFile
  <2>7. UseAt(g, u) = body.uses[u[3]] /\ UseAt(g, t) = body.uses[t[3]]
    <3>1. \A e : UseAt(g, e) = File(g, e[1]).jobs[e[2]].uses[e[3]]
      BY DEF UseAt
    <3> HIDE DEF Names, Chosen, Said
    <3> QED BY <2>2, <2>3, <2>4, <3>1
  <2>8. UseAt(g, u) = UseAt(g, t)
    BY <2>2, <2>3, <2>5, <2>6, <2>7 DEF IsJob
  <2> QED BY <1>2, <2>2, <2>3, <2>8
<1> HIDE DEF Chosen, Said, Names
<1> QED BY <1>1, <1>3, <1>4 DEF Sound

\* What a tree shows, the whole tree shows.
LEMMA PresenceSound ==
  ASSUME NEW g, NEW w, Fuller(g, w), g.stage = "complete", NEW paths
  PROVE  /\ Presence(g, paths).state = "observed" => Presence(w, paths) = Presence(g, paths)
         /\ AnyPathPresent(g, paths).state = "observed" =>
              AnyPathPresent(w, paths) = AnyPathPresent(g, paths)
<1>1. Presence(g, paths).state = "observed" => Presence(w, paths) = Presence(g, paths)
  <2>1. CASE paths \cap g.tree # {}
    <3>1. paths \cap w.tree # {}
      BY <2>1 DEF Fuller
    <3> QED BY <2>1, <3>1 DEF Presence
  <2>2. CASE paths \cap g.tree = {} /\ g.truncated
    BY <2>2 DEF Presence, Unknown
  <2>3. CASE paths \cap g.tree = {} /\ ~g.truncated
    <3>1. w.tree = g.tree /\ ~w.truncated
      BY <2>3 DEF Fuller
    <3> QED BY <2>3, <3>1 DEF Presence
  <2> QED BY <2>1, <2>2, <2>3 DEF Fuller
<1> QED BY <1>1 DEF AnyPathPresent

\* The facts of the repository: settings may be answered in part.
LEMMA RepositoryFactsSound ==
  ASSUME NEW g, NEW w, Fuller(g, w), NEW names,
         g.protected \in BOOLEAN,
         g.protected => g.settings = Unreadable \/ (w.settings # Unreadable
                                                    /\ SettingsOf(g.settings, w.settings)),
         \A n \in names : ~KnownGap("inventory", g, n)
  PROVE  Sound(RepositoryFacts(g), RepositoryFacts(w), names)
<1>1. ASSUME NEW a \in SettingFacts, SettingFact(g, a).state = "observed"
      PROVE  SettingFact(w, a) = SettingFact(g, a)
  <2>1. CASE ~g.protected
    <3>1. ~w.protected
      BY <2>1 DEF Fuller
    <3> QED BY <1>1, <2>1, <3>1 DEF SettingFact, SettingFacts
  <2>2. CASE g.protected
    <3>1. w.protected
      BY <2>2 DEF Fuller
    <3>2. g.settings # Unreadable
      BY <1>1, <2>2 DEF SettingFact, Unavailable
    <3>3. w.settings # Unreadable /\ SettingsOf(g.settings, w.settings)
      BY <2>2, <3>2
    <3>4. CASE a = "required_status_checks"
      BY <2>2, <3>1, <3>2, <3>3, <3>4 DEF SettingFact, SettingsOf
    <3>5. CASE a = "required_reviews"
      BY <2>2, <3>1, <3>2, <3>3, <3>5 DEF SettingFact, SettingsOf
    <3>6. CASE a = "force_push_protected"
      <4>1. SettingFact(g, a) = Permitted(g.settings.forcePushes)
            /\ SettingFact(w, a) = Permitted(w.settings.forcePushes)
        BY <2>2, <3>1, <3>2, <3>3, <3>6 DEF SettingFact
      <4>2. g.settings.forcePushes # "omitted"
        BY <1>1, <4>1 DEF Permitted, Unknown
      <4> QED BY <3>3, <4>1, <4>2 DEF SettingsOf
    <3>7. CASE a = "deletion_protected"
      <4>1. SettingFact(g, a) = Permitted(g.settings.deletions)
            /\ SettingFact(w, a) = Permitted(w.settings.deletions)
        BY <2>2, <3>1, <3>2, <3>3, <3>7 DEF SettingFact
      <4>2. g.settings.deletions # "omitted"
        BY <1>1, <4>1 DEF Permitted, Unknown
      <4> QED BY <3>3, <4>1, <4>2 DEF SettingsOf
    <3> QED BY <1>1, <3>4, <3>5, <3>6, <3>7 DEF SettingFacts
  <2> QED BY <2>1, <2>2
<1>2. ASSUME NEW a \in TreeFacts, g.stage = "complete", TreeFact(g, a).state = "observed",
             a = "dependency_update_automation" => ~g.truncated
      PROVE  TreeFact(w, a) = TreeFact(g, a)
  <2>1. CASE a = "dependency_update_automation"
    <3>1. w.tree = g.tree /\ ~g.truncated /\ ~w.truncated
      BY <1>2, <2>1 DEF Fuller
    <3> QED BY <2>1, <3>1 DEF TreeFact, DependencyAutomation
  <2>2. CASE a = "workflow_paths"
    <3>1. ~g.truncated
      BY <1>2, <2>2 DEF TreeFact, Unknown, Fuller
    <3>2. w.tree = g.tree /\ ~w.truncated
      BY <1>2, <3>1 DEF Fuller
    <3> QED BY <2>2, <3>1, <3>2 DEF TreeFact, Workflows
  <2>3. CASE a \notin {"dependency_update_automation", "workflow_paths"}
    BY <1>2, <2>3, PresenceSound DEF TreeFact, TreeFacts
  <2> QED BY <2>1, <2>2, <2>3
<1> DEFINE Aspects == SettingFacts \union TreeFacts
                        \union {"default_branch", "default_branch_protected"}
<1>3. ASSUME NEW a \in Aspects, RepositoryFact(g, a).state = "observed",
             a = "dependency_update_automation" => ~g.truncated
      PROVE  RepositoryFact(w, a) = RepositoryFact(g, a)
  <2>1. g.stage \in {"tree", "complete"} /\ w.stage = "complete"
    BY DEF Fuller
  <2>2. CASE a \in {"default_branch", "default_branch_protected"}
    BY <2>1, <2>2 DEF RepositoryFact, Fuller, SettingFacts, TreeFacts
  <2>3. CASE a \in SettingFacts
    <3>1. RepositoryFact(g, a) = SettingFact(g, a) /\ RepositoryFact(w, a) = SettingFact(w, a)
      BY <2>1, <2>3 DEF RepositoryFact, SettingFacts, TreeFacts
    <3> QED BY <1>1, <1>3, <2>3, <3>1
  <2>4. CASE a \in TreeFacts
    <3>1. RepositoryFact(w, a) = TreeFact(w, a)
      BY <2>1, <2>4 DEF RepositoryFact, SettingFacts, TreeFacts
    <3>2. RepositoryFact(g, a) = IF g.stage = "complete" THEN TreeFact(g, a) ELSE Unavailable
      BY <2>1, <2>4 DEF RepositoryFact, SettingFacts, TreeFacts
    <3>3. g.stage = "complete"
      BY <1>3, <3>2 DEF Unavailable
    <3> QED BY <1>2, <1>3, <2>4, <3>1, <3>2, <3>3
  <2> QED BY <1>3, <2>2, <2>3, <2>4
<1>4. \A r : RepositoryFacts(r) = [n \in {<<"repository", a>> : a \in Aspects} |-> RepositoryFact(r, n[2])]
  BY DEF RepositoryFacts
<1>5. ASSUME NEW n \in DOMAIN RepositoryFacts(g) \cap names, RepositoryFacts(g)[n].state = "observed"
      PROVE  n \in DOMAIN RepositoryFacts(w) /\ RepositoryFacts(w)[n] = RepositoryFacts(g)[n]
  <2>1. PICK a \in Aspects : n = <<"repository", a>>
    BY <1>4, <1>5
  <2>2. a = "dependency_update_automation" => ~g.truncated
    BY <1>5, <2>1 DEF KnownGap
  <2>3. n[2] = a
    BY <2>1
  <2> HIDE DEF Aspects
  <2>4. RepositoryFacts(g)[n] = RepositoryFact(g, a)
    BY <1>4, <1>5, <2>3
  <2> QED BY <1>3, <1>4, <1>5, <2>1, <2>2, <2>3, <2>4
<1> QED BY <1>5 DEF Sound

\* The branch and its tip are those read.
LEMMA IdentitySound ==
  ASSUME NEW g, NEW w, Fuller(g, w), NEW area, NEW names
  PROVE  Sound(Identity(g, area), Identity(w, area), names)
<1>1. /\ g.stage \notin {"repository", "branch"} /\ w.stage \notin {"repository", "branch"}
      /\ w.branch = g.branch /\ w.commit = g.commit
  BY DEF Fuller
<1>2. Identity(g, area) = Identity(w, area)
  BY <1>1 DEF Identity
<1> QED BY <1>2 DEF Sound

\* A profile that is known is that of the whole tree.
LEMMA ProfileKnown ==
  ASSUME NEW g, NEW w, Fuller(g, w), g.stage = "complete", HooksProfileState(g) = "observed"
  PROVE  HooksProfileState(w) = "observed" /\ HooksExpected(w) = HooksExpected(g)
<1>1. \A p : File(w, p) = File(g, p)
  BY MoreIsSeen
<1>2. CASE HooksProfile \in g.tree
  <2>1. HooksProfile \in w.tree /\ w.lost = {}
    BY <1>2 DEF Fuller
  <2>2. ~TooLong(g, HooksProfile)
    BY <1>2 DEF HooksProfileState
  <2>3. ~TooLong(w, HooksProfile)
    BY <2>1, <2>2 DEF Fuller
  <2>4. HooksProfileState(w) = "observed"
    BY <1>1, <1>2, <2>1, <2>3 DEF HooksProfileState
  <2> QED BY <1>1, <1>2, <2>1, <2>4 DEF HooksExpected
<1>3. CASE HooksProfile \notin g.tree
  <2>1. ~g.truncated
    BY <1>3 DEF HooksProfileState, Fuller
  <2>2. HooksProfile \notin w.tree /\ ~w.truncated
    BY <1>3, <2>1 DEF Fuller
  <2> QED BY <1>3, <2>2 DEF HooksProfileState, HooksExpected
<1> QED BY <1>2, <1>3

\* What the profile asks for, the detected manager aside.
LEMMA HooksDeclarationSound ==
  ASSUME NEW g, NEW w, Fuller(g, w), NEW names, \A n \in names : ~KnownGap("hooks", g, n)
  PROVE  Sound(HooksDeclaration(g), HooksDeclaration(w), names)
<1> DEFINE Aspects == {"profile_declared", "manager", "bootstrap_instructions_present",
                       "bypass_documentation_present"}
           Fact(r, a) == IF r.stage # "complete" THEN Unavailable
                         ELSE IF a = "profile_declared" THEN Presence(r, {HooksProfile})
                         ELSE HooksExpectation(r, a)
<1>1. \A r : HooksDeclaration(r) = [n \in {<<"hooks", a>> : a \in Aspects} |-> Fact(r, n[2])]
  BY DEF HooksDeclaration
<1>2. ASSUME HooksProfileState(g) = "observed", g.stage = "complete",
             ~g.truncated \/ HooksExpected(g).manager # ""
      PROVE  HookManager(w) = HookManager(g)
  <2>1. HooksExpected(w) = HooksExpected(g)
    BY <1>2, ProfileKnown
  <2>2. CASE HooksExpected(g).manager # ""
    BY <2>1, <2>2 DEF HookManager
  <2>3. CASE ~g.truncated
    <3>1. w.tree = g.tree /\ ~w.truncated
      BY <1>2, <2>3 DEF Fuller
    <3>2. DetectedHooks(w) = DetectedHooks(g)
      BY <3>1 DEF DetectedHooks
    <3> QED BY <2>1, <2>3, <3>1, <3>2 DEF HookManager
  <2> QED BY <1>2, <2>2, <2>3
<1>3. ASSUME NEW a \in Aspects, Fact(g, a).state = "observed", <<"hooks", a>> \in names
      PROVE  Fact(w, a) = Fact(g, a)
  <2>1. g.stage = "complete" /\ w.stage = "complete"
    BY <1>3 DEF Unavailable, Fuller
  <2>2. CASE a = "profile_declared"
    BY <1>3, <2>1, <2>2, PresenceSound
  <2>3. CASE a # "profile_declared"
    <3>1. Fact(g, a) = HooksExpectation(g, a) /\ Fact(w, a) = HooksExpectation(w, a)
      BY <2>1, <2>3
    <3> HIDE DEF Fact
    <3>2. HooksProfileState(g) = "observed"
      BY <1>3, <3>1 DEF HooksExpectation, StateInput
    <3>3. HooksProfileState(w) = "observed" /\ HooksExpected(w) = HooksExpected(g)
      BY <2>1, <3>2, ProfileKnown
    <3>4. CASE a = "manager"
      <4>1. ~KnownGap("hooks", g, <<"hooks", a>>)
        BY <1>3
      <4>2. ~g.truncated \/ HooksExpected(g).manager # ""
        BY <3>4, <4>1 DEF KnownGap
      <4> QED BY <1>2, <2>1, <3>1, <3>2, <3>3, <3>4, <4>2 DEF HooksExpectation
    <3>5. CASE a = "bootstrap_instructions_present"
      BY <1>3, <2>1, <3>1, <3>2, <3>3, <3>5, PresenceSound DEF HooksExpectation
    <3>6. CASE a = "bypass_documentation_present"
      BY <1>3, <2>1, <3>1, <3>2, <3>3, <3>6, PresenceSound DEF HooksExpectation
    <3> QED BY <1>3, <2>3, <3>4, <3>5, <3>6
  <2> QED BY <2>2, <2>3
<1>4. ASSUME NEW n \in DOMAIN HooksDeclaration(g) \cap names, HooksDeclaration(g)[n].state = "observed"
      PROVE  n \in DOMAIN HooksDeclaration(w) /\ HooksDeclaration(w)[n] = HooksDeclaration(g)[n]
  <2>1. PICK a \in Aspects : n = <<"hooks", a>>
    BY <1>1, <1>4
  <2>2. n[2] = a
    BY <2>1
  <2> HIDE DEF Aspects, Fact
  <2>3. HooksDeclaration(g)[n] = Fact(g, a)
    BY <1>1, <1>4, <2>2
  <2> QED BY <1>1, <1>3, <1>4, <2>1, <2>2, <2>3
<1> QED BY <1>4 DEF Sound

\* An entry point that is declared, or found in a whole tree.
LEMMA EntrypointsSound ==
  ASSUME NEW g, NEW w, Fuller(g, w), NEW names, \A n \in names : ~KnownGap("hooks", g, n),
         g.stage = "complete", HooksProfileState(g) = "observed"
  PROVE  Sound(Entrypoints(g), Entrypoints(w), names)
<1> DEFINE Paths(r) == DetectedHooks(r).paths \union HooksExpected(r).paths
           Aspects == {"configured", "executable", "network_loaded"}
           Fact(r, p, a) == CASE a = "configured" -> Presence(r, {p})
                              [] a = "executable" -> Unknown
                              [] a = "network_loaded" -> NetworkLoaded(r, p)
           Names(r) == {<<"hooks", "entrypoint", p, a>> : p \in Paths(r), a \in Aspects}
<1>1. \A r : Entrypoints(r) = [n \in Names(r) |-> Fact(r, n[3], n[4])]
  BY DEF Entrypoints
<1>2. ASSUME NEW p \in Paths(g), NEW a, <<"hooks", "entrypoint", p, a>> \in names
      PROVE  p \in Paths(w)
  <2>1. ~KnownGap("hooks", g, <<"hooks", "entrypoint", p, a>>)
    BY <1>2
  <2>2. ~g.truncated \/ p \in HooksExpected(g).paths
    BY <2>1 DEF KnownGap
  <2>3. HooksExpected(w) = HooksExpected(g)
    BY ProfileKnown
  <2>4. CASE ~g.truncated
    <3>1. w.tree = g.tree
      BY <2>4 DEF Fuller
    <3>2. DetectedHooks(w) = DetectedHooks(g)
      BY <3>1 DEF DetectedHooks
    <3> QED BY <1>2, <2>3, <3>2
  <2> QED BY <2>2, <2>3, <2>4
<1>3. ASSUME NEW p, NetworkLoaded(g, p).state = "observed"
      PROVE  NetworkLoaded(w, p) = NetworkLoaded(g, p)
  <2>1. p \in g.tree \ g.lost /\ ~TooLong(g, p)
    BY <1>3 DEF NetworkLoaded, Unknown, Unavailable
  <2>2. p \in w.tree \ w.lost /\ ~TooLong(w, p)
    BY <2>1 DEF Fuller
  <2>3. File(w, p) = File(g, p)
    BY MoreIsSeen
  <2> QED BY <2>1, <2>2, <2>3 DEF NetworkLoaded
<1>4. ASSUME NEW p, NEW a \in Aspects, Fact(g, p, a).state = "observed"
      PROVE  Fact(w, p, a) = Fact(g, p, a)
  <2>1. CASE a = "configured"
    BY <1>4, <2>1, PresenceSound
  <2>2. CASE a = "executable"
    BY <2>2
  <2>3. CASE a = "network_loaded"
    BY <1>3, <1>4, <2>3
  <2> QED BY <1>4, <2>1, <2>2, <2>3
<1>5. ASSUME NEW n \in DOMAIN Entrypoints(g) \cap names, Entrypoints(g)[n].state = "observed"
      PROVE  n \in DOMAIN Entrypoints(w) /\ Entrypoints(w)[n] = Entrypoints(g)[n]
  <2>1. n \in Names(g)
    <3> HIDE DEF Fact, Names
    <3> QED BY <1>1, <1>5
  <2>2. PICK p \in Paths(g), a \in Aspects : n = <<"hooks", "entrypoint", p, a>>
    BY <2>1
  <2>3. n[3] = p /\ n[4] = a
    BY <2>2
  <2>4. n \in Names(w)
    BY <1>2, <1>5, <2>2
  <2> HIDE DEF Aspects, Fact, Paths, Names
  <2>5. Entrypoints(g)[n] = Fact(g, p, a) /\ Entrypoints(w)[n] = Fact(w, p, a)
    BY <1>1, <2>1, <2>3, <2>4
  <2> QED BY <1>1, <1>4, <1>5, <2>4, <2>5
<1> QED BY <1>5 DEF Sound

\* A check some workflow mentions; with every workflow searched, one that none does.
LEMMA RequiredChecksSound ==
  ASSUME NEW g, NEW w, Fuller(g, w), NEW names, \A n \in names : ~KnownGap("hooks", g, n),
         g.stage = "complete", HooksProfileState(g) = "observed"
  PROVE  Sound(RequiredChecks(g), RequiredChecks(w), names)
<1> DEFINE Aspects == {"configured", "ci_covered"}
           Fact(r, c, a) == IF a = "configured" THEN Observed(Bool(TRUE)) ELSE Covered(r, c)
           Names(r) == {<<"hooks", "required_check", c, a>> : c \in HooksExpected(r).checks, a \in Aspects}
<1>1. \A r : RequiredChecks(r) = [n \in Names(r) |-> Fact(r, n[3], n[4])]
  BY DEF RequiredChecks
<1>2. HooksExpected(w) = HooksExpected(g)
  BY ProfileKnown
<1>3. ASSUME NEW c, \A p \in Workflows(g) : ~TooLong(g, p), Covered(g, c).state = "observed"
      PROVE  Covered(w, c) = Covered(g, c)
  <2>1. Workflows(w) \cap w.lost = {} /\ \A p : File(w, p) = File(g, p)
    BY MoreIsSeen DEF Fuller
  <2>2. Workflows(g) \subseteq Workflows(w) /\ Workflows(w) \subseteq w.tree
    BY MoreIsSeen DEF Workflows
  <2>3. CASE c \in WorkflowText(g)
    <3>1. PICK p \in Workflows(g) : ~TooLong(g, p) /\ c \in File(g, p).mentions
      BY <2>3 DEF WorkflowText
    <3>2. p \in Workflows(w) /\ ~TooLong(w, p) /\ c \in File(w, p).mentions
      BY <2>1, <2>2, <3>1 DEF Fuller
    <3>3. c \in WorkflowText(w)
      BY <2>1, <3>2 DEF WorkflowText
    <3> QED BY <2>3, <3>3 DEF Covered
  <2>4. CASE c \notin WorkflowText(g)
    <3>1. CoverageState(g) = "observed" /\ Covered(g, c) = StateInput("observed", Bool(FALSE))
      BY <1>3, <2>4 DEF Covered, StateInput
    <3>2. Workflows(g) \cap g.lost = {} /\ ~g.truncated
      BY <3>1 DEF CoverageState, Fuller
    <3>3. Workflows(w) = Workflows(g)
      BY <3>2 DEF Workflows, Fuller
    <3>4. CoverageState(w) = "observed"
      BY <2>1 DEF CoverageState, Fuller
    <3>5. c \notin WorkflowText(w)
      BY <1>3, <2>1, <2>4, <3>2, <3>3 DEF WorkflowText
    <3> QED BY <3>1, <3>4, <3>5 DEF Covered
  <2> QED BY <2>3, <2>4
<1>4. ASSUME NEW n \in DOMAIN RequiredChecks(g) \cap names, RequiredChecks(g)[n].state = "observed"
      PROVE  n \in DOMAIN RequiredChecks(w) /\ RequiredChecks(w)[n] = RequiredChecks(g)[n]
  <2>1. n \in Names(g)
    <3> HIDE DEF Fact, Names
    <3> QED BY <1>1, <1>4
  <2>2. PICK c \in HooksExpected(g).checks, a \in Aspects : n = <<"hooks", "required_check", c, a>>
    BY <2>1
  <2>3. n[3] = c /\ n[4] = a /\ n[1] = "hooks" /\ n[2] = "required_check"
    BY <2>2
  <2>4. n \in Names(w)
    BY <1>2, <2>2
  <2> HIDE DEF Names
  <2>5. RequiredChecks(g)[n] = Fact(g, c, a) /\ RequiredChecks(w)[n] = Fact(w, c, a)
    BY <1>1, <2>1, <2>3, <2>4
  <2>6. CASE a = "configured"
    BY <1>1, <2>4, <2>5, <2>6
  <2>7. CASE a = "ci_covered"
    <3>1. ~KnownGap("hooks", g, n)
      BY <1>4
    <3>2. \A p \in Workflows(g) : ~TooLong(g, p)
      BY <2>3, <2>7, <3>1 DEF KnownGap
    <3> QED BY <1>1, <1>3, <1>4, <2>4, <2>5, <2>7, <3>2
  <2> QED BY <2>2, <2>6, <2>7
<1> QED BY <1>4 DEF Sound

\* What the CI environment's profile and flake declare.
LEMMA EnvProfileKnown ==
  ASSUME NEW g, NEW w, Fuller(g, w), EnvProfileState(g) = "observed"
  PROVE  EnvProfileState(w) = "observed" /\ File(w, EnvProfile) = File(g, EnvProfile)
<1>1. File(w, EnvProfile) = File(g, EnvProfile)
  BY MoreIsSeen
<1>2. EnvProfile \in g.tree /\ ~TooLong(g, EnvProfile)
  BY DEF EnvProfileState
<1>3. EnvProfile \in w.tree \ w.lost /\ ~TooLong(w, EnvProfile)
  BY <1>2 DEF Fuller
<1> QED BY <1>1, <1>2, <1>3 DEF EnvProfileState

\* A declaration that was read is that of the whole tree.
LEMMA EnvDeclarationSound ==
  ASSUME NEW g, NEW w, Fuller(g, w), NEW names
  PROVE  Sound(EnvDeclaration(g), EnvDeclaration(w), names)
<1> DEFINE Aspects == {"profile_declared", "declared_applicability", "flake_present",
                       "flake_lock_present"}
           Fact(r, a) ==
             IF r.stage # "complete" THEN Unavailable
             ELSE CASE a = "profile_declared" -> Presence(r, {EnvProfile})
                    [] a = "declared_applicability" ->
                         StateInput(EnvProfileState(r), Str(File(r, EnvProfile).env.applicability))
                    [] a = "flake_present" -> Presence(r, {Flake})
                    [] a = "flake_lock_present" -> Presence(r, {FlakeLock})
           Names == {<<"ci_environment", a>> : a \in Aspects}
<1>1. \A r : EnvDeclaration(r) = [n \in Names |-> Fact(r, n[2])]
  BY DEF EnvDeclaration
<1>2. ASSUME NEW a \in Aspects, Fact(g, a).state = "observed"
      PROVE  Fact(w, a) = Fact(g, a)
  <2>1. g.stage = "complete" /\ w.stage = "complete"
    BY <1>2 DEF Unavailable, Fuller
  <2>2. CASE a = "declared_applicability"
    <3>1. EnvProfileState(g) = "observed"
      BY <1>2, <2>1, <2>2 DEF StateInput
    <3> QED BY <2>1, <2>2, <3>1, EnvProfileKnown
  <2>3. CASE a # "declared_applicability"
    BY <1>2, <2>1, <2>3, PresenceSound
  <2> QED BY <2>2, <2>3
<1>3. \A n \in Names : n[2] \in Aspects
  OBVIOUS
<1> HIDE DEF Fact, Names, Aspects
<1> QED BY <1>1, <1>2, <1>3 DEF Sound

\* A workflow shows the same signals.
LEMMA SameSignals ==
  ASSUME NEW g, NEW w, Fuller(g, w), NEW p, NEW a \in Signals
  PROVE  Signal(w, p, a) = Signal(g, p, a)
<1>1. File(w, p) = File(g, p)
  BY MoreIsSeen
<1>2. Tools(w, p) = Tools(g, p) /\ SetUps(w, p) = SetUps(g, p)
  BY <1>1 DEF Tools, SetUps
<1>3. AmbientTools(w, p) = AmbientTools(g, p)
  BY <1>2 DEF AmbientTools
<1> QED BY <1>1, <1>2, <1>3 DEF Signal, Signals

\* Counts of the signals that are observed are those of the whole tree.
LEMMA EnvAggregatesSound ==
  ASSUME NEW g, NEW w, Fuller(g, w), NEW names
  PROVE  Sound(EnvAggregates(g), EnvAggregates(w), names)
<1> DEFINE states(r) == {ContentState(r, p) : p \in Workflows(r)}
           state(r) == AggregateState(r, states(r))
           Names == {<<"ci_environment", a>> : a \in EnvCounts}
<1>1. \A r : EnvAggregates(r) = [n \in Names |-> StateInput(state(r), Count(EnvCount(r, n[2])))]
  BY DEF EnvAggregates
<1>2. CASE state(g) = "observed"
  <2>1. WorkflowsState(g) = "observed" /\ states(g) \cap {"unavailable", "unknown"} = {}
    BY <1>2, AggregateKnown
  <2>2. \A p \in Workflows(g) : ContentState(g, p) = "observed"
    BY <2>1, StatesAreStates DEF States
  <2>3. Workflows(g) = Workflows(w) /\ WorkflowsState(w) = "observed"
    BY <2>1, WorkflowsKnown
  <2>4. \A p \in Workflows(w) : ContentState(w, p) = "observed"
    BY <2>2, <2>3, MoreIsSeen DEF Workflows
  <2>5. state(w) = "observed"
    <3>1. \A s \in states(w) : s = "observed"
      BY <2>4
    <3> HIDE DEF states
    <3> QED BY <2>3, <3>1, AggregateObserved
  <2>6. \A p : \A a \in Signals : Signal(w, p, a) = Signal(g, p, a)
    BY SameSignals
  <2>7. \A a \in Signals :
          {p \in Workflows(g) : Signal(g, p, a) # {}} = {p \in Workflows(w) : Signal(w, p, a) # {}}
    BY <2>3, <2>6
  <2>8. ASSUME NEW a \in EnvCounts PROVE EnvCount(g, a) = EnvCount(w, a)
    BY <2>3, <2>7, <2>8 DEF EnvCount, EnvCounts, Signals
  <2>9. \A n \in Names : n[2] \in EnvCounts
    OBVIOUS
  <2> HIDE DEF state, Names
  <2>10. \A n \in Names : StateInput(state(g), Count(EnvCount(g, n[2])))
                           = StateInput(state(w), Count(EnvCount(w, n[2])))
    BY <1>2, <2>5, <2>8, <2>9
  <2>11. EnvAggregates(g) = EnvAggregates(w)
    BY <1>1, <2>10
  <2> QED BY <2>11 DEF Sound
<1>3. CASE state(g) # "observed"
  <2>1. \A n \in DOMAIN EnvAggregates(g) : EnvAggregates(g)[n].state = state(g)
    BY DEF EnvAggregates, StateInput
  <2> QED BY <1>3, <2>1 DEF Sound
<1> QED BY <1>2, <1>3

\* A workflow that was searched shows what it shows.
LEMMA EnvPerWorkflowSound ==
  ASSUME NEW g, NEW w, Fuller(g, w), NEW names
  PROVE  Sound(EnvPerWorkflow(g), EnvPerWorkflow(w), names)
<1> DEFINE Aspects == Signals \union {"content_state"}
           Said(p, a) == IF a = "content_state" THEN Str("observed") ELSE List(Signal(g, p, a))
           Names(r) == {<<"ci_environment", "workflow", p, a>> : p \in Workflows(r), a \in Aspects}
<1>1. EnvPerWorkflow(g) = [n \in Names(g) |-> StateInput(ContentState(g, n[3]), Said(n[3], n[4]))]
  BY DEF EnvPerWorkflow
<1>2. EnvPerWorkflow(w) = [n \in Names(w) |-> StateInput(ContentState(w, n[3]), Said(n[3], n[4]))]
  <2>1. \A p : \A a \in Aspects : Said(p, a) = IF a = "content_state" THEN Str("observed")
                                               ELSE List(Signal(w, p, a))
    BY SameSignals
  <2> QED BY <2>1 DEF EnvPerWorkflow
<1> HIDE DEF Said, Aspects
<1>3. ASSUME NEW p \in Workflows(g), ContentState(g, p) = "observed"
      PROVE  p \in Workflows(w) /\ ContentState(w, p) = "observed"
  BY <1>3, MoreIsSeen DEF Workflows
<1>4. ASSUME NEW n \in DOMAIN EnvPerWorkflow(g), EnvPerWorkflow(g)[n].state = "observed"
      PROVE  n \in DOMAIN EnvPerWorkflow(w) /\ EnvPerWorkflow(w)[n] = EnvPerWorkflow(g)[n]
  <2>1. PICK p \in Workflows(g), a \in Aspects : n = <<"ci_environment", "workflow", p, a>>
    BY <1>1, <1>4
  <2>2. n[3] = p /\ n[4] = a
    BY <2>1
  <2>3. EnvPerWorkflow(g)[n] = StateInput(ContentState(g, p), Said(p, a))
    BY <1>1, <1>4, <2>2
  <2>4. ContentState(g, p) = "observed"
    BY <1>4, <2>3 DEF StateInput
  <2> QED BY <1>2, <1>3, <2>1, <2>2, <2>3, <2>4
<1> QED BY <1>4 DEF Sound

\* The external inputs of a profile that was read.
LEMMA EnvInputsSound ==
  ASSUME NEW g, NEW w, Fuller(g, w), NEW names, \A n \in names : ~KnownGap("ci-environment", g, n)
  PROVE  /\ Sound(EnvInputs(g), EnvInputs(w), names)
         /\ Sound(EnvInputCount(g), EnvInputCount(w), names)
<1>1. CASE g.stage = "complete" /\ EnvProfileState(g) = "observed"
  <2>1. ExternalInputs(g) = ExternalInputs(w)
    BY <1>1, EnvProfileKnown DEF ExternalInputs, Fuller
  <2>2. EnvInputs(g) = EnvInputs(w) /\ EnvInputCount(g) = EnvInputCount(w)
    BY <2>1 DEF EnvInputs, EnvInputCount
  <2> QED BY <2>2 DEF Sound
<1>2. CASE ~(g.stage = "complete" /\ EnvProfileState(g) = "observed")
  <2>1. DOMAIN ExternalInputs(g) = {}
    BY <1>2 DEF ExternalInputs
  <2>2. DOMAIN EnvInputs(g) = {}
    BY <2>1 DEF EnvInputs
  <2>3. DOMAIN EnvInputCount(g) \cap names = {}
    BY <1>2 DEF EnvInputCount, KnownGap
  <2> QED BY <2>2, <2>3 DEF Sound
<1> QED BY <1>1, <1>2

\* Parts that are sound, with names apart, are sound together.
LEMMA MergedSound ==
  ASSUME NEW f, NEW h, NEW names, DOMAIN f \subseteq DOMAIN h,
         \A i \in DOMAIN f : Sound(f[i], h[i], names),
         \A i, j \in DOMAIN h : \A n : n \in DOMAIN h[i] /\ n \in DOMAIN h[j] => i = j
  PROVE  Sound(Merged(f), Merged(h), names)
<1> SUFFICES ASSUME NEW n \in DOMAIN Merged(f) \cap names, Merged(f)[n].state = "observed"
             PROVE  n \in DOMAIN Merged(h) /\ Merged(h)[n] = Merged(f)[n]
  BY DEF Sound
<1>1. PICK i \in DOMAIN f : n \in DOMAIN f[i] /\ Merged(f)[n] = f[i][n]
  BY MergedName
<1>2. i \in DOMAIN h /\ n \in DOMAIN h[i] /\ h[i][n] = f[i][n]
  BY <1>1 DEF Sound
<1>3. n \in DOMAIN Merged(h)
  BY <1>2 DEF Merged
<1>4. PICK j \in DOMAIN h : n \in DOMAIN h[j] /\ Merged(h)[n] = h[j][n]
  BY <1>3, MergedName
<1> QED BY <1>1, <1>2, <1>3, <1>4

\* The names of the parts of an artifact are apart.
LEMMA NamesOfParts ==
  ASSUME NEW g
  PROVE  /\ \A area : \A n \in DOMAIN WorkflowsFact(g, area) : n[1] = area /\ n[2] = "workflows_state"
         /\ \A area : \A n \in DOMAIN Identity(g, area) :
              n[1] = area /\ n[2] \in {"default_branch", "default_commit"}
         /\ \A n \in DOMAIN RepositoryFacts(g) : n[1] = "repository"
         /\ \A n \in DOMAIN CIAggregates(g) : n[1] = "ci" /\ n[2] \in CICounts
         /\ \A n \in DOMAIN PerWorkflow(g) : n[1] = "ci" /\ n[2] = "workflow"
         /\ \A n \in DOMAIN PerJob(g) : n[1] = "ci" /\ n[2] = "job"
         /\ \A n \in DOMAIN PerAction(g) : n[1] = "ci" /\ n[2] = "action"
         /\ \A n \in DOMAIN HooksDeclaration(g) :
              n[1] = "hooks" /\ n[2] \in {"profile_declared", "manager",
                "bootstrap_instructions_present", "bypass_documentation_present"}
         /\ \A n \in DOMAIN Entrypoints(g) : n[1] = "hooks" /\ n[2] = "entrypoint"
         /\ \A n \in DOMAIN RequiredChecks(g) : n[1] = "hooks" /\ n[2] = "required_check"
         /\ \A n \in DOMAIN EnvDeclaration(g) :
              n[1] = "ci_environment" /\ n[2] \in {"profile_declared", "declared_applicability",
                "flake_present", "flake_lock_present"}
         /\ \A n \in DOMAIN EnvAggregates(g) : n[1] = "ci_environment" /\ n[2] \in EnvCounts
         /\ \A n \in DOMAIN EnvPerWorkflow(g) : n[1] = "ci_environment" /\ n[2] = "workflow"
         /\ \A n \in DOMAIN EnvInputCount(g) :
              n[1] = "ci_environment" /\ n[2] = "external_input_count"
         /\ \A n \in DOMAIN EnvInputs(g) : n[1] = "ci_environment" /\ n[2] = "external_input"
<1>1. \A area : \A n \in DOMAIN WorkflowsFact(g, area) : n[1] = area /\ n[2] = "workflows_state"
  BY DEF WorkflowsFact
<1>2. \A area : \A n \in DOMAIN Identity(g, area) :
         n[1] = area /\ n[2] \in {"default_branch", "default_commit"}
  BY DEF Identity
<1>3. \A n \in DOMAIN RepositoryFacts(g) : n[1] = "repository"
  BY DEF RepositoryFacts
<1>4. \A n \in DOMAIN CIAggregates(g) : n[1] = "ci" /\ n[2] \in CICounts
  BY DEF CIAggregates
<1>5. \A n \in DOMAIN PerWorkflow(g) : n[1] = "ci" /\ n[2] = "workflow"
  BY DEF PerWorkflow
<1>6. \A n \in DOMAIN PerJob(g) : n[1] = "ci" /\ n[2] = "job"
  BY DEF PerJob
<1>7. \A n \in DOMAIN PerAction(g) : n[1] = "ci" /\ n[2] = "action"
  BY DEF PerAction
<1>8. \A n \in DOMAIN HooksDeclaration(g) :
         n[1] = "hooks" /\ n[2] \in {"profile_declared", "manager",
           "bootstrap_instructions_present", "bypass_documentation_present"}
  BY DEF HooksDeclaration
<1>9. \A n \in DOMAIN Entrypoints(g) : n[1] = "hooks" /\ n[2] = "entrypoint"
  BY DEF Entrypoints
<1>10. \A n \in DOMAIN RequiredChecks(g) : n[1] = "hooks" /\ n[2] = "required_check"
  BY DEF RequiredChecks
<1>11. \A n \in DOMAIN EnvDeclaration(g) :
         n[1] = "ci_environment" /\ n[2] \in {"profile_declared", "declared_applicability",
           "flake_present", "flake_lock_present"}
  BY DEF EnvDeclaration
<1>12. \A n \in DOMAIN EnvAggregates(g) : n[1] = "ci_environment" /\ n[2] \in EnvCounts
  BY DEF EnvAggregates
<1>13. \A n \in DOMAIN EnvPerWorkflow(g) : n[1] = "ci_environment" /\ n[2] = "workflow"
  BY DEF EnvPerWorkflow
<1>14. \A n \in DOMAIN EnvInputCount(g) : n[1] = "ci_environment" /\ n[2] = "external_input_count"
  BY DEF EnvInputCount
<1>15. \A n \in DOMAIN EnvInputs(g) : n[1] = "ci_environment" /\ n[2] = "external_input"
  BY DEF EnvInputs
<1> QED BY <1>1, <1>2, <1>3, <1>4, <1>5, <1>6, <1>7, <1>8, <1>9, <1>10, <1>11, <1>12, <1>13,
           <1>14, <1>15

\* The parts of the repository inventory together.
LEMMA InventorySound ==
  ASSUME NEW g, NEW w, Fuller(g, w), NEW names,
         Sound(RepositoryFacts(g), RepositoryFacts(w), names)
  PROVE  Sound(InventoryFacts(g), InventoryFacts(w), names)
<1> DEFINE Parts(r) == <<WorkflowsFact(r, "ci"), RepositoryFacts(r), CIAggregates(r), PerWorkflow(r),
                         PerJob(r), PerAction(r)>>
<1>1. PICK f : f = Parts(g)
  OBVIOUS
<1>2. PICK h : h = Parts(w)
  OBVIOUS
<1>3. DOMAIN f = 1 .. 6 /\ DOMAIN h = 1 .. 6
  BY <1>1, <1>2
<1>4. \A i \in DOMAIN f : Sound(f[i], h[i], names)
  BY <1>1, <1>2, WorkflowsFactSound, CIAggregatesSound, PerWorkflowSound, PerJobSound,
     PerActionSound
<1>5. ASSUME NEW n
      PROVE  /\ n \in DOMAIN h[1] => n[1] = "ci" /\ n[2] = "workflows_state"
             /\ n \in DOMAIN h[2] => n[1] = "repository"
             /\ n \in DOMAIN h[3] => n[1] = "ci" /\ n[2] \in CICounts
             /\ n \in DOMAIN h[4] => n[1] = "ci" /\ n[2] = "workflow"
             /\ n \in DOMAIN h[5] => n[1] = "ci" /\ n[2] = "job"
             /\ n \in DOMAIN h[6] => n[1] = "ci" /\ n[2] = "action"
  BY <1>2, NamesOfParts
<1>6. \A i, j \in DOMAIN h : \A n : n \in DOMAIN h[i] /\ n \in DOMAIN h[j] => i = j
  BY <1>3, <1>5 DEF CICounts
<1>7. Sound(Merged(f), Merged(h), names)
  BY <1>3, <1>4, <1>6, MergedSound
<1> QED BY <1>1, <1>2, <1>7 DEF InventoryFacts

\* The parts of the hooks inventory together: a reading may lack the last two.
LEMMA HooksSound ==
  ASSUME NEW g, NEW w, Fuller(g, w), NEW names, \A n \in names : ~KnownGap("hooks", g, n)
  PROVE  Sound(HooksFacts(g), HooksFacts(w), names)
<1> DEFINE Few(r) == <<Identity(r, "hooks"), HooksDeclaration(r)>>
           All(r) == <<Identity(r, "hooks"), HooksDeclaration(r), Entrypoints(r), RequiredChecks(r)>>
           full(r) == r.stage = "complete" /\ HooksProfileState(r) = "observed"
           Parts(r) == IF full(r) THEN All(r) ELSE Few(r)
<1>1. PICK f : f = Parts(g)
  OBVIOUS
<1>2. PICK h : h = Parts(w)
  OBVIOUS
<1>3. full(g) => full(w)
  BY ProfileKnown DEF Fuller
<1>4. /\ full(g) => DOMAIN f = 1 .. 4
      /\ ~full(g) => DOMAIN f = 1 .. 2
      /\ full(w) => DOMAIN h = 1 .. 4
      /\ ~full(w) => DOMAIN h = 1 .. 2
  BY <1>1, <1>2
<1>5. Sound(Identity(g, "hooks"), Identity(w, "hooks"), names)
      /\ Sound(HooksDeclaration(g), HooksDeclaration(w), names)
  BY IdentitySound, HooksDeclarationSound
<1>6. full(g) => /\ Sound(Entrypoints(g), Entrypoints(w), names)
                 /\ Sound(RequiredChecks(g), RequiredChecks(w), names)
  BY EntrypointsSound, RequiredChecksSound
<1>7. \A i \in DOMAIN f : Sound(f[i], h[i], names)
  BY <1>1, <1>2, <1>3, <1>5, <1>6
<1>8. ASSUME NEW n
      PROVE  /\ n \in DOMAIN h[1] => n[2] \in {"default_branch", "default_commit"}
             /\ n \in DOMAIN h[2] => n[2] \in {"profile_declared", "manager",
                  "bootstrap_instructions_present", "bypass_documentation_present"}
             /\ full(w) => /\ n \in DOMAIN h[3] => n[2] = "entrypoint"
                           /\ n \in DOMAIN h[4] => n[2] = "required_check"
  BY <1>2, NamesOfParts
<1>9. \A i, j \in DOMAIN h : \A n : n \in DOMAIN h[i] /\ n \in DOMAIN h[j] => i = j
  <2> HIDE DEF full
  <2> QED BY <1>4, <1>8
<1>10. DOMAIN f \subseteq DOMAIN h
  BY <1>3, <1>4
<1>11. Sound(Merged(f), Merged(h), names)
  BY <1>7, <1>9, <1>10, MergedSound
<1> QED BY <1>1, <1>2, <1>11 DEF HooksFacts

\* The parts of the CI environment inventory together.
LEMMA EnvSound ==
  ASSUME NEW g, NEW w, Fuller(g, w), NEW names, \A n \in names : ~KnownGap("ci-environment", g, n)
  PROVE  Sound(EnvFacts(g), EnvFacts(w), names)
<1> DEFINE Parts(r) == <<Identity(r, "ci_environment"), EnvDeclaration(r),
                         WorkflowsFact(r, "ci_environment"), EnvAggregates(r), EnvPerWorkflow(r),
                         EnvInputCount(r), EnvInputs(r)>>
<1>1. PICK f : f = Parts(g)
  OBVIOUS
<1>2. PICK h : h = Parts(w)
  OBVIOUS
<1>3. DOMAIN f = 1 .. 7 /\ DOMAIN h = 1 .. 7
  BY <1>1, <1>2
<1>4. \A i \in DOMAIN f : Sound(f[i], h[i], names)
  BY <1>1, <1>2, IdentitySound, EnvDeclarationSound, WorkflowsFactSound, EnvAggregatesSound,
     EnvPerWorkflowSound, EnvInputsSound
<1>5. ASSUME NEW n
      PROVE  /\ n \in DOMAIN h[1] => n[2] \in {"default_branch", "default_commit"}
             /\ n \in DOMAIN h[2] => n[2] \in {"profile_declared", "declared_applicability",
                  "flake_present", "flake_lock_present"}
             /\ n \in DOMAIN h[3] => n[2] = "workflows_state"
             /\ n \in DOMAIN h[4] => n[2] \in EnvCounts
             /\ n \in DOMAIN h[5] => n[2] = "workflow"
             /\ n \in DOMAIN h[6] => n[2] = "external_input_count"
             /\ n \in DOMAIN h[7] => n[2] = "external_input"
  BY <1>2, NamesOfParts
<1>6. \A i, j \in DOMAIN h : \A n : n \in DOMAIN h[i] /\ n \in DOMAIN h[j] => i = j
  BY <1>3, <1>5 DEF EnvCounts
<1>7. Sound(Merged(f), Merged(h), names)
  BY <1>3, <1>4, <1>6, MergedSound
<1> QED BY <1>1, <1>2, <1>7 DEF EnvFacts

\* What a collector observed of a repository is what the commit it read shows, to
\* a collector from which nothing is kept; the facts in KnownGap aside.
THEOREM FactsAreSound ==
  ASSUME NEW kind \in Kinds, NEW g, GoodReading(kind, g), DOMAIN g = Fields,
         NEW n \in DOMAIN Facts(kind, g), Facts(kind, g)[n].state = "observed",
         ~KnownGap(kind, g, n)
  PROVE  n \in DOMAIN Facts(kind, Whole(g)) /\ Facts(kind, Whole(g))[n] = Facts(kind, g)[n]
<1>1. CASE g.stage \in {"repository", "branch"}
  BY <1>1 DEF Whole
<1>2. CASE g.stage \in {"tree", "complete"}
  <2>1. PICK w : w = Whole(g)
    OBVIOUS
  <2>2. Fuller(g, w)
    BY <1>2, <2>1, WholeIsFuller
  <2>3. Sound(Facts(kind, g), Facts(kind, w), {n})
    <3>1. CASE kind = "inventory"
      <4>1. g.protected \in BOOLEAN
        BY <1>2 DEF GoodReading
      <4>2. g.protected /\ g.settings # Unreadable =>
              w.settings # Unreadable /\ SettingsOf(g.settings, w.settings)
        <5>1. g.protected => IsProtection(g.actual)
                             /\ (g.settings = Unreadable \/ SettingsOf(g.settings, g.actual))
          BY <1>2, <3>1 DEF GoodReading
        <5>2. IsProtection(g.actual) => g.actual # Unreadable
          BY DEF IsProtection, Unreadable
        <5>3. g.actual # Unreadable => w.settings = g.actual
          BY <1>2, <2>1 DEF Whole, Fields
        <5> QED BY <5>1, <5>2, <5>3
      <4>3. Sound(RepositoryFacts(g), RepositoryFacts(w), {n})
        BY <2>2, <3>1, <4>1, <4>2, RepositoryFactsSound
      <4> QED BY <2>2, <3>1, <4>3, InventorySound DEF Facts
    <3>2. CASE kind = "hooks"
      BY <2>2, <3>2, HooksSound DEF Facts
    <3>3. CASE kind = "ci-environment"
      BY <2>2, <3>3, EnvSound DEF Facts
    <3> QED BY <3>1, <3>2, <3>3 DEF Kinds
  <2> QED BY <2>1, <2>3 DEF Sound
<1> QED BY <1>1, <1>2 DEF GoodReading

------------------------------------------------------------------------------
(* The inductive invariant                                                  *)

Bounded == changes \in 0 .. MaxChanges

\* The repositories are repositories.
WorldsOK == DOMAIN world = Repositories /\ \A r \in Repositories : IsWorld(world[r])

\* What a collector has read so far.
JobOK ==
  job # None =>
    /\ DOMAIN job = {"kind", "next", "g"} /\ job.kind \in Kinds
    /\ job.next \in {"repository", "branch", "protection", "tree"}
    /\ DOMAIN job.g = Fields /\ job.g.repo \in Repositories
    /\ job.g.stage = "complete" /\ job.g.tree = {} /\ job.g.truncated = FALSE
    /\ job.g.limit = 1
    /\ job.next # "tree" => job.g.settings = Unreadable
    /\ job.next \in {"branch", "protection"} => job.g.branch \in DOMAIN world[job.g.repo].tip
    /\ job.next \in {"protection", "tree"} =>
         job.g.commit \in DOMAIN Content /\ job.g.protected \in BOOLEAN
    /\ job.next = "tree" /\ job.kind = "inventory" /\ job.g.protected =>
         /\ IsProtection(job.g.actual)
         /\ job.g.settings = Unreadable \/ SettingsOf(job.g.settings, job.g.actual)

\* An artifact has the facts of a good reading.
ArtifactOK(k, a) ==
  /\ a.repo \in Repositories
  /\ DOMAIN a.g = Fields /\ GoodReading(k, a.g)
  /\ a.facts = Facts(k, a.g)
ArtifactsOK ==
  DOMAIN artifacts = Kinds /\ \A k \in Kinds : artifacts[k] # None => ArtifactOK(k, artifacts[k])

\* What was converged stays, and is of one repository.
InputsOK ==
  inputs # None => /\ job = None
                   /\ inputs.from \subseteq Collected
                   /\ \A k \in inputs.from : artifacts[k].repo = inputs.repo

\* A report is the evaluation of what was converged.
ReportedFacts == Merged([k \in inputs.from |-> artifacts[k].facts])
ReportOK ==
  report # None =>
    /\ inputs # None
    /\ report.profile \in DOMAIN Profiles /\ report.asOf \in Int
    /\ report.statuses = IF Evaluable(Profiles[report.profile], ReportedFacts, report.asOf)
                         THEN Evaluate(Profiles[report.profile], ReportedFacts, report.asOf)
                         ELSE <<>>

IInv == Bounded /\ WorldsOK /\ JobOK /\ ArtifactsOK /\ InputsOK /\ ReportOK

\* It holds at first.
LEMMA InitInvariant == Init => IInv
BY PostureAssumption
   DEF Init, IInv, Bounded, WorldsOK, JobOK, ArtifactsOK, InputsOK, ReportOK, None

\* The repository changes: its branches stay.
LEMMA ChangeInvariant ==
  ASSUME IInv, NEW r \in Repositories, NEW w, Change(r, w), IsWorld(w), DOMAIN w.tip = DOMAIN world[r].tip
  PROVE  IInv'
<1>1. Bounded'
  BY PostureAssumption DEF IInv, Bounded, Change
<1>2. /\ DOMAIN world' = Repositories /\ world'[r] = w
      /\ \A q \in Repositories \ {r} : world'[q] = world[q]
  BY DEF IInv, WorldsOK, Change
<1>3. WorldsOK'
  BY <1>2 DEF IInv, WorldsOK
<1>4. \A q \in Repositories : DOMAIN world'[q].tip = DOMAIN world[q].tip
  BY <1>2
<1>5. JobOK'
  <2>1. job' = job
    BY DEF Change
  <2>2. SUFFICES ASSUME job # None PROVE JobOK'
    BY <2>1 DEF JobOK
  <2>3. job.g.repo \in Repositories
    BY <2>2 DEF IInv, JobOK
  <2> QED BY <1>4, <2>1, <2>2, <2>3 DEF IInv, JobOK
<1>6. ArtifactsOK' /\ InputsOK' /\ ReportOK'
  BY DEF IInv, ArtifactsOK, InputsOK, ReportOK, ReportedFacts, Collected, Change
<1> QED BY <1>1, <1>3, <1>5, <1>6 DEF IInv

\* A push, a renamed default branch and a new protection are such changes.
LEMMA PushInvariant ==
  ASSUME IInv, NEW r \in Repositories, Push(r) \/ Rename(r) \/ Protect(r)
  PROVE  IInv'
<1>1. IsWorld(world[r])
  BY DEF IInv, WorldsOK
<1>2. CASE Push(r)
  <2>1. PICK c \in Commits[r] : Change(r, [world[r] EXCEPT !.tip[world[r].default] = c])
    BY <1>2 DEF Push
  <2>2. PICK w : w = [world[r] EXCEPT !.tip[world[r].default] = c]
    OBVIOUS
  <2>3. c \in DOMAIN Content
    BY PostureAssumption
  <2>4. IsWorld(w) /\ DOMAIN w.tip = DOMAIN world[r].tip
    BY <1>1, <2>2, <2>3 DEF IsWorld
  <2> QED BY <2>1, <2>2, <2>4, ChangeInvariant
<1>3. CASE Rename(r)
  <2>1. PICK b \in DOMAIN world[r].tip : Change(r, [world[r] EXCEPT !.default = b])
    BY <1>3 DEF Rename
  <2>2. PICK w : w = [world[r] EXCEPT !.default = b]
    OBVIOUS
  <2>3. IsWorld(w) /\ DOMAIN w.tip = DOMAIN world[r].tip
    BY <1>1, <2>2 DEF IsWorld
  <2> QED BY <2>1, <2>2, <2>3, ChangeInvariant
<1>4. CASE Protect(r)
  <2>1. PICK p \in Protections : Change(r, [world[r] EXCEPT !.protection[world[r].default] = p])
    BY <1>4 DEF Protect
  <2>2. PICK w : w = [world[r] EXCEPT !.protection[world[r].default] = p]
    OBVIOUS
  <2>3. IsProtection(p)
    BY PostureAssumption
  <2>4. IsWorld(w) /\ DOMAIN w.tip = DOMAIN world[r].tip
    BY <1>1, <2>2, <2>3 DEF IsWorld
  <2> QED BY <2>1, <2>2, <2>4, ChangeInvariant
<1> QED BY <1>2, <1>3, <1>4

\* A collector runs only before convergence.
LEMMA NotYetConverged ==
  ASSUME IInv, job # None
  PROVE  inputs = None /\ report = None
BY DEF IInv, InputsOK, ReportOK

\* It emits a good reading.
LEMMA EmitInvariant ==
  ASSUME IInv, job # None, NEW g, Emit(g), UNCHANGED <<world, changes, inputs, report>>,
         DOMAIN g = Fields, g.repo \in Repositories, GoodReading(job.kind, g)
  PROVE  IInv'
<1>1. inputs' = None /\ report' = None
  BY NotYetConverged
<1>2. Bounded' /\ WorldsOK'
  BY DEF IInv, Bounded, WorldsOK
<1>3. JobOK'
  BY DEF Emit, JobOK
<1>4. ArtifactsOK'
  <2>1. PICK a : a = [repo |-> g.repo, facts |-> Facts(job.kind, g), g |-> g]
    OBVIOUS
  <2>2. ArtifactOK(job.kind, a)
    BY <2>1 DEF ArtifactOK
  <2>3. artifacts' = [artifacts EXCEPT ![job.kind] = a]
    BY <2>1 DEF Emit
  <2>4. DOMAIN artifacts = Kinds /\ \A k \in Kinds : artifacts[k] # None => ArtifactOK(k, artifacts[k])
    BY DEF IInv, ArtifactsOK
  <2>5. \A k \in Kinds : artifacts'[k] # None => ArtifactOK(k, artifacts'[k])
    BY <2>2, <2>3, <2>4
  <2> QED BY <2>3, <2>4, <2>5 DEF ArtifactsOK
<1>5. InputsOK' /\ ReportOK'
  BY <1>1 DEF InputsOK, ReportOK
<1> QED BY <1>2, <1>3, <1>4, <1>5 DEF IInv

\* Until then it goes on.
LEMMA ContinueInvariant ==
  ASSUME IInv, job # None, JobOK', UNCHANGED <<world, changes, inputs, report, artifacts>>
  PROVE  IInv'
<1>1. inputs' = None /\ report' = None
  BY NotYetConverged
<1> QED BY <1>1 DEF IInv, Bounded, WorldsOK, ArtifactsOK, InputsOK, ReportOK

\* A collector starts with nothing read.
LEMMA StartInvariant ==
  ASSUME IInv, NEW kind \in Kinds, NEW r \in Repositories, Start(kind, r)
  PROVE  IInv'
<1>1. JobOK'
  BY DEF Start, JobOK, EmptyReading, Fields
<1>2. inputs' = None /\ report' = None
  BY DEF IInv, ReportOK, Start
<1> QED BY <1>1, <1>2 DEF IInv, Bounded, WorldsOK, ArtifactsOK, InputsOK, ReportOK, Start

\* A read that fails ends it.
LEMMA ReadFailsInvariant ==
  ASSUME IInv, ReadFails
  PROVE  IInv'
<1>1. job # None /\ job' = None /\ UNCHANGED <<world, changes, inputs, report, artifacts>>
  BY DEF ReadFails, At
<1> QED BY <1>1, ContinueInvariant DEF JobOK

\* The default branch is a branch of the repository.
LEMMA ReadRepositoryInvariant ==
  ASSUME IInv, ReadRepository
  PROVE  IInv'
<1>1. job # None /\ job.next = "repository" /\ UNCHANGED <<world, changes, inputs, report>>
  BY DEF ReadRepository, At
<1>2. CASE Continue("branch", [job.g EXCEPT !.branch = Here.default])
  <2>1. IsWorld(world[job.g.repo])
    BY <1>1 DEF IInv, WorldsOK, JobOK
  <2>2. PICK g : g = [job.g EXCEPT !.branch = Here.default]
    OBVIOUS
  <2>3. job' = [job EXCEPT !.next = "branch", !.g = g] /\ UNCHANGED artifacts
    BY <1>2, <2>2 DEF Continue
  <2>4. JobOK
    BY DEF IInv
  <2>5. g.branch \in DOMAIN world[g.repo].tip /\ DOMAIN g = Fields
    BY <1>1, <2>1, <2>2, <2>4 DEF Here, JobOK, IsWorld, Fields
  <2>6. JobOK'
    BY <1>1, <2>2, <2>3, <2>4, <2>5 DEF JobOK, Fields
  <2> QED BY <1>1, <2>3, <2>6, ContinueInvariant
<1>3. CASE Emit([job.g EXCEPT !.stage = "repository"])
  <2>1. PICK g : g = [job.g EXCEPT !.stage = "repository"]
    OBVIOUS
  <2>2. DOMAIN g = Fields /\ g.repo \in Repositories /\ GoodReading(job.kind, g)
    BY <1>1, <2>1 DEF IInv, JobOK, GoodReading, Fields
  <2> QED BY <1>1, <1>3, <2>1, <2>2, EmitInvariant
<1> QED BY <1>2, <1>3 DEF ReadRepository

\* The tip of a branch is a commit.
LEMMA ReadBranchInvariant ==
  ASSUME IInv, ReadBranch
  PROVE  IInv'
<1>1. job # None /\ job.next = "branch" /\ UNCHANGED <<world, changes, inputs, report>>
  BY DEF ReadBranch, At
<1>2. JobOK
  BY DEF IInv
<1> DEFINE b == job.g.branch
           protected == Here.protection[b].on
           found == [job.g EXCEPT !.commit = Here.tip[b], !.protected = protected]
           next == IF job.kind = "inventory" /\ protected THEN "protection" ELSE "tree"
<1>3. CASE Continue(next, found)
  <2>1. IsWorld(Here) /\ b \in DOMAIN Here.tip
    BY <1>1, <1>2 DEF IInv, WorldsOK, JobOK, Here
  <2>2. Here.tip[b] \in DOMAIN Content /\ protected \in BOOLEAN
    BY <2>1 DEF IsWorld, IsProtection
  <2>3. PICK g : g = found
    OBVIOUS
  <2>4. job' = [job EXCEPT !.next = next, !.g = g] /\ UNCHANGED artifacts
    BY <1>3, <2>3 DEF Continue
  <2>5. /\ DOMAIN g = Fields /\ g.commit \in DOMAIN Content /\ g.protected = protected
        /\ g.branch = b /\ g.repo = job.g.repo /\ g.stage = job.g.stage /\ g.tree = job.g.tree
        /\ g.truncated = job.g.truncated /\ g.limit = job.g.limit /\ g.settings = job.g.settings
    BY <1>1, <1>2, <2>2, <2>3 DEF JobOK, Fields
  <2> HIDE DEF b, protected, found
  <2>6. JobOK'
    BY <1>1, <1>2, <2>1, <2>2, <2>4, <2>5 DEF JobOK, Here
  <2> QED BY <1>1, <2>4, <2>6, ContinueInvariant
<1>4. CASE Emit([job.g EXCEPT !.stage = "branch"])
  <2>1. PICK g : g = [job.g EXCEPT !.stage = "branch"]
    OBVIOUS
  <2>2. DOMAIN g = Fields /\ g.repo \in Repositories /\ GoodReading(job.kind, g)
    BY <1>1, <1>2, <2>1 DEF JobOK, GoodReading, Fields
  <2> QED BY <1>1, <1>4, <2>1, <2>2, EmitInvariant
<1> QED BY <1>3, <1>4 DEF ReadBranch

\* The settings are those of the actual protection, in part or not at all.
LEMMA ReadProtectionInvariant ==
  ASSUME IInv, ReadProtection
  PROVE  IInv'
<1>1. job # None /\ job.next = "protection" /\ UNCHANGED <<world, changes, inputs, report>>
  BY DEF ReadProtection, At
<1>2. JobOK
  BY DEF IInv
<1>3. PICK p : p = Here.protection[job.g.branch]
  OBVIOUS
<1>4. IsProtection(p)
  BY <1>1, <1>2, <1>3 DEF IInv, WorldsOK, JobOK, Here, IsWorld
<1>5. PICK s : /\ s = Unreadable \/ SettingsOf(s, p)
               /\ Continue("tree", [job.g EXCEPT !.actual = p, !.settings = s])
  <2>1. CASE \E s \in {p, [p EXCEPT !.forcePushes = "omitted", !.deletions = "omitted"]} :
               Continue("tree", [[job.g EXCEPT !.actual = p] EXCEPT !.settings = s])
    <3>1. PICK s \in {p, [p EXCEPT !.forcePushes = "omitted", !.deletions = "omitted"]} :
            Continue("tree", [[job.g EXCEPT !.actual = p] EXCEPT !.settings = s])
      BY <2>1
    <3>2. SettingsOf(s, p)
      BY <1>4 DEF SettingsOf, IsProtection
    <3>3. [[job.g EXCEPT !.actual = p] EXCEPT !.settings = s]
            = [job.g EXCEPT !.actual = p, !.settings = s]
      OBVIOUS
    <3> QED BY <3>1, <3>2, <3>3
  <2>2. CASE Continue("tree", [job.g EXCEPT !.actual = p])
    <3>1. job.g.settings = Unreadable /\ "settings" \in DOMAIN job.g
      BY <1>1, <1>2 DEF JobOK, Fields
    <3>2. [job.g EXCEPT !.actual = p] = [job.g EXCEPT !.actual = p, !.settings = Unreadable]
      BY <3>1
    <3> QED BY <2>2, <3>2
  <2> QED BY <1>3, <2>1, <2>2 DEF ReadProtection
<1>6. PICK g : g = [job.g EXCEPT !.actual = p, !.settings = s]
  OBVIOUS
<1>7. job' = [job EXCEPT !.next = "tree", !.g = g] /\ UNCHANGED artifacts
  BY <1>5, <1>6 DEF Continue
<1>8. /\ DOMAIN g = Fields /\ g.actual = p /\ g.settings = s
      /\ g.repo = job.g.repo /\ g.stage = job.g.stage /\ g.tree = job.g.tree
      /\ g.truncated = job.g.truncated /\ g.limit = job.g.limit /\ g.commit = job.g.commit
      /\ g.protected = job.g.protected
  BY <1>1, <1>2, <1>6 DEF JobOK, Fields
<1>9. JobOK'
  BY <1>1, <1>2, <1>4, <1>5, <1>7, <1>8 DEF JobOK
<1> QED BY <1>1, <1>7, <1>9, ContinueInvariant

\* A tree lists files of the commit.
LEMMA ReadTreeInvariant ==
  ASSUME IInv, ReadTree
  PROVE  IInv'
<1>1. job # None /\ job.next = "tree" /\ UNCHANGED <<world, changes, inputs, report>>
  BY DEF ReadTree, At
<1>2. JobOK
  BY DEF IInv
<1>3. CASE Emit([job.g EXCEPT !.stage = "tree"])
  <2>1. PICK g : g = [job.g EXCEPT !.stage = "tree"]
    OBVIOUS
  <2>2. DOMAIN g = Fields /\ g.repo \in Repositories /\ GoodReading(job.kind, g)
    BY <1>1, <1>2, <2>1 DEF JobOK, GoodReading, Fields
  <2> QED BY <1>1, <1>3, <2>1, <2>2, EmitInvariant
<1>4. ASSUME NEW tree, tree \subseteq DOMAIN Content[job.g.commit], NEW lost,
             Emit([[job.g EXCEPT !.tree = tree,
                                 !.truncated = (tree # DOMAIN Content[job.g.commit])]
                     EXCEPT !.lost = lost])
      PROVE  IInv'
  <2>1. PICK cut \in BOOLEAN : cut = (tree # DOMAIN Content[job.g.commit])
    OBVIOUS
  <2>2. PICK g : g = [[job.g EXCEPT !.tree = tree, !.truncated = cut] EXCEPT !.lost = lost]
    OBVIOUS
  <2>3. /\ DOMAIN g = Fields /\ g.tree = tree /\ g.truncated = cut
        /\ g.repo = job.g.repo /\ g.stage = job.g.stage /\ g.limit = job.g.limit
        /\ g.commit = job.g.commit /\ g.protected = job.g.protected
        /\ g.actual = job.g.actual /\ g.settings = job.g.settings
    BY <1>1, <1>2, <2>2 DEF JobOK, Fields
  <2>4. g.repo \in Repositories /\ GoodReading(job.kind, g)
    BY <1>1, <1>2, <1>4, <2>1, <2>3 DEF JobOK, GoodReading
  <2> QED BY <1>1, <1>4, <2>1, <2>2, <2>3, <2>4, EmitInvariant
<1>5. CASE ~Emit([job.g EXCEPT !.stage = "tree"])
  <2> DEFINE files == DOMAIN Content[job.g.commit]
             read(tree) == [job.g EXCEPT !.tree = tree, !.truncated = (tree # files)]
  <2>1. PICK tree \in {files} \union {files \cap view : view \in Views} :
          \E lost \in {{}} \union {{p} : p \in Asked(read(tree))} :
            Emit([read(tree) EXCEPT !.lost = lost])
    BY <1>5 DEF ReadTree
  <2>2. PICK lost : Emit([read(tree) EXCEPT !.lost = lost])
    BY <2>1
  <2>3. tree \subseteq files
    BY <2>1
  <2> QED BY <1>4, <2>2, <2>3
<1> QED BY <1>3, <1>5

\* What is converged is of one repository.
LEMMA ConvergeInvariant ==
  ASSUME IInv, Converge
  PROVE  IInv'
<1>1. report = None
  BY DEF IInv, ReportOK, Converge
<1>2. InputsOK'
  BY DEF InputsOK, Converge, SameRepository, Collected
<1> QED BY <1>1, <1>2 DEF IInv, Bounded, WorldsOK, JobOK, ArtifactsOK, ReportOK, Converge

\* A report is an evaluation.
LEMMA ReportInvariant ==
  ASSUME IInv, NEW i \in DOMAIN Profiles, NEW d \in Days[i], Report(i, d)
  PROVE  IInv'
<1>1. d \in Int
  BY PostureAssumption
<1>2. ReportOK'
  BY <1>1 DEF Report, ReportOK, ReportedFacts
<1> QED BY <1>2 DEF IInv, Bounded, WorldsOK, JobOK, ArtifactsOK, InputsOK, Collected, Report

\* The invariant holds of every behaviour.
THEOREM InvariantHolds == Spec => []IInv
<1>1. Init => IInv
  BY InitInvariant
<1>2. IInv /\ [Next]_vars => IInv'
  <2> SUFFICES ASSUME IInv, [Next]_vars PROVE IInv'
    OBVIOUS
  <2>1. ASSUME NEW r \in Repositories, Push(r) \/ Rename(r) \/ Protect(r) PROVE IInv'
    BY <2>1, PushInvariant
  <2>2. ASSUME NEW k \in Kinds, NEW r \in Repositories, Start(k, r) PROVE IInv'
    BY <2>2, StartInvariant
  <2>3. CASE ReadFails
    BY <2>3, ReadFailsInvariant
  <2>4. CASE ReadRepository
    BY <2>4, ReadRepositoryInvariant
  <2>5. CASE ReadBranch
    BY <2>5, ReadBranchInvariant
  <2>6. CASE ReadProtection
    BY <2>6, ReadProtectionInvariant
  <2>7. CASE ReadTree
    BY <2>7, ReadTreeInvariant
  <2>8. CASE Converge
    BY <2>8, ConvergeInvariant
  <2>9. ASSUME NEW i \in DOMAIN Profiles, NEW d \in Days[i], Report(i, d) PROVE IInv'
    BY <2>9, ReportInvariant
  <2>10. CASE UNCHANGED vars
    BY <2>10 DEF vars, IInv, Bounded, WorldsOK, JobOK, ArtifactsOK, InputsOK, ReportOK,
                 ReportedFacts, Collected
  <2> QED BY <2>1, <2>2, <2>3, <2>4, <2>5, <2>6, <2>7, <2>8, <2>9, <2>10 DEF Next
<1> QED BY <1>1, <1>2, PTL DEF Spec

------------------------------------------------------------------------------
(* Type correctness                                                         *)

\* A sequence by its domain.
LEMMA LengthByDomain ==
  ASSUME NEW n \in Nat, NEW e, DOMAIN e = 1 .. n, e = [i \in 1 .. n |-> e[i]]
  PROVE  Len(e) = n
OBVIOUS

\* Well formed facts and a report of a rule each.
LEMMA TypeFollows ==
  ASSUME IInv
  PROVE  TypeOK
<1>1. changes \in 0 .. MaxChanges
  BY DEF IInv, Bounded
<1>2. ASSUME NEW k \in Kinds, artifacts[k] # None
      PROVE  artifacts[k].repo \in Repositories /\ FactsOK(artifacts[k].facts)
  BY <1>2, ArtifactFactsOK DEF IInv, ArtifactsOK, ArtifactOK
<1>3. inputs # None => inputs.from \subseteq Collected
  BY DEF IInv, InputsOK
<1>4. ASSUME report # None
      PROVE  inputs # None /\ Len(report.statuses) \in {0, Len(Profiles[report.profile].rules)}
  <2>1. PICK p : p = Profiles[report.profile]
    OBVIOUS
  <2>2. Len(p.rules) \in Nat /\ DOMAIN p.rules = 1 .. Len(p.rules)
    BY <1>4, <2>1, PostureAssumption DEF IInv, ReportOK, IsProfile
  <2>3. inputs # None
    BY <1>4 DEF IInv, ReportOK
  <2>4. CASE Evaluable(p, ReportedFacts, report.asOf)
    <3>1. PICK n \in Nat : n = Len(p.rules)
      BY <2>2
    <3>2. report.statuses = Evaluate(p, ReportedFacts, report.asOf)
      BY <1>4, <2>1, <2>4 DEF IInv, ReportOK
    <3>3. DOMAIN report.statuses = 1 .. n
      BY <2>2, <3>1, <3>2 DEF Evaluate
    <3>4. report.statuses = [i \in 1 .. n |-> report.statuses[i]]
      BY <2>2, <3>1, <3>2 DEF Evaluate
    <3>5. Len(report.statuses) = n
      BY <3>3, <3>4, LengthByDomain
    <3> QED BY <2>1, <2>3, <3>1, <3>5
  <2>5. CASE ~Evaluable(p, ReportedFacts, report.asOf)
    <3>1. report.statuses = <<>>
      BY <1>4, <2>1, <2>5 DEF IInv, ReportOK
    <3> QED BY <2>3, <3>1
  <2> QED BY <2>4, <2>5
<1> QED BY <1>1, <1>2, <1>3, <1>4 DEF TypeOK, FactsOK, FactOK, States

\* Every fact of an artifact has one of the three states, and a value exactly when it
\* was observed.
THEOREM TypeCorrect == Spec => []TypeOK
<1>1. IInv => TypeOK
  BY TypeFollows
<1> QED BY <1>1, InvariantHolds, PTL

------------------------------------------------------------------------------
(* Verdicts are earned.                                                     *)

\* The sign of a number.
LEMMA SignTells ==
  ASSUME NEW x \in Int
  PROVE  /\ Sign(x) >= 0 <=> x >= 0
         /\ Sign(x) <= 0 <=> x <= 0
BY DEF Sign

\* A comparison answers what the numbers are.
LEMMA MatchesIsMet ==
  ASSUME NEW c, ValidCondition(c), IsCondition(c),
         NEW fact, FactOK(fact), fact.state = "observed", ~Misordered(c, fact)
  PROVE  /\ Matches(c, fact.value) = "yes" => Met(c, fact)
         /\ Matches(c, fact.value) = "no" => NotMet(c, fact)
<1>1. c.op \in {"equals", "at_least", "at_most", "non_empty"}
  BY DEF ValidCondition
<1>2. CASE c.op = "equals"
  <2>1. SameValue(fact.value, c.expected) <=> Met(c, fact)
    <3>1. CASE fact.value.type = "number" /\ c.expected.type = "number"
      <4>1. fact.value.v \in Numerals /\ c.expected.v \in Numerals
        BY <3>1 DEF FactOK, IsCondition
      <4>2. CompareNumbers(fact.value.v, c.expected.v) = 0
              <=> Difference(fact.value.v, c.expected.v) = 0
        BY <4>1, ComparisonIsNumeric
      <4> QED BY <1>2, <3>1, <4>2 DEF SameValue, Met
    <3>2. CASE ~(fact.value.type = "number" /\ c.expected.type = "number")
      BY <1>2, <3>2 DEF SameValue, Met
    <3> QED BY <3>1, <3>2
  <2>2. Matches(c, fact.value) = Answer(SameValue(fact.value, c.expected))
    BY <1>2 DEF Matches
  <2> QED BY <2>1, <2>2 DEF Answer, NotMet
<1>3. CASE c.op = "non_empty"
  <2>1. Matches(c, fact.value) = Answer(\/ fact.value.type = "string" /\ fact.value.v # ""
                                        \/ fact.value.type = "list" /\ fact.value.v # {})
    BY <1>3 DEF Matches
  <2>2. Met(c, fact) <=> \/ fact.value.type = "string" /\ fact.value.v # ""
                         \/ fact.value.type = "list" /\ fact.value.v # {}
    BY <1>3 DEF Met
  <2> QED BY <2>1, <2>2 DEF Answer, NotMet
<1>4. CASE c.op \in {"at_least", "at_most"}
  <2>1. CASE fact.value.type # "number" \/ c.expected.type # "number"
    BY <1>4, <2>1 DEF Matches
  <2>2. CASE fact.value.type = "number" /\ c.expected.type = "number"
    <3>1. fact.value.v \in Numerals /\ c.expected.v \in Numerals
      BY <2>2 DEF FactOK, IsCondition
    <3>2. PICK x \in Int : x = Difference(fact.value.v, c.expected.v)
      BY <3>1, ComparisonIsNumeric
    <3>3. ~ZeroAgainstFraction(fact.value.v, c.expected.v)
      BY <1>4, <2>2 DEF Misordered
    <3>4. CompareNumbers(fact.value.v, c.expected.v) = Sign(x)
      BY <3>1, <3>2, <3>3, ComparisonIsNumeric
    <3>5. CASE c.op = "at_least"
      <4>1. Matches(c, fact.value) = Answer(Sign(x) >= 0)
        BY <2>2, <3>4, <3>5 DEF Matches
      <4>2. Met(c, fact) <=> x >= 0
        BY <3>2, <3>5 DEF Met
      <4> QED BY <4>1, <4>2, SignTells DEF Answer, NotMet
    <3>6. CASE c.op = "at_most"
      <4>1. Matches(c, fact.value) = Answer(Sign(x) <= 0)
        BY <2>2, <3>4, <3>6 DEF Matches
      <4>2. Met(c, fact) <=> x <= 0
        BY <3>2, <3>6 DEF Met
      <4> QED BY <4>1, <4>2, SignTells DEF Answer, NotMet
    <3> QED BY <1>4, <3>5, <3>6
  <2> QED BY <2>1, <2>2
<1> QED BY <1>1, <1>2, <1>3, <1>4

\* A valid condition answers yes, no or error.
LEMMA MatchesAnswers ==
  ASSUME NEW c, ValidCondition(c), NEW v
  PROVE  Matches(c, v) \in {"yes", "no", "error"}
BY DEF ValidCondition, Matches, Answer

\* A fact that may be asked c: well formed, and that of the whole commit when observed.
Askable(c, fact, whole) ==
  /\ ValidCondition(c) /\ IsCondition(c) /\ FactOK(fact)
  /\ fact.state = "observed" => whole = fact /\ ~Misordered(c, fact)

\* What it answers is so of the whole commit.
LEMMA AnswersAreTrue ==
  ASSUME NEW c, NEW fact, NEW whole, Askable(c, fact, whole), fact.state = "observed"
  PROVE  /\ Matches(c, fact.value) = "yes" => Met(c, whole)
         /\ Matches(c, fact.value) = "no" => NotMet(c, whole)
         /\ Matches(c, fact.value) \in {"yes", "no", "error"}
BY MatchesIsMet, MatchesAnswers DEF Askable

\* A rule passes, or fails, as its fact is.
LEMMA StatusEarned ==
  ASSUME NEW rule, NEW fact, NEW whole, Askable(rule.condition, fact, whole)
  PROVE  /\ RuleStatus(rule, fact) \in {"pass", "fail", "warning", "error", "unknown", "unavailable"}
         /\ RuleStatus(rule, fact) = "pass" => Met(rule.condition, whole)
         /\ RuleStatus(rule, fact) \in {"fail", "warning"} => NotMet(rule.condition, whole)
<1>1. CASE fact.state # "observed"
  BY <1>1 DEF RuleStatus, Askable, FactOK, States
<1>2. CASE fact.state = "observed"
  BY <1>2, AnswersAreTrue DEF RuleStatus
<1> QED BY <1>1, <1>2

\* It applies, or does not, as the fact of its selector is.
LEMMA ScopeEarned ==
  ASSUME NEW selector, NEW fact, NEW whole, Askable(selector.applicable, fact, whole),
         Askable(selector.not, fact, whole)
  PROVE  /\ Applicability(selector, fact)
              \in {"applicable", "not-applicable", "unresolved", "error", "unknown", "unavailable"}
         /\ Applicability(selector, fact) = "applicable" =>
              Met(selector.applicable, whole) /\ NotMet(selector.not, whole)
         /\ Applicability(selector, fact) = "not-applicable" =>
              NotMet(selector.applicable, whole) /\ Met(selector.not, whole)
<1>1. CASE fact.state # "observed"
  BY <1>1 DEF Applicability, Askable, FactOK, States
<1>2. CASE fact.state = "observed"
  <2>1. PICK yes \in {"yes", "no", "error"} : yes = Matches(selector.applicable, fact.value)
    BY <1>2, AnswersAreTrue
  <2>2. PICK no \in {"yes", "no", "error"} : no = Matches(selector.not, fact.value)
    BY <1>2, AnswersAreTrue
  <2>3. /\ yes = "yes" => Met(selector.applicable, whole)
        /\ yes = "no" => NotMet(selector.applicable, whole)
        /\ no = "yes" => Met(selector.not, whole)
        /\ no = "no" => NotMet(selector.not, whole)
    BY <1>2, <2>1, <2>2, AnswersAreTrue
  <2>4. Applicability(selector, fact) =
          CASE "error" \in {yes, no} \/ (yes = "yes" /\ no = "yes") -> "error"
            [] yes = "yes" /\ no = "no" -> "applicable"
            [] yes = "no" /\ no = "yes" -> "not-applicable"
            [] yes = "no" /\ no = "no" -> "unresolved"
    BY <1>2, <2>1, <2>2 DEF Applicability
  <2> QED BY <2>1, <2>2, <2>3, <2>4
<1> QED BY <1>1, <1>2

\* The areas of facts: no two kinds of artifact share a name.
LEMMA FactAreas ==
  ASSUME NEW kind \in Kinds, NEW g, NEW n \in DOMAIN Facts(kind, g)
  PROVE  /\ kind = "inventory" <=> n[1] \in {"repository", "ci"}
         /\ kind = "hooks" <=> n[1] = "hooks"
         /\ kind = "ci-environment" <=> n[1] = "ci_environment"
<1>1. CASE kind = "inventory"
  <2>1. PICK f : f = <<WorkflowsFact(g, "ci"), RepositoryFacts(g), CIAggregates(g), PerWorkflow(g),
                       PerJob(g), PerAction(g)>>
    OBVIOUS
  <2>2. n \in DOMAIN Merged(f)
    BY <1>1, <2>1 DEF Facts, InventoryFacts
  <2>3. PICK i \in 1 .. 6 : n \in DOMAIN f[i]
    BY <2>1, <2>2, MergedName
  <2>4. n[1] \in {"repository", "ci"}
    BY <2>1, <2>3, NamesOfParts
  <2> QED BY <1>1, <2>4
<1>2. CASE kind = "hooks"
  <2>1. PICK few : few = <<Identity(g, "hooks"), HooksDeclaration(g)>>
    OBVIOUS
  <2>2. PICK all : all = <<Identity(g, "hooks"), HooksDeclaration(g), Entrypoints(g),
                           RequiredChecks(g)>>
    OBVIOUS
  <2>3. n \in DOMAIN Merged(few) \/ n \in DOMAIN Merged(all)
    BY <1>2, <2>1, <2>2 DEF Facts, HooksFacts
  <2>4. (\E i \in 1 .. 2 : n \in DOMAIN few[i]) \/ (\E i \in 1 .. 4 : n \in DOMAIN all[i])
    BY <2>1, <2>2, <2>3, MergedName
  <2>5. n[1] = "hooks"
    BY <2>1, <2>2, <2>4, NamesOfParts
  <2> QED BY <1>2, <2>5
<1>3. CASE kind = "ci-environment"
  <2>1. PICK f : f = <<Identity(g, "ci_environment"), EnvDeclaration(g),
                       WorkflowsFact(g, "ci_environment"), EnvAggregates(g), EnvPerWorkflow(g),
                       EnvInputCount(g), EnvInputs(g)>>
    OBVIOUS
  <2>2. n \in DOMAIN Merged(f)
    BY <1>3, <2>1 DEF Facts, EnvFacts
  <2>3. PICK i \in 1 .. 7 : n \in DOMAIN f[i]
    BY <2>1, <2>2, MergedName
  <2>4. n[1] = "ci_environment"
    BY <2>1, <2>3, NamesOfParts
  <2> QED BY <1>3, <2>4
<1> QED BY <1>1, <1>2, <1>3 DEF Kinds

\* The facts a profile is evaluated over are well formed, and true outside the gaps.
LEMMA ReportedFactsTrue ==
  ASSUME IInv, inputs # None
  PROVE  /\ FactsOK(ReportedFacts)
         /\ \A n \in DOMAIN ReportedFacts :
              ReportedFacts[n].state = "observed" /\ ~InGap(n) =>
                n \in DOMAIN Truth /\ Truth[n] = ReportedFacts[n]
<1>1. ASSUME NEW k \in inputs.from
      PROVE  /\ k \in Kinds /\ artifacts[k].repo = inputs.repo
             /\ GoodReading(k, artifacts[k].g) /\ DOMAIN artifacts[k].g = Fields
             /\ artifacts[k].facts = Facts(k, artifacts[k].g)
  BY <1>1 DEF IInv, InputsOK, ArtifactsOK, ArtifactOK, Collected
<1>2. PICK f : f = [k \in inputs.from |-> artifacts[k].facts]
  OBVIOUS
<1>3. PICK h : h = [k \in inputs.from |-> Facts(k, Whole(artifacts[k].g))]
  OBVIOUS
<1>4. ReportedFacts = Merged(f)
  BY <1>2 DEF ReportedFacts
<1>5. Truth = Merged(h)
  <2>1. {j \in inputs.from : artifacts[j].repo = inputs.repo} = inputs.from
    BY <1>1
  <2> QED BY <1>3, <2>1 DEF Truth
<1>6. FactsOK(ReportedFacts)
  <2>1. \A k \in DOMAIN f : FactsOK(f[k])
    BY <1>1, <1>2, ArtifactFactsOK
  <2> QED BY <1>4, <2>1, MergedFactsOK
<1>7. ASSUME NEW n \in DOMAIN ReportedFacts, ReportedFacts[n].state = "observed", ~InGap(n)
      PROVE  n \in DOMAIN Truth /\ Truth[n] = ReportedFacts[n]
  <2>1. PICK k \in inputs.from : n \in DOMAIN f[k] /\ Merged(f)[n] = f[k][n]
    BY <1>2, <1>4, <1>7, MergedName
  <2>2. ~KnownGap(k, artifacts[k].g, n)
    BY <1>7, <2>1 DEF InGap
  <2>3. n \in DOMAIN h[k] /\ h[k][n] = f[k][n]
    BY <1>1, <1>2, <1>3, <1>4, <1>7, <2>1, <2>2, FactsAreSound
  <2>4. n \in DOMAIN Merged(h)
    BY <1>3, <2>1, <2>3 DEF Merged
  <2>5. PICK j \in inputs.from : n \in DOMAIN h[j] /\ Merged(h)[n] = h[j][n]
    BY <1>3, <2>4, MergedName
  <2>6. j = k
    BY <1>1, <1>3, <2>1, <2>3, <2>5, FactAreas DEF Kinds
  <2> QED BY <1>4, <1>5, <2>1, <2>3, <2>4, <2>5, <2>6
<1> QED BY <1>6, <1>7

\* The verdict on a rule, by its scope, its fact and its exceptions.
LEMMA VerdictFollows ==
  ASSUME IInv
  PROVE  VerdictIsEarned
<1> SUFFICES ASSUME report # None, NEW i \in DOMAIN report.statuses,
                    \A ask \in Asks(Profiles[report.profile].rules[i]) :
                      /\ ~InGap(ask[1])
                      /\ ~Misordered(ask[2], InputFact(Truth, ask[1]))
             PROVE  Earned(Profiles[report.profile].rules[i], report.statuses[i], Truth)
  BY DEF VerdictIsEarned
<1>1. PICK p : p = Profiles[report.profile]
  OBVIOUS
<1>2. PICK facts : facts = ReportedFacts
  OBVIOUS
<1>3. PICK asOf \in Int : asOf = report.asOf
  BY DEF IInv, ReportOK
<1>4. inputs # None /\ IsProfile(p)
  BY <1>1, PostureAssumption DEF IInv, ReportOK
<1>5. Evaluable(p, facts, asOf) /\ report.statuses = Evaluate(p, facts, asOf)
  <2>1. report.statuses = IF Evaluable(p, facts, asOf) THEN Evaluate(p, facts, asOf) ELSE <<>>
    BY <1>1, <1>2, <1>3 DEF IInv, ReportOK
  <2>2. report.statuses # <<>>
    OBVIOUS
  <2> QED BY <2>1, <2>2
<1>6. i \in DOMAIN p.rules /\ report.statuses[i] = Verdict(p, p.rules[i], facts, asOf)
  BY <1>5 DEF Evaluate
<1>7. PICK rule : rule = p.rules[i]
  OBVIOUS
<1>8. ValidRule(rule, p.version) /\ Verdict(p, rule, facts, asOf) # "error"
  BY <1>5, <1>6, <1>7 DEF Evaluable, ValidProfile
<1>9. /\ rule.selected \in BOOLEAN /\ IsCondition(rule.condition)
      /\ rule.selected => IsCondition(rule.selector.applicable) /\ IsCondition(rule.selector.not)
  BY <1>4, <1>6, <1>7 DEF IsProfile
<1>10. /\ ValidCondition(rule.condition)
       /\ rule.selected => ValidCondition(rule.selector.applicable) /\ ValidCondition(rule.selector.not)
  BY <1>8 DEF ValidRule
<1>11. ASSUME NEW c, NEW n, <<n, c>> \in Asks(rule), ValidCondition(c), IsCondition(c)
       PROVE  Askable(c, InputFact(facts, n), InputFact(Truth, n))
  <2>1. ~InGap(n) /\ ~Misordered(c, InputFact(Truth, n))
    BY <1>1, <1>7, <1>11
  <2>2. FactOK(InputFact(facts, n))
    BY <1>2, <1>4, ReportedFactsTrue, PlainFacts DEF InputFact, FactsOK
  <2>3. InputFact(facts, n).state = "observed" => InputFact(Truth, n) = InputFact(facts, n)
    BY <1>2, <1>4, <2>1, ReportedFactsTrue DEF InputFact, Unknown
  <2> QED BY <1>11, <2>1, <2>2, <2>3 DEF Askable
<1>12. Askable(rule.condition, InputFact(facts, rule.fact), InputFact(Truth, rule.fact))
  BY <1>9, <1>10, <1>11 DEF Asks
<1>13. rule.selected =>
         /\ Askable(rule.selector.applicable, InputFact(facts, rule.selector.fact),
                    InputFact(Truth, rule.selector.fact))
         /\ Askable(rule.selector.not, InputFact(facts, rule.selector.fact),
                    InputFact(Truth, rule.selector.fact))
  BY <1>9, <1>10, <1>11 DEF Asks
<1>14. PICK decision : decision = IF rule.selected
                                  THEN Applicability(rule.selector, InputFact(facts, rule.selector.fact))
                                  ELSE "applicable"
  OBVIOUS
<1>15. PICK outcome : outcome = RuleStatus(rule, InputFact(facts, rule.fact))
  OBVIOUS
<1>16. PICK status : status = report.statuses[i]
  OBVIOUS
<1>17. status = IF decision # "applicable" THEN InapplicableStatus(decision)
                ELSE IF outcome \in {"fail", "warning"} /\ Excused(p, rule, asOf) THEN "excepted"
                ELSE outcome
  BY <1>6, <1>7, <1>14, <1>15, <1>16 DEF Verdict
<1>18. /\ outcome \in {"pass", "fail", "warning", "error", "unknown", "unavailable"}
       /\ outcome = "pass" => Met(rule.condition, InputFact(Truth, rule.fact))
       /\ outcome \in {"fail", "warning"} => NotMet(rule.condition, InputFact(Truth, rule.fact))
  BY <1>12, <1>15, StatusEarned
<1>19. rule.selected =>
         /\ decision \in {"applicable", "not-applicable", "unresolved", "error", "unknown", "unavailable"}
         /\ decision = "applicable" =>
              /\ Met(rule.selector.applicable, InputFact(Truth, rule.selector.fact))
              /\ NotMet(rule.selector.not, InputFact(Truth, rule.selector.fact))
         /\ decision = "not-applicable" =>
              /\ NotMet(rule.selector.applicable, InputFact(Truth, rule.selector.fact))
              /\ Met(rule.selector.not, InputFact(Truth, rule.selector.fact))
  BY <1>13, <1>14, ScopeEarned
<1>20. Excused(p, rule, asOf) <=> \E e \in DOMAIN p.exceptions : /\ p.exceptions[e].rule = rule.id
                                                               /\ asOf <= p.exceptions[e].expires
  <2>1. \A e \in DOMAIN p.exceptions : p.exceptions[e].expires \in Int
    BY <1>4 DEF IsProfile
  <2>2. ASSUME NEW x \in Int PROVE asOf < x + 1 <=> asOf <= x
    BY <1>3
  <2> QED BY <2>1, <2>2 DEF Excused
<1>21. ~rule.selected => decision = "applicable"
  BY <1>14
<1>22. /\ status = "pass" => decision = "applicable" /\ outcome = "pass"
       /\ status \in {"fail", "warning"} =>
            decision = "applicable" /\ outcome \in {"fail", "warning"} /\ ~Excused(p, rule, asOf)
       /\ status = "excepted" =>
            decision = "applicable" /\ outcome \in {"fail", "warning"} /\ Excused(p, rule, asOf)
       /\ status = "not-applicable" => rule.selected /\ decision = "not-applicable"
  BY <1>9, <1>17, <1>18, <1>19, <1>21 DEF InapplicableStatus
<1>23. Earned(rule, status, Truth)
  BY <1>1, <1>3, <1>9, <1>18, <1>19, <1>20, <1>22 DEF Earned
<1> QED BY <1>1, <1>7, <1>16, <1>23

\* Every verdict is what full evidence gives, the facts in KnownGap and the comparisons in
\* Misordered aside.
THEOREM VerdictsAreEarned == Spec => []VerdictIsEarned
<1>1. IInv => VerdictIsEarned
  BY VerdictFollows
<1> QED BY <1>1, InvariantHolds, PTL

=============================================================================
