------------------------------ MODULE Bootstrap ------------------------------
(***************************************************************************)
(* Repository bootstrap: `init' proposes a manifest, `plan' binds a        *)
(* reviewed proposal to what the root looks like, `apply' creates the      *)
(* manifest from it, once (internal/bootstrap/bootstrap.go).               *)
(*                                                                         *)
(* Every process runs one command over one root, a file system call at a   *)
(* time, between the calls of the others and the edits of people, and may  *)
(* be killed.  A file is what it contains: a SHA-256 digest identifies a   *)
(* content with itself.  A manifest is the set of its decisions.           *)
(***************************************************************************)
EXTENDS Integers, Sequences

CONSTANTS
  Processes,
  Commands,     \* Commands[p]: what process p may be started as
  Others,       \* the observed root files beside the two manifests, a sequence
  Workflows,    \* names of the .yml files of .github/workflows
  Texts,        \* contents the files can be given by people
  Initial,      \* initial contents: functions from Files to Texts
  MaxEdits      \* bound on the edits people make

Target == "bootstrap.json"              \* DefaultManifestPath
Proposal == "bootstrap.proposed.json"   \* DefaultProposalPath
Input == "input"                        \* a proposal kept outside the root

Watched == <<Target, Proposal>> \o Others
Range(s) == {s[i] : i \in DOMAIN s}
Files == Range(Watched) \cup Workflows \cup {Input}
Observed == Files \ {Input}
Nobody == "nobody"

Content(is, sources, decisions) == [is |-> is, sources |-> sources, decisions |-> decisions]
Absent == Content("absent", {}, {})
Torn == Content("torn", {}, {})             \* empty or partly written
Directory == Content("directory", {}, {})   \* exists and is not a regular file

------------------------------------------------------------------------------
(* Manifests: a decision has a key, a state, a value, a provenance         *)
(* authority and a note (question or reason).                              *)

StringKeys ==
  {"repository.name", "repository.purpose", "project.identity",
   "repository.classification", "repository.maturity", "repository.license",
   "repository.sourceExposure", "repository.role", "repository.distributionMode",
   "repository.topology", "implementation.language", "implementation.runtime",
   "implementation.buildSystem", "implementation.packageManager",
   "delivery.ciProvider", "delivery.releaseModel", "delivery.distribution",
   "security.profile"}
BoolKeys ==
  {"interface.cli", "interface.service", "interface.library", "interface.website",
   "interface.mobile"}
Visibility == "repository.visibility"
DefaultBranch == "repository.defaultBranch"

\* The pinned organization policy is the authority "pinned-policy"; any other
\* subject or reference of an organization policy is "organization-policy".
Authorities == {"human", "organization-policy", "pinned-policy", "project-policy"}

ValidValue(key, v) ==
  CASE key = Visibility    -> v = "public"
    [] key = DefaultBranch -> v \in {"main", "word", "public"}
    [] key \in BoolKeys    -> v = "true"
    [] key \in StringKeys  -> v \in {"main", "word", "public", "two words"}
    [] OTHER               -> FALSE

ValidDecision(d) ==
  CASE d.state = "resolved"       -> d.authority \in Authorities /\ d.note = "none"
                                     /\ ValidValue(d.key, d.value)
    [] d.state = "unresolved"     -> d.value = "none" /\ d.authority = "none"
                                     /\ d.note # "reason"
    [] d.state = "not-applicable" -> d.value = "none" /\ d.note = "reason"
                                     /\ d.authority \in Authorities
    [] OTHER                      -> FALSE

\* Manifest.Validate: one valid decision for each key it decides.
ValidManifest(c) ==
  /\ c.is = "manifest"
  /\ c.decisions # {}
  /\ \A s \in c.sources : s.authority \in {"organization-policy", "project-policy"}
                          /\ s.reference # ""
  /\ \A d, e \in c.decisions : d.key = e.key => d = e
  /\ \A d \in c.decisions : ValidDecision(d)

Unresolved(key) ==
  [key |-> key, state |-> "unresolved", value |-> "none", authority |-> "none",
   note |-> "question"]
DefaultManifest == Content("manifest", {},
  {Unresolved(k) : k \in StringKeys \cup BoolKeys \cup {Visibility}}
  \cup {[key |-> DefaultBranch, state |-> "resolved", value |-> "main",
         authority |-> "pinned-policy", note |-> "none"]})

UnresolvedKeys(m) == {d.key : d \in {e \in m.decisions : e.state = "unresolved"}}

\* VerifyAuthority: a claim for every decision taken; only the default branch
\* of the pinned policy is verified.
Verified(d) ==
  d.key = DefaultBranch /\ d.state = "resolved" /\ d.authority = "pinned-policy"
  /\ d.value = "main"
AuthorityClaims(m) ==
  {[key |-> d.key, authority |-> d.authority, verified |-> Verified(d)] :
     d \in {e \in m.decisions : e.state \in {"resolved", "not-applicable"}}}

CIApplicability(m) ==
  IF \E d \in m.decisions : d.key = "delivery.ciProvider" /\ d.state = "resolved"
  THEN "applicable"
  ELSE IF \E d \in m.decisions : d.key = "delivery.ciProvider" /\ d.state = "not-applicable"
  THEN "not-applicable" ELSE "unresolved"

Capabilities ==
  {[type |-> "PROVIDER_CREATE", keys |-> {"repository.name", Visibility, "repository.purpose"}],
   [type |-> "WRITE_LICENSE", keys |-> {"repository.license"}],
   [type |-> "SCAFFOLD_IMPLEMENTATION",
    keys |-> {"implementation.language", "implementation.buildSystem"}],
   [type |-> "CONFIGURE_RELEASE", keys |-> {"delivery.releaseModel", "delivery.distribution"}],
   [type |-> "CONFIGURE_FLAKE_FIRST_CI", keys |-> {"delivery.ciProvider"}]}

\* decisionBlockers: the keys each capability still lacks, and why.
Decided(m) == {d.key : d \in m.decisions} \ UnresolvedKeys(m)
VerifiedKeys(m) == {c.key : c \in {k \in AuthorityClaims(m) : k.verified}}
Blocker(m, capability) ==
  [type |-> capability.type,
   missing |-> capability.keys \ Decided(m),
   unverified |-> (capability.keys \cap Decided(m)) \ VerifiedKeys(m),
   ci |-> IF capability.type = "CONFIGURE_FLAKE_FIRST_CI" THEN CIApplicability(m) ELSE "none"]
DecisionBlockers(m) == {Blocker(m, c) : c \in Capabilities}

TargetDiffers ==
  [type |-> "WRITE_BOOTSTRAP_MANIFEST", missing |-> {}, unverified |-> {}, ci |-> "none"]

------------------------------------------------------------------------------
VARIABLES
  content,    \* what each file holds
  parent,     \* .repora exists
  holder,     \* the process that has a file open after its create-only open
  plans,      \* exported plan artifacts
  pc, cmd,    \* step and command of each process
  cursor,     \* position in Watched
  pending,    \* workflow files listed and not yet read
  seen,       \* the observations of an inspection
  plan,       \* the plan a process builds or applies
  data,       \* the bytes it read from the manifest input, or is to write
  outcome,    \* Outcome of the ApplyResult
  exit,       \* exit status, -1 while running
  made,       \* the files a process created and did not remove
  held,       \* history: what the target has held
  kept,       \* history: appliers that created the target nobody edited since
  edits

disk == <<content, parent, holder>>
history == <<made, held, kept, edits>>
local == <<cursor, pending, seen, plan, data>>
vars == <<disk, plans, pc, cmd, local, outcome, exit, history>>

NoPlan == [path |-> "none"]
Nothing == [f \in Observed |-> Absent]
Paths == {Proposal, Input}

ASSUME BootstrapAssumption ==
  /\ Nobody \notin Processes
  /\ Commands \in [Processes -> SUBSET {"inspect", "plan", "apply", "init"}]
  /\ Others \in Seq(STRING) /\ Workflows \subseteq STRING
  /\ Range(Others) \cap {Target, Proposal, Input} = {}
  /\ Workflows \cap ({Target, Proposal, Input} \cup Range(Others)) = {}
  /\ {Absent, Torn, DefaultManifest} \subseteq Texts
  /\ Initial \subseteq [Files -> Texts]
  /\ MaxEdits \in Nat

Init ==
  /\ content \in Initial
  /\ parent = (\E f \in {Target, Proposal} : content[f] # Absent)
  /\ holder = [f \in Files |-> Nobody]
  /\ plans = {}
  /\ pc = [p \in Processes |-> "idle"] /\ cmd = [p \in Processes |-> "none"]
  /\ cursor = [p \in Processes |-> 1] /\ pending = [p \in Processes |-> {}]
  /\ seen = [p \in Processes |-> Nothing]
  /\ plan = [p \in Processes |-> NoPlan] /\ data = [p \in Processes |-> Absent]
  /\ outcome = [p \in Processes |-> "none"] /\ exit = [p \in Processes |-> -1]
  /\ made = [p \in Processes |-> {}] /\ kept = {} /\ held = {content[Target]}
  /\ edits = 0

Goto(p, step) == pc' = [pc EXCEPT ![p] = step]
Exit(p, code) == Goto(p, "done") /\ exit' = [exit EXCEPT ![p] = code]
Stale(p) == Exit(p, 2)       \* an error that wraps ErrStale
Refuse(p) == Exit(p, 1)
Running(p) == pc[p] \notin {"idle", "done", "killed"}

------------------------------------------------------------------------------
(* Commands                                                                *)

Start(p, c, step) ==
  /\ pc[p] = "idle" /\ c \in Commands[p]
  /\ cmd' = [cmd EXCEPT ![p] = c]
  /\ Goto(p, step)

StartInspect(p) ==
  /\ Start(p, "inspect", "observe")
  /\ UNCHANGED <<disk, plans, local, outcome, exit, history>>

\* runBootstrapPlan: the proposal of the root, or the file --manifest names.
StartPlan(p) ==
  /\ \E path \in Paths : plan' = [plan EXCEPT ![p] = [path |-> path]]
  /\ Start(p, "plan", "observe")
  /\ UNCHANGED <<disk, plans, cursor, pending, seen, data, outcome, exit, history>>

\* runBootstrapApply: only an exact exported plan.
StartApply(p) ==
  /\ \E a \in plans : plan' = [plan EXCEPT ![p] = a]
  /\ outcome' = [outcome EXCEPT ![p] = "blocked"]
  /\ Start(p, "apply", "observe")
  /\ UNCHANGED <<disk, plans, cursor, pending, seen, data, exit, history>>

\* Init makes the parent directory, unless it is there.
StartInit(p) ==
  /\ Start(p, "init", "create")
  /\ parent' = TRUE
  /\ data' = [data EXCEPT ![p] = DefaultManifest]
  /\ UNCHANGED <<content, holder, plans, cursor, pending, seen, plan, outcome, exit,
                 history>>

------------------------------------------------------------------------------
(* Inspection                                                              *)

\* The error of an inspection is one of stale evidence for apply only.
InspectionFails(p) == IF cmd[p] = "apply" THEN Stale(p) ELSE Refuse(p)

ObserveFile(p) ==
  /\ pc[p] = "observe" /\ cursor[p] \in DOMAIN Watched
  /\ LET f == Watched[cursor[p]]
     IN  IF content[f] = Directory
         THEN InspectionFails(p) /\ UNCHANGED <<cursor, seen>>
         ELSE /\ seen' = [seen EXCEPT ![p][f] = content[f]]
              /\ cursor' = [cursor EXCEPT ![p] = @ + 1]
              /\ UNCHANGED <<pc, exit>>
  /\ UNCHANGED <<disk, plans, cmd, pending, plan, data, outcome, history>>

\* observeRootWorkflows: the names first, then one file after the other.
ListWorkflows(p) ==
  /\ pc[p] = "observe" /\ cursor[p] \notin DOMAIN Watched
  /\ pending' = [pending EXCEPT ![p] = {w \in Workflows : content[w] \notin {Absent, Directory}}]
  /\ Goto(p, "workflows")
  /\ UNCHANGED <<disk, plans, cmd, cursor, seen, plan, data, outcome, exit, history>>

ReadWorkflow(p) ==
  /\ pc[p] = "workflows"
  /\ \E w \in pending[p] :
       IF content[w] \in {Absent, Directory}
       THEN InspectionFails(p) /\ UNCHANGED <<seen, pending>>
       ELSE /\ seen' = [seen EXCEPT ![p][w] = content[w]]
            /\ pending' = [pending EXCEPT ![p] = @ \ {w}]
            /\ UNCHANGED <<pc, exit>>
  /\ UNCHANGED <<disk, plans, cmd, cursor, plan, data, outcome, history>>

Inspected(p) == pc[p] = "workflows" /\ pending[p] = {}

ReportInspection(p) ==
  /\ Inspected(p) /\ cmd[p] = "inspect"
  /\ Exit(p, 0)
  /\ UNCHANGED <<disk, plans, cmd, local, outcome, history>>

\* Apply compares the snapshot with that of the plan before anything else.
SnapshotChanged(p) ==
  /\ Inspected(p) /\ cmd[p] = "apply" /\ seen[p] # plan[p].snapshot
  /\ Stale(p)
  /\ UNCHANGED <<disk, plans, cmd, local, outcome, history>>

------------------------------------------------------------------------------
(* The manifest input: looked at, then read                                *)

LookAtInput(p) ==
  /\ Inspected(p)
  /\ cmd[p] = "plan" \/ (cmd[p] = "apply" /\ seen[p] = plan[p].snapshot)
  /\ CASE content[plan[p].path] = Absent -> Refuse(p)
       [] content[plan[p].path] = Directory -> InspectionFails(p)
       [] OTHER -> Goto(p, "read") /\ UNCHANGED exit
  /\ UNCHANGED <<disk, plans, cmd, local, outcome, history>>

\* Mutant: the bytes are bound as they are, without ParseManifest.
ReadInputUnparsed(p) ==
  /\ pc[p] = "read"
  /\ LET c == content[plan[p].path]
     IN  /\ data' = [data EXCEPT ![p] = c]
         /\ CASE c \in {Absent, Directory} -> Refuse(p)
              [] c \notin {Absent, Directory} /\ cmd[p] = "apply" /\ c # plan[p].manifest
                   -> Stale(p)
              [] OTHER -> Goto(p, "evaluate") /\ UNCHANGED exit
  /\ UNCHANGED <<disk, plans, cmd, cursor, pending, seen, plan, outcome, history>>

\* Plan and apply parse what they read; apply asks first whether it is what
\* the plan binds.
ReadInput(p) ==
  /\ pc[p] = "read"
  /\ LET c == content[plan[p].path]
     IN  /\ data' = [data EXCEPT ![p] = c]
         /\ CASE c \in {Absent, Directory} -> Refuse(p)
              [] c \notin {Absent, Directory} /\ cmd[p] = "apply" /\ c # plan[p].manifest
                   -> Stale(p)
              [] c \notin {Absent, Directory} /\ (cmd[p] = "apply" => c = plan[p].manifest)
                   -> IF ValidManifest(c)
                      THEN Goto(p, "evaluate") /\ UNCHANGED exit
                      ELSE Refuse(p)
  /\ UNCHANGED <<disk, plans, cmd, cursor, pending, seen, plan, outcome, history>>

------------------------------------------------------------------------------
(* Planning: what the manifest says, and whether the target is there.  The *)
(* target is read again, after the inspection.                             *)

PlanOf(p, write, differs) ==
  [path |-> plan[p].path, snapshot |-> seen[p], manifest |-> data[p],
   ci |-> CIApplicability(data[p]), claims |-> AuthorityClaims(data[p]),
   unresolved |-> UnresolvedKeys(data[p]), write |-> write,
   blocked |-> DecisionBlockers(data[p]) \cup (IF differs THEN {TargetDiffers} ELSE {})]

Export(p, a) ==
  /\ plans' = plans \cup {a} /\ plan' = [plan EXCEPT ![p] = a]
  /\ Exit(p, 0)

\* Mutant: a target that is there counts as done.
BuildPlanByPresence(p) ==
  /\ pc[p] = "evaluate" /\ cmd[p] = "plan"
  /\ Export(p, PlanOf(p, seen[p][Target] = Absent, FALSE))
  /\ UNCHANGED <<disk, cmd, cursor, pending, seen, data, outcome, history>>

BuildPlan(p) ==
  /\ pc[p] = "evaluate" /\ cmd[p] = "plan"
  /\ IF seen[p][Target] = Absent
     THEN Export(p, PlanOf(p, TRUE, FALSE))
     ELSE IF content[Target] \in {Absent, Directory}
     THEN Refuse(p) /\ UNCHANGED <<plans, plan>>
     ELSE Export(p, PlanOf(p, FALSE, content[Target] # data[p]))
  /\ UNCHANGED <<disk, cmd, cursor, pending, seen, data, outcome, history>>

------------------------------------------------------------------------------
(* Apply                                                                   *)

\* What a plan says beside its snapshot must follow from the manifest alone.
Follows(a, m) ==
  /\ a.claims = AuthorityClaims(m) /\ a.ci = CIApplicability(m)
  /\ a.unresolved = UnresolvedKeys(m) /\ a.blocked = DecisionBlockers(m)

Revalidate(p) ==
  /\ pc[p] = "evaluate" /\ cmd[p] = "apply"
  /\ CASE ~Follows(plan[p], data[p]) -> Stale(p) /\ UNCHANGED outcome
       [] Follows(plan[p], data[p]) /\ ~plan[p].write
            -> Exit(p, 0) /\ outcome' = [outcome EXCEPT ![p] = "no-op"]
       [] Follows(plan[p], data[p]) /\ plan[p].write
            -> Goto(p, "create") /\ UNCHANGED <<exit, outcome>>
  /\ UNCHANGED <<disk, plans, cmd, local, history>>

------------------------------------------------------------------------------
(* Create-only writes: open with O_EXCL, write, sync (apply only), close;  *)
(* a file that cannot be written is removed again.                         *)

Goal(p) == IF cmd[p] = "init" THEN Proposal ELSE Target

\* Mutant: opened without O_EXCL.
CreateOrTruncate(p) ==
  /\ pc[p] = "create"
  /\ IF parent /\ content[Goal(p)] # Directory
     THEN /\ content' = [content EXCEPT ![Goal(p)] = Torn]
          /\ holder' = [holder EXCEPT ![Goal(p)] = p]
          /\ made' = [made EXCEPT ![p] = @ \cup {Goal(p)}]
          /\ held' = IF Goal(p) = Target THEN held \cup {Torn} ELSE held
          /\ Goto(p, "write") /\ UNCHANGED exit
     ELSE InspectionFails(p) /\ UNCHANGED <<content, holder, made, held>>
  /\ UNCHANGED <<parent, plans, cmd, local, outcome, kept, edits>>

Create(p) ==
  /\ pc[p] = "create"
  /\ IF parent /\ content[Goal(p)] = Absent
     THEN /\ content' = [content EXCEPT ![Goal(p)] = Torn]
          /\ holder' = [holder EXCEPT ![Goal(p)] = p]
          /\ made' = [made EXCEPT ![p] = @ \cup {Goal(p)}]
          /\ held' = IF Goal(p) = Target THEN held \cup {Torn} ELSE held
          /\ Goto(p, "write") /\ UNCHANGED exit
     ELSE InspectionFails(p) /\ UNCHANGED <<content, holder, made, held>>
  /\ UNCHANGED <<parent, plans, cmd, local, outcome, kept, edits>>

Write(p) ==
  /\ pc[p] = "write"
  /\ \/ /\ content' = [content EXCEPT ![Goal(p)] = data[p]]
        /\ held' = IF Goal(p) = Target THEN held \cup {data[p]} ELSE held
        /\ Goto(p, IF cmd[p] = "apply" THEN "sync" ELSE "close")
     \/ Goto(p, "remove") /\ UNCHANGED <<content, held>>
  /\ UNCHANGED <<parent, holder, plans, cmd, local, outcome, exit, made, kept, edits>>

Sync(p) ==
  /\ pc[p] = "sync"
  /\ Goto(p, "close") \/ Goto(p, "remove")
  /\ UNCHANGED <<disk, plans, cmd, local, outcome, exit, history>>

Created(p) ==
  IF cmd[p] = "apply"
  THEN outcome' = [outcome EXCEPT ![p] = "created"] /\ kept' = kept \cup {p}
  ELSE UNCHANGED <<outcome, kept>>

\* A close that fails reports an error and leaves the file.
Close(p) ==
  /\ pc[p] = "close"
  /\ holder' = [holder EXCEPT ![Goal(p)] = Nobody]
  /\ \/ Exit(p, 0) /\ Created(p)
     \/ Refuse(p) /\ UNCHANGED <<outcome, kept>>
  /\ UNCHANGED <<content, parent, plans, cmd, local, made, held, edits>>

\* Mutant: a write that fails is reported like evidence that changed.
RemoveAsStale(p) ==
  /\ pc[p] = "remove"
  /\ holder' = [holder EXCEPT ![Goal(p)] = Nobody]
  /\ \/ /\ content' = [content EXCEPT ![Goal(p)] = Absent]
        /\ made' = [made EXCEPT ![p] = @ \ {Goal(p)}]
        /\ held' = IF Goal(p) = Target THEN held \cup {Absent} ELSE held
     \/ UNCHANGED <<content, made, held>>
  /\ Stale(p)
  /\ UNCHANGED <<parent, plans, cmd, local, outcome, kept, edits>>

\* The removal after a failed write: its own failure is ignored.
Remove(p) ==
  /\ pc[p] = "remove"
  /\ holder' = [holder EXCEPT ![Goal(p)] = Nobody]
  /\ \/ /\ content' = [content EXCEPT ![Goal(p)] = Absent]
        /\ made' = [made EXCEPT ![p] = @ \ {Goal(p)}]
        /\ held' = IF Goal(p) = Target THEN held \cup {Absent} ELSE held
     \/ UNCHANGED <<content, made, held>>
  /\ Refuse(p)
  /\ UNCHANGED <<parent, plans, cmd, local, outcome, kept, edits>>

------------------------------------------------------------------------------
(* The world around                                                        *)

\* People edit, create and delete files, except one that is being created.
Edit ==
  /\ edits < MaxEdits
  /\ \E f \in Files : \E c \in Texts :
       /\ holder[f] = Nobody /\ content[f] # c
       /\ content' = [content EXCEPT ![f] = c]
       /\ parent' = (parent \/ (f \in {Target, Proposal}))
       /\ held' = IF f = Target THEN held \cup {c} ELSE held
       /\ kept' = IF f = Target THEN {} ELSE kept
  /\ edits' = edits + 1
  /\ UNCHANGED <<holder, plans, pc, cmd, local, outcome, exit, made>>

\* A kill closes what the process had open and leaves its contents.
Kill(p) ==
  /\ Running(p)
  /\ Goto(p, "killed")
  /\ holder' = [f \in Files |-> IF holder[f] = p THEN Nobody ELSE holder[f]]
  /\ UNCHANGED <<content, parent, plans, cmd, local, outcome, exit, history>>

Step(p) ==
  \/ StartInspect(p) \/ StartPlan(p) \/ StartApply(p) \/ StartInit(p)
  \/ ObserveFile(p) \/ ListWorkflows(p) \/ ReadWorkflow(p)
  \/ ReportInspection(p) \/ SnapshotChanged(p) \/ LookAtInput(p) \/ ReadInput(p)
  \/ BuildPlan(p) \/ Revalidate(p)
  \/ Create(p) \/ Write(p) \/ Sync(p) \/ Close(p) \/ Remove(p) \/ Kill(p)

Next == Edit \/ \E p \in Processes : Step(p)
Spec == Init /\ [][Next]_vars

------------------------------------------------------------------------------
(* Properties                                                              *)

Steps == {"idle", "observe", "workflows", "read", "evaluate", "create", "write", "sync",
          "close", "remove", "done", "killed"}
Contents == Texts \cup {Directory}
Artifacts ==
  [path : Paths, snapshot : [Observed -> Texts], manifest : Texts,
   ci : {"applicable", "not-applicable", "unresolved"},
   claims : SUBSET [key : STRING, authority : STRING, verified : BOOLEAN],
   unresolved : SUBSET STRING, write : BOOLEAN,
   blocked : SUBSET [type : STRING, missing : SUBSET STRING, unverified : SUBSET STRING,
                     ci : STRING]]

HeldByWriters ==
  \A f \in Files : holder[f] # Nobody =>
    f = Goal(holder[f]) /\ pc[holder[f]] \in {"write", "sync", "close", "remove"}

\* Every variable keeps its type: in particular a plan never binds an input
\* that is not there, and only a process on its way through a create-only
\* write holds a file.
TypeOK ==
  /\ content \in [Files -> Texts] /\ parent \in BOOLEAN
  /\ holder \in [Files -> Processes \cup {Nobody}]
  /\ pc \in [Processes -> Steps]
  /\ cmd \in [Processes -> {"none", "inspect", "plan", "apply", "init"}]
  /\ cursor \in [Processes -> 1 .. Len(Watched) + 1]
  /\ pending \in [Processes -> SUBSET Workflows]
  /\ seen \in [Processes -> [Observed -> Texts]]
  /\ DOMAIN plan = Processes
  /\ \A p \in Processes : plan[p].path \in Paths \cup {"none"}
  /\ data \in [Processes -> Texts]
  /\ outcome \in [Processes -> {"none", "blocked", "no-op", "created"}]
  /\ exit \in [Processes -> {-1, 0, 1, 2}]
  /\ made \in [Processes -> SUBSET Files]
  /\ edits \in 0 .. MaxEdits
  /\ \A a \in plans : a.path \in Paths /\ a.snapshot \in [Observed -> Texts]
                      /\ ValidManifest(a.manifest)
  /\ HeldByWriters

\* "created" means that the target holds the manifest the plan bound, which
\* parses, and that no other process created or destroyed it since; it holds as
\* long as no person touches the file.  "no-op" means that the target held the
\* manifest the plan bound.  The fsync, the removal after a failed write and
\* the second read of the target in BuildPlan are what it rests on.
OutcomeIsTrue ==
  /\ \A p \in kept : content[Target] = plan[p].manifest /\ ValidManifest(plan[p].manifest)
  /\ \A p, q \in kept : p = q
  /\ \A p \in Processes : outcome[p] = "no-op" => plan[p].manifest \in held

\* A command that exits with status 2 created nothing that is still there, and
\* one that is still running has created at most the file it has open.
StaleTouchesNothing ==
  \A p \in Processes :
    /\ exit[p] = 2 => made[p] = {}
    /\ Running(p) => \A f \in made[p] : holder[f] = p

\* Commands only create: apart from people's edits a file changes only if it
\* was absent, or in the hands of the process that created it.
CreateOnly ==
  [][ edits' = edits =>
        \A f \in Files : content'[f] # content[f] =>
          content[f] = Absent \/ holder[f] # Nobody ]_vars
=============================================================================
