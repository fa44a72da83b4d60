# TLA+ models and proofs for Repora (`repoctl`)

`repoctl` keeps mirrors of Git repositories in line with a canonical remote. It
observes both sides through a local bare cache, turns the difference into an
exact, reviewable plan, and applies the plan between an immutable INTENT and a
RESULT record in a journal. It also plans and applies managed README files in
the canonical repositories, bootstraps repository skeletons, and evaluates
posture facts against policies.

This directory holds TLA+ models of the parts that change something outside the
process and of the evaluation of posture, the TLC configurations that check them,
and proofs checked by TLAPS.
Paths below are relative to the repository.

    tlc -workers 2 -config MirrorApplyReviewed.cfg MCMirrorApply
    tlapm MirrorApplyProofs.tla

## 1. Inventory

### Components

| Component | Code | State | Operations | Must be correct |
|---|---|---|---|---|
| Status observation | `internal/status` | none; writes the cache's tracking refs | `Check`, `CheckAll`: fetch, set-head, rev-list per mirror | the state it reports is used later, as authority to overwrite: it must match the object IDs planned beside it |
| Ref policy | `internal/refpolicy` | none | `Decide`, `ValidateDefaultBranches` | AHEAD and DIVERGED need force, only default branches are touched |
| Planning, authorization | `internal/plan`, `internal/apply` | none; reads the cache | `BuildArtifact`, `BuildRepositoryArtifact`, force gates, validation against fresh state | a plan built earlier, or elsewhere, only runs if it still says what the present state asks for |
| Plan artifact | `internal/planartifact` | a file the operator keeps | marshal, parse, validate | what is reviewed is what is executed |
| Executor | `internal/executor` | none; pushes | preflight of all actions, then one push each | nothing is attempted if anything is stale; partial failure is reported as it is |
| Audited execution | `internal/apply/audit.go`, `multi_execute.go` | journal records | INTENT, execute, RESULT | no mutation without an INTENT; exit 0 only when everything is done and recorded |
| Journal | `internal/journal` | files in `.repora/journal` | `Write`, `WriteManagedArtifact` | write-once, whole, durable once reported |
| Managed README | `internal/managedartifact`, `managedartifactapply` | none; canonical branches, cache, journal | plan, preflight, commit, push, RESULT | the one reviewed change, on the reviewed base; honest evidence |
| Command scheduling | `cmd/repoctl` | goroutines, channels | `status`, `plan`, `apply` over many repositories | all prepared before any is mutated; results not mixed up; exit status; no deadlock |
| Shared Git cache | `internal/git` | bare repositories `<uid>.git` | `EnsureMirror`, `ConfigureRemote`, fetch, push, 30 s limit | shared by every execution, without a lock |
| Configuration, identity, resolver | `internal/config`, `internal/transport` | none | load, validate, resolve | unique identities and targets |
| Bootstrap | `internal/bootstrap` | `.repora/bootstrap.json` and its proposal | init, inspect, plan, apply | creates only, never overwrites; a stale plan leaves nothing; outcomes are true |
| Posture collectors | `internal/posture` | none; reads a provider's API | collect facts into an artifact | what was not seen is unknown or unavailable, never false |
| Posture policy | `internal/posturepolicy` | none | converge artifacts, evaluate a profile | no verdict without full evidence for it |
| Assessment reports | `internal/assessment` | none | validate, render | text only |
| Schemas, CI and release scripts | `schemas`, `scripts` | none | | outside the program |

### How they interact

A command is one process. `main.run` loads the configuration and fans out one
goroutine per repository through a counting semaphore; each calls the status
observation, which calls Git in the repository's bare cache. The results come
back over a buffered channel and are stored by index. `apply` then gates on all
of them, and fans out again: each goroutine runs one audited execution (planning
for the single-mirror commands, validation, INTENT, preflight, pushes, RESULT).
`plan --artifact` exports a plan and `apply --plan-file` imports it, possibly
much later. `plan-readme` and `apply-readme` work through the repositories one
after the other, in one goroutine. `bootstrap plan` binds a proposal to the state of
a root, `bootstrap apply` creates the manifest from it later. `posture inventory`,
`hooks` and `ci-environment` write artifacts, `posture converge` merges those of one
repository, `posture report` evaluates a profile over the result. Two commands started by two people, or by a
person and a scheduler, share the cache, the remotes and the journal directory;
they communicate by nothing else and lock nothing.

### What is hard here

* **Interleaving** of executions in one cache. A fetch of one changes the
  tracking refs another has planned from, validated, or is about to push.
* **Time between review and use.** An artifact can be applied after the
  canonical branch, the mirror, or either default branch has moved.
* **Unknown outcomes.** A Git client is killed after 30 seconds
  (`internal/git/git.go:18-21`); its update may land afterwards.
* **Crashes** between INTENT, the pushes and RESULT, and records whose write
  reports an error after publication.
* **Partial failure** of several pushes, and the vocabulary that reports it.
* **Power loss** and what fsync, link and unlink guarantee.
* **The pool**: semaphore, bounded channel, wait group, closer.
* **A cache without a lock** that executions probe, delete, clone and rebind.
* **Files that appear** between an inspection and a create-only write.
* **Partial evidence**: unavailable reads, cut trees, files too long to inspect, and
  a repository that changes between the reads that are merged into one verdict.

The list with its lines, and the properties aimed at each, is under "hazards" in
`PROJECT.json`.

## 2. Modules

| Module | Models | Composed with |
|---|---|---|
| `MirrorApply` | one repository entry: `status`, `plan`, `apply` executions over one cache | refines `AuditedExecution` |
| `AuditedExecution` | abstract: INTENT, at most one attempt per target, RESULT | instantiated by `MirrorApply` and `ManagedReadme` |
| `MirrorApplyProofs` | theorems about `MirrorApply` | |
| `JournalStore` | `Writer.writeEncoded` over a file system that loses power | refines `EvidenceStore` |
| `EvidenceStore` | abstract: a write-once store with assured records | instantiated by `JournalStore` |
| `JournalStoreProofs` | theorems about `JournalStore` | |
| `ManagedReadme` | `plan-readme`, `apply-readme` | refines `AuditedExecution` |
| `ManagedReadmeProofs` | theorems about `ManagedReadme` | |
| `BatchCommand` | one `status`, `plan` or `apply` command over many repositories | uses the outcome of `MirrorApply` as data |
| `BatchCommandProofs` | theorems about `BatchCommand` | |
| `MirrorCache` | the shared bare cache: making it usable, remote names, tracking refs, pushes by name | below `MirrorApply`, which starts with a cache |
| `MirrorCacheProofs` | theorems about `MirrorCache` | |
| `Bootstrap` | `bootstrap init`, `inspect`, `plan`, `apply` over one root | |
| `BootstrapProofs` | theorems about `Bootstrap` | |
| `Posture` | collectors, convergence, evaluation, end to end | over the next five |
| `PostureInventory`, `HooksPosture`, `CIEnvironmentPosture` | operators: what each collector makes of what it read, and its policy inputs | extend one another |
| `PosturePolicy` | operators: profiles, conditions, applicability, exceptions, verdicts | extends `Decimal` |
| `Decimal` | operators: exact comparison of JSON numbers, and what a numeral denotes | |
| `DecimalProofs` | theorem about `Decimal` | |
| `PostureProofs` | theorems about `Posture` and its operators | extends `DecimalProofs` |
| `MC...` | constants for TLC | |

`MirrorApply` is the centre. `BatchCommand` is the layer above it: what
`MirrorApply` does inside one repository is an outcome there. `JournalStore` is
the layer below: what its theorems say (a record is published once, or the call
reports an error and may or may not have published) is how `MirrorApply` and
`ManagedReadme` write a record.

### MirrorApply

State: `refs` and `head` are the branches and the default branch at the
providers; `track` and `trackHead` are `refs/remotes/<remote>/...` in the
cache; `inflight` holds updates sent by a client that was then killed;
`artifacts` are exported plans; `journal` the published records. Per execution:
`pc` and `cur` (the step, and the mirror it works on), the command line
(`mode`, `force`, `imported`), and the local variables of the code (`observed`,
`branch`, `sourceOID`, `planned`, `outcome`, `exit`). `written`, `served` and
`after` are history that only properties read.

A commit is a model value and history is a relation `Anc`, reflexive and
transitive. `RevListLeftRightCount` counts with it as Git does.

| Steps (`pc`) | Code |
|---|---|
| `fetch`, `head`, `compare` | `status.Check` when there is one mirror (both fetches, then both heads), `CheckAll` with several (remote after remote); `AfterFetch`, `AfterSetHead`, `AfterMirror` are the two orders |
| `observed` | the command decides: exit 1 if a mirror could not be observed, `status` exits 0 or 2 |
| `planhead`, `planmirror` | `buildRepositoryPlan`: the head, then per mirror the decision (from the observed state) and the object IDs (from the cache as it is now); the source is resolved once |
| `export` | `plan --artifact` |
| `authorize` | `ArtifactRequiresForce` / `IsUnsafe` against `--force` |
| `validate` | `validateRepositoryArtifact`, `validateStateIntent`, `validateBoundDefaultBranches` |
| `intent` | `FromPlan`, `Writer.Write` |
| `preflight` | `preflightPlan`, one mirror per step, all before the first push |
| `push` | `ExecuteWithBindings` / `executePlan`, one push per step, continuing after a failure |
| `result` | `persistPreflightResult`, `persistExecutionResult`, exit status |

`PathBound` is the set of executions of the path-bound commands; the others are of
the single-mirror commands, which order the same steps differently: the
convenience `apply` passes its gate on the observed state before it plans. Which
ones a repository with a single mirror gets depends on the other repositories
selected with it, so executions of both kinds meet in its cache. Failures are
alternatives of the same action or actions of their own (`ObserveFails`,
`PreparationFails`, `PushFails`, `PushTimesOut`). `Crash` kills an execution
between any two steps. `Environment` moves refs and default branches and lands or
loses the updates in flight.

One step is one Git command that reaches the network, or one group of local
reads for one mirror. The reads of a group (a rev-list, two rev-parse) are
atomic in the model; `EnsureMirror` and `ConfigureRemote` are taken as already
done, and an alias (`mirror`, `mirror-2`) as bound to its endpoint: `MirrorCache`
is about those. Every branch
of the model exists at every remote, so "branch missing" is one of the failures
that `ObserveFails` stands for.

### JournalStore

A file is identified with the call that created it. `temp`, `final` and `depth`
are what processes see, `tempKept`, `finalKept` and `depthKept` what a power loss
spares; `data` and `dataKept` are how much of the record the file holds. Each
step of `writeEncoded` is an action with its error branch, the deferred clean-up
(`Discard`) included. `PowerLoss` stops all processes and keeps an arbitrary part of
what was not synced, entry by entry. `FsyncParents` is the one question POSIX
leaves open that matters here: whether an fsync of a new file also makes the
directories above it durable. Several journaling file systems do so; the standard
does not ask for it.

### ManagedReadme

A commit is identified with its history, the sequence of changes up to it, so an
append is `Append` and "nothing foreign was lost" is `Front`. A session plans (or
imports an exported plan) and then applies or dry-runs it. The observation is
four cache steps: fetch, set-head, and three reads (branch, base, content) that
other commands' fetches may separate. `stage` is the caller of the observation
loop (the planner, the dry run, `Prepare`'s preflight, `Push`'s preflight): the
code runs the same loop four times. `err` is the error value that `finish` turns
into outcomes and the exit status. Others only append to canonical branches, or make
another branch the default one. `landed` (the updates performed) and `switched` (the
repositories whose default branch was changed) are history that only properties read.

### BatchCommand

The main goroutine, one worker per repository, the closer, the semaphore
(`slots`), the results channel (`channel`, `Capacity`) and the slice the results
are stored in (`placed`). `round` tells the preparing pool from the executing one.
`Multi` selects the path-bound commands, as `hasMultiMirrorRepository` does. What
a worker's call returns is `ok`, `unsafe` or `error`. A send and the deferred
release of the slot behind it are one step, because the release cannot block.

### MirrorCache

`cache` is what is at the cache path: nothing, a file, a symlink, a directory that
is no repository, or a bare repository with its remote URLs (`bind`), tracking refs
(`track`) and remote heads (`head`). A tracking ref is the endpoint it was fetched
from, so a ref or a push of the wrong endpoint is visible. `Program` is the sequence
of bind, fetch, resolve, read and push steps that `Check` or `CheckAll` and the
executor take after `EnsureMirror`; `Torn` is what `os.RemoveAll` leaves half-way.
Every Git command can fail or be killed, and so can the execution. A failed probe
(`isValidMirror`) of a good cache leads to its removal, a failed clone to the removal
of whatever is at the path.

Two assumptions. The operator overlaps only executions that give no remote name two
meanings (`Agree`): with overlapping different configurations one redirects the
other's fetches and pushes at once, and nothing in the code prevents it. And a
partial removal takes the tracking refs of all remotes or of none.

### Bootstrap

`content` is what each file holds, a file being identified with its content as the
code identifies it with its SHA-256 digest; `Torn` is an empty or partly written
file. Each process runs one command: the observation reads the watched files one
after the other, then the workflow directory, then the workflow files; then the
input is looked at, read and parsed; a plan reads the target a second time; an apply
compares everything with its plan, opens the target with O_EXCL, writes, syncs,
closes or removes. A manifest is the set of its decisions, and what is derived from
it (claims, blockers, applicability of CI) is computed as in the code.

People may edit any file at any time, except one that a command is creating, until
that command's last call on it. Worth knowing:

* A plan made while another manifest is in place carries a blocked action that the
  revalidation of apply does not expect: that plan is always answered as stale.
* An apply killed after its open leaves a torn target, which no later apply repairs.
* `init` does not sync the proposal it writes.
* A proposal outside the root that is deleted between plan and apply ends apply with
  exit status 1 (`internal/bootstrap/bootstrap.go:785-788`), although
  `docs/bootstrap.md:37` says that stale evidence exits with status 2.

### Posture

A collector reads the repository, its default branch, the protection of that branch
(the inventory only) and the tree of its tip, one step each; between them others push,
change the default branch or its protection. A read may be unavailable, which the
facts must show, or fail, which ends the command. The tree may be cut, a blob may be
unavailable, a file may be too long. What it got is a reading `g`; `InventoryFacts`,
`HooksFacts` and `EnvFacts` make facts of it. `Converge` merges the artifacts of one
repository, `Report` evaluates a profile. The property compares each verdict with
the facts of the same commits read in full (`Truth`), by definitions of its own
(`Met`, `NotMet`, and `Difference` of two numbers as whole multiples of a common power
of ten).

Lists are sets, trees hold only files, at most one blob of a reading is lost (`FactsAreSound`
allows any set), and all artifacts collected are converged. A file is a record of what the
collectors ask of its text; the paths and texts that a pattern recognises are constants.

`KnownGap` names the facts whose observed value can be wrong on partial evidence,
which the property leaves out; the code observes

* the update tools of a cut tree, of which another may be missing
  (`internal/posture/github.go:496`);
* the hook manager, and the entry points, detected in a cut tree (`hooks.go:301`): the
  kinds of configuration are tried in order, and one that was cut off may come first;
* `ci_covered` false where only a workflow too long to search mentions the check
  (`hooks.go:388`), against the documents (section 3);
* an `external_input_count` of 0 when the profile was not read
  (`internal/posturepolicy/adapters.go:187`).

`PostureProofs` shows that there is no other such fact. `Misordered` leaves out the
comparisons of zero with a positive number below one, which the code orders the wrong way
round, against the documents too.

The tools a malformed workflow uses are not searched either, on full evidence as on
partial (`ci_environment.go:465`). An applicability and the fact it scopes may come
from different commits, if different collectors read them.

## 3. Runs

All bounds are constants of the cfgs. `MaxEnvMoves` bounds the changes others
make, `MaxLosses` the power losses. Symmetry is used for interchangeable
executions and calls, in runs of safety properties only.

| Run | Instance | Shows |
|---|---|---|
| `MirrorApplyReviewed` | 2 executions one after the other, `plan` and `apply`, 1 mirror, 2 branches, 3 commits with a fork, 1 move | `ForceIntentHonest`, `AfterIsResultingOID`, `DefaultBranchOnly` |
| `MirrorApplyMirrors` | 1 execution of every mode, 2 mirrors, 3 commits, 2 moves, fair | `TypeOK`, `MutationIsReported`, `SuccessIsComplete`, `RefusalChangesNothing`, `OnlyCanonicalContent`, `Terminates` |
| `MirrorApplyOverlap` | 2 overlapping executions of every mode, one path-bound and one single-mirror, 3 commits, 1 move | `NoUnreviewedLoss`, `IntentPrecedesMutation`, `AuditedSpec` |
| `MirrorApplyAfter` | 2 overlapping applies, 1 move | violates `AfterIsResultingOID` |
| `JournalStore` | 3 calls, 2 of them under one name, 2 power losses | `NoTornRecord`, `SuccessIsDurable`, `FailureLeavesNothing`, `StoreSpec` (`TypeOK` is proved) |
| `ReadmeRepositories` | 1 session, 2 repositories, 2 changes | `TypeOK`, `EvidenceIsHonest`, `ResultIsRecordable`, `StaleChangesNothing`, `SuccessIsComplete`, `AuditedSpec` |
| `ReadmeSessions` | 2 sessions, 1 repository, 2 branches, 2 seconds, 1 change | `ReviewedBaseOnly`, `ReviewedTextOnly` |
| `Batch` | 3 repositories, 2 at a time, path-bound and single-mirror, fair | `TypeOK`, `PathBoundPreparedBeforeIntent`, `OtherwiseSuccessIsComplete`, `RefusedAsAWhole`, `ResultsKeepTheirPlace`, `ExportIsComplete`, `Terminates` |
| `BatchSingleSuccess` | 2 single-mirror repositories | violates `SuccessIsComplete` |
| `MirrorCache` | 2 executions, 2 configurations in which one endpoint changes its role, 2 branches, 2 faults, 1 rename | `TypeOK`, `TargetsAreNotMixedUp`, `LoneExecutionSucceeds` |
| `Bootstrap` | 3 processes: one plans, one applies or inspects, one applies or initialises; 1 edit | `TypeOK`, `OutcomeIsTrue`, `StaleTouchesNothing`, `CreateOnly` |
| `Posture` | 2 repositories, 3 commits, 2 artifacts, 1 change, 2 profiles of 13 rules | `TypeOK`, `VerdictIsEarned` |

### Why the bounds are enough

Two executions are the least that can disturb each other, and every race of the
cache is between one execution and one change of a ref. Three commits with a
fork give every relationship (EQUAL, BEHIND, AHEAD, DIVERGED) and every change
from one to another; the initial states hold every assignment of commits to refs
(in `MirrorApplyReviewed` the second branch starts at the common base). Two mirrors
give first, last, success before failure and failure before success. One move is
enough to make any one read stale, or an exported artifact obsolete; two, in
`MirrorApplyMirrors`, let a canonical and a mirror ref change under one execution.
In `JournalStore` the third call is there to sync the directory on behalf of the
others. In `BatchCommand` three repositories over two slots make one wait for a
slot while the others hold it or send.

In `MirrorCache` a second configuration is enough for a remote name with two
meanings, two faults for a failure of the clean-up after a failure, and one rename for
a remote head that names a branch no longer tracked. In `Bootstrap` three processes
let a second apply meet the first one's target while a proposal appears; the one edit
can hit each of the reads. In `Posture` one change falls between any two reads, also
of two collectors; one of the three commits has a malformed and an oversized workflow,
the views cut the tree so that each group of facts is partly missing, and the profiles
compare numbers written differently, at and after the day an exception expires.

In `ManagedReadme` an observation reads the default branch, the base commit and the
README of `refs/remotes/canonical/HEAD` one after the other
(`internal/managedartifact/observer_git.go:80`, `:84`, `:90`), and the fetch of another
command may fall between two of them. A plan can then name a text that its base does not
have, although the comment above the function says that it "binds README state to the
exact canonical default branch and commit" (`observer_git.go:49-50`). Two things make up
for it. The push is leased on the base, so a commit later than the base, whose text the
plan shows, makes the push fail; and the second preflight observes everything again. What
remains is `ReviewedBaseOnly`, without any condition, and `ReviewedTextOnly`, for a
repository whose default branch nobody has changed: when others make a second branch the
default one and later the first one again, between the right reads of the planner and of
both preflights, the reviewed text can be that of the second branch. That takes six moves
of others, more than a run can afford, and was found in the proof. With two moves and one
second `ReadmeSessions` passes as well, in 9.8 million states; both properties are proved
for any number of moves.

`ForceIntentHonest`, `AfterIsResultingOID` and `DefaultBranchOnly` are checked for
executions that do not overlap. The first two are false of overlapping ones, and
for the second this contradicts the documents: see the findings. The code does
nothing to prevent overlap.

### Fairness

`MirrorApply`: weak fairness of each started execution. Every Git command runs
under a 30 second context and is killed with its process group
(`internal/git/process_unix.go`), so each step ends, in success or in failure,
and no step waits for another execution. A run may still be killed: `Terminates`
says that it ends one way or the other.

`BatchCommand`: weak fairness of the main goroutine, of the closer and of each
worker: the Go scheduler runs every goroutine that is not blocked, and the calls
the workers make end as above. Blocking (a full channel, a taken semaphore, an
empty channel) is the guards' business. A deadlock makes `Terminates` false.

No run assumes anything of the environment, which may do nothing at all.

Deadlock checking is off where executions end and nothing is left to happen; in
`Batch`, `Terminates` asks the stronger question.

### Findings

Two places where a document says one thing and the code does another. Each is
a run that expects a violation; `PROJECT.json` quotes the lines.

1. **`after` is not always what the mirror got** (`MirrorApplyAfter`). The executor
   pushes a tracking ref by name and records the planned source as the result. A
   fetch by another execution between preflight and push makes them differ. The
   content is still canonical, and the push is still leased or a fast-forward.
2. **Exit status 0 after partial success** (`BatchSingleSuccess`). Single-mirror
   `apply --force --continue-on-error` passes over the repositories whose check
   failed, applies the others and exits 0. `OtherwiseSuccessIsComplete` shows that no
   other command line does.

The same gate has two more effects, which replacing the invariant of
`BatchSingleSuccess.cfg` shows. Some repositories are given an INTENT before all are
prepared (`PreparedBeforeIntent`; `docs/architecture/failure-semantics.md:19`: "Before
any selected repository mutates, Repora completes observation and exact-artifact
preparation for every selected repository."). And the single-mirror
`plan --continue-on-error` exits 2 rather than 1 when one repository failed and another
is unsafe (`cmd/repoctl/runtime.go:124-130`), where the same document says
"Operational failure takes precedence over unsafe-state reporting." The path-bound
commands have neither.

Posture has two more disagreements with its documents. Each is a property of `Posture` that
takes the place of the invariants of `Posture.cfg` to be seen to fail:

* `OrderIsNumeric`: zero counts as more than a fraction. `compareDecimalMagnitude`
  (`internal/posturepolicy/number.go:83`) goes by exponent plus number of digits first;
  zero is the digit `0` with exponent 0, which gives 1, and 0.5 gives 0. A rule
  `at_least 0.5` passes on 0 and `at_most 0.5` fails on it, although
  `docs/posture-policy.md:104-105` promises "greater than or equal to expected" and "less
  than or equal to expected". Every other pair is ordered correctly
  (`ComparisonIsNumeric`).
* `UncoveredIsObserved`: not covered, for want of reading. A workflow longer than the limit
  is left out of the text in which required checks are searched
  (`internal/posture/hooks.go:388`) and the state stays observed, so that a check which only
  it mentions is reported `ci_covered` false. `docs/posture-inventory.md:28` says that
  "`false` is therefore never used as a substitute for missing permission or incomplete
  evidence."

Not a finding, but an assumption to know: `JournalStore.cfg` sets `FsyncParents` to
TRUE. The code syncs the journal directory, never the parents of a directory it has
just created (`internal/journal/writer.go:160`). Where an fsync does not reach them, a
power loss removes a record reported as written: with FALSE, `SuccessIsDurable` fails.

## 4. Proofs

### MirrorApplyProofs

For every number of executions, mirrors, commits and branches, every ancestry,
every mode and kind of command, overlapping or not, any number of moves. Assumptions: those of
`MirrorApply` (`MirrorApplyAssumption`, `SentinelAssumption`, `HistoryAssumption`): at least one mirror,
`Anc` reflexive and transitive on `Commits`, single-mirror commands only with one
mirror, the sentinels are neither commits nor branches, and a commit has finitely many
ancestors (which only the counts of rev-list need).

`TypeOK` is not inductive: planning puts the content of a tracking ref into the
plan, which has the type of a commit only if the ref was fetched. The inductive
`TypeInv` adds `CacheFilled` (what an execution at a given step has fetched; the
cache only fills up, so other executions cannot take it away) and `PlanningReady`
(planning starts after every mirror was compared).

The safety properties follow from `SafetyInv`, which adds

* `PhaseInv`: what is known at each step: which records exist, which outcomes are
  possible, that an apply from `intent` on either plans nothing forced or has
  `--force`, that a mirror not yet reached by the push loop is untouched;
* `UpdatesInv`: what is known of each update, in flight or performed: its author
  is an `apply` past the preflight with its INTENT published, its value was served
  by the planned canonical branch, it is a fast-forward or replaces the leased value
  of an authorized forced action, and its outcome is APPLIED or FAILED;
* `ServedInv`: every commit in the canonical tracking refs was served by the
  canonical remote.

Each is proved with one lemma or step per action. Theorems: `TypeInvariant`,
`TypeCorrect`, `UnreviewedLossNeverHappens` (`NoUnreviewedLoss`),
`ContentIsCanonical` (`OnlyCanonicalContent`), `IntentIsFirst`
(`IntentPrecedesMutation`), `EvidenceCoversMutations` (`MutationIsReported`),
`RefusalIsHarmless` (`RefusalChangesNothing`), and `ControllerIsAudited`
(`AuditedSpec`): under the mapping of `journal` to itself and `attempted` to the
targets with outcome APPLIED or FAILED, every step is a step of `AuditedExecution`
or a stutter.

`SuccessMeansApplied` (`SuccessIsComplete`) needs `CoverInv` on top: what the plan covers
at each step. Planning starts with a state of every mirror; from the INTENT on the plan,
also an imported one, has an action for exactly the mirrors observed as not EQUAL; and the
push loop leaves each action it has passed APPLIED or FAILED. Exit status 0 is then earned,
whatever else runs.

`UnreviewedLossNeverHappens` is the central one: whatever two operators do at the
same time, and however late an update lands, a mirror's commits are discarded
only with a reviewed forced action, `--force`, and the reviewed old value.

Three more properties hold only of executions that do not overlap, and are theorems of `Spec`
under the hypothesis `Exclusive`, the constant of the runs that says so. What the code
relies on there is that the cache an execution observed is the cache it plans and pushes
from. `AloneInv` says it: `Alone` (at most one execution is active), `Coherent` (the
observed states are those of the tracking refs as they are now, the branch and the source
already resolved too, and from the preflight on the canonical ref still holds the planned
source), `Honest` (in every plan and every artifact, the force flag tells whether the
source lacks commits of the expected target) and the property of the results itself.
Others may still push, and artifacts may be as old as they like.

* `ForceTellsLoss` (`ForceIntentHonest`), with the lemma `ForceMeansLoss` on the counts of
  rev-list and the decision made from them;
* `RecordedResultIsReal` (`AfterIsResultingOID`), which the run `MirrorApplyAfter` shows to
  fail with overlap, so the hypothesis is needed;
* `DefaultBranchesOnly` (`DefaultBranchOnly`).

### ManagedReadmeProofs

For any number of sessions, repositories, branches, texts and moves of others.
Assumption: `ReadmeAssumption`. `Inv` is the conjunction of

* `Typed`: `TypeOK`, and that a session observes and plans only what the cache holds;
* `Phase`: where a session is and what it has done by then: nothing is attempted before
  the push loop, that loop goes through the plan in order and stops at the first failure,
  and an error is stale only when nothing was attempted;
* `Prepared`: the candidates are one child of each reviewed base;
* `Records`: which of INTENT and RESULT exist at each step;
* `Updates`: an update landed or under way is the one its session attempted;
* `Kept`: what was pushed stays in the history of its branch.

Theorems: `TypeCorrect`, `NothingForeignIsLost` (`ReviewedBaseOnly`), `EvidenceHonest`
(`EvidenceIsHonest`), `ResultRecordable` (`ResultIsRecordable`), `StaleIsHarmless`
(`StaleChangesNothing`), `SuccessComplete` (`SuccessIsComplete`), and `ApplyIsAudited`
(`AuditedSpec`): every step is a step of `AuditedExecution` or a stutter. Facts about
prefixes and minima are lemmas at the head of the module.

One more theorem, `ReviewedTextIsReplaced` (`ReviewedTextOnly`), stands on top of `Inv`. An observation need not
read text and base of the same commit; what is inductive is `DefaultInv`: the cache is
behind the canonical repository (`Follows`), an observation under way has a base in the
history of what the cache holds (`Observed`), and a reviewed text is that of some commit
at or after its base, and in the history of the branch (`AllReviewed`). When the lease
holds, the tip is the base, so that commit is the base itself.

### JournalStoreProofs

For any number of calls, names and power losses. The inductive `AllInv` is `TypeOK`
and, per call, `CallInv` (how far the data is written and synced at each step, and
where the file is linked), `SuccessInv` (what is durable once answered), and per
name `NameInv` (the linked file is whole and durable, and belongs to the name).
Theorems: `TypeCorrect`, `NoRecordIsTorn`, `FailureIsClean`, `RecordsAreImmutable`,
and, assuming `FsyncParents`, `SuccessLasts` and `WriterIsWriteOnceStore`
(`JournalStore` implements `EvidenceStore`). Without the assumption the last two
are false; it is a hypothesis of the theorems, not of the module.

### BatchCommandProofs

For any number of repositories, any `--parallel` and every command line. Assumption:
`BatchAssumption`. No listed property is inductive on its own, because each speaks of
the end of a round and depends on what the goroutines did in it. `AllInv` adds

* `PoolInv`: a goroutine at work holds a slot; a result is on its way from the
  goroutine that made it, then in the channel, then in the slice under its own index,
  never nowhere; the channel is closed only when all launched goroutines have finished,
  and the main goroutine decides only on an empty, closed channel;
* `RoundInv`: in the preparing round nothing is intended or changed; the executing
  round is entered only past the refusals, with every repository of a path-bound apply
  planned, and a repository there is changed or successful only with its INTENT.

Theorems: `TypeCorrect`, `PathBoundPrepares` (`PathBoundPreparedBeforeIntent`),
`RefusedFirst` (`RefusedAsAWhole`), `ResultsAreNotMixedUp` (`ResultsKeepTheirPlace`),
`ExportsAreComplete` (`ExportIsComplete`), `SuccessMeansComplete`
(`OtherwiseSuccessIsComplete`).

### MirrorCacheProofs

For any number of executions, endpoints, branches, configurations of any length, faults
and renames. Assumptions: `MirrorCacheAssumption` (a configuration has a canonical and at
least one mirror, and there is a longest configuration), `NoneAssumption`; and, in the
guard of `Start`, that overlapping executions agree on the remote names. `AllInv` adds

* `ControlInv`: executions that overlap agree; one that still makes the cache usable has
  observed nothing; an error is reported only of an index the program has passed;
* `NameInv`: past its bind of an index, an execution finds its own endpoint, or
  nothing, under the name; past its fetch, its own endpoint's refs or none. "Or nothing"
  is what makes it inductive: another execution may remove and clone the cache at any
  moment, and an observation then fails, but it is never of the wrong target.

`TargetsKeepApart` (`TargetsAreNotMixedUp`) follows: an observation reads, and a push
uses, a name that `NameInv` covers. A configuration left behind by an earlier execution,
even a killed one, is covered because a name is rebound before it is used.
`TypeCorrect` also says that what is not a bare repository has no remotes.

`LoneExecutionRecovers` (`LoneExecutionSucceeds`) is about `EnsureMirror`: whatever earlier
executions, killed at any point, left at the cache path, an execution that no fault and no
other execution disturbs observes every endpoint, unless the path is a symlink. `LoneInv`
says what such an execution finds at each phase (`Lone`: a file to unlink, junk or a bare
repository to remove, nothing where it clones, then a bare repository with the names it
has bound, the refs it has fetched and the heads it has resolved), that executions that
overlap count as disturbed, and that a symlink, which no step makes, lets nobody past
the inspection.

### BootstrapProofs

For any number of processes, edits, watched files, workflows and texts. Assumption:
`BootstrapAssumption` (the files are different ones, an absent and a torn file and the
default manifest are texts). `AllInv` is `TypeOK` and

* `ControlInv`: what each process has in its hands at each step: a plan that was made, a
  valid manifest that is the plan's own;
* `FileInv`: before its open a process has made nothing; while it writes, the target is
  the one file it has made, nobody else's, and holds what was written;
* `HistoryInv`: a plan that has nothing to create was made when the target held its
  manifest, and what a process created stays as long as nobody edits it.

Theorems: `TypeCorrect`, `OutcomesAreTrue` (`OutcomeIsTrue`), `StaleLeavesNothing`
(`StaleTouchesNothing`) and `CommandsOnlyCreate` (`CreateOnly`, an action property: no
step of a command changes a file that was there, except to write or remove its own).

### DecimalProofs

`ComparisonIsNumeric`: for all numerals (`Numerals`: digits of any length before and
after the point, any exponent and sign) except zero against a positive number below one,
`CompareNumbers`, which trims zeros and compares positions and then digits as the code
does, is the sign of `Difference`, which writes both as whole multiples of the smaller
unit. The argument: what stands before the first and after the last digit that is not
zero adds nothing; the number with the higher first digit is greater, because the first
w digits of any sequence make less than ten to the power of w; and where the first digits
are at the same place, the first digit at which they differ decides, for the same reason.
The values of digit sequences are a recursive function (`Leading`), so induction is over
its domain, as a property of all natural numbers. There is no assumption. `DigitsOfCount`:
the digits of a count are digits, so every count is a numeral.

### PostureProofs

For any repositories, branches, commits and files, any moves of maintainers, any way in
which a reading can be incomplete, any number of artifacts, any profiles and days.
Assumptions: `ContentAssumption` and `EnvAssumption` (a file has finitely many jobs,
uses and external inputs, and one text of a use names one action), and
`PostureAssumption` (the initial repositories, what others may make of them, and the
profiles have the shapes the module reads them with; numbers expected are numerals).

The proof has three parts.

1. `FactsAreSound`, on one reading, without any history: what a collector reports as
   observed is, outside `KnownGap`, the fact of the same commit read in full (`Whole`).
   `Sound` says this of one group of facts, `Fuller` what the full reading has over the
   partial one; there is one lemma per group (settings, tree, aggregates, workflows, jobs,
   actions, hooks, entry points, required checks, CI signals, external inputs). An
   aggregate is the delicate one: its count is of the workflows that could be parsed, and
   is observed only if all could. A first attempt failed, rightly, at the entry points:
   those that the code *detects* in a cut tree need not be those of the whole one, which
   `KnownGap` did not say.
2. The inductive `IInv`: the worlds keep their shape (`WorldsOK`); the reading under way
   is one that the reads so far explain (`JobOK`: what is read of a protection is `actual`
   or an omission of it, and the later fields are still empty); every artifact holds the
   facts of such a reading (`ArtifactsOK`); converged inputs are of one repository and
   their artifacts stay (`InputsOK`); the report is the evaluation of those (`ReportOK`).
   `VerdictIsEarned` alone speaks only of the end, and says nothing of how the facts got
   into an artifact while the repository changed.
3. From an artifact's facts to a verdict: merged facts are those of the one part that has
   the name (`ReportedFactsTrue`), an answered condition is `Met` or `NotMet`
   (`AnswersAreTrue`, with `ComparisonIsNumeric`), and applicability, mismatch and
   exceptions combine as the property says (`ScopeEarned`, `StatusEarned`).

Theorems: `FactsAreSound`, `InvariantHolds` (`IInv`), `TypeCorrect` (`TypeOK`) and
`VerdictsAreEarned` (`VerdictIsEarned`).

### Only model-checked

* Liveness (`Terminates` of `MirrorApply` and of `BatchCommand`): fairness and ENABLED are
  outside the prover.

Every other property of a passing run is a theorem. The findings are counterexamples of
TLC.

## 5. Not modelled

* Configuration, resolver, plan artifact parsing and validation, templates and
  review diffs: pure functions on text. What the modelled code relies on is in the
  constants' assumptions.
* Documentation, commits, mirror and storage posture and their adapters: further fact
  tables over the same reads, converged and evaluated by what is modelled.
* Bootstrap discovery: one read-only pass over the same API, without state.
* Assessment reports: text in, text out.
* Git itself, the providers, the file system: external, modelled by what they may
  do to the code (`GitAccepts`, `LeaseHolds`, `UpdateLands`, `PowerLoss`, ...).
* Diagnostics, their sanitization, and all rendering.

## 6. Plan

Order: the mutation path first, the layers above and below it next, the rest by
how much can go wrong unseen.

Done: `MirrorApply`, `JournalStore`, `ManagedReadme`, `BatchCommand`, their abstract
specifications, `MirrorCache`, `Bootstrap`, the posture modules, and the proofs named
in section 4.

Next, modules:

1. `PlanArtifact`: version rules and the checks that `Validate` and the records'
   `Validate` make, as operators, with the question whether every plan the planner
   builds, and every outcome the executor returns, passes them.
2. `ConfigIdentity`: uniqueness of identities and targets after defaults.
3. The remaining posture collectors.

Next, theorems:

1. `BatchCommand`: that a send never blocks on a full channel; `JournalStore`: that a
   record whose call was answered with a reference and an error is either published or
   absent for good.
2. The abstract specification of posture that `Posture` would refine: a verdict made at
   once from full evidence, or none.
