----------------------------- MODULE MirrorApply -----------------------------
(***************************************************************************)
(* The mirror reconciliation controller of repoctl for ONE repository      *)
(* entry: `status', `plan', `apply' and `apply --dry-run' commands that    *)
(* observe a canonical remote and its mirrors through a shared bare cache, *)
(* build an exact plan, and push the canonical default branch to the       *)
(* mirrors between an immutable INTENT and a RESULT journal record.        *)
(*                                                                         *)
(* Every element of Procs is one execution of the command line tool.       *)
(* Executions share the cache directory <uid>.git and the remotes; the     *)
(* code takes no lock, so with Exclusive = FALSE they interleave freely.   *)
(* A step is one Git command that reaches the network, one group of local  *)
(* cache reads for one mirror, or one journal write.                       *)
(***************************************************************************)
EXTENDS Integers, FiniteSets

CONSTANTS
  Procs,        \* executions of repoctl that use the same cache directory
  NumMirrors,   \* mirrors configured for the repository, in config order
  Commits,      \* object IDs of commits
  Anc,          \* <<a, c>> \in Anc: a is reachable from c (a = c included)
  Branches,     \* branch names
  Modes,        \* the commands the executions may be
  PathBound,    \* executions of runPathBoundApply; the others are of the
                \* single-mirror runApply, which their whole selection allows
  Exclusive,    \* TRUE: the operator never overlaps two executions
  MaxEnvMoves   \* bound on ref and default-branch changes made by others

Canonical == 0
Mirrors == 1 .. NumMirrors
Remotes == 0 .. NumMirrors

AllModes == {"status", "plan", "dryrun", "apply"}

ASSUME MirrorApplyAssumption ==
  /\ NumMirrors \in Nat \ {0}
  /\ Anc \subseteq Commits \X Commits
  /\ \A c \in Commits : <<c, c>> \in Anc
  /\ \A a, b, c \in Commits : <<a, b>> \in Anc /\ <<b, c>> \in Anc => <<a, c>> \in Anc
  /\ Modes \subseteq AllModes
  /\ PathBound \subseteq Procs
  /\ Exclusive \in BOOLEAN
  /\ NumMirrors > 1 => PathBound = Procs
  /\ MaxEnvMoves \in Nat

\* A commit has finitely many ancestors.
ASSUME HistoryAssumption == \A c \in Commits : IsFiniteSet({a \in Commits : <<a, c>> \in Anc})

NoOID == "no-oid"
NoBranch == "no-branch"

ASSUME SentinelAssumption == NoOID \notin Commits /\ NoBranch \notin Branches

States == {"UNSEEN", "EQUAL", "BEHIND", "AHEAD", "DIVERGED", "ERROR"}
Outcomes == {"NONE", "VALIDATED", "APPLIED", "FAILED", "SKIPPED", "STALE"}

\* plan.PlannedAction for one mirror; the map key is the provider/path target.
Action == [src : Branches, dst : Branches, force : BOOLEAN,
           expectedSource : Commits, expectedOld : Commits]

VARIABLES
  refs,       \* refs[r][b]: branch b of remote r, at the provider
  head,       \* head[r]: default branch of remote r, at the provider
  inflight,   \* ref updates sent by a push whose client was killed
  track,      \* cache: refs/remotes/<r>/<b>
  trackHead,  \* cache: refs/remotes/<r>/HEAD
  artifacts,  \* exact plan artifacts exported by `plan --artifact'
  journal,    \* published <<execution, phase>> records
  pc, cur,    \* position of each execution: step, and remote it works on
  mode, force, imported,
  observed,   \* status.MirrorResult.State of each mirror
  branch,     \* canonical default branch read by the planner
  sourceOID,  \* canonical commit resolved once by the planner
  planned,    \* the repository's plan: target |-> PlannedAction
  outcome,    \* executor.ActionResult of each mirror, in journal vocabulary
  exit,       \* process exit status, -1 while running
  moves,      \* environment moves made so far
  (* history, used only by properties *)
  written,    \* mirror ref updates made by executions
  served,     \* served[b]: commits canonical branch b has ever pointed to
  after       \* after[p][m]: what mirror m held when p's push succeeded

remoteVars == <<refs, head, inflight>>
cacheVars  == <<track, trackHead>>
planVars   == <<observed, branch, sourceOID, planned>>
ghostVars  == <<written, served, after>>
vars == <<refs, head, inflight, track, trackHead, artifacts, journal, pc, cur,
          mode, force, imported, observed, branch, sourceOID, planned, outcome,
          exit, moves, written, served, after>>

------------------------------------------------------------------------------
(* Observation: internal/status                                            *)

Reach(c) == {a \in Commits : <<a, c>> \in Anc}

\* `git rev-list --left-right --count left...right'
RevListLeftRightCount(left, right) ==
  <<Cardinality(Reach(left) \ Reach(right)), Cardinality(Reach(right) \ Reach(left))>>

InterpretDivergence(left, right) ==
  CASE left = 0 /\ right = 0 -> "EQUAL"
    [] left > 0 /\ right = 0 -> "BEHIND"
    [] left = 0 /\ right > 0 -> "AHEAD"
    [] OTHER                 -> "DIVERGED"

\* The order in which Check (one mirror) and CheckAll (several) observe, as the
\* <<step, remote>> that follows a step on remote r.  Check fetches everything
\* before it sets any remote HEAD; CheckAll finishes one remote after the other.
AfterFetch(r) ==
  IF NumMirrors > 1 THEN <<"head", r>>
  ELSE IF r = 0 THEN <<"fetch", 1>> ELSE <<"head", 0>>

AfterSetHead(r) ==
  IF r # 0 THEN <<"compare", r>>
  ELSE IF NumMirrors > 1 THEN <<"fetch", 1>> ELSE <<"head", 1>>

AfterMirror(r) ==
  IF r < NumMirrors THEN <<"fetch", r + 1>> ELSE <<"observed", 0>>

(* Policy: internal/refpolicy                                              *)

\* Mutant of Decide: an AHEAD mirror is reconciled without force.
DecideAheadPlain(state) ==
  [action |-> state \in {"BEHIND", "AHEAD", "DIVERGED"}, force |-> state = "DIVERGED"]

Decide(state) ==
  [action |-> state \in {"BEHIND", "AHEAD", "DIVERGED"},
   force  |-> state \in {"AHEAD", "DIVERGED"}]

IsUnsafe(p) == \E m \in Mirrors : observed[p][m] \in {"AHEAD", "DIVERGED"}

planRequiresForce(plan) == \E m \in DOMAIN plan : plan[m].force

------------------------------------------------------------------------------
Active(p) == pc[p] \notin {"idle", "done", "crashed"}

Goto(p, s, r) ==
  /\ pc' = [pc EXCEPT ![p] = s]
  /\ cur' = [cur EXCEPT ![p] = r]

Exit(p, code) ==
  /\ pc' = [pc EXCEPT ![p] = "done"]
  /\ exit' = [exit EXCEPT ![p] = code]
  /\ UNCHANGED cur

Init ==
  /\ refs \in [Remotes -> [Branches -> Commits]]
  /\ head \in [Remotes -> Branches]
  /\ inflight = {}
  /\ track = [r \in Remotes |-> [b \in Branches |-> NoOID]]
  /\ trackHead = [r \in Remotes |-> NoBranch]
  /\ artifacts = {}
  /\ journal = {}
  /\ pc = [p \in Procs |-> "idle"]
  /\ cur = [p \in Procs |-> 0]
  /\ mode = [p \in Procs |-> "status"]
  /\ force = [p \in Procs |-> FALSE]
  /\ imported = [p \in Procs |-> FALSE]
  /\ observed = [p \in Procs |-> [m \in Mirrors |-> "UNSEEN"]]
  /\ branch = [p \in Procs |-> NoBranch]
  /\ sourceOID = [p \in Procs |-> NoOID]
  /\ planned = [p \in Procs |-> [m \in {} |-> NoOID]]
  /\ outcome = [p \in Procs |-> [m \in Mirrors |-> "NONE"]]
  /\ exit = [p \in Procs |-> -1]
  /\ moves = 0
  /\ written = {}
  /\ served = [b \in Branches |-> {refs[0][b]}]
  /\ after = [p \in Procs |-> [m \in Mirrors |-> NoOID]]

\* The command line: the mode, --force, and for apply an optional --plan-file
\* holding an artifact some earlier `plan' exported.
Start(p) ==
  /\ pc[p] = "idle"
  /\ Exclusive => \A q \in Procs : ~Active(q)
  /\ \E md \in Modes, f \in BOOLEAN :
       /\ mode' = [mode EXCEPT ![p] = md]
       /\ f => md = "apply"
       /\ force' = [force EXCEPT ![p] = f]
       /\ \/ UNCHANGED <<imported, planned>>
          \/ /\ md \in {"apply", "dryrun"}
             /\ \E a \in artifacts : planned' = [planned EXCEPT ![p] = a]
             /\ imported' = [imported EXCEPT ![p] = TRUE]
  /\ Goto(p, "fetch", 0)
  /\ UNCHANGED <<remoteVars, cacheVars, artifacts, journal, observed, branch,
                 sourceOID, outcome, exit, moves, ghostVars>>

Fetch(p) ==
  /\ pc[p] = "fetch"
  /\ track' = [track EXCEPT ![cur[p]] = refs[cur[p]]]
  /\ Goto(p, AfterFetch(cur[p])[1], AfterFetch(cur[p])[2])
  /\ UNCHANGED <<remoteVars, trackHead, artifacts, journal, mode, force, imported,
                 planVars, outcome, exit, moves, ghostVars>>

SetRemoteHead(p) ==
  /\ pc[p] = "head"
  /\ trackHead' = [trackHead EXCEPT ![cur[p]] = head[cur[p]]]
  /\ Goto(p, AfterSetHead(cur[p])[1], AfterSetHead(cur[p])[2])
  /\ UNCHANGED <<remoteVars, track, artifacts, journal, mode, force, imported,
                 planVars, outcome, exit, moves, ghostVars>>

\* rev-list canonical/HEAD...mirror/HEAD over what the cache holds now.
CompareMirror(p) ==
  LET m      == cur[p]
      counts == RevListLeftRightCount(track[0][trackHead[0]], track[m][trackHead[m]])
  IN
  /\ pc[p] = "compare"
  /\ observed' = [observed EXCEPT ![p][m] = InterpretDivergence(counts[1], counts[2])]
  /\ Goto(p, AfterMirror(m)[1], AfterMirror(m)[2])
  /\ UNCHANGED <<remoteVars, cacheVars, artifacts, journal, mode, force, imported,
                 branch, sourceOID, planned, outcome, exit, moves, ghostVars>>

\* A Git command of the observation fails or exceeds its 30 second limit.  A
\* canonical failure, and any failure of Check, fails the repository; CheckAll
\* marks the mirror ERROR and goes on with the next one.
ObserveFails(p) ==
  /\ pc[p] \in {"fetch", "head", "compare"}
  /\ IF cur[p] = 0 \/ NumMirrors = 1
     THEN Exit(p, 1) /\ UNCHANGED observed
     ELSE /\ observed' = [observed EXCEPT ![p][cur[p]] = "ERROR"]
          /\ Goto(p, AfterMirror(cur[p])[1], AfterMirror(cur[p])[2])
          /\ UNCHANGED exit
  /\ UNCHANGED <<remoteVars, cacheVars, artifacts, journal, mode, force, imported,
                 branch, sourceOID, planned, outcome, moves, ghostVars>>

------------------------------------------------------------------------------
(* Planning and authorization: internal/apply, cmd/repoctl                 *)

\* Where an execution goes once its observation, or its plan, is complete.
AfterObservation(p) ==
  IF mode[p] = "plan" \/ (p \in PathBound /\ ~imported[p]) THEN "planhead" ELSE "authorize"

AfterPlan(p) ==
  IF mode[p] = "plan" THEN "export" ELSE IF p \in PathBound THEN "authorize" ELSE "validate"

AfterAuthorization(p) == IF p \in PathBound \/ imported[p] THEN "validate" ELSE "planhead"

ObservationDone(p) ==
  /\ pc[p] = "observed"
  /\ IF \E m \in Mirrors : observed[p][m] = "ERROR" THEN Exit(p, 1)
     ELSE IF mode[p] = "status" THEN Exit(p, IF IsUnsafe(p) THEN 2 ELSE 0)
     ELSE Goto(p, AfterObservation(p), 0) /\ UNCHANGED exit
  /\ UNCHANGED <<remoteVars, cacheVars, artifacts, journal, mode, force, imported,
                 planVars, outcome, moves, ghostVars>>

ReadCanonicalHead(p) ==
  /\ pc[p] = "planhead"
  /\ branch' = [branch EXCEPT ![p] = trackHead[0]]
  /\ Goto(p, "planmirror", 1)
  /\ UNCHANGED <<remoteVars, cacheVars, artifacts, journal, mode, force, imported,
                 observed, sourceOID, planned, outcome, exit, moves, ghostVars>>

\* The action planned for mirror m: the decision comes from the observed state,
\* the object IDs from the tracking refs as they are now.
ActionFor(p, m, source) ==
  [src |-> branch[p], dst |-> trackHead[m], force |-> Decide(observed[p][m]).force,
   expectedSource |-> source, expectedOld |-> track[m][trackHead[m]]]

\* The body of buildRepositoryPlan's loop for one mirror.
PlanMirror(p) ==
  LET m      == cur[p]
      source == IF sourceOID[p] = NoOID THEN track[0][branch[p]] ELSE sourceOID[p]
  IN
  /\ pc[p] = "planmirror"
  /\ IF Decide(observed[p][m]).action
     THEN /\ sourceOID' = [sourceOID EXCEPT ![p] = source]
          /\ planned' = [planned EXCEPT ![p] =
                           [x \in DOMAIN planned[p] \cup {m} |->
                              IF x = m THEN ActionFor(p, m, source) ELSE planned[p][x]]]
     ELSE UNCHANGED <<sourceOID, planned>>
  /\ IF m < NumMirrors THEN Goto(p, "planmirror", m + 1) ELSE Goto(p, AfterPlan(p), 0)
  /\ UNCHANGED <<remoteVars, cacheVars, artifacts, journal, mode, force, imported,
                 observed, branch, outcome, exit, moves, ghostVars>>

\* `plan --artifact' prints the artifact, also when it exits 2.
ExportArtifact(p) ==
  /\ pc[p] = "export"
  /\ artifacts' = artifacts \cup {planned[p]}
  /\ Exit(p, IF IsUnsafe(p) THEN 2 ELSE 0)
  /\ UNCHANGED <<remoteVars, cacheVars, journal, mode, force, imported, planVars,
                 outcome, moves, ghostVars>>

\* The command-level gate: the artifact's forced actions, or for the
\* single-mirror convenience apply the observed state, need --force.
RequiresForce(p) ==
  IF p \in PathBound \/ imported[p] THEN planRequiresForce(planned[p]) ELSE IsUnsafe(p)

Authorize(p) ==
  /\ pc[p] = "authorize"
  /\ IF mode[p] = "apply" /\ RequiresForce(p) /\ ~force[p]
     THEN Exit(p, 2)
     ELSE Goto(p, AfterAuthorization(p), 0) /\ UNCHANGED exit
  /\ UNCHANGED <<remoteVars, cacheVars, artifacts, journal, mode, force, imported,
                 planVars, outcome, moves, ghostVars>>

\* Before anything is written: a local read of the planner or of the branch
\* validation fails, or newAudit has no execution ID or no journal root.
PreparationFails(p) ==
  /\ pc[p] \in {"planhead", "planmirror", "authorize", "validate"}
  /\ Exit(p, 1)
  /\ UNCHANGED <<remoteVars, cacheVars, artifacts, journal, mode, force, imported,
                 planVars, outcome, moves, ghostVars>>

\* validateRepositoryArtifact / validateStateIntent: every mirror's fresh state
\* asks for exactly the action, and the force intent, that the plan holds.
IntentAgrees(p) ==
  \A m \in Mirrors :
    LET d == Decide(observed[p][m]) IN
    /\ d.action <=> m \in DOMAIN planned[p]
    /\ m \in DOMAIN planned[p] => planned[p][m].force = d.force

\* Mutant of BranchScopeAgrees: only the source branch is compared.
SourceScopeAgrees(p) ==
  \A m \in DOMAIN planned[p] : planned[p][m].src = trackHead[0]

\* validateBoundDefaultBranches / validateDefaultBranchScope
BranchScopeAgrees(p) ==
  \A m \in DOMAIN planned[p] :
    planned[p][m].src = trackHead[0] /\ planned[p][m].dst = trackHead[m]

Validate(p) ==
  /\ pc[p] = "validate"
  /\ IF /\ IntentAgrees(p)
        /\ ~(mode[p] = "apply" /\ planRequiresForce(planned[p]) /\ ~force[p])
        /\ BranchScopeAgrees(p)
     THEN Goto(p, "intent", 0) /\ UNCHANGED exit
     ELSE Exit(p, 1)
  /\ UNCHANGED <<remoteVars, cacheVars, artifacts, journal, mode, force, imported,
                 planVars, outcome, moves, ghostVars>>

------------------------------------------------------------------------------
(* Audited execution: internal/apply, internal/executor, internal/journal  *)

Publish(p, phase) == journal' = journal \cup {<<p, phase>>}

\* Mutant of WriteIntent: a failed journal write does not stop the run.
WriteIntentUnchecked(p) ==
  /\ pc[p] = "intent"
  /\ UNCHANGED journal \/ Publish(p, "INTENT")
  /\ outcome' = [outcome EXCEPT ![p] =
       [m \in Mirrors |-> IF m \in DOMAIN planned[p] THEN "SKIPPED" ELSE "NONE"]]
  /\ Goto(p, "preflight", 1)
  /\ UNCHANGED <<remoteVars, cacheVars, artifacts, mode, force, imported, planVars,
                 exit, moves, ghostVars>>

\* Writer.Write publishes the record, or fails before publication, or publishes
\* and then fails to clean up or sync: only the first lets the run continue.
WriteIntent(p) ==
  /\ pc[p] = "intent"
  /\ \/ /\ Publish(p, "INTENT")
        /\ outcome' = [outcome EXCEPT ![p] =
             [m \in Mirrors |-> IF m \in DOMAIN planned[p] THEN "SKIPPED" ELSE "NONE"]]
        /\ Goto(p, "preflight", 1)
        /\ UNCHANGED exit
     \/ /\ \/ UNCHANGED journal
           \/ Publish(p, "INTENT")
        /\ Exit(p, 1)
        /\ UNCHANGED outcome
  /\ UNCHANGED <<remoteVars, cacheVars, artifacts, mode, force, imported, planVars,
                 moves, ghostVars>>

\* Mutant of RefsCurrent: the source is not compared.
TargetCurrent(p, m) == track[m][planned[p][m].dst] = planned[p][m].expectedOld

\* validateCurrentRefs for one action: the tracking refs still hold what the
\* plan expects.
RefsCurrent(p, m) ==
  /\ track[0][planned[p][m].src] = planned[p][m].expectedSource
  /\ track[m][planned[p][m].dst] = planned[p][m].expectedOld

\* Mutant of Preflight: a stale action does not stop the others.
PreflightEachAlone(p) ==
  LET m == cur[p] IN
  /\ pc[p] = "preflight"
  /\ \/ m \in DOMAIN planned[p] /\ outcome' = [outcome EXCEPT ![p][m] = "STALE"]
     \/ (m \in DOMAIN planned[p] => RefsCurrent(p, m)) /\ UNCHANGED outcome
  /\ IF m < NumMirrors THEN Goto(p, "preflight", m + 1)
     ELSE Goto(p, IF mode[p] = "apply" THEN "push" ELSE "result", 1)
  /\ UNCHANGED <<remoteVars, cacheVars, artifacts, journal, mode, force, imported,
                 planVars, exit, moves, ghostVars>>

\* preflightPlan: every action is validated before action zero is executed; a
\* ref that changed, or that cannot be read, makes its action stale.
Preflight(p) ==
  LET m == cur[p] IN
  /\ pc[p] = "preflight"
  /\ \/ /\ m \in DOMAIN planned[p]
        /\ outcome' = [outcome EXCEPT ![p][m] = "STALE"]
        /\ Goto(p, "result", 0)
     \/ /\ m \in DOMAIN planned[p] => RefsCurrent(p, m)
        /\ IF m < NumMirrors
           THEN Goto(p, "preflight", m + 1) /\ UNCHANGED outcome
           ELSE IF mode[p] = "apply"
           THEN Goto(p, "push", 1) /\ UNCHANGED outcome
           ELSE /\ outcome' = [outcome EXCEPT ![p] =
                     [x \in Mirrors |->
                        IF x \in DOMAIN planned[p] THEN "VALIDATED" ELSE "NONE"]]
                /\ Goto(p, "result", 0)
  /\ UNCHANGED <<remoteVars, cacheVars, artifacts, journal, mode, force, imported,
                 planVars, exit, moves, ghostVars>>

\* Mutants of NextPush: one mirror too many, and the last mirror again.
NextPushOffByOne(p) ==
  IF cur[p] <= NumMirrors THEN Goto(p, "push", cur[p] + 1) ELSE Goto(p, "result", 0)
NextPushRetriesLast(p) ==
  IF cur[p] < NumMirrors THEN Goto(p, "push", cur[p] + 1) ELSE Goto(p, "push", cur[p])

NextPush(p) ==
  IF cur[p] < NumMirrors THEN Goto(p, "push", cur[p] + 1) ELSE Goto(p, "result", 0)

\* A mirror without an action is passed over.
NoPush(p) ==
  /\ pc[p] = "push"
  /\ cur[p] \notin DOMAIN planned[p]
  /\ NextPush(p)
  /\ UNCHANGED <<remoteVars, cacheVars, artifacts, journal, mode, force, imported,
                 planVars, outcome, exit, moves, ghostVars>>

\* Mutant of PushSource: the source remote is that of the last target bound.
PushSourceOfLast(p, m) == track[NumMirrors][planned[p][m].src]

\* git push reads the source by its tracking ref, not by its object ID.
PushSource(p, m) == track[0][planned[p][m].src]

\* Mutant of GitAccepts: --force instead of --force-with-lease.
ForceAccepts(p, m) ==
  planned[p][m].force \/ <<refs[m][planned[p][m].dst], PushSource(p, m)>> \in Anc

\* What Git (client and receiving server) accepts: a fast-forward for a plain
\* push, the leased old value for a forced one.
GitAccepts(p, m) ==
  LET a   == planned[p][m]
      old == refs[m][a.dst]
  IN IF a.force THEN old = a.expectedOld ELSE <<old, PushSource(p, m)>> \in Anc

\* A push that succeeds: Git updates the mirror (unless it is already up to
\* date), then the cache's tracking ref, and the executor records APPLIED.
PushSucceeds(p) ==
  LET m   == cur[p]
      b   == planned[p][m].dst
      old == refs[m][b]
      new == PushSource(p, m)
  IN
  /\ pc[p] = "push" /\ m \in DOMAIN planned[p]
  /\ old = new \/ GitAccepts(p, m)
  /\ refs' = [refs EXCEPT ![m][b] = new]
  /\ track' = [track EXCEPT ![m][b] = new]
  /\ outcome' = [outcome EXCEPT ![p][m] = "APPLIED"]
  /\ written' = IF old = new THEN written
                ELSE written \cup {[p |-> p, m |-> m, b |-> b, old |-> old, new |-> new]}
  /\ after' = [after EXCEPT ![p][m] = new]
  /\ NextPush(p)
  /\ UNCHANGED <<head, inflight, trackHead, artifacts, journal, mode, force, imported,
                 planVars, exit, moves, served>>

\* A push that fails without effect: rejected, unreachable, refused.
PushFails(p) ==
  /\ pc[p] = "push" /\ cur[p] \in DOMAIN planned[p]
  /\ outcome' = [outcome EXCEPT ![p][cur[p]] = "FAILED"]
  /\ NextPush(p)
  /\ UNCHANGED <<remoteVars, cacheVars, artifacts, journal, mode, force, imported,
                 planVars, exit, moves, ghostVars>>

\* Mutant of PushTimesOut: a timed-out push keeps its SKIPPED outcome.
TimeoutUnreported(p) ==
  LET m == cur[p]
      b == planned[p][m].dst
  IN
  /\ pc[p] = "push" /\ m \in DOMAIN planned[p]
  /\ GitAccepts(p, m)
  /\ refs[m][b] # PushSource(p, m)
  /\ inflight' = inflight \cup {[p |-> p, m |-> m, b |-> b, old |-> refs[m][b],
                                 new |-> PushSource(p, m)]}
  /\ NextPush(p)
  /\ UNCHANGED <<refs, head, cacheVars, artifacts, journal, mode, force, imported,
                 planVars, outcome, exit, moves, ghostVars>>

\* The client is killed by the 30 second limit after it sent the ref update;
\* the server may still perform it, later, if the ref has not moved.
PushTimesOut(p) ==
  LET m == cur[p]
      b == planned[p][m].dst
  IN
  /\ pc[p] = "push" /\ m \in DOMAIN planned[p]
  /\ GitAccepts(p, m)
  /\ refs[m][b] # PushSource(p, m)
  /\ inflight' = inflight \cup {[p |-> p, m |-> m, b |-> b, old |-> refs[m][b],
                                 new |-> PushSource(p, m)]}
  /\ outcome' = [outcome EXCEPT ![p][m] = "FAILED"]
  /\ NextPush(p)
  /\ UNCHANGED <<refs, head, cacheVars, artifacts, journal, mode, force, imported,
                 planVars, exit, moves, ghostVars>>

\* Mutant of ExecutionFailed: only a stale plan counts as a failure.
OnlyStaleFails(p) == \E m \in Mirrors : outcome[p][m] = "STALE"

ExecutionFailed(p) == \E m \in Mirrors : outcome[p][m] \in {"FAILED", "STALE"}

WriteResult(p) ==
  /\ pc[p] = "result"
  /\ \/ Publish(p, "RESULT") /\ Exit(p, IF ExecutionFailed(p) THEN 1 ELSE 0)
     \/ Exit(p, 1) /\ (UNCHANGED journal \/ Publish(p, "RESULT"))
  /\ UNCHANGED <<remoteVars, cacheVars, artifacts, mode, force, imported, planVars,
                 outcome, moves, ghostVars>>

\* The process is killed between two steps.
Crash(p) ==
  /\ Active(p)
  /\ pc' = [pc EXCEPT ![p] = "crashed"]
  /\ UNCHANGED <<remoteVars, cacheVars, artifacts, journal, cur, mode, force,
                 imported, planVars, outcome, exit, moves, ghostVars>>

------------------------------------------------------------------------------
(* Everyone else: maintainers of the remotes, and the provider's servers   *)

EnvPush(r, b, c) ==
  /\ moves < MaxEnvMoves
  /\ refs[r][b] # c
  /\ refs' = [refs EXCEPT ![r][b] = c]
  /\ served' = IF r = 0 THEN [served EXCEPT ![b] = @ \cup {c}] ELSE served
  /\ moves' = moves + 1
  /\ UNCHANGED <<head, inflight, cacheVars, artifacts, journal, pc, cur, mode, force,
                 imported, planVars, outcome, exit, written, after>>

EnvSetDefault(r, b) ==
  /\ moves < MaxEnvMoves
  /\ head[r] # b
  /\ head' = [head EXCEPT ![r] = b]
  /\ moves' = moves + 1
  /\ UNCHANGED <<refs, inflight, cacheVars, artifacts, journal, pc, cur, mode, force,
                 imported, planVars, outcome, exit, ghostVars>>

\* The server performs an update whose client is gone, or discards it because
\* the ref moved.
UpdateLands(u) ==
  /\ inflight' = inflight \ {u}
  /\ IF refs[u.m][u.b] = u.old
     THEN /\ refs' = [refs EXCEPT ![u.m][u.b] = u.new]
          /\ written' = written \cup {u}
     ELSE UNCHANGED <<refs, written>>
  /\ UNCHANGED <<head, cacheVars, artifacts, journal, pc, cur, mode, force, imported,
                 planVars, outcome, exit, moves, served, after>>

UpdateLost(u) ==
  /\ inflight' = inflight \ {u}
  /\ UNCHANGED <<refs, head, cacheVars, artifacts, journal, pc, cur, mode, force,
                 imported, planVars, outcome, exit, moves, ghostVars>>

Observe(p) ==
  Start(p) \/ Fetch(p) \/ SetRemoteHead(p) \/ CompareMirror(p) \/ ObserveFails(p)
    \/ ObservationDone(p)
Plan(p) == ReadCanonicalHead(p) \/ PlanMirror(p) \/ ExportArtifact(p)
Prepare(p) == Authorize(p) \/ PreparationFails(p) \/ Validate(p)
Execute(p) ==
  WriteIntent(p) \/ Preflight(p) \/ NoPush(p) \/ PushSucceeds(p) \/ PushFails(p)
    \/ PushTimesOut(p) \/ WriteResult(p)

Step(p) == Observe(p) \/ Plan(p) \/ Prepare(p) \/ Execute(p)

Environment ==
  \/ \E r \in Remotes, b \in Branches, c \in Commits : EnvPush(r, b, c)
  \/ \E r \in Remotes, b \in Branches : EnvSetDefault(r, b)
  \/ \E u \in inflight : UpdateLands(u) \/ UpdateLost(u)

Next == (\E p \in Procs : Step(p) \/ Crash(p)) \/ Environment

Spec == Init /\ [][Next]_vars

\* Every Git command ends within its time limit and no step waits for another
\* execution, so a command that is running keeps taking steps.
FairSpec == Spec /\ \A p \in Procs : WF_vars(Step(p) /\ pc[p] # "idle")

------------------------------------------------------------------------------
(* Properties                                                              *)

Updates == written \cup inflight

UpdateType == [p : Procs, m : Mirrors, b : Branches, old : Commits, new : Commits]

Steps == {"idle", "fetch", "head", "compare", "observed", "planhead", "planmirror",
          "export", "authorize", "validate", "intent", "preflight", "push", "result",
          "done", "crashed"}

\* A plan maps some of the mirrors to their action.
IsPlan(f) ==
  /\ f = [m \in DOMAIN f |-> f[m]]
  /\ DOMAIN f \subseteq Mirrors
  /\ \A m \in DOMAIN f : f[m] \in Action

RemotesOK ==
  /\ refs \in [Remotes -> [Branches -> Commits]]
  /\ head \in [Remotes -> Branches]
  /\ inflight \subseteq UpdateType
  /\ moves \in 0 .. MaxEnvMoves
  /\ written \subseteq UpdateType
  /\ served \in [Branches -> SUBSET Commits]

CacheOK ==
  /\ track \in [Remotes -> [Branches -> Commits \cup {NoOID}]]
  /\ trackHead \in [Remotes -> Branches \cup {NoBranch}]

ExecutionsOK ==
  /\ journal \subseteq Procs \X {"INTENT", "RESULT"}
  /\ pc \in [Procs -> Steps]
  /\ cur \in [Procs -> Remotes]
  /\ mode \in [Procs -> AllModes]
  /\ force \in [Procs -> BOOLEAN]
  /\ imported \in [Procs -> BOOLEAN]
  /\ outcome \in [Procs -> [Mirrors -> Outcomes]]
  /\ exit \in [Procs -> {-1, 0, 1, 2}]
  /\ after \in [Procs -> [Mirrors -> Commits \cup {NoOID}]]

PlansOK ==
  /\ observed \in [Procs -> [Mirrors -> States]]
  /\ branch \in [Procs -> Branches \cup {NoBranch}]
  /\ sourceOID \in [Procs -> Commits \cup {NoOID}]
  /\ planned = [p \in Procs |-> planned[p]]
  /\ \A p \in Procs : IsPlan(planned[p])
  /\ \A a \in artifacts : IsPlan(a)

\* Types of every variable; a plan holds only commits and branches, never the
\* contents of a tracking ref that was not fetched.
TypeOK == RemotesOK /\ CacheOK /\ ExecutionsOK /\ PlansOK

\* No update a run makes to a mirror, however late it lands, discards a commit
\* of the mirror: unless the plan marked the action forced, the operator gave
\* --force, and the value overwritten is the reviewed old target (executor's
\* plain push and ForcePushBranchWithLease, under any interleaving).
NoUnreviewedLoss ==
  \A u \in Updates :
    \/ <<u.old, u.new>> \in Anc
    \/ /\ u.m \in DOMAIN planned[u.p]
       /\ planned[u.p][u.m].force
       /\ force[u.p]
       /\ u.old = planned[u.p][u.m].expectedOld

\* What a run writes to a mirror is a commit that the canonical branch named
\* by the plan has served: nothing stale from another remote, and nothing made
\* up, travels through the shared cache.
OnlyCanonicalContent ==
  \A u \in Updates : /\ u.m \in DOMAIN planned[u.p]
                     /\ u.b = planned[u.p][u.m].dst
                     /\ u.new \in served[planned[u.p][u.m].src]

\* Only `apply' changes a mirror, and only when its INTENT record is already
\* published: also when it crashes, times out or lands late
\* (ExecuteRepositoryArtifactAudited's order).
IntentPrecedesMutation ==
  \A u \in Updates : mode[u.p] = "apply" /\ <<u.p, "INTENT">> \in journal

\* A run refused for lack of --force (exit 2 from apply) left no INTENT and no
\* update behind, and a stale action means that no action of the run was
\* attempted: preflightPlan completes before action zero.
RefusalChangesNothing ==
  \A p \in Procs :
    /\ exit[p] = 2 => <<p, "INTENT">> \notin journal
    /\ (\E m \in Mirrors : outcome[p][m] = "STALE") => ~\E u \in Updates : u.p = p

\* A target that the run's evidence calls skipped, stale, validated or without
\* action was never touched by it: every update is reported as APPLIED, or as
\* FAILED, which therefore does not mean `unchanged'.
MutationIsReported ==
  \A u \in Updates : outcome[u.p][u.m] \in {"APPLIED", "FAILED"}

\* Exit status 0 of a real apply means both records are published, every mirror
\* that was not EQUAL had an action, and every action was applied.
SuccessIsComplete ==
  \A p \in Procs :
    exit[p] = 0 /\ mode[p] = "apply" =>
      /\ {<<p, "INTENT">>, <<p, "RESULT">>} \subseteq journal
      /\ \A m \in Mirrors : \/ observed[p][m] = "EQUAL" /\ outcome[p][m] = "NONE"
                            \/ observed[p][m] # "EQUAL" /\ outcome[p][m] = "APPLIED"

\* The force flag of a planned action tells the relation between the two object
\* IDs the same action carries: it is forced exactly when the expected old
\* target is not contained in the expected source (status classification and
\* planning read the cache at different times).
ForceIntentHonest ==
  \A p \in Procs : \A m \in DOMAIN planned[p] :
    planned[p][m].force <=>
      <<planned[p][m].expectedOld, planned[p][m].expectedSource>> \notin Anc

\* Whatever the age of an imported artifact, a run updates only the branch its
\* own observation found to be the mirror's default one, from the branch it
\* found to be canonical's.
DefaultBranchOnly ==
  \A u \in Updates :
    pc[u.p] \in {"push", "result"} =>
      /\ u.b = trackHead[u.m]
      /\ planned[u.p][u.m].src = trackHead[0]

\* An action recorded APPLIED records as `after' (its expected source) the
\* object ID the mirror really held when the push succeeded.
AfterIsResultingOID ==
  \A p \in Procs, m \in Mirrors :
    outcome[p][m] = "APPLIED" => after[p][m] = planned[p][m].expectedSource

\* Targets a run has started to mutate, and the promise it makes about them: at
\* most one attempt each, after the INTENT and before the RESULT record.
Attempted ==
  {x \in Procs \X Mirrors : outcome[x[1]][x[2]] \in {"APPLIED", "FAILED"}}

Audited == INSTANCE AuditedExecution
             WITH Executions <- Procs, Targets <- Mirrors, attempted <- Attempted

\* The controller implements the audit promise: each step of the detailed
\* specification is a step, or a stutter, of AuditedExecution.
AuditedSpec == Audited!Spec

\* Every command that starts ends (or is killed): no failure path of the
\* observation, preflight or push loops stops advancing.
Terminates ==
  \A p \in Procs : pc[p] = "fetch" ~> pc[p] \in {"done", "crashed"}
==============================================================================
