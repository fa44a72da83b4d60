---------------------------- MODULE ManagedReadme ----------------------------
(***************************************************************************)
(* Managed README artifacts: `plan-readme' builds an exact plan from the   *)
(* canonical repositories, `apply-readme' turns it into one leased push    *)
(* per repository between an INTENT and a RESULT record                    *)
(* (internal/managedartifact, internal/managedartifactapply).              *)
(*                                                                         *)
(* A session is an operator who plans, or is handed an exported plan, and  *)
(* then applies or dry-runs it.  A commit is identified, as in Git, with   *)
(* its history: the sequence of changes up to it, each with the README it  *)
(* leaves and a stamp (author and second).  Everyone else only appends     *)
(* commits to canonical branches.                                          *)
(***************************************************************************)
EXTENDS Integers, Sequences, SequencesExt

CONSTANTS
  Sessions,
  NumRepos,     \* configured repositories with a managed README, in UID order
  Branches,
  Texts,        \* README contents; NoReadme stands for an absent file
  Rendered,     \* Rendered[r]: what the configured template renders to
  Stamps,       \* seconds at which Repora may create a commit object
  MaxEnvMoves   \* bound on commits and default-branch changes by others

Repos == 1 .. NumRepos
NoReadme == "no-readme"
NoBranch == "no-branch"
User == "user"

ASSUME ReadmeAssumption ==
  /\ NumRepos \in Nat \ {0}
  /\ NoReadme \in Texts
  /\ Rendered \in [Repos -> Texts \ {NoReadme}]
  /\ User \notin Stamps /\ NoBranch \notin Branches
  /\ MaxEnvMoves \in Nat

VARIABLES
  tip, head,            \* canonical repositories: branch tips, default branch
  inflight,             \* leased updates sent by a push whose client was killed
  cacheTip, cacheHead,  \* refs/remotes/canonical/<b> and HEAD in the cache
  plans,                \* exported managed-artifact plans
  journal,              \* published <<session, phase>> records
  pc, cur,              \* position of each session: step, repository
  stage,                \* the caller that observes: plan, dryrun, prepare, push
  seen,                 \* READMEObservation under construction
  plan,                 \* plan[s]: repository |-> reviewed action
  candidate,            \* PreparedCommit of each repository, all or none
  attempt,              \* PushResult.Pushed of each repository
  err,                  \* none, stale (errors.Is ErrStale) or failed
  exit,                 \* process exit status, -1 while running
  moves,
  landed,               \* history: updates sessions made to canonical branches
  switched              \* history: repositories whose default branch was changed

remoteVars == <<tip, head, inflight, landed, switched>>
cacheVars == <<cacheTip, cacheHead>>
vars == <<tip, head, inflight, cacheTip, cacheHead, plans, journal, pc, cur, stage,
          seen, plan, candidate, attempt, err, exit, moves, landed,
          switched>>

NoPlan == [r \in {} |-> 0]
Root(t) == <<[readme |-> t, by |-> User]>>
Readme(commit) == Last(commit).readme

Init ==
  /\ \E t \in [Repos -> Texts] : tip = [r \in Repos |-> [b \in Branches |-> Root(t[r])]]
  /\ head \in [Repos -> Branches]
  /\ inflight = {} /\ landed = {} /\ switched = {} /\ plans = {} /\ journal = {}
  /\ cacheTip = [r \in Repos |-> [b \in Branches |-> <<>>]]
  /\ cacheHead = [r \in Repos |-> NoBranch]
  /\ pc = [s \in Sessions |-> "idle"] /\ cur = [s \in Sessions |-> 1]
  /\ stage = [s \in Sessions |-> "plan"]
  /\ seen = [s \in Sessions |-> [branch |-> NoBranch, base |-> <<>>]]
  /\ plan = [s \in Sessions |-> NoPlan] /\ candidate = [s \in Sessions |-> NoPlan]
  /\ attempt = [s \in Sessions |-> [r \in Repos |-> "none"]]
  /\ err = [s \in Sessions |-> "none"] /\ exit = [s \in Sessions |-> -1]
  /\ moves = 0

------------------------------------------------------------------------------
(* Control                                                                 *)

Goto(s, step, r) == pc' = [pc EXCEPT ![s] = step] /\ cur' = [cur EXCEPT ![s] = r]

Exit(s, code) ==
  /\ pc' = [pc EXCEPT ![s] = "done"]
  /\ exit' = [exit EXCEPT ![s] = code]
  /\ UNCHANGED cur

\* runApplyREADME: a stale plan exits 2, every other failure 1.
ExitCode(e) == CASE e = "none" -> 0 [] e = "stale" -> 2 [] OTHER -> 1

\* An error of kind e.  Execute hands it to finish; the others report it.
Fail(s, e) ==
  /\ err' = [err EXCEPT ![s] = e]
  /\ IF stage[s] \in {"prepare", "push"}
     THEN Goto(s, "finish", cur[s]) /\ UNCHANGED exit
     ELSE Exit(s, ExitCode(e))

\* The repositories a stage works on, and the first one after r.
Selected(s) == IF stage[s] = "plan" THEN Repos ELSE DOMAIN plan[s]
Later(s, r) == {q \in Selected(s) : q > r}

AfterObservations(s) ==
  CASE stage[s] = "plan"    -> Goto(s, "export", 1) /\ UNCHANGED exit
    [] stage[s] = "dryrun"  -> Exit(s, 0)
    [] stage[s] = "prepare" -> Goto(s, "commit", 1) /\ UNCHANGED exit
    [] OTHER                -> Goto(s, "push", Min(Selected(s))) /\ UNCHANGED exit

NextObservation(s) ==
  IF Later(s, cur[s]) # {}
  THEN Goto(s, "fetch", Min(Later(s, cur[s]))) /\ UNCHANGED exit
  ELSE AfterObservations(s)

------------------------------------------------------------------------------
(* Planning                                                                *)

StartPlan(s) ==
  /\ pc[s] = "idle"
  /\ Goto(s, "fetch", 1)
  /\ UNCHANGED <<remoteVars, cacheVars, plans, journal, stage, seen, plan, candidate,
                 attempt, err, exit, moves>>

ImportPlan(s) ==
  /\ pc[s] = "idle"
  /\ \E p \in plans : plan' = [plan EXCEPT ![s] = p]
  /\ Goto(s, "reviewed", 1)
  /\ UNCHANGED <<remoteVars, cacheVars, plans, journal, stage, seen, candidate, attempt,
                 err, exit, moves>>

\* GitREADMEObserver.ObserveREADME: fetch, set-head, then three separate reads
\* of the cache: default branch, base commit, README of canonical/HEAD.
Fetch(s) ==
  /\ pc[s] = "fetch"
  /\ cacheTip' = [cacheTip EXCEPT ![cur[s]] = tip[cur[s]]]
  /\ Goto(s, "head", cur[s])
  /\ UNCHANGED <<remoteVars, cacheHead, plans, journal, stage, seen, plan, candidate,
                 attempt, err, exit, moves>>

SetRemoteHead(s) ==
  /\ pc[s] = "head"
  /\ cacheHead' = [cacheHead EXCEPT ![cur[s]] = head[cur[s]]]
  /\ Goto(s, "branch", cur[s])
  /\ UNCHANGED <<remoteVars, cacheTip, plans, journal, stage, seen, plan, candidate,
                 attempt, err, exit, moves>>

ReadBranch(s) ==
  /\ pc[s] = "branch"
  /\ seen' = [seen EXCEPT ![s].branch = cacheHead[cur[s]]]
  /\ Goto(s, "base", cur[s])
  /\ UNCHANGED <<remoteVars, cacheVars, plans, journal, stage, plan, candidate, attempt,
                 err, exit, moves>>

CachedHead(r) == cacheTip[r][cacheHead[r]]

ReadBase(s) ==
  /\ pc[s] = "base"
  /\ seen' = [seen EXCEPT ![s].base = CachedHead(cur[s])]
  /\ Goto(s, "content", cur[s])
  /\ UNCHANGED <<remoteVars, cacheVars, plans, journal, stage, plan, candidate, attempt,
                 err, exit, moves>>

PlanAction(s, text) ==
  [branch |-> seen[s].branch, base |-> seen[s].base, observed |-> text,
   desired |-> Rendered[cur[s]]]

Planned(s, text) == [q \in DOMAIN plan[s] \cup {cur[s]} |->
                       IF q = cur[s] THEN PlanAction(s, text) ELSE plan[s][q]]

\* Mutant of PlanRepository: repositories that need no change are planned too.
PlanEveryRepository(s) ==
  /\ pc[s] = "content" /\ stage[s] = "plan"
  /\ plan' = [plan EXCEPT ![s] = Planned(s, Readme(CachedHead(cur[s])))]
  /\ NextObservation(s)
  /\ UNCHANGED <<remoteVars, cacheVars, plans, journal, stage, seen, candidate, attempt,
                 err, moves>>

\* BuildPlan: a repository whose README equals the rendered one is left out.
PlanRepository(s) ==
  LET text == Readme(CachedHead(cur[s])) IN
  /\ pc[s] = "content" /\ stage[s] = "plan"
  /\ plan' = IF text = Rendered[cur[s]] THEN plan
             ELSE [plan EXCEPT ![s] = Planned(s, text)]
  /\ NextObservation(s)
  /\ UNCHANGED <<remoteVars, cacheVars, plans, journal, stage, seen, candidate, attempt,
                 err, moves>>

ExportPlan(s) ==
  /\ pc[s] = "export"
  /\ plans' = plans \cup {plan[s]}
  /\ Goto(s, "reviewed", 1)
  /\ UNCHANGED <<remoteVars, cacheVars, journal, stage, seen, plan, candidate, attempt,
                 err, exit, moves>>

ObserveFails(s) ==
  /\ pc[s] \in {"fetch", "head", "branch", "base", "content"}
  /\ Fail(s, "failed")
  /\ UNCHANGED <<remoteVars, cacheVars, plans, journal, stage, seen, plan, candidate,
                 attempt, moves>>

------------------------------------------------------------------------------
(* Apply                                                                   *)

\* apply-readme --dry-run, and apply of a plan without repositories.
StartDryRun(s) ==
  /\ pc[s] = "reviewed"
  /\ stage' = [stage EXCEPT ![s] = "dryrun"]
  /\ IF plan[s] = NoPlan THEN Exit(s, 0) ELSE Goto(s, "config", 1) /\ UNCHANGED exit
  /\ UNCHANGED <<remoteVars, cacheVars, plans, journal, seen, plan, candidate, attempt,
                 err, moves>>

Publish(s, phase) == journal' = journal \cup {<<s, phase>>}

\* Mutant of WriteIntent: an INTENT that could not be written is only a warning.
WriteIntentUnchecked(s) ==
  /\ pc[s] = "reviewed" /\ plan[s] # NoPlan
  /\ Publish(s, "INTENT") \/ UNCHANGED journal
  /\ stage' = [stage EXCEPT ![s] = "prepare"]
  /\ Goto(s, "config", 1)
  /\ UNCHANGED <<remoteVars, cacheVars, plans, seen, plan, candidate, attempt, err, exit,
                 moves>>

\* WriteManagedArtifact publishes the record, or fails before publication, or
\* publishes and then fails: only the first lets Execute continue.
WriteIntent(s) ==
  /\ pc[s] = "reviewed" /\ plan[s] # NoPlan
  /\ \/ /\ Publish(s, "INTENT")
        /\ stage' = [stage EXCEPT ![s] = "prepare"]
        /\ Goto(s, "config", 1)
        /\ UNCHANGED exit
     \/ /\ UNCHANGED journal \/ Publish(s, "INTENT")
        /\ Exit(s, 1)
        /\ UNCHANGED stage
  /\ UNCHANGED <<remoteVars, cacheVars, plans, seen, plan, candidate, attempt, err, moves>>

\* PreflightPlan: the current configuration still binds every repository of the
\* plan, or the plan is stale.
BindConfiguration(s) ==
  /\ pc[s] = "config"
  /\ \/ Goto(s, "fetch", Min(DOMAIN plan[s])) /\ UNCHANGED <<err, exit>>
     \/ Fail(s, "stale")
  /\ UNCHANGED <<remoteVars, cacheVars, plans, journal, stage, seen, plan, candidate,
                 attempt, moves>>

\* PreflightPlan: branch, base commit and README are the reviewed ones.
Preflight(s) ==
  LET a == plan[s][cur[s]] IN
  /\ pc[s] = "content" /\ stage[s] # "plan"
  /\ IF /\ a.branch = seen[s].branch
        /\ a.base = seen[s].base
        /\ a.observed = Readme(CachedHead(cur[s]))
     THEN NextObservation(s) /\ UNCHANGED err
     ELSE Fail(s, "stale")
  /\ UNCHANGED <<remoteVars, cacheVars, plans, journal, stage, seen, plan, candidate,
                 attempt, moves>>

\* CommitPreparer.Prepare, then the local verification Pusher.Push begins with.
\* Prepare returns no commit at all when one of them fails.
CommitCandidates(s) ==
  /\ pc[s] = "commit"
  /\ \/ Fail(s, "failed") /\ UNCHANGED <<candidate, stage>>
     \/ /\ \E at \in Stamps :
             candidate' = [candidate EXCEPT ![s] =
               [r \in DOMAIN plan[s] |->
                  Append(plan[s][r].base, [readme |-> plan[s][r].desired, by |-> at])]]
        /\ stage' = [stage EXCEPT ![s] = "push"]
        /\ \/ Goto(s, "fetch", Min(DOMAIN plan[s])) /\ UNCHANGED <<err, exit>>
           \/ Fail(s, "failed")
  /\ UNCHANGED <<remoteVars, cacheVars, plans, journal, seen, plan, attempt, moves>>

Update(s) == [s |-> s, r |-> cur[s], b |-> plan[s][cur[s]].branch,
              over |-> plan[s][cur[s]].base, new |-> candidate[s][cur[s]]]

\* The server accepts an update whose lease holds.
LeaseHolds(u) == tip[u.r][u.b] = u.over

Land(u) ==
  /\ tip' = [tip EXCEPT ![u.r][u.b] = u.new]
  /\ landed' = landed \cup {[u EXCEPT !.over = tip[u.r][u.b]]}

\* After a push Git sets the cache's tracking ref of the branch it updated.
Track(u) == cacheTip' = [cacheTip EXCEPT ![u.r][u.b] = u.new]

Attempted(s, how) == attempt' = [attempt EXCEPT ![s][cur[s]] = how]

AfterPush(s) ==
  IF Later(s, cur[s]) # {} THEN Goto(s, "push", Min(Later(s, cur[s])))
  ELSE Goto(s, "finish", cur[s])

\* Mutant of Push: an ordinary forced push, without the exact-base lease.
PushUnleased(s) ==
  /\ pc[s] = "push"
  /\ Land(Update(s))
  /\ Attempted(s, "pushed")
  /\ Track(Update(s))
  /\ AfterPush(s)
  /\ UNCHANGED <<head, switched, inflight, cacheHead, plans, journal, stage, seen, plan,
                 candidate, err, exit, moves>>

\* A leased push that is accepted, or finds the branch already at the candidate
\* (another session made the identical commit in the same second).
Push(s) ==
  LET u == Update(s) IN
  /\ pc[s] = "push"
  /\ \/ LeaseHolds(u) /\ Land(u)
     \/ tip[u.r][u.b] = u.new /\ UNCHANGED <<tip, landed>>
  /\ Attempted(s, "pushed")
  /\ Track(Update(s))
  /\ AfterPush(s)
  /\ UNCHANGED <<head, switched, inflight, cacheHead, plans, journal, stage, seen, plan,
                 candidate, err, exit, moves>>

\* Mutant of PushRejected: a refused lease is classified as a stale plan.
PushRejectedAsStale(s) ==
  /\ pc[s] = "push"
  /\ tip[cur[s]][Update(s).b] \notin {Update(s).over, Update(s).new}
  /\ Attempted(s, "failed")
  /\ Fail(s, "stale")
  /\ UNCHANGED <<remoteVars, cacheVars, plans, journal, stage, seen, plan, candidate, moves>>

\* The lease does not hold: this push fails and later ones are not attempted.
PushRejected(s) ==
  /\ pc[s] = "push"
  /\ tip[cur[s]][Update(s).b] \notin {Update(s).over, Update(s).new}
  /\ Attempted(s, "failed")
  /\ Fail(s, "failed")
  /\ UNCHANGED <<remoteVars, cacheVars, plans, journal, stage, seen, plan, candidate, moves>>

\* What may have happened when git push fails on transport or is killed at its
\* time limit: nothing, or the update landed, or it is still on its way.
Unanswered(u) ==
  \/ UNCHANGED <<tip, landed, inflight>>
  \/ LeaseHolds(u) /\ Land(u) /\ UNCHANGED inflight
  \/ inflight' = inflight \cup {u} /\ UNCHANGED <<tip, landed>>

\* Mutant of PushTimesOut: the failed push is not among the returned results.
PushTimesOutUnlisted(s) ==
  /\ pc[s] = "push"
  /\ Unanswered(Update(s))
  /\ Fail(s, "failed")
  /\ UNCHANGED <<head, switched, cacheVars, plans, journal, stage, seen, plan, candidate, attempt,
                 moves>>

PushTimesOut(s) ==
  /\ pc[s] = "push"
  /\ Unanswered(Update(s))
  /\ Attempted(s, "failed")
  /\ Fail(s, "failed")
  /\ UNCHANGED <<head, switched, cacheVars, plans, journal, stage, seen, plan, candidate,
                 moves>>

------------------------------------------------------------------------------
(* Evidence: ManagedArtifactResult and ManagedArtifactRecord.Validate      *)

Overall(s) ==
  CASE err[s] = "none" -> "APPLIED" [] err[s] = "stale" -> "STALE" [] OTHER -> "FAILED"

\* Mutant of RepositoryOutcome: prepared repositories are SKIPPED even when the
\* whole plan is stale.
RepositoryOutcomePrepared(s, r) ==
  IF attempt[s][r] = "pushed" THEN "APPLIED"
  ELSE IF attempt[s][r] = "failed" THEN "FAILED"
  ELSE IF r \in DOMAIN candidate[s] THEN "SKIPPED"
  ELSE IF Overall(s) = "STALE" THEN "STALE" ELSE "FAILED"

RepositoryOutcome(s, r) ==
  IF attempt[s][r] = "pushed" THEN "APPLIED"
  ELSE IF attempt[s][r] = "failed" THEN "FAILED"
  ELSE IF Overall(s) = "STALE" THEN "STALE"
  ELSE IF r \in DOMAIN candidate[s] THEN "SKIPPED" ELSE "FAILED"

ValidResult(s) ==
  LET R == DOMAIN plan[s]
      all(o) == \A r \in R : RepositoryOutcome(s, r) = o
  IN
  /\ Overall(s) = "APPLIED" => all("APPLIED")
  /\ Overall(s) = "STALE" => all("STALE")
  /\ Overall(s) = "FAILED" => ~all("APPLIED")
  /\ \A r \in R : RepositoryOutcome(s, r) = "APPLIED" => r \in DOMAIN candidate[s]

\* Mutant of Finish: an error of the RESULT write is dropped.
FinishIgnoringJournal(s) ==
  /\ pc[s] = "finish"
  /\ Publish(s, "RESULT") \/ UNCHANGED journal
  /\ Exit(s, ExitCode(err[s]))
  /\ UNCHANGED <<remoteVars, cacheVars, plans, stage, seen, plan, candidate, attempt, err,
                 moves>>

\* finish: the RESULT is built, validated and written, whatever the outcome; an
\* error of any of these joins the execution's own.
Finish(s) ==
  /\ pc[s] = "finish"
  /\ \/ /\ ValidResult(s)
        /\ Publish(s, "RESULT")
        /\ Exit(s, ExitCode(err[s]))
     \/ /\ UNCHANGED journal \/ (ValidResult(s) /\ Publish(s, "RESULT"))
        /\ Exit(s, ExitCode(IF err[s] = "none" THEN "failed" ELSE err[s]))
  /\ UNCHANGED <<remoteVars, cacheVars, plans, stage, seen, plan, candidate, attempt, err,
                 moves>>

------------------------------------------------------------------------------
(* The environment                                                         *)

Crash(s) ==
  /\ pc[s] \notin {"idle", "reviewed", "done", "crashed"}
  /\ pc' = [pc EXCEPT ![s] = "crashed"]
  /\ UNCHANGED <<remoteVars, cacheVars, plans, journal, cur, stage, seen, plan, candidate,
                 attempt, err, exit, moves>>

sessionVars == <<plans, journal, pc, cur, stage, seen, plan, candidate, attempt, err, exit>>

UserCommits(r, b, t) ==
  /\ moves < MaxEnvMoves
  /\ tip' = [tip EXCEPT ![r][b] = Append(@, [readme |-> t, by |-> User])]
  /\ moves' = moves + 1
  /\ UNCHANGED <<head, switched, inflight, landed, cacheVars, sessionVars>>

UserSetsDefault(r, b) ==
  /\ moves < MaxEnvMoves /\ head[r] # b
  /\ head' = [head EXCEPT ![r] = b]
  /\ switched' = switched \cup {r}
  /\ moves' = moves + 1
  /\ UNCHANGED <<tip, inflight, landed, cacheVars, sessionVars>>

\* Another command (mirror status, plan or apply) refreshes the same cache.
OtherFetch(r) ==
  /\ cacheTip[r] # tip[r]
  /\ cacheTip' = [cacheTip EXCEPT ![r] = tip[r]]
  /\ UNCHANGED <<remoteVars, cacheHead, sessionVars, moves>>

OtherSetHead(r) ==
  /\ cacheTip[r][head[r]] # <<>> /\ cacheHead[r] # head[r]
  /\ cacheHead' = [cacheHead EXCEPT ![r] = head[r]]
  /\ UNCHANGED <<remoteVars, cacheTip, sessionVars, moves>>

UpdateArrives(u) ==
  /\ inflight' = inflight \ {u}
  /\ \/ LeaseHolds(u) /\ Land(u)
     \/ UNCHANGED <<tip, landed>>
  /\ UNCHANGED <<head, switched, cacheVars, sessionVars, moves>>

Environment ==
  \/ \E r \in Repos, b \in Branches, t \in Texts : UserCommits(r, b, t)
  \/ \E r \in Repos, b \in Branches : UserSetsDefault(r, b)
  \/ \E r \in Repos : OtherFetch(r) \/ OtherSetHead(r)
  \/ \E u \in inflight : UpdateArrives(u)

Observe(s) == Fetch(s) \/ SetRemoteHead(s) \/ ReadBranch(s) \/ ReadBase(s) \/ ObserveFails(s)

Plan(s) == StartPlan(s) \/ ImportPlan(s) \/ PlanRepository(s) \/ ExportPlan(s)

Apply(s) ==
  \/ StartDryRun(s) \/ WriteIntent(s) \/ BindConfiguration(s) \/ Preflight(s)
  \/ CommitCandidates(s) \/ Push(s) \/ PushRejected(s) \/ PushTimesOut(s) \/ Finish(s)

Next == (\E s \in Sessions : Observe(s) \/ Plan(s) \/ Apply(s) \/ Crash(s)) \/ Environment

Spec == Init /\ [][Next]_vars

------------------------------------------------------------------------------
(* Properties                                                              *)

Change == [readme : Texts, by : Stamps \cup {User}]
IsCommit(c) == c \in Seq(Change)
IsPlan(p) ==
  /\ DOMAIN p \subseteq Repos
  /\ \A r \in DOMAIN p :
       /\ p[r].branch \in Branches /\ IsCommit(p[r].base)
       /\ p[r].observed \in Texts \ {Rendered[r]} /\ p[r].desired = Rendered[r]

\* Types; a plan always names a real branch and never a README already as wanted.
TypeOK ==
  /\ \A r \in Repos, b \in Branches : IsCommit(tip[r][b]) /\ IsCommit(cacheTip[r][b])
  /\ head \in [Repos -> Branches]
  /\ cacheHead \in [Repos -> Branches \cup {NoBranch}]
  /\ journal \subseteq Sessions \X {"INTENT", "RESULT"}
  /\ cur \in [Sessions -> Repos]
  /\ stage \in [Sessions -> {"plan", "dryrun", "prepare", "push"}]
  /\ \A s \in Sessions : IsPlan(plan[s]) /\ DOMAIN candidate[s] \in {{}, DOMAIN plan[s]}
  /\ attempt \in [Sessions -> [Repos -> {"none", "pushed", "failed"}]]
  /\ err \in [Sessions -> {"none", "stale", "failed"}]
  /\ exit \in [Sessions -> {-1, 0, 1, 2}]

\* Every update a session makes to a canonical branch, however late it lands,
\* appends one commit with the reviewed text to the reviewed base, which is what
\* the branch holds at that moment: no foreign commit is lost.
ReviewedBaseOnly ==
  \A u \in landed :
    LET a == plan[u.s][u.r] IN
    u.over = a.base /\ Front(u.new) = u.over /\ Readme(u.new) = a.desired

\* As long as nobody has changed the repository's default branch, an update
\* replaces the very README text the operator reviewed, although an observation is
\* three reads of a shared cache: the lease is what makes up for that.
ReviewedTextOnly ==
  \A u \in landed : u.r \notin switched => Readme(u.over) = plan[u.s][u.r].observed

\* The evidence never denies a change: a repository reported SKIPPED or STALE
\* was not changed by the session and will not be by an update still under way,
\* and one reported APPLIED holds the candidate in its history.
EvidenceIsHonest ==
  \A s \in Sessions : <<s, "RESULT">> \in journal =>
    \A r \in DOMAIN plan[s] :
      /\ RepositoryOutcome(s, r) \in {"SKIPPED", "STALE"} =>
           \A u \in landed \cup inflight : ~(u.s = s /\ u.r = r)
      /\ RepositoryOutcome(s, r) = "APPLIED" =>
           IsPrefix(candidate[s][r], tip[r][plan[s][r].branch])

\* Whatever failed and wherever, the RESULT that Execute builds passes the
\* record's own validation: no outcome of an execution is unrecordable.
ResultIsRecordable == \A s \in Sessions : pc[s] = "finish" => ValidResult(s)

\* Exit status 2 (stale plan) means no canonical branch was or will be changed.
StaleChangesNothing ==
  \A s \in Sessions : exit[s] = 2 => \A u \in landed \cup inflight : u.s # s

\* Exit status 0 of a real apply means every planned repository took the change
\* and both records were published.
SuccessIsComplete ==
  \A s \in Sessions : exit[s] = 0 /\ stage[s] \in {"prepare", "push"} =>
    /\ {<<s, "INTENT">>, <<s, "RESULT">>} \subseteq journal
    /\ \A r \in DOMAIN plan[s] : attempt[s][r] = "pushed"

Tried == {x \in Sessions \X Repos : attempt[x[1]][x[2]] # "none"}
Audited == INSTANCE AuditedExecution
             WITH Executions <- Sessions, Targets <- Repos, attempted <- Tried
\* apply-readme implements the audit promise: INTENT first, each repository
\* attempted at most once, RESULT last.
AuditedSpec == Audited!Spec
=============================================================================
