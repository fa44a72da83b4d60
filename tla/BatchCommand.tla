---------------------------- MODULE BatchCommand -----------------------------
(***************************************************************************)
(* cmd/repoctl: one `status', `plan' or `apply' command over several       *)
(* repositories.  The main goroutine launches one goroutine per repository *)
(* through a counting semaphore, starts a closer that waits for all of     *)
(* them, drains the results channel into a slice by index, and decides the *)
(* exit status; `apply' does this twice, to prepare and to execute.        *)
(*                                                                         *)
(* If the selection holds a repository with several mirrors, the           *)
(* path-bound commands run; otherwise the single-mirror ones do.  What     *)
(* happens inside one repository is module MirrorApply; here it is its     *)
(* outcome.                                                                *)
(***************************************************************************)
EXTENDS Integers, Sequences, FiniteSets

CONSTANTS
  NumRepos,    \* selected repositories
  Parallel,    \* value of --parallel
  Selections   \* values of hasMultiMirrorRepository(spec)

ASSUME BatchAssumption ==
  /\ NumRepos \in Nat \ {0}
  /\ Parallel \in Int
  /\ Selections \subseteq BOOLEAN

Repos == 1 .. NumRepos
Observations == {"ok", "unsafe", "error"}   \* unsafe: some mirror AHEAD or DIVERGED

Slots == IF Parallel < 1 THEN 1 ELSE Parallel

VARIABLES
  cmd,        \* the command line, and whether its selection has several mirrors
  forcedIn,   \* repositories whose action an imported artifact marks forced
  main,       \* main goroutine: launch, collect, decide, audit, exited
  round,      \* prepare or execute
  next,       \* index the launching loop has reached
  slots,      \* semaphore slots taken
  task,       \* state of each repository's goroutine
  made,       \* what its call returned
  channel,    \* resultsCh: <<index, result>>
  closed,
  placed,     \* results stored by index: `ordered', or summary.results and ok
  status,     \* placed, as the prepare round left it
  built,      \* repositories whose exact plan exists
  intents, mutated,
  exported,   \* an exact artifact was written to standard output
  exit

vars == <<cmd, forcedIn, main, round, next, slots, task, made, channel, closed, placed,
          status, built, intents, mutated, exported, exit>>
pool == <<next, slots, task, made, channel, closed, placed>>
effects == <<built, intents, mutated, exported>>

\* A flag that the command does not read is left out.
CommandLines ==
  {c \in [command : {"status", "plan", "apply"}, force : BOOLEAN, continue : BOOLEAN,
          dryRun : BOOLEAN, imported : BOOLEAN, artifact : BOOLEAN, multi : Selections] :
     /\ c.artifact => c.command = "plan"
     /\ c.imported \/ c.dryRun => c.command = "apply"
     /\ c.command = "status" => ~c.force /\ ~c.continue
     /\ c.command = "apply" /\ (c.multi \/ c.imported) => ~c.continue}

Multi == cmd.multi

Fresh(x) == [r \in Repos |-> x]

Init ==
  /\ cmd \in CommandLines
  /\ forcedIn \in (IF cmd.imported THEN SUBSET Repos ELSE {{}})
  /\ main = "launch" /\ round = "prepare"
  /\ next = 1 /\ slots = 0
  /\ task = Fresh("new") /\ made = Fresh("none") /\ placed = Fresh("none")
  /\ channel = <<>> /\ closed = FALSE
  /\ status = Fresh("none")
  /\ built = {} /\ intents = {} /\ mutated = {} /\ exported = FALSE
  /\ exit = -1

------------------------------------------------------------------------------
(* The pool                                                                *)

Failed == {r \in Repos : status[r] = "error"}
Unsafe == {r \in Repos : status[r] = "unsafe"}

\* collectApplyResults skips the repositories whose check failed.
Launched == IF round = "execute" /\ ~Multi THEN Repos \ Failed ELSE Repos

\* The channel holds every result: nobody receives before the loop has ended.
Capacity == Cardinality(Launched)

\* Mutant of Launch: goroutines are launched without waiting for a slot.
LaunchUnbounded ==
  /\ main = "launch" /\ next <= NumRepos
  /\ IF next \in Launched
     THEN slots' = slots + 1 /\ task' = [task EXCEPT ![next] = "running"]
     ELSE UNCHANGED <<slots, task>>
  /\ next' = next + 1
  /\ UNCHANGED <<cmd, forcedIn, main, round, made, channel, closed, placed, status,
                 effects, exit>>

Launch ==
  /\ main = "launch" /\ next <= NumRepos
  /\ IF next \in Launched
     THEN /\ slots < Slots
          /\ slots' = slots + 1
          /\ task' = [task EXCEPT ![next] = "running"]
     ELSE UNCHANGED <<slots, task>>
  /\ next' = next + 1
  /\ UNCHANGED <<cmd, forcedIn, main, round, made, channel, closed, placed, status,
                 effects, exit>>

AllLaunched ==
  /\ main = "launch" /\ next > NumRepos
  /\ main' = "collect"
  /\ UNCHANGED <<cmd, forcedIn, round, pool, status, effects, exit>>

Return(r, x) ==
  /\ made' = [made EXCEPT ![r] = x]
  /\ task' = [task EXCEPT ![r] = "sending"]

\* statusCheck or statusCheckAll; the path-bound commands go on to build, or
\* cut out of the imported artifact, the repository's exact plan.
Prepare(r) ==
  /\ task[r] = "running" /\ round = "prepare"
  /\ \E x \in Observations :
       /\ Return(r, x)
       /\ built' = IF Multi /\ cmd.command # "status" /\ x # "error"
                   THEN built \cup {r} ELSE built
  /\ UNCHANGED <<cmd, forcedIn, main, round, next, slots, channel, closed, placed, status,
                 intents, mutated, exported, exit>>

Forced(r) == IF cmd.imported THEN r \in forcedIn ELSE status[r] = "unsafe"

\* Up to and including the INTENT: the single-mirror apply without an artifact
\* builds the plan only here.  A forced action is refused without --force.
StartExecution(r) ==
  /\ task[r] = "running" /\ round = "execute"
  /\ \/ /\ Return(r, "error")
        /\ UNCHANGED <<built, intents>>
     \/ /\ Forced(r) => cmd.force \/ cmd.dryRun
        /\ built' = built \cup {r}
        /\ intents' = intents \cup {r}
        /\ task' = [task EXCEPT ![r] = "pushing"]
        /\ UNCHANGED made
  /\ UNCHANGED <<cmd, forcedIn, main, round, next, slots, channel, closed, placed, status,
                 mutated, exported, exit>>

\* The pushes and the RESULT: a failed execution may have changed mirrors.
FinishExecution(r) ==
  /\ task[r] = "pushing"
  /\ \E x \in {"ok", "error"} : Return(r, x)
  /\ \/ ~cmd.dryRun /\ mutated' = mutated \cup {r}
     \/ UNCHANGED mutated
  /\ UNCHANGED <<cmd, forcedIn, main, round, next, slots, channel, closed, placed, status,
                 built, intents, exported, exit>>

\* The result is sent while the slot is still held; the deferred release and
\* wg.Done cannot block.
Send(r) ==
  /\ task[r] = "sending" /\ Len(channel) < Capacity
  /\ channel' = Append(channel, <<r, made[r]>>)
  /\ slots' = slots - 1
  /\ task' = [task EXCEPT ![r] = "finished"]
  /\ UNCHANGED <<cmd, forcedIn, main, round, next, made, closed, placed, status,
                 effects, exit>>

\* Mutant of Close: wg.Add counts every repository, as in the first round.
CloseAfterAll ==
  /\ main = "collect" /\ ~closed
  /\ \A r \in Repos : task[r] = "finished"
  /\ closed' = TRUE
  /\ UNCHANGED <<cmd, forcedIn, main, round, next, slots, task, made, channel, placed,
                 status, effects, exit>>

\* The closer goroutine, started after the loop.
Close ==
  /\ main = "collect" /\ ~closed
  /\ \A r \in Launched : task[r] = "finished"
  /\ closed' = TRUE
  /\ UNCHANGED <<cmd, forcedIn, main, round, next, slots, task, made, channel, placed,
                 status, effects, exit>>

\* Mutant of Collect: results are kept in the order of their arrival.
CollectInOrderOfArrival ==
  /\ main = "collect" /\ channel # <<>>
  /\ placed' = [placed EXCEPT ![1 + Cardinality({r \in Repos : placed[r] # "none"})] =
                  Head(channel)[2]]
  /\ channel' = Tail(channel)
  /\ UNCHANGED <<cmd, forcedIn, main, round, next, slots, task, made, closed, status,
                 effects, exit>>

Collect ==
  /\ main = "collect" /\ channel # <<>>
  /\ placed' = [placed EXCEPT ![Head(channel)[1]] = Head(channel)[2]]
  /\ channel' = Tail(channel)
  /\ UNCHANGED <<cmd, forcedIn, main, round, next, slots, task, made, closed, status,
                 effects, exit>>

Drained ==
  /\ main = "collect" /\ channel = <<>> /\ closed
  /\ main' = "decide"
  /\ status' = IF round = "prepare" THEN placed ELSE status
  /\ UNCHANGED <<cmd, forcedIn, round, pool, effects, exit>>

------------------------------------------------------------------------------
(* Decisions of the main goroutine                                         *)

Exit(code) == main' = "exited" /\ exit' = code
Deciding(command, in) == main = "decide" /\ round = in /\ cmd.command = command

StatusCode == IF Failed # {} THEN 1 ELSE IF Unsafe # {} THEN 2 ELSE 0

\* runMultiStatus; --continue-on-error only decides what is printed.
DecideStatus ==
  /\ Deciding("status", "prepare")
  /\ Exit(StatusCode)
  /\ UNCHANGED <<cmd, forcedIn, round, pool, status, effects>>

\* run's own check, before the single-mirror plan and apply.
StopsOnError == Failed # {} /\ ~cmd.continue

\* runMultiMirrorPlan.
DecidePathBoundPlan ==
  /\ Deciding("plan", "prepare") /\ Multi
  /\ IF StopsOnError \/ (cmd.artifact /\ Failed # {})
     THEN Exit(1) /\ UNCHANGED exported
     ELSE /\ exported' = cmd.artifact
          /\ Exit(IF Failed # {} THEN 1 ELSE IF Unsafe # {} /\ ~cmd.force THEN 2 ELSE 0)
  /\ UNCHANGED <<cmd, forcedIn, round, pool, status, built, intents, mutated>>

\* Mutant of SingleArtifactSuppressed: only a failed build suppresses it.
SuppressedOnBuildError(unbuilt) == unbuilt # {}

SingleArtifactSuppressed(unbuilt) == Failed # {} \/ unbuilt # {}

\* runPlan: buildPlanArtifact plans the checked repositories one by one.
DecideSinglePlan ==
  /\ Deciding("plan", "prepare") /\ ~Multi
  /\ IF StopsOnError
     THEN Exit(1) /\ UNCHANGED <<built, exported>>
     ELSE \E unbuilt \in SUBSET (Repos \ Failed) :
            /\ built' = Repos \ (Failed \cup unbuilt)
            /\ exported' = (cmd.artifact /\ ~SingleArtifactSuppressed(unbuilt))
            /\ Exit(IF unbuilt # {} \/ (cmd.artifact /\ SingleArtifactSuppressed(unbuilt)) THEN 1
                    ELSE IF Failed # {} THEN (IF Unsafe # {} THEN 2 ELSE 1)
                    ELSE IF Unsafe # {} /\ ~cmd.force THEN 2 ELSE 0)
  /\ UNCHANGED <<cmd, forcedIn, round, pool, status, intents, mutated>>

Unauthorized == ~cmd.force /\ ~cmd.dryRun /\ \E r \in Repos : Forced(r)

\* Mutant of Refusal: --force also skips failed repositories on the path-bound
\* path.
RefusalUnlessForced ==
  IF Failed # {} /\ (cmd.imported \/ ~cmd.force \/ (~Multi /\ StopsOnError)) THEN 1
  ELSE IF Unauthorized THEN 2 ELSE 0

\* Mutant of Refusal: nothing is refused as a whole for lack of --force.
RefusalOfFailuresOnly ==
  IF Failed # {} /\ (Multi \/ StopsOnError \/ cmd.imported \/ ~cmd.force) THEN 1 ELSE 0

\* Why an apply that has observed everything goes no further; 0 if it does.
\* runPathBoundApply stops on any preparation failure; runApply goes on with
\* the other repositories when --force and --continue-on-error are given.
Refusal ==
  IF Failed # {} /\ (Multi \/ StopsOnError \/ cmd.imported \/ ~cmd.force) THEN 1
  ELSE IF Unauthorized THEN 2 ELSE 0

RefuseApply ==
  /\ Deciding("apply", "prepare") /\ Refusal # 0
  /\ Exit(Refusal)
  /\ UNCHANGED <<cmd, forcedIn, round, pool, status, effects>>

\* newAudit, then the second pool.
ExecuteRound ==
  /\ Deciding("apply", "prepare") /\ Refusal = 0
  /\ \/ Exit(1) /\ UNCHANGED <<round, pool, built>>
     \/ /\ round' = "execute" /\ main' = "launch"
        /\ next' = 1 /\ closed' = FALSE
        /\ task' = Fresh("new") /\ made' = Fresh("none") /\ placed' = Fresh("none")
        /\ built' = IF cmd.imported THEN Repos ELSE built
        /\ UNCHANGED <<slots, channel, exit>>
  /\ UNCHANGED <<cmd, forcedIn, status, intents, mutated, exported>>

\* Mutant of AnyError: a later success hides an earlier error.
LastError == placed[NumRepos] = "error"

AnyError == \E r \in Repos : placed[r] = "error"

DecideApply ==
  /\ Deciding("apply", "execute")
  /\ Exit(IF AnyError THEN 1 ELSE 0)
  /\ UNCHANGED <<cmd, forcedIn, round, pool, status, effects>>

------------------------------------------------------------------------------
Main == Launch \/ AllLaunched \/ Collect \/ Drained \/ DecideStatus
        \/ DecidePathBoundPlan \/ DecideSinglePlan \/ RefuseApply \/ ExecuteRound
        \/ DecideApply

Worker(r) == Prepare(r) \/ StartExecution(r) \/ FinishExecution(r) \/ Send(r)

\* The process has exited: nothing further is asked of it.
Exited == main = "exited" /\ UNCHANGED vars

Next == Main \/ Close \/ (\E r \in Repos : Worker(r)) \/ Exited

Spec == Init /\ [][Next]_vars

\* The Go scheduler runs every goroutine that is not blocked, and every call a
\* worker makes returns: Git commands are killed at their time limit.
FairSpec == Spec /\ WF_vars(Main) /\ WF_vars(Close) /\ \A r \in Repos : WF_vars(Worker(r))

------------------------------------------------------------------------------
(* Properties                                                              *)

\* Types of every variable; at most Slots goroutines work at the same time, and
\* only a repository with an INTENT is changed.
TypeOK ==
  /\ cmd \in CommandLines /\ forcedIn \subseteq Repos
  /\ main \in {"launch", "collect", "decide", "exited"} /\ round \in {"prepare", "execute"}
  /\ next \in 1 .. NumRepos + 1 /\ slots \in 0 .. Slots
  /\ task \in [Repos -> {"new", "running", "pushing", "sending", "finished"}]
  /\ made \in [Repos -> Observations \cup {"none"}]
  /\ placed \in [Repos -> Observations \cup {"none"}]
  /\ status \in [Repos -> Observations \cup {"none"}]
  /\ channel \in Seq(Repos \X Observations) /\ closed \in BOOLEAN
  /\ built \subseteq Repos /\ intents \subseteq Repos /\ mutated \subseteq intents
  /\ exported \in BOOLEAN /\ exit \in {-1, 0, 1, 2}

\* Before any selected repository is given an INTENT, every selected repository
\* has been observed without error and its exact plan exists.
PreparedBeforeIntent ==
  intents # {} => /\ \A r \in Repos : status[r] \in {"ok", "unsafe"}
                  /\ built = Repos

\* The path-bound apply keeps that promise.
PathBoundPreparedBeforeIntent == Multi => PreparedBeforeIntent

\* Exit status 0 means the requested operation completed: every selected
\* repository was observed without error, and a plan has planned, an apply
\* executed, every one of them.
SuccessIsComplete ==
  exit = 0 =>
    /\ \A r \in Repos : status[r] \in {"ok", "unsafe"}
    /\ cmd.command = "plan" => built = Repos
    /\ cmd.command = "apply" => intents = Repos /\ \A r \in Repos : made[r] = "ok"

\* The one command line that goes on without the repositories whose check failed.
GoesOnWithout == ~Multi /\ cmd.command = "apply" /\ cmd.force /\ cmd.continue /\ ~cmd.imported

\* Every other command line keeps that meaning of exit status 0.
OtherwiseSuccessIsComplete == ~GoesOnWithout => SuccessIsComplete

\* A selection with a forced action and no --force is refused as a whole: no
\* repository gets an INTENT, also those that need no force.
RefusedAsAWhole == intents # {} => ~Unauthorized

\* An exact artifact is exported only when it covers the whole selection.
ExportIsComplete == exported => built = Repos

\* Results end up under their own index, whatever order the goroutines end in:
\* decisions never mix repositories up, and none is lost.
ResultsKeepTheirPlace ==
  main = "decide" => \A r \in Launched : placed[r] = made[r]

\* No deadlock of the launching loop, the workers, the closer and the receiver.
Terminates == <>(main = "exited")
=============================================================================
