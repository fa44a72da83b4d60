----------------------------- MODULE MirrorCache -----------------------------
(***************************************************************************)
(* internal/git: the bare cache <uid>.git that every execution for one     *)
(* repository shares, without a lock.  An execution makes the cache usable *)
(* (EnsureMirror), binds the remote names "canonical" and "mirror" or      *)
(* "mirror-0", "mirror-1", ... to the endpoints of its own configuration,  *)
(* fetches, resolves the default branches, reads the tracking refs, and    *)
(* pushes by remote name (status.Check, status.CheckAll, the executor).    *)
(*                                                                         *)
(* Commits are module MirrorApply's concern.  Here a tracking ref is the   *)
(* endpoint it was fetched from, so that a ref, or a push, of one endpoint *)
(* taken for another's can be seen.  An endpoint hosts one branch, which   *)
(* others may rename.                                                      *)
(***************************************************************************)
EXTENDS Integers, Sequences

CONSTANTS
  Procs,        \* executions of the tool
  Endpoints,    \* repositories at providers
  Branches,
  Configs,      \* values of the entry: <<canonical, mirror, ...>>
  MaxFaults,    \* bound on failed or killed Git commands and executions
  MaxRenames    \* bound on default branches renamed by others

ASSUME MirrorCacheAssumption ==
  /\ \A c \in Configs : c \in Seq(Endpoints) /\ Len(c) > 1
  /\ \E longest \in Configs : \A c \in Configs : Len(c) <= Len(longest)
  /\ MaxFaults \in Nat /\ MaxRenames \in Nat

None == "none"
ASSUME NoneAssumption ==
  None \notin Endpoints /\ None \notin Branches /\ "error" \notin Endpoints

VARIABLES
  hosted,    \* the branch each endpoint hosts
  cache,     \* what is at the cache path
  conf,      \* each execution's configuration
  multi,     \* it observes with CheckAll, not with Check
  pc, at,    \* control: phase, and step of the program
  seen,      \* whose commit it reports for each index of conf, or "error"
  pushed,    \* where the push for each index went
  disturbed, \* since it began another ran, a command failed or a branch was renamed
  faults, renames

vars == <<hosted, cache, conf, multi, pc, at, seen, pushed, disturbed, faults, renames>>
inputs == <<conf, multi>>
results == <<seen, pushed>>

MaxLen == CHOOSE n \in {Len(c) : c \in Configs} : \A c \in Configs : Len(c) <= n

\* Remote names: 1 is "canonical", 0 is "mirror", i > 1 is "mirror-<i - 2>".
Aliases == 0 .. MaxLen
Alias(p, i) == IF i = 1 \/ multi[p] THEN i ELSE 0
Indexes(p) == 1 .. Len(conf[p])

NoRefs == [b \in Branches |-> None]
Empty == [kind |-> "bare", bind |-> [a \in Aliases |-> None],
          track |-> [a \in Aliases |-> NoRefs], head |-> [a \in Aliases |-> None]]
Other(kind) == [Empty EXCEPT !.kind = kind]

Kinds == {"absent", "file", "link", "junk", "bare"}
Repositories ==
  [kind : Kinds, bind : [Aliases -> Endpoints \cup {None}],
   track : [Aliases -> [Branches -> Endpoints \cup {None}]],
   head : [Aliases -> Branches \cup {None}]]

\* What is left half-way through os.RemoveAll, which deletes in any order: not a
\* repository, or a bare one that lost its configuration or its tracking refs.
Torn(c) ==
  {Other("junk")} \cup
  {[c EXCEPT !.bind = b,
             !.track = [a \in Aliases |-> IF a \in kept THEN c.track[a] ELSE NoRefs],
             !.head = [a \in Aliases |-> IF a \in kept THEN c.head[a] ELSE None]] :
     b \in {c.bind, Empty.bind}, kept \in {{}, Aliases}}

\* The program after EnsureMirror: Check prepares both remotes together,
\* CheckAll observes one after the other; then the pushes in order.
Ops == <<"bind", "fetch", "resolve", "read">>
Program(p) ==
  LET n == Len(conf[p])
      observe == IF multi[p]
                 THEN [k \in 1 .. 4 * n |-> <<Ops[((k - 1) % 4) + 1], ((k - 1) \div 4) + 1>>]
                 ELSE [k \in 1 .. 4 * n |-> <<Ops[((k - 1) \div n) + 1], ((k - 1) % n) + 1>>]
  IN  observe \o [k \in 1 .. n - 1 |-> <<"push", k + 1>>]

Init ==
  /\ hosted \in [Endpoints -> Branches]
  /\ cache \in {Other(k) : k \in Kinds}
  /\ conf \in [Procs -> Configs]
  /\ multi \in [Procs -> BOOLEAN] /\ \A p \in Procs : ~multi[p] => Len(conf[p]) = 2
  /\ pc = [p \in Procs |-> "idle"] /\ at = [p \in Procs |-> 1]
  /\ seen = [p \in Procs |-> [i \in 1 .. MaxLen |-> None]]
  /\ pushed = [p \in Procs |-> [i \in 1 .. MaxLen |-> None]]
  /\ disturbed = [p \in Procs |-> FALSE]
  /\ faults = 0 /\ renames = 0

------------------------------------------------------------------------------
Active(p) == pc[p] \notin {"idle", "done", "failed", "dead"}
Goto(p, phase) == pc' = [pc EXCEPT ![p] = phase]
Calm == UNCHANGED <<disturbed, faults>>

\* A command of p fails, or is killed at its time limit.
Fault(p) ==
  /\ faults < MaxFaults /\ faults' = faults + 1
  /\ disturbed' = [disturbed EXCEPT ![p] = TRUE]

\* The operator overlaps only executions that give no remote name two meanings.
Agree(p, q) ==
  \A i \in Indexes(p), j \in Indexes(q) : Alias(p, i) = Alias(q, j) => conf[p][i] = conf[q][j]

Start(p) ==
  /\ pc[p] = "idle"
  /\ \A q \in Procs : Active(q) => Agree(p, q)
  /\ Goto(p, "inspect")
  /\ disturbed' = [q \in Procs |-> \/ disturbed[q]
                                   \/ q = p /\ \E r \in Procs : Active(r)
                                   \/ q # p /\ Active(q)]
  /\ UNCHANGED <<hosted, cache, inputs, at, results, faults, renames>>

------------------------------------------------------------------------------
(* EnsureMirror                                                            *)

\* Mutant of Inspect: a directory that exists is a cache.
InspectPresence(p) ==
  /\ pc[p] = "inspect"
  /\ CASE cache.kind = "link"   -> Goto(p, "failed")
       [] cache.kind = "file"   -> Goto(p, "unlink")
       [] cache.kind = "absent" -> Goto(p, "clone")
       [] OTHER                 -> Goto(p, "run")
  /\ Calm
  /\ UNCHANGED <<hosted, cache, inputs, at, results, renames>>

\* The path must hold no symlink.  A directory in which rev-parse fails, for
\* whatever reason, or does not say "true" is removed.
Inspect(p) ==
  /\ pc[p] = "inspect"
  /\ \/ /\ CASE cache.kind = "link"   -> Goto(p, "failed")
             [] cache.kind = "file"   -> Goto(p, "unlink")
             [] cache.kind = "absent" -> Goto(p, "clone")
             [] cache.kind = "junk"   -> Goto(p, "remove")
             [] cache.kind = "bare"   -> Goto(p, "run")
        /\ Calm
     \/ cache.kind \in {"junk", "bare"} /\ Fault(p) /\ Goto(p, "remove")
     \/ Fault(p) /\ Goto(p, "failed")
  /\ UNCHANGED <<hosted, cache, inputs, at, results, renames>>

\* os.Remove of what was a file when it was looked at.
Unlink(p) ==
  /\ pc[p] = "unlink"
  /\ \/ /\ cache.kind \in {"file", "link"}
        /\ cache' = Other("absent") /\ Goto(p, "clone") /\ Calm
     \/ /\ cache.kind \notin {"file", "link"} \* gone, or a directory that is not empty
        /\ Goto(p, "failed") /\ UNCHANGED cache /\ Calm
     \/ Fault(p) /\ Goto(p, "failed") /\ UNCHANGED cache
  /\ UNCHANGED <<hosted, inputs, at, results, renames>>

\* removeMirrorPath before a clone ("remove") or after a failed one ("cleanup").
RemoveSome(p) ==
  /\ pc[p] \in {"remove", "cleanup"}
  /\ \/ /\ cache.kind \in {"junk", "bare"}
        /\ cache' \in Torn(cache)
        /\ Goto(p, IF pc[p] = "remove" THEN "removing" ELSE "cleaning") /\ Calm
     \/ /\ cache.kind \in {"absent", "file"}
        /\ cache' = Other("absent")
        /\ Goto(p, IF pc[p] = "remove" THEN "clone" ELSE "failed") /\ Calm
     \/ cache.kind = "link" /\ Goto(p, "failed") /\ UNCHANGED cache /\ Calm
     \/ Fault(p) /\ Goto(p, "failed") /\ UNCHANGED cache
  /\ UNCHANGED <<hosted, inputs, at, results, renames>>

RemoveRest(p) ==
  /\ pc[p] \in {"removing", "cleaning"}
  /\ \/ /\ cache' = Other("absent")
        /\ Goto(p, IF pc[p] = "removing" THEN "clone" ELSE "failed") /\ Calm
     \/ Fault(p) /\ Goto(p, "failed") /\ UNCHANGED cache
  /\ UNCHANGED <<hosted, inputs, at, results, renames>>

\* git clone --mirror refuses a path that holds something.  A failed clone is
\* cleaned up, whoever put there what it ran into.
CloneBegin(p) ==
  /\ pc[p] = "clone"
  /\ \/ /\ cache.kind = "absent"
        /\ cache' = Empty /\ Goto(p, "cloning") /\ Calm
     \/ cache.kind # "absent" /\ Goto(p, "cleanup") /\ UNCHANGED cache /\ Calm
     \/ Fault(p) /\ Goto(p, "cleanup") /\ UNCHANGED cache
  /\ UNCHANGED <<hosted, inputs, at, results, renames>>

\* If others removed the directory meanwhile, what the clone still writes is junk.
CloneEnd(p) ==
  /\ pc[p] = "cloning"
  /\ \/ cache.kind = "bare" /\ Goto(p, "run") /\ UNCHANGED cache /\ Calm
     \/ /\ cache.kind # "bare" /\ Goto(p, "cleanup") /\ Calm
        /\ cache' \in {cache, Other("junk")}
     \/ /\ Fault(p) /\ Goto(p, "cleanup")
        /\ cache' \in {cache, Other("absent")}    \* Git removes its own junk if it can
  /\ UNCHANGED <<hosted, inputs, at, results, renames>>

------------------------------------------------------------------------------
(* Observation and pushes                                                  *)

Step(p) == Program(p)[at[p]]
Doing(p, op) == pc[p] = "run" /\ at[p] <= Len(Program(p)) /\ Step(p)[1] = op
Target(p) == conf[p][Step(p)[2]]
Name(p) == Alias(p, Step(p)[2])
Proceed(p) == at' = [at EXCEPT ![p] = @ + 1] /\ UNCHANGED pc

\* A failed observation: CheckAll goes on with the next mirror, but a failure of
\* the canonical remote, and any failure in Check, ends it.
Fails(p) ==
  LET i == Step(p)[2]
  IN  IF multi[p] /\ i > 1
      THEN /\ seen' = [seen EXCEPT ![p][i] = "error"]
           /\ at' = [at EXCEPT ![p] = 4 * i + 1] /\ UNCHANGED <<pc, pushed>>
      ELSE Goto(p, "failed") /\ UNCHANGED <<at, results>>

\* Mutant of Bind: a remote name that exists is kept.
BindOnce(p) ==
  /\ Doing(p, "bind")
  /\ cache' = IF cache.bind[Name(p)] = None THEN [cache EXCEPT !.bind[Name(p)] = Target(p)]
              ELSE cache
  /\ Proceed(p) /\ UNCHANGED results /\ Calm
  /\ UNCHANGED <<hosted, inputs, renames>>

\* Mutant of Bind: the URL is written into a configuration file, repository or not.
BindUnchecked(p) ==
  /\ Doing(p, "bind")
  /\ cache' = [cache EXCEPT !.bind[Name(p)] = Target(p)]
  /\ Proceed(p) /\ UNCHANGED results /\ Calm
  /\ UNCHANGED <<hosted, inputs, renames>>

\* ConfigureRemote: set-url if get-url knows the name, add otherwise.
Bind(p) ==
  /\ Doing(p, "bind")
  /\ \/ /\ cache.kind = "bare"
        /\ cache' = [cache EXCEPT !.bind[Name(p)] = Target(p)]
        /\ Proceed(p) /\ UNCHANGED results /\ Calm
     \/ cache.kind # "bare" /\ Fails(p) /\ UNCHANGED cache /\ Calm
     \/ Fault(p) /\ Fails(p) /\ UNCHANGED cache
  /\ UNCHANGED <<hosted, inputs, renames>>

Bound(p) == cache.kind = "bare" /\ cache.bind[Name(p)] # None

\* The tracking refs of remote e after fetch --prune.
Fetched(e) == [b \in Branches |-> IF b = hosted[e] THEN e ELSE None]

\* A fetch that is killed has changed some of the refs.
Fetch(p) ==
  /\ Doing(p, "fetch")
  /\ \/ /\ Bound(p)
        /\ cache' = [cache EXCEPT !.track[Name(p)] = Fetched(cache.bind[Name(p)])]
        /\ Proceed(p) /\ UNCHANGED results /\ Calm
     \/ ~Bound(p) /\ Fails(p) /\ UNCHANGED cache /\ Calm
     \/ /\ Fault(p) /\ Fails(p)
        /\ \/ UNCHANGED cache
           \/ Bound(p) /\ \E some \in SUBSET Branches :
                cache' = [cache EXCEPT !.track[Name(p)] =
                            [b \in Branches |-> IF b \in some THEN @[b]
                                                ELSE Fetched(cache.bind[Name(p)])[b]]]
  /\ UNCHANGED <<hosted, inputs, renames>>

\* SetRemoteHead asks the remote for its default branch; it must be tracked.
Resolvable(p) ==
  Bound(p) /\ cache.track[Name(p)][hosted[cache.bind[Name(p)]]] # None

Resolve(p) ==
  /\ Doing(p, "resolve")
  /\ \/ /\ Resolvable(p)
        /\ cache' = [cache EXCEPT !.head[Name(p)] = hosted[cache.bind[Name(p)]]]
        /\ Proceed(p) /\ UNCHANGED results /\ Calm
     \/ ~Resolvable(p) /\ Fails(p) /\ UNCHANGED cache /\ Calm
     \/ Fault(p) /\ Fails(p) /\ UNCHANGED cache
  /\ UNCHANGED <<hosted, inputs, renames>>

\* <name>/HEAD, through the symbolic ref to the tracking ref.
HeadOf(a) ==
  IF cache.kind = "bare" /\ cache.head[a] # None THEN cache.track[a][cache.head[a]] ELSE None

Read(p) ==
  /\ Doing(p, "read")
  /\ \/ /\ HeadOf(Name(p)) # None
        /\ seen' = [seen EXCEPT ![p][Step(p)[2]] = HeadOf(Name(p))]
        /\ Proceed(p) /\ UNCHANGED pushed /\ Calm
     \/ HeadOf(Name(p)) = None /\ Fails(p) /\ Calm
     \/ Fault(p) /\ Fails(p)
  /\ UNCHANGED <<hosted, cache, inputs, renames>>

\* A status, a failed observation or a plan without actions ends here.
EndObservation(p) ==
  /\ pc[p] = "run" /\ at[p] = 4 * Len(conf[p]) + 1
  /\ Goto(p, IF \E i \in Indexes(p) : seen[p][i] = "error" THEN "failed" ELSE "done")
  /\ Calm
  /\ UNCHANGED <<hosted, cache, inputs, at, results, renames>>

\* One push by remote name; a failed one does not stop the others.
Push(p) ==
  /\ Doing(p, "push")
  /\ \A i \in Indexes(p) : seen[p][i] # "error"
  /\ \/ /\ Bound(p)
        /\ pushed' = [pushed EXCEPT ![p][Step(p)[2]] = cache.bind[Name(p)]]
        /\ Calm
     \/ ~Bound(p) /\ UNCHANGED pushed /\ Calm
     \/ Fault(p) /\ UNCHANGED pushed
  /\ Proceed(p)
  /\ UNCHANGED <<hosted, cache, inputs, seen, renames>>

EndPushes(p) ==
  /\ pc[p] = "run" /\ at[p] > Len(Program(p))
  /\ Goto(p, "done") /\ Calm
  /\ UNCHANGED <<hosted, cache, inputs, at, results, renames>>

------------------------------------------------------------------------------
Kill(p) ==
  /\ Active(p) /\ Fault(p) /\ Goto(p, "dead")
  /\ UNCHANGED <<hosted, cache, inputs, at, results, renames>>

Rename(e) ==
  /\ renames < MaxRenames /\ renames' = renames + 1
  /\ \E b \in Branches \ {hosted[e]} : hosted' = [hosted EXCEPT ![e] = b]
  /\ disturbed' = [p \in Procs |-> disturbed[p] \/ Active(p)]
  /\ UNCHANGED <<cache, inputs, pc, at, results, faults>>

Execution(p) ==
  Start(p) \/ Inspect(p) \/ Unlink(p) \/ RemoveSome(p) \/ RemoveRest(p) \/ CloneBegin(p)
  \/ CloneEnd(p) \/ Bind(p) \/ Fetch(p) \/ Resolve(p) \/ Read(p) \/ EndObservation(p)
  \/ Push(p) \/ EndPushes(p) \/ Kill(p)

Next == (\E p \in Procs : Execution(p)) \/ (\E e \in Endpoints : Rename(e))

Spec == Init /\ [][Next]_vars

------------------------------------------------------------------------------
(* Properties                                                              *)

\* Types; and only a bare repository has remotes and tracking refs.
TypeOK ==
  /\ hosted \in [Endpoints -> Branches]
  /\ cache \in Repositories
  /\ cache.kind # "bare" => cache = Other(cache.kind)
  /\ conf \in [Procs -> Configs] /\ multi \in [Procs -> BOOLEAN]
  /\ pc \in [Procs -> {"idle", "inspect", "unlink", "remove", "removing", "clone", "cloning",
                       "cleanup", "cleaning", "run", "done", "failed", "dead"}]
  /\ at \in [Procs -> Nat \ {0}] /\ \A p \in Procs : at[p] <= Len(Program(p)) + 1
  /\ seen \in [Procs -> [1 .. MaxLen -> Endpoints \cup {None, "error"}]]
  /\ pushed \in [Procs -> [1 .. MaxLen -> Endpoints \cup {None}]]
  /\ disturbed \in [Procs -> BOOLEAN]
  /\ faults \in 0 .. MaxFaults /\ renames \in 0 .. MaxRenames

\* What an execution reports of a target was fetched from that target, and what
\* it pushes for a target goes there, whatever configuration earlier executions,
\* finished, failed or killed, have left in the cache.
TargetsAreNotMixedUp ==
  \A p \in Procs : \A i \in Indexes(p) :
    /\ seen[p][i] \in {conf[p][i], None, "error"}
    /\ pushed[p][i] \in {conf[p][i], None}

\* Corrupted cache recovery: whatever an earlier execution left at the path, one
\* that nothing disturbs observes every endpoint.  Only a symlink stops it.
LoneExecutionSucceeds ==
  \A p \in Procs : pc[p] = "failed" => disturbed[p] \/ cache.kind = "link"
=============================================================================
