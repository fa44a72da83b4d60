-------------------------- MODULE MirrorApplyProofs --------------------------
(***************************************************************************)
(* Theorems about MirrorApply, for every number of executions, mirrors,    *)
(* commits and branches.                                                   *)
(***************************************************************************)
EXTENDS MirrorApply, FiniteSetTheorems, TLAPS

(***************************************************************************)
(* The cache.  TypeOK is not inductive: a plan holds commits only because  *)
(* the planner never reads a tracking ref that was not fetched, and that   *)
(* depends on how far the observation is and on every mirror that failed   *)
(* having stopped the command before the plan.                             *)
(***************************************************************************)
Planning == {"planhead", "planmirror", "export", "authorize", "validate", "intent",
             "preflight", "push", "result"}

Fetched(p, r) ==
  \/ pc[p] = "fetch" /\ r < cur[p]
  \/ pc[p] = "head" /\ (NumMirrors = 1 \/ r <= cur[p])
  \/ pc[p] = "compare" /\ r <= cur[p]
  \/ pc[p] \in Planning \cup {"observed"}

HeadKnown(p, r) ==
  \/ pc[p] = "fetch" /\ NumMirrors # 1 /\ r < cur[p]
  \/ pc[p] = "head" /\ r < cur[p]
  \/ pc[p] = "compare" /\ r <= cur[p]
  \/ pc[p] \in Planning \cup {"observed"}

\* What an execution has fetched without error is in the cache, and stays there.
CacheFilled ==
  \A p \in Procs, r \in Remotes :
    r = 0 \/ observed[p][r] # "ERROR" =>
      /\ Fetched(p, r) => track[r] \in [Branches -> Commits]
      /\ HeadKnown(p, r) => trackHead[r] \in Branches

\* A mirror is marked only when its turn has passed, and an execution that plans
\* has observed every mirror.
PlanningReady ==
  \A p \in Procs :
    /\ \A m \in Mirrors :
         pc[p] = "idle" \/ (pc[p] \in {"fetch", "head", "compare"} /\ cur[p] <= m) =>
           observed[p][m] = "UNSEEN"
    /\ pc[p] \in Planning => \A m \in Mirrors : observed[p][m] # "ERROR"
    /\ pc[p] = "planmirror" => branch[p] \in Branches
    /\ pc[p] \in {"compare", "planmirror", "preflight", "push"} => cur[p] \in Mirrors

TypeInv == TypeOK /\ CacheFilled /\ PlanningReady

------------------------------------------------------------------------------
\* The constants name at least one mirror, and mirrors are remotes.
LEMMA MirrorsAreRemotes ==
  /\ NumMirrors \in Nat
  /\ NumMirrors >= 1
  /\ 0 \in Remotes
  /\ 1 \in Mirrors
  /\ Mirrors \subseteq Remotes
BY MirrorApplyAssumption DEF Remotes, Mirrors

\* The observation order stays within its steps and within the remotes.
LEMMA NextObservationInRange ==
  ASSUME NEW r \in Remotes, NEW next \in {AfterFetch(r), AfterSetHead(r), AfterMirror(r)}
  PROVE  /\ next[1] \in {"fetch", "head", "compare", "observed"}
         /\ next[2] \in Remotes
         /\ next[1] = "compare" => next[2] \in Mirrors
BY MirrorsAreRemotes DEF AfterFetch, AfterSetHead, AfterMirror, Remotes, Mirrors

\* InterpretDivergence yields one of the four states of a compared mirror.
LEMMA InterpretDivergenceIsState ==
  ASSUME NEW l, NEW r
  PROVE  InterpretDivergence(l, r) \in States \ {"UNSEEN", "ERROR"}
BY DEF InterpretDivergence, States

\* Init establishes TypeInv.
LEMMA TypeInvInit == Init => TypeInv
<1> SUFFICES ASSUME Init PROVE TypeInv
  OBVIOUS
<1>1. RemotesOK
  BY MirrorsAreRemotes, MirrorApplyAssumption DEF Init, RemotesOK
<1>2. CacheOK
  BY DEF Init, CacheOK
<1>3. ExecutionsOK
  BY MirrorsAreRemotes DEF Init, ExecutionsOK, AllModes, Steps, Outcomes
<1>4. PlansOK
  <2>1. \A p \in Procs : planned[p] = [m \in {} |-> NoOID]
    BY DEF Init
  <2>2. IsPlan([m \in {} |-> NoOID])
    BY DEF IsPlan
  <2> QED
    BY <2>1, <2>2 DEF Init, PlansOK, States
<1>5. CacheFilled
  BY DEF Init, CacheFilled, Fetched, HeadKnown, Planning
<1>6. PlanningReady
  BY DEF Init, PlanningReady, Planning
<1> QED
  BY <1>1, <1>2, <1>3, <1>4, <1>5, <1>6 DEF TypeInv, TypeOK

(***************************************************************************)
(* What a step of an execution does to its position and to the cache.      *)
(***************************************************************************)
Moves(p) ==
  /\ pc' = [pc EXCEPT ![p] = pc'[p]]
  /\ cur' = [cur EXCEPT ![p] = cur'[p]]
  /\ pc'[p] \in Steps
  /\ cur'[p] \in Remotes
  /\ pc'[p] \in {"compare", "planmirror", "preflight", "push"} => cur'[p] \in Mirrors

\* Goto leads to a step the control invariant knows.
LEMMA GotoMoves ==
  ASSUME TypeOK, NEW p \in Procs, NEW s \in Steps, NEW r \in Remotes, Goto(p, s, r)
  PROVE  pc'[p] = s /\ cur'[p] = r /\ (r \in Mirrors => Moves(p))
           /\ (s \notin {"compare", "planmirror", "preflight", "push"} => Moves(p))
BY DEF TypeOK, ExecutionsOK, Goto, Moves

\* Exit ends the command and leaves its cursor.
LEMMA ExitMoves ==
  ASSUME TypeOK, NEW p \in Procs, NEW code, Exit(p, code)
  PROVE  pc'[p] = "done" /\ cur'[p] = cur[p] /\ Moves(p)
BY DEF TypeOK, ExecutionsOK, Exit, Moves, Steps

\* Every step of an execution moves it along Moves, and no other execution.
LEMMA StepMoves ==
  ASSUME TypeInv, NEW p \in Procs, Step(p) \/ Crash(p)
  PROVE  Moves(p)
<1> USE DEF TypeInv
<1> DEFINE m == cur[p]
<1>0. m \in Remotes
  BY DEF TypeOK, ExecutionsOK

<1>1. CASE Start(p)
  BY <1>1, GotoMoves, ExitMoves, MirrorsAreRemotes
     DEF Start, Steps
<1>2. CASE Fetch(p)
  <2> DEFINE next == AfterFetch(m)
  <2>1. /\ next[1] \in {"fetch", "head", "compare", "observed"} /\ next[2] \in Remotes
        /\ next[1] = "compare" => next[2] \in Mirrors
    BY <1>0, NextObservationInRange
  <2>2. Goto(p, next[1], next[2])
    BY <1>2 DEF Fetch
  <2> HIDE DEF next
  <2> QED
    BY <2>1, <2>2, GotoMoves DEF Steps
<1>3. CASE SetRemoteHead(p)
  <2> DEFINE next == AfterSetHead(m)
  <2>1. /\ next[1] \in {"fetch", "head", "compare", "observed"} /\ next[2] \in Remotes
        /\ next[1] = "compare" => next[2] \in Mirrors
    BY <1>0, NextObservationInRange
  <2>2. Goto(p, next[1], next[2])
    BY <1>3 DEF SetRemoteHead
  <2> HIDE DEF next
  <2> QED
    BY <2>1, <2>2, GotoMoves DEF Steps
<1>4. CASE CompareMirror(p)
  <2> DEFINE next == AfterMirror(m)
  <2>1. /\ next[1] \in {"fetch", "head", "compare", "observed"} /\ next[2] \in Remotes
        /\ next[1] = "compare" => next[2] \in Mirrors
    BY <1>0, NextObservationInRange
  <2>2. Goto(p, next[1], next[2])
    BY <1>4 DEF CompareMirror
  <2> HIDE DEF next
  <2> QED
    BY <2>1, <2>2, GotoMoves DEF Steps
<1>5. CASE ObserveFails(p)
  <2>1. CASE m = 0 \/ NumMirrors = 1
    BY <1>5, <2>1, ExitMoves DEF ObserveFails
  <2>2. CASE ~(m = 0 \/ NumMirrors = 1)
    <3>1. AfterMirror(m)[1] \in {"fetch", "observed"} /\ AfterMirror(m)[2] \in Remotes
      BY <1>0, <2>2, MirrorsAreRemotes DEF AfterMirror, Remotes
    <3> QED
      BY <1>5, <2>2, <3>1, GotoMoves DEF ObserveFails, Steps
  <2> QED
    BY <2>1, <2>2
<1>6. CASE ObservationDone(p)
  BY <1>6, GotoMoves, ExitMoves, MirrorsAreRemotes
     DEF ObservationDone, AfterObservation, Steps
<1>7. CASE ReadCanonicalHead(p)
  BY <1>7, GotoMoves, ExitMoves, MirrorsAreRemotes
     DEF ReadCanonicalHead, Steps
<1>8. CASE PlanMirror(p)
  <2>1. m \in Mirrors
    BY <1>8 DEF PlanningReady, PlanMirror
  <2>2. m < NumMirrors => m + 1 \in Mirrors
    BY <2>1, MirrorsAreRemotes DEF Mirrors
  <2> QED
    BY <1>8, <2>1, <2>2, GotoMoves, MirrorsAreRemotes
       DEF PlanMirror, AfterPlan, Steps
<1>9. CASE ExportArtifact(p)
  BY <1>9, GotoMoves, ExitMoves, MirrorsAreRemotes
     DEF ExportArtifact, Steps
<1>10. CASE Authorize(p)
  BY <1>10, GotoMoves, ExitMoves, MirrorsAreRemotes
     DEF Authorize, AfterAuthorization, Steps
<1>11. CASE PreparationFails(p)
  BY <1>11, GotoMoves, ExitMoves, MirrorsAreRemotes
     DEF PreparationFails, Steps
<1>12. CASE Validate(p)
  BY <1>12, GotoMoves, ExitMoves, MirrorsAreRemotes
     DEF Validate, Steps
<1>13. CASE WriteIntent(p)
  BY <1>13, GotoMoves, ExitMoves, MirrorsAreRemotes
     DEF WriteIntent, Steps
<1>14. CASE Preflight(p)
  <2>1. m \in Mirrors
    BY <1>14 DEF PlanningReady, Preflight
  <2>2. m < NumMirrors => m + 1 \in Mirrors
    BY <2>1, MirrorsAreRemotes DEF Mirrors
  <2> QED
    BY <1>14, <2>1, <2>2, GotoMoves, MirrorsAreRemotes
       DEF Preflight, Steps
<1>15. CASE NoPush(p)
  <2>1. m \in Mirrors
    BY <1>15 DEF PlanningReady, NoPush
  <2>2. m < NumMirrors => m + 1 \in Mirrors
    BY <2>1, MirrorsAreRemotes DEF Mirrors
  <2> QED
    BY <1>15, <2>1, <2>2, GotoMoves, MirrorsAreRemotes
       DEF NoPush, NextPush, Steps
<1>16. CASE PushSucceeds(p)
  <2>1. m \in Mirrors
    BY <1>16 DEF PlanningReady, PushSucceeds
  <2>2. m < NumMirrors => m + 1 \in Mirrors
    BY <2>1, MirrorsAreRemotes DEF Mirrors
  <2> QED
    BY <1>16, <2>1, <2>2, GotoMoves, MirrorsAreRemotes
       DEF PushSucceeds, NextPush, Steps
<1>17. CASE PushFails(p)
  <2>1. m \in Mirrors
    BY <1>17 DEF PlanningReady, PushFails
  <2>2. m < NumMirrors => m + 1 \in Mirrors
    BY <2>1, MirrorsAreRemotes DEF Mirrors
  <2> QED
    BY <1>17, <2>1, <2>2, GotoMoves, MirrorsAreRemotes
       DEF PushFails, NextPush, Steps
<1>18. CASE PushTimesOut(p)
  <2>1. m \in Mirrors
    BY <1>18 DEF PlanningReady, PushTimesOut
  <2>2. m < NumMirrors => m + 1 \in Mirrors
    BY <2>1, MirrorsAreRemotes DEF Mirrors
  <2> QED
    BY <1>18, <2>1, <2>2, GotoMoves, MirrorsAreRemotes
       DEF PushTimesOut, NextPush, Steps
<1>19. CASE WriteResult(p)
  BY <1>19, GotoMoves, ExitMoves, MirrorsAreRemotes
     DEF WriteResult, Steps
<1>20. CASE Crash(p)
  BY <1>20 DEF Crash, Moves, Steps, TypeOK, ExecutionsOK, planVars
<1> QED
  BY <1>1, <1>2, <1>3, <1>4, <1>5, <1>6, <1>7, <1>8, <1>9, <1>10, <1>11, <1>12, <1>13, <1>14, <1>15, <1>16, <1>17, <1>18, <1>19, <1>20
     DEF Step, Observe, Plan, Prepare, Execute

CacheGrows ==
  \A r \in Remotes :
    /\ track[r] \in [Branches -> Commits] => track'[r] \in [Branches -> Commits]
    /\ trackHead[r] \in Branches => trackHead'[r] \in Branches

\* A push sends a commit: the run that pushes has fetched the canonical remote.
LEMMA PushSourceIsCommit ==
  ASSUME TypeInv, NEW p \in Procs, pc[p] = "push", NEW m \in DOMAIN planned[p]
  PROVE  m \in Mirrors /\ planned[p][m] \in Action /\ PushSource(p, m) \in Commits
<1>1. m \in Mirrors /\ planned[p][m] \in Action
  BY DEF TypeInv, TypeOK, PlansOK, IsPlan
<1>2. track[0] \in [Branches -> Commits]
  BY MirrorsAreRemotes DEF TypeInv, CacheFilled, Fetched, Planning
<1> QED
  BY <1>1, <1>2 DEF PushSource, Action

\* No step empties a tracking ref or HEAD of the cache, or stores an ill-typed one.
LEMMA StepGrowsCache ==
  ASSUME TypeInv, NEW p \in Procs, Step(p) \/ Crash(p)
  PROVE  CacheGrows /\ CacheOK'
<1> USE DEF TypeInv, TypeOK
<1>1. CASE UNCHANGED cacheVars
  BY <1>1 DEF CacheGrows, CacheOK, cacheVars
<1>2. CASE Fetch(p)
  <2>1. refs[cur[p]] \in [Branches -> Commits] /\ cur[p] \in Remotes
    BY DEF RemotesOK, ExecutionsOK
  <2> QED
    BY <1>2, <2>1 DEF Fetch, CacheGrows, CacheOK
<1>3. CASE SetRemoteHead(p)
  <2>1. head[cur[p]] \in Branches /\ cur[p] \in Remotes
    BY DEF RemotesOK, ExecutionsOK
  <2> QED
    BY <1>3, <2>1 DEF SetRemoteHead, CacheGrows, CacheOK
<1>4. CASE PushSucceeds(p)
  <2> DEFINE m == cur[p]  b == planned[p][m].dst  new == PushSource(p, m)
  <2>1. m \in Remotes /\ b \in Branches /\ new \in Commits
    BY <1>4, PushSourceIsCommit, MirrorsAreRemotes DEF PushSucceeds, Action
  <2>2. track' = [track EXCEPT ![m][b] = new] /\ trackHead' = trackHead
    BY <1>4 DEF PushSucceeds
  <2> HIDE DEF m, b, new
  <2> QED
    BY <2>1, <2>2 DEF CacheGrows, CacheOK
<1> QED
  BY <1>1, <1>2, <1>3, <1>4
     DEF Step, Observe, Plan, Prepare, Execute, Start, CompareMirror, ObserveFails,
         ObservationDone, ReadCanonicalHead, PlanMirror, ExportArtifact, Authorize,
         PreparationFails, Validate, WriteIntent, Preflight, NoPush, PushFails, PushTimesOut,
         WriteResult, Crash, cacheVars

\* Only the observation of p changes what p observed.
LEMMA StepKeepsObserved ==
  ASSUME TypeInv, NEW p \in Procs, Step(p) \/ Crash(p)
  PROVE  /\ \A q \in Procs \ {p} : observed'[q] = observed[q]
         /\ ~(CompareMirror(p) \/ ObserveFails(p)) => observed' = observed
<1>1. CASE CompareMirror(p) \/ ObserveFails(p)
  BY <1>1 DEF CompareMirror, ObserveFails, TypeInv, TypeOK, PlansOK
<1>2. CASE UNCHANGED observed
  BY <1>2
<1> QED
  BY <1>1, <1>2
     DEF Step, Observe, Plan, Prepare, Execute, Start, Fetch, SetRemoteHead,
         ObservationDone, ReadCanonicalHead, PlanMirror, ExportArtifact, Authorize,
         PreparationFails, Validate, WriteIntent, Preflight, NoPush, PushSucceeds, PushFails,
         PushTimesOut, WriteResult, Crash, planVars

\* The control flow between the steps that do not observe.
LEMMA StepControl ==
  ASSUME TypeInv, NEW p \in Procs, Step(p) \/ Crash(p),
         ~Start(p), ~Fetch(p), ~SetRemoteHead(p), ~CompareMirror(p), ~ObserveFails(p)
  PROVE  \/ pc'[p] \in {"done", "crashed"}
         \/ pc[p] = "observed" /\ pc'[p] \in Planning
            /\ \A m \in Mirrors : observed[p][m] # "ERROR"
         \/ pc[p] \in Planning /\ pc'[p] \in Planning
<1>1. CASE Crash(p)
  BY <1>1 DEF Crash, TypeInv, TypeOK, ExecutionsOK
<1>2. CASE ObservationDone(p)
  BY <1>2, ExitMoves, GotoMoves, MirrorsAreRemotes
     DEF ObservationDone, AfterObservation, Planning, TypeInv, Steps
<1>3. CASE ReadCanonicalHead(p)
  BY <1>3, GotoMoves, MirrorsAreRemotes DEF ReadCanonicalHead, Planning, TypeInv, Steps
<1>4. CASE PlanMirror(p) \/ Preflight(p) \/ NoPush(p) \/ PushSucceeds(p) \/ PushFails(p)
           \/ PushTimesOut(p)
  <2>1. cur[p] \in Mirrors
    BY <1>4 DEF PlanMirror, Preflight, NoPush, PushSucceeds, PushFails, PushTimesOut,
                TypeInv, PlanningReady
  <2>2. cur[p] < NumMirrors => cur[p] + 1 \in Mirrors
    BY <2>1, MirrorsAreRemotes DEF Mirrors
  <2> QED
    BY <1>4, <2>1, <2>2, GotoMoves, MirrorsAreRemotes
       DEF PlanMirror, Preflight, NoPush, PushSucceeds, PushFails, PushTimesOut, NextPush,
           AfterPlan, Planning, TypeInv, Steps
<1>5. CASE ExportArtifact(p) \/ PreparationFails(p) \/ WriteResult(p)
  BY <1>5, ExitMoves DEF ExportArtifact, PreparationFails, WriteResult, TypeInv
<1>6. CASE Authorize(p)
  BY <1>6, ExitMoves, GotoMoves, MirrorsAreRemotes
     DEF Authorize, AfterAuthorization, Planning, TypeInv, Steps
<1>7. CASE Validate(p)
  BY <1>7, ExitMoves, GotoMoves, MirrorsAreRemotes DEF Validate, Planning, TypeInv, Steps
<1>8. CASE WriteIntent(p)
  BY <1>8, ExitMoves, GotoMoves, MirrorsAreRemotes DEF WriteIntent, Planning, TypeInv, Steps
<1> QED
  BY <1>1, <1>2, <1>3, <1>4, <1>5, <1>6, <1>7, <1>8
     DEF Step, Observe, Plan, Prepare, Execute

\* A step keeps what each execution has fetched in the cache.
LEMMA CacheFilledStep ==
  ASSUME TypeInv, NEW p \in Procs, Step(p) \/ Crash(p)
  PROVE  CacheFilled'
<1> SUFFICES ASSUME NEW q \in Procs, NEW r \in Remotes,
                    r = 0 \/ observed'[q][r] # "ERROR"
             PROVE  /\ Fetched(q, r)' => track'[r] \in [Branches -> Commits]
                    /\ HeadKnown(q, r)' => trackHead'[r] \in Branches
  BY DEF CacheFilled
<1>1. CacheGrows
  BY StepGrowsCache
<1>2. Moves(p)
  BY StepMoves
<1>3. pc \in [Procs -> Steps] /\ cur \in [Procs -> Remotes]
  BY DEF TypeInv, TypeOK, ExecutionsOK
<1>4. CASE q # p
  <2>1. pc'[q] = pc[q] /\ cur'[q] = cur[q] /\ observed'[q] = observed[q]
    BY <1>2, <1>3, <1>4, StepKeepsObserved DEF Moves
  <2> QED
    BY <1>1, <2>1 DEF TypeInv, CacheFilled, CacheGrows, Fetched, HeadKnown
<1>5. CASE q = p /\ ~Start(p) /\ ~Fetch(p) /\ ~SetRemoteHead(p) /\ ~CompareMirror(p)
                 /\ ~ObserveFails(p)
  <2>1. observed' = observed
    BY <1>5, StepKeepsObserved
  <2>2. \/ pc'[p] \in {"done", "crashed"}
        \/ pc[p] \in Planning \cup {"observed"}
    BY <1>5, StepControl
  <2>3. CASE pc'[p] \in {"done", "crashed"}
    BY <1>5, <2>3 DEF Fetched, HeadKnown, Planning
  <2>4. CASE pc[p] \in Planning \cup {"observed"}
    <3>1. track[r] \in [Branches -> Commits] /\ trackHead[r] \in Branches
      BY <1>5, <2>1, <2>4 DEF TypeInv, CacheFilled, Fetched, HeadKnown
    <3> QED
      BY <1>1, <3>1 DEF CacheGrows
  <2> QED
    BY <2>2, <2>3, <2>4
<1>6. CASE q = p /\ Start(p)
  <2>1. pc'[p] = "fetch" /\ cur'[p] = 0
    BY <1>6, GotoMoves, MirrorsAreRemotes DEF Start, TypeInv, Steps
  <2> QED
    BY <1>6, <2>1 DEF Fetched, HeadKnown, Planning, Remotes
<1>7. CASE q = p /\ Fetch(p)
  <2> DEFINE next == AfterFetch(cur[p])
  <2>1. pc[p] = "fetch" /\ track' = [track EXCEPT ![cur[p]] = refs[cur[p]]]
        /\ UNCHANGED <<trackHead, observed>>
    BY <1>7 DEF Fetch, planVars
  <2>2. next[1] \in Steps /\ next[2] \in Remotes /\ Goto(p, next[1], next[2])
        /\ (next[1] = "compare" => next[2] \in Mirrors) /\ next[1] \notin {"planmirror", "preflight", "push"}
    BY <1>3, <1>7, NextObservationInRange DEF Fetch, Steps
  <2>3. pc'[p] = next[1] /\ cur'[p] = next[2]
    BY <2>2, GotoMoves DEF TypeInv
  <2>4. refs[cur[p]] \in [Branches -> Commits] /\ track \in [Remotes -> [Branches -> Commits \cup {NoOID}]]
    BY <1>3 DEF TypeInv, TypeOK, RemotesOK, CacheOK
  <2>5. next = IF NumMirrors > 1 THEN <<"head", cur[p]>>
               ELSE IF cur[p] = 0 THEN <<"fetch", 1>> ELSE <<"head", 0>>
    BY DEF AfterFetch
  <2>6. r # 0 => observed[p][r] # "ERROR"
    BY <1>7, <2>1, MirrorsAreRemotes DEF Remotes
  <2>7. r = cur[p] => track'[r] \in [Branches -> Commits]
    BY <1>3, <2>1, <2>4
  <2>8. r # cur[p] => track'[r] = track[r]
    BY <1>3, <2>1, <2>4
  <2>9. (r < cur[p] => track[r] \in [Branches -> Commits])
        /\ (NumMirrors # 1 /\ r < cur[p] => trackHead[r] \in Branches)
    BY <2>1, <2>6 DEF TypeInv, CacheFilled, Fetched, HeadKnown
  <2> QED
    BY <1>3, <1>7, <2>1, <2>3, <2>5, <2>7, <2>8, <2>9, MirrorsAreRemotes
       DEF Fetched, HeadKnown, Planning, Remotes
<1>8. CASE q = p /\ SetRemoteHead(p)
  <2> DEFINE next == AfterSetHead(cur[p])
  <2>1. pc[p] = "head" /\ trackHead' = [trackHead EXCEPT ![cur[p]] = head[cur[p]]]
        /\ UNCHANGED <<track, observed>>
    BY <1>8 DEF SetRemoteHead, planVars
  <2>2. next[1] \in Steps /\ next[2] \in Remotes /\ Goto(p, next[1], next[2])
        /\ (next[1] = "compare" => next[2] \in Mirrors) /\ next[1] \notin {"planmirror", "preflight", "push"}
    BY <1>3, <1>8, NextObservationInRange DEF SetRemoteHead, Steps
  <2>3. pc'[p] = next[1] /\ cur'[p] = next[2]
    BY <2>2, GotoMoves DEF TypeInv
  <2>4. head[cur[p]] \in Branches /\ trackHead \in [Remotes -> Branches \cup {NoBranch}]
    BY <1>3 DEF TypeInv, TypeOK, RemotesOK, CacheOK
  <2>5. next = IF cur[p] # 0 THEN <<"compare", cur[p]>>
               ELSE IF NumMirrors > 1 THEN <<"fetch", 1>> ELSE <<"head", 1>>
    BY DEF AfterSetHead
  <2>7. r = cur[p] => trackHead'[r] \in Branches
    BY <1>3, <2>1, <2>4
  <2>8. r # cur[p] => trackHead'[r] = trackHead[r]
    BY <1>3, <2>1, <2>4
  <2>9. (NumMirrors = 1 \/ r <= cur[p] => track[r] \in [Branches -> Commits])
        /\ (r < cur[p] => trackHead[r] \in Branches)
    BY <1>8, <2>1 DEF TypeInv, CacheFilled, Fetched, HeadKnown
  <2> QED
    BY <1>3, <1>8, <2>1, <2>3, <2>5, <2>7, <2>8, <2>9, MirrorsAreRemotes
       DEF Fetched, HeadKnown, Planning, Remotes
<1>9. CASE q = p /\ CompareMirror(p)
  <2> DEFINE next == AfterMirror(cur[p])
  <2>1. pc[p] = "compare" /\ UNCHANGED <<track, trackHead>> /\ cur[p] \in Mirrors
    BY <1>9 DEF CompareMirror, cacheVars, TypeInv, PlanningReady
  <2>2. next[1] \in Steps /\ next[2] \in Remotes /\ Goto(p, next[1], next[2])
        /\ (next[1] = "compare" => next[2] \in Mirrors) /\ next[1] \notin {"planmirror", "preflight", "push"}
    BY <1>3, <1>9, <2>1, NextObservationInRange DEF CompareMirror, Steps, Mirrors
  <2>3. pc'[p] = next[1] /\ cur'[p] = next[2]
    BY <2>2, GotoMoves DEF TypeInv
  <2>5. next = IF cur[p] < NumMirrors THEN <<"fetch", cur[p] + 1>>
               ELSE <<"observed", 0>>
    BY <2>1 DEF AfterMirror, Mirrors
  <2>6. r = 0 \/ observed[p][r] # "ERROR"
    <3>1. CASE r = cur[p]
      BY <2>1, <3>1 DEF TypeInv, PlanningReady, Mirrors
    <3>2. CASE r # cur[p]
      BY <1>9, <3>2 DEF CompareMirror, TypeInv, TypeOK, PlansOK
    <3> QED
      BY <3>1, <3>2
  <2>9. r <= cur[p] => track[r] \in [Branches -> Commits] /\ trackHead[r] \in Branches
    BY <2>1, <2>6 DEF TypeInv, CacheFilled, Fetched, HeadKnown
  <2> QED
    BY <1>3, <1>9, <2>1, <2>3, <2>5, <2>9, MirrorsAreRemotes
       DEF Fetched, HeadKnown, Planning, Remotes, Mirrors
<1>10. CASE q = p /\ ObserveFails(p)
  <2> DEFINE next == AfterMirror(cur[p])
  <2>0. pc[p] \in {"fetch", "head", "compare"} /\ UNCHANGED <<track, trackHead>>
    BY <1>10 DEF ObserveFails, cacheVars
  <2>1. CASE cur[p] = 0 \/ NumMirrors = 1
    BY <1>10, <2>1, ExitMoves DEF ObserveFails, TypeInv, Fetched, HeadKnown, Planning
  <2>2. CASE ~(cur[p] = 0 \/ NumMirrors = 1)
    <3>1. next = IF cur[p] < NumMirrors THEN <<"fetch", cur[p] + 1>> ELSE <<"observed", 0>>
      BY <2>2 DEF AfterMirror
    <3>2. next[1] \in Steps \ {"compare", "planmirror", "preflight", "push"}
          /\ next[2] \in Remotes /\ Goto(p, next[1], next[2])
      BY <1>3, <1>10, <2>2, <3>1, MirrorsAreRemotes DEF ObserveFails, Steps, Remotes
    <3>3. pc'[p] = next[1] /\ cur'[p] = next[2]
      BY <3>2, GotoMoves DEF TypeInv
    <3>4. observed' = [observed EXCEPT ![p][cur[p]] = "ERROR"] /\ cur[p] \in Mirrors
      BY <1>3, <1>10, <2>2, MirrorsAreRemotes DEF ObserveFails, Mirrors, Remotes
    <3>5. r # cur[p] /\ (r = 0 \/ observed[p][r] # "ERROR")
      BY <1>10, <2>2, <3>4 DEF TypeInv, TypeOK, PlansOK
    <3>6. r < cur[p] => track[r] \in [Branches -> Commits] /\ trackHead[r] \in Branches
      BY <1>3, <2>0, <2>2, <3>5, MirrorsAreRemotes
         DEF TypeInv, CacheFilled, Fetched, HeadKnown, Remotes
    <3> QED
      BY <1>3, <1>10, <2>0, <2>2, <3>1, <3>3, <3>5, <3>6, MirrorsAreRemotes
         DEF Fetched, HeadKnown, Planning, Remotes
  <2> QED
    BY <2>1, <2>2
<1> QED
  BY <1>4, <1>5, <1>6, <1>7, <1>8, <1>9, <1>10

\* A step marks only the mirror whose turn it is, and planning starts complete.
LEMMA PlanningReadyStep ==
  ASSUME TypeInv, NEW p \in Procs, Step(p) \/ Crash(p)
  PROVE  PlanningReady'
<1> SUFFICES ASSUME NEW q \in Procs
             PROVE  /\ \A m \in Mirrors :
                         pc'[q] = "idle"
                           \/ (pc'[q] \in {"fetch", "head", "compare"} /\ cur'[q] <= m) =>
                         observed'[q][m] = "UNSEEN"
                    /\ pc'[q] \in Planning => \A m \in Mirrors : observed'[q][m] # "ERROR"
                    /\ pc'[q] = "planmirror" => branch'[q] \in Branches
                    /\ pc'[q] \in {"compare", "planmirror", "preflight", "push"} =>
                         cur'[q] \in Mirrors
  BY DEF PlanningReady
<1>1. Moves(p)
  BY StepMoves
<1>2. pc \in [Procs -> Steps] /\ cur \in [Procs -> Remotes]
  BY DEF TypeInv, TypeOK, ExecutionsOK
<1>3. branch'[q] = branch[q] \/ (q = p /\ ReadCanonicalHead(p))
  BY DEF TypeInv, TypeOK, PlansOK, Step, Observe, Plan, Prepare, Execute, Start, Fetch,
         SetRemoteHead, CompareMirror, ObserveFails, ObservationDone, ReadCanonicalHead,
         PlanMirror, ExportArtifact, Authorize, PreparationFails, Validate, WriteIntent,
         Preflight, NoPush, PushSucceeds, PushFails, PushTimesOut, WriteResult, Crash,
         planVars
<1>4. CASE q # p
  <2>1. pc'[q] = pc[q] /\ cur'[q] = cur[q] /\ observed'[q] = observed[q]
        /\ branch'[q] = branch[q]
    BY <1>1, <1>2, <1>3, <1>4, StepKeepsObserved DEF Moves
  <2> QED
    BY <2>1 DEF TypeInv, PlanningReady
<1>5. CASE q = p /\ Start(p)
  <2>1. pc'[p] = "fetch" /\ UNCHANGED observed
    BY <1>5, GotoMoves, MirrorsAreRemotes DEF Start, TypeInv, Steps
  <2> QED
    BY <1>5, <2>1 DEF Start, TypeInv, PlanningReady, Planning
<1>6. CASE q = p /\ (Fetch(p) \/ SetRemoteHead(p))
  <2> DEFINE next == IF Fetch(p) THEN AfterFetch(cur[p]) ELSE AfterSetHead(cur[p])
  <2>1. /\ next[1] \in {"fetch", "head", "compare", "observed"} /\ next[2] \in Remotes
        /\ next[1] = "compare" => next[2] \in Mirrors
    BY <1>2, NextObservationInRange
  <2>2. Goto(p, next[1], next[2]) /\ UNCHANGED observed
    BY <1>6 DEF Fetch, SetRemoteHead, planVars
  <2>3. pc'[p] = next[1] /\ cur'[p] = next[2]
    BY <2>1, <2>2, GotoMoves DEF Steps, TypeInv
  <2>4. \A m \in Mirrors : next[2] <= m => cur[p] <= m
    BY <1>2, MirrorsAreRemotes DEF AfterFetch, AfterSetHead, Mirrors, Remotes
  <2>5. pc[p] \in {"fetch", "head"}
    BY <1>6 DEF Fetch, SetRemoteHead
  <2> HIDE DEF next
  <2> QED
    BY <1>6, <2>1, <2>2, <2>3, <2>4, <2>5 DEF TypeInv, PlanningReady, Planning
<1>7. CASE q = p /\ (CompareMirror(p) \/ ObserveFails(p))
  <2>1. pc[p] \in {"fetch", "head", "compare"}
        /\ (CompareMirror(p) => cur[p] \in Mirrors)
    BY <1>7 DEF CompareMirror, ObserveFails, TypeInv, PlanningReady
  <2>2. CASE Exit(p, 1)
    BY <1>7, <2>2, ExitMoves DEF TypeInv, Planning
  <2>3. CASE ~Exit(p, 1)
    <3> DEFINE next == AfterMirror(cur[p])
    <3>1. next = IF cur[p] < NumMirrors THEN <<"fetch", cur[p] + 1>> ELSE <<"observed", 0>>
      BY DEF AfterMirror
    <3>2. Goto(p, next[1], next[2])
      BY <1>7, <2>3 DEF CompareMirror, ObserveFails
    <3>3. pc'[p] = next[1] /\ cur'[p] = next[2]
      BY <1>2, <3>1, <3>2, GotoMoves, MirrorsAreRemotes DEF Steps, TypeInv, Remotes
    <3>4. \A m \in Mirrors : m # cur[p] => observed'[p][m] = observed[p][m]
      BY <1>7 DEF CompareMirror, ObserveFails, TypeInv, TypeOK, PlansOK
    <3>5. cur[p] < NumMirrors => \A m \in Mirrors : cur[p] + 1 <= m => m # cur[p] /\ cur[p] <= m
      BY <1>2 DEF Remotes, Mirrors
    <3> HIDE DEF next
    <3> QED
      BY <1>7, <2>1, <3>1, <3>3, <3>4, <3>5 DEF TypeInv, PlanningReady, Planning
  <2> QED
    BY <2>2, <2>3
<1>8. CASE q = p /\ ~Start(p) /\ ~Fetch(p) /\ ~SetRemoteHead(p) /\ ~CompareMirror(p)
                 /\ ~ObserveFails(p)
  <2>1. observed' = observed
    BY <1>8, StepKeepsObserved
  <2>2. /\ \/ pc'[p] \in {"done", "crashed"}
           \/ pc'[p] \in Planning /\ \A m \in Mirrors : observed[p][m] # "ERROR"
        /\ pc'[p] \notin {"idle", "fetch", "head", "compare"}
    BY <1>8, StepControl DEF TypeInv, PlanningReady, Planning
  <2>3. pc'[p] = "planmirror" => branch'[p] \in Branches
    <3>1. CASE ReadCanonicalHead(p)
      <4>1. trackHead[0] \in Branches
        BY <3>1, MirrorsAreRemotes
           DEF ReadCanonicalHead, TypeInv, CacheFilled, HeadKnown, Planning
      <4> QED
        BY <3>1, <4>1 DEF ReadCanonicalHead, TypeInv, TypeOK, PlansOK
    <3>2. CASE PlanMirror(p)
      BY <3>2 DEF PlanMirror, TypeInv, PlanningReady
    <3>3. CASE ~ReadCanonicalHead(p) /\ ~PlanMirror(p)
      <4>0. /\ \A s, r : Goto(p, s, r) => pc'[p] = s
            /\ \A code : Exit(p, code) => pc'[p] = "done"
        BY DEF TypeInv, TypeOK, ExecutionsOK, Goto, Exit
      <4>1. ObservationDone(p) \/ ExportArtifact(p) \/ Authorize(p) \/ PreparationFails(p)
              \/ Validate(p) \/ WriteIntent(p) => pc'[p] # "planmirror"
        BY <4>0 DEF ObservationDone, AfterObservation, ExportArtifact, Authorize,
                    AfterAuthorization, PreparationFails, Validate, WriteIntent
      <4>2. Preflight(p) \/ NoPush(p) \/ PushSucceeds(p) \/ PushFails(p) \/ PushTimesOut(p)
              \/ WriteResult(p) => pc'[p] # "planmirror"
        BY <4>0 DEF Preflight, NoPush, NextPush, PushSucceeds, PushFails, PushTimesOut, WriteResult
      <4>3. Crash(p) => pc'[p] # "planmirror"
        BY DEF Crash, TypeInv, TypeOK, ExecutionsOK
      <4>4. pc'[p] # "planmirror"
        BY <1>8, <3>3, <4>1, <4>2, <4>3 DEF Step, Observe, Plan, Prepare, Execute
      <4> QED
        BY <4>4
    <3> QED
      BY <3>1, <3>2, <3>3
  <2> QED
    BY <1>1, <1>8, <2>1, <2>2, <2>3 DEF Moves, Planning
<1> QED
  BY <1>4, <1>5, <1>6, <1>7, <1>8

\* A push starts an update from what the mirror holds to a commit.
LEMMA PushUpdateIsTyped ==
  ASSUME TypeInv, NEW p \in Procs, pc[p] = "push", NEW m \in DOMAIN planned[p]
  PROVE  [p |-> p, m |-> m, b |-> planned[p][m].dst, old |-> refs[m][planned[p][m].dst],
          new |-> PushSource(p, m)] \in UpdateType
<1>1. m \in Mirrors /\ m \in Remotes /\ planned[p][m].dst \in Branches
        /\ PushSource(p, m) \in Commits
  BY PushSourceIsCommit, MirrorsAreRemotes DEF Action
<1>2. refs[m][planned[p][m].dst] \in Commits
  BY <1>1 DEF TypeInv, TypeOK, RemotesOK
<1> QED
  BY <1>1, <1>2 DEF UpdateType

\* A step keeps the remotes and the set of updates well typed.
LEMMA RemotesStep ==
  ASSUME TypeInv, NEW p \in Procs, Step(p) \/ Crash(p)
  PROVE  RemotesOK'
<1> USE DEF TypeInv, TypeOK
<1>1. CASE UNCHANGED <<refs, head, inflight, moves, written, served>>
  BY <1>1 DEF RemotesOK
<1>2. CASE PushSucceeds(p)
  <2> DEFINE m == cur[p]  b == planned[p][m].dst  new == PushSource(p, m)
             u == [p |-> p, m |-> m, b |-> b, old |-> refs[m][b], new |-> new]
  <2>1. u \in UpdateType
    BY <1>2, PushUpdateIsTyped DEF PushSucceeds
  <2>2. m \in Remotes /\ b \in Branches /\ new \in Commits
    BY <1>2, PushSourceIsCommit, MirrorsAreRemotes DEF PushSucceeds, Action
  <2>3. written' \subseteq written \cup {u}
    BY <1>2 DEF PushSucceeds
  <2>4. refs' = [refs EXCEPT ![m][b] = new] /\ UNCHANGED <<head, inflight, moves, served>>
    BY <1>2 DEF PushSucceeds
  <2> HIDE DEF m, b, new, u
  <2> QED
    BY <2>1, <2>2, <2>3, <2>4 DEF RemotesOK
<1>3. CASE PushTimesOut(p)
  <2> DEFINE m == cur[p]  b == planned[p][m].dst
             u == [p |-> p, m |-> m, b |-> b, old |-> refs[m][b], new |-> PushSource(p, m)]
  <2>1. u \in UpdateType
    BY <1>3, PushUpdateIsTyped DEF PushTimesOut
  <2>2. inflight' = inflight \cup {u} /\ UNCHANGED <<refs, head, moves, written, served>>
    BY <1>3 DEF PushTimesOut, ghostVars
  <2> HIDE DEF u
  <2> QED
    BY <2>1, <2>2 DEF RemotesOK
<1> QED
  BY <1>1, <1>2, <1>3
     DEF Step, Observe, Plan, Prepare, Execute, Start, Fetch, SetRemoteHead, CompareMirror,
         ObserveFails, ObservationDone, ReadCanonicalHead, PlanMirror, ExportArtifact,
         Authorize, PreparationFails, Validate, WriteIntent, Preflight, NoPush, PushFails,
         WriteResult, Crash, remoteVars, ghostVars

\* A step keeps the journal and the variables of every execution well typed.
LEMMA ExecutionsStep ==
  ASSUME TypeInv, NEW p \in Procs, Step(p) \/ Crash(p)
  PROVE  ExecutionsOK'
<1> USE DEF TypeInv, TypeOK
<1>0. pc' \in [Procs -> Steps] /\ cur' \in [Procs -> Remotes]
  BY StepMoves DEF Moves, ExecutionsOK
<1>1. CASE Start(p)
  <2>1. mode' \in [Procs -> AllModes] /\ force' \in [Procs -> BOOLEAN]
        /\ imported' \in [Procs -> BOOLEAN]
    <3> PICK md \in Modes, f \in BOOLEAN :
          /\ mode' = [mode EXCEPT ![p] = md]
          /\ force' = [force EXCEPT ![p] = f]
          /\ imported' = imported \/ imported' = [imported EXCEPT ![p] = TRUE]
      BY <1>1, Zenon DEF Start
    <3>1. md \in AllModes
      BY MirrorApplyAssumption
    <3>2. mode' \in [Procs -> AllModes]
      BY <3>1 DEF ExecutionsOK
    <3>3. force' \in [Procs -> BOOLEAN]
      BY DEF ExecutionsOK
    <3>4. imported' \in [Procs -> BOOLEAN]
      BY DEF ExecutionsOK
    <3> QED
      BY <3>2, <3>3, <3>4
  <2> QED
    BY <1>0, <1>1, <2>1 DEF Start, ExecutionsOK, ghostVars
<1>2. CASE UNCHANGED <<mode, force, imported>>
  <2>1. mode' \in [Procs -> AllModes] /\ force' \in [Procs -> BOOLEAN]
        /\ imported' \in [Procs -> BOOLEAN]
    BY <1>2 DEF ExecutionsOK
  <2>2. journal' \subseteq Procs \X {"INTENT", "RESULT"}
    <3>1. journal' = journal \/ Publish(p, "INTENT") \/ Publish(p, "RESULT")
      BY DEF Step, Observe, Plan, Prepare, Execute, Start, Fetch, SetRemoteHead,
             CompareMirror, ObserveFails, ObservationDone, ReadCanonicalHead, PlanMirror,
             ExportArtifact, Authorize, PreparationFails, Validate, WriteIntent, Preflight, NoPush,
             PushSucceeds, PushFails, PushTimesOut, WriteResult, Crash
    <3> QED
      BY <3>1 DEF Publish, ExecutionsOK
  <2>3. exit' \in [Procs -> {-1, 0, 1, 2}]
    <3>1. exit' = exit \/ Exit(p, 0) \/ Exit(p, 1) \/ Exit(p, 2)
      BY DEF Step, Observe, Plan, Prepare, Execute, Start, Fetch, SetRemoteHead,
             CompareMirror, ObserveFails, ObservationDone, ReadCanonicalHead, PlanMirror,
             ExportArtifact, Authorize, PreparationFails, Validate, WriteIntent, Preflight, NoPush,
             PushSucceeds, PushFails, PushTimesOut, WriteResult, Crash
    <3> QED
      BY <3>1 DEF Exit, ExecutionsOK
  <2>4. outcome' \in [Procs -> [Mirrors -> Outcomes]]
    <3>1. CASE outcome' = outcome
      BY <3>1 DEF ExecutionsOK
    <3>2. CASE \E o \in Outcomes : outcome' = [outcome EXCEPT ![p][cur[p]] = o]
      <4> PICK o \in Outcomes : outcome' = [outcome EXCEPT ![p][cur[p]] = o]
        BY <3>2
      <4>1. [outcome[p] EXCEPT ![cur[p]] = o] \in [Mirrors -> Outcomes]
        BY DEF ExecutionsOK
      <4>2. outcome' = [outcome EXCEPT ![p] = [outcome[p] EXCEPT ![cur[p]] = o]]
        OBVIOUS
      <4> QED
        BY <4>1, <4>2 DEF ExecutionsOK
    <3>3. CASE \E f \in [Mirrors -> Outcomes] : outcome' = [outcome EXCEPT ![p] = f]
      BY <3>3 DEF ExecutionsOK
    <3>4. CASE WriteIntent(p)
      <4>1. [m \in Mirrors |-> IF m \in DOMAIN planned[p] THEN "SKIPPED" ELSE "NONE"]
              \in [Mirrors -> Outcomes]
        BY DEF Outcomes
      <4> QED
        BY <3>1, <3>3, <3>4, <4>1 DEF WriteIntent
    <3>5. CASE Preflight(p)
      <4>1. [m \in Mirrors |-> IF m \in DOMAIN planned[p] THEN "VALIDATED" ELSE "NONE"]
              \in [Mirrors -> Outcomes]
        BY DEF Outcomes
      <4>2. "STALE" \in Outcomes
        BY DEF Outcomes
      <4> QED
        BY <3>1, <3>2, <3>3, <3>5, <4>1, <4>2 DEF Preflight
    <3>6. CASE PushSucceeds(p) \/ PushFails(p) \/ PushTimesOut(p)
      <4>1. {"APPLIED", "FAILED"} \subseteq Outcomes
        BY DEF Outcomes
      <4>2. \/ outcome' = [outcome EXCEPT ![p][cur[p]] = "APPLIED"]
            \/ outcome' = [outcome EXCEPT ![p][cur[p]] = "FAILED"]
        BY <3>6 DEF PushSucceeds, PushFails, PushTimesOut
      <4> QED
        BY <3>2, <4>1, <4>2
    <3> QED
      BY <3>1, <3>4, <3>5, <3>6
         DEF Step, Observe, Plan, Prepare, Execute, Start, Fetch, SetRemoteHead,
             CompareMirror, ObserveFails, ObservationDone, ReadCanonicalHead, PlanMirror,
             ExportArtifact, Authorize, PreparationFails, Validate, NoPush, WriteResult, Crash
  <2>5. after' \in [Procs -> [Mirrors -> Commits \cup {NoOID}]]
    <3>1. CASE after' = after
      BY <3>1 DEF ExecutionsOK
    <3>2. CASE PushSucceeds(p)
      <4>1. PushSource(p, cur[p]) \in Commits
        BY <3>2, PushSourceIsCommit DEF PushSucceeds
      <4> QED
        BY <3>2, <4>1 DEF PushSucceeds, ExecutionsOK
    <3> QED
      BY <3>1, <3>2
         DEF Step, Observe, Plan, Prepare, Execute, Start, Fetch, SetRemoteHead,
             CompareMirror, ObserveFails, ObservationDone, ReadCanonicalHead, PlanMirror,
             ExportArtifact, Authorize, PreparationFails, Validate, WriteIntent, Preflight, NoPush,
             PushFails, PushTimesOut, WriteResult, Crash, ghostVars
  <2> QED
    BY <1>0, <2>1, <2>2, <2>3, <2>4, <2>5 DEF ExecutionsOK
<1> QED
  BY <1>1, <1>2
     DEF Step, Observe, Plan, Prepare, Execute, Fetch, SetRemoteHead, CompareMirror,
         ObserveFails, ObservationDone, ReadCanonicalHead, PlanMirror, ExportArtifact,
         Authorize, PreparationFails, Validate, WriteIntent, Preflight, NoPush, PushSucceeds,
         PushFails, PushTimesOut, WriteResult, Crash

\* The plan an execution builds refers only to commits and branches.
LEMMA PlannedActionIsTyped ==
  ASSUME TypeInv, NEW p \in Procs, PlanMirror(p),
         NEW source, source = IF sourceOID[p] = NoOID THEN track[0][branch[p]]
                              ELSE sourceOID[p]
  PROVE  source \in Commits /\ ActionFor(p, cur[p], source) \in Action
<1> USE DEF TypeInv, TypeOK
<1>1. pc[p] = "planmirror" /\ cur[p] \in Mirrors /\ branch[p] \in Branches
      /\ cur[p] \in Remotes /\ \A m \in Mirrors : observed[p][m] # "ERROR"
  BY MirrorsAreRemotes DEF PlanMirror, PlanningReady, Planning
<1>2. \A r \in {0, cur[p]} : track[r] \in [Branches -> Commits] /\ trackHead[r] \in Branches
  BY <1>1, MirrorsAreRemotes DEF CacheFilled, Fetched, HeadKnown, Planning
<1>3. source \in Commits
  BY <1>1, <1>2 DEF PlansOK
<1>4. Decide(observed[p][cur[p]]).force \in BOOLEAN
  BY DEF Decide
<1>5. track[cur[p]][trackHead[cur[p]]] \in Commits /\ trackHead[cur[p]] \in Branches
  BY <1>2
<1> QED
  BY <1>1, <1>3, <1>4, <1>5 DEF ActionFor, Action

\* A step keeps observed states, plans and artifacts well typed: a plan
\* reads only tracking refs that were fetched.
LEMMA PlansStep ==
  ASSUME TypeInv, NEW p \in Procs, Step(p) \/ Crash(p)
  PROVE  PlansOK'
<1> USE DEF TypeInv, TypeOK
<1>1. CASE UNCHANGED <<observed, branch, sourceOID, planned, artifacts>>
  BY <1>1 DEF PlansOK
<1>2. CASE Start(p)
  <2>1. \E a \in artifacts \cup {planned[p]} : planned' = [planned EXCEPT ![p] = a]
    <3>1. CASE planned' = planned
      BY <3>1 DEF PlansOK
    <3>2. CASE planned' # planned
      BY <1>2, <3>2 DEF Start
    <3> QED
      BY <3>1, <3>2
  <2> QED
    BY <1>2, <2>1 DEF Start, PlansOK
<1>3. CASE CompareMirror(p) \/ ObserveFails(p)
  <2>1. \E s \in States : observed' = [observed EXCEPT ![p][cur[p]] = s] \/ observed' = observed
    <3>1. CASE CompareMirror(p)
      BY <3>1, InterpretDivergenceIsState DEF CompareMirror
    <3>2. CASE ObserveFails(p)
      BY <3>2 DEF ObserveFails, States
    <3> QED
      BY <1>3, <3>1, <3>2
  <2>2. UNCHANGED <<branch, sourceOID, planned, artifacts>>
    BY <1>3 DEF CompareMirror, ObserveFails
  <2>3. observed' \in [Procs -> [Mirrors -> States]]
    <3> PICK s \in States : observed' = [observed EXCEPT ![p][cur[p]] = s] \/ observed' = observed
      BY <2>1
    <3>1. [observed[p] EXCEPT ![cur[p]] = s] \in [Mirrors -> States]
      BY DEF PlansOK
    <3>2. \/ observed' = [observed EXCEPT ![p] = [observed[p] EXCEPT ![cur[p]] = s]]
          \/ observed' = observed
      OBVIOUS
    <3> QED
      BY <3>1, <3>2 DEF PlansOK
  <2> QED
    BY <2>2, <2>3 DEF PlansOK
<1>4. CASE ReadCanonicalHead(p)
  <2>1. trackHead[0] \in Branches \cup {NoBranch}
    BY MirrorsAreRemotes DEF CacheOK
  <2> QED
    BY <1>4, <2>1 DEF ReadCanonicalHead, PlansOK
<1>5. CASE PlanMirror(p)
  <2> DEFINE m == cur[p]
             source == IF sourceOID[p] = NoOID THEN track[0][branch[p]] ELSE sourceOID[p]
             new == [x \in DOMAIN planned[p] \cup {m} |->
                       IF x = m THEN ActionFor(p, m, source) ELSE planned[p][x]]
  <2>1. source \in Commits /\ ActionFor(p, m, source) \in Action
    BY <1>5, PlannedActionIsTyped
  <2>2. m \in Mirrors
    BY <1>5 DEF PlanMirror, PlanningReady
  <2>3. IsPlan(new)
    <3> HIDE DEF m, source
    <3> QED
      BY <2>1, <2>2 DEF PlansOK, IsPlan
  <2>4. \/ sourceOID' = [sourceOID EXCEPT ![p] = source] /\ planned' = [planned EXCEPT ![p] = new]
        \/ UNCHANGED <<sourceOID, planned>>
    BY <1>5 DEF PlanMirror
  <2>5. UNCHANGED <<observed, branch, artifacts>>
    BY <1>5 DEF PlanMirror
  <2> HIDE DEF m, source, new
  <2> QED
    BY <2>1, <2>3, <2>4, <2>5 DEF PlansOK
<1>6. CASE ExportArtifact(p)
  BY <1>6 DEF ExportArtifact, PlansOK, planVars
<1> QED
  BY <1>1, <1>2, <1>3, <1>4, <1>5, <1>6
     DEF Step, Observe, Plan, Prepare, Execute, Fetch, SetRemoteHead, ObservationDone,
         Authorize, PreparationFails, Validate, WriteIntent, Preflight, NoPush, PushSucceeds,
         PushFails, PushTimesOut, WriteResult, Crash, planVars

\* Changes made by others, and late updates, keep TypeInv.
LEMMA EnvironmentStep == TypeInv /\ Environment => TypeInv'
<1> SUFFICES ASSUME TypeInv, Environment PROVE TypeInv'
  OBVIOUS
<1>1. UNCHANGED <<cacheVars, artifacts, journal, pc, cur, mode, force, imported, planVars,
                  outcome, exit, after>>
  BY DEF Environment, EnvPush, EnvSetDefault, UpdateLands, UpdateLost, ghostVars
<1>2. RemotesOK'
  <2> USE DEF TypeInv, TypeOK, RemotesOK
  <2>1. ASSUME NEW r \in Remotes, NEW b \in Branches, NEW c \in Commits, EnvPush(r, b, c)
        PROVE  RemotesOK'
    <3>1. moves' \in 0 .. MaxEnvMoves
      BY <2>1, MirrorApplyAssumption DEF EnvPush
    <3>2. served' \in [Branches -> SUBSET Commits]
      BY <2>1 DEF EnvPush
    <3> QED
      BY <2>1, <3>1, <3>2 DEF EnvPush
  <2>2. ASSUME NEW r \in Remotes, NEW b \in Branches, EnvSetDefault(r, b)
        PROVE  RemotesOK'
    BY <2>2, MirrorApplyAssumption DEF EnvSetDefault, ghostVars
  <2>3. ASSUME NEW u \in inflight, UpdateLands(u) PROVE RemotesOK'
    <3>1. u \in UpdateType /\ u.new \in Commits /\ u.m \in Remotes
      BY MirrorsAreRemotes DEF UpdateType
    <3>2. refs' \in [Remotes -> [Branches -> Commits]]
      <4>1. refs' = refs \/ refs' = [refs EXCEPT ![u.m][u.b] = u.new]
        BY <2>3 DEF UpdateLands
      <4> QED
        <5>1. [refs[u.m] EXCEPT ![u.b] = u.new] \in [Branches -> Commits]
          BY <3>1
        <5>2. refs' = refs \/ refs' = [refs EXCEPT ![u.m] = [refs[u.m] EXCEPT ![u.b] = u.new]]
          BY <4>1
        <5> QED
          BY <5>1, <5>2
    <3> QED
      BY <2>3, <3>1, <3>2 DEF UpdateLands
  <2>4. ASSUME NEW u \in inflight, UpdateLost(u) PROVE RemotesOK'
    BY <2>4 DEF UpdateLost, ghostVars
  <2> QED
    BY <2>1, <2>2, <2>3, <2>4 DEF Environment
<1>3. CacheOK' /\ ExecutionsOK' /\ PlansOK'
  BY <1>1 DEF TypeInv, TypeOK, CacheOK, ExecutionsOK, PlansOK, cacheVars, planVars
<1>4. CacheFilled' /\ PlanningReady'
  BY <1>1 DEF TypeInv, CacheFilled, PlanningReady, Fetched, HeadKnown, cacheVars, planVars
<1> QED
  BY <1>2, <1>3, <1>4 DEF TypeInv, TypeOK

\* TypeInv is inductive.
LEMMA TypeInvNext == TypeInv /\ [Next]_vars => TypeInv'
<1>1. ASSUME TypeInv, NEW p \in Procs, Step(p) \/ Crash(p) PROVE TypeInv'
  BY <1>1, RemotesStep, StepGrowsCache, ExecutionsStep, PlansStep, CacheFilledStep,
     PlanningReadyStep DEF TypeInv, TypeOK
<1>2. ASSUME TypeInv, UNCHANGED vars PROVE TypeInv'
  BY <1>2 DEF vars, TypeInv, TypeOK, RemotesOK, CacheOK, ExecutionsOK, PlansOK, CacheFilled,
              PlanningReady, Fetched, HeadKnown
<1> QED
  BY <1>1, <1>2, EnvironmentStep DEF Next

\* TypeInv holds in every reachable state: whatever execution reads from the
\* shared cache, it reads a tracking ref some execution has fetched.
THEOREM TypeInvariant == Spec => []TypeInv
<1> QED
  BY TypeInvInit, TypeInvNext, PTL DEF Spec

\* Type correctness: under any interleaving, no plan, push or record is ever
\* built from a tracking ref that was not fetched.
THEOREM TypeCorrect == Spec => []TypeOK
<1>1. TypeInv => TypeOK
  BY DEF TypeInv
<1> QED
  BY <1>1, TypeInvariant, PTL

------------------------------------------------------------------------------
(***************************************************************************)
(* Safety.  The inductive invariant follows an execution through its       *)
(* phases (what is journaled, what its outcomes may be, that a forced plan *)
(* past validation is authorized), and says of every update, also one      *)
(* still in flight after its execution ended, where it came from.          *)
(***************************************************************************)
Executing == {"preflight", "push", "result"}
Stopped == {"done", "crashed"}

Untouched == {"NONE", "SKIPPED"}

Phase(p) ==
  /\ pc[p] \in Executing => <<p, "INTENT">> \in journal /\ <<p, "RESULT">> \notin journal
  /\ pc[p] \notin Executing \cup Stopped =>
       /\ <<p, "INTENT">> \notin journal /\ <<p, "RESULT">> \notin journal
       /\ \A m \in Mirrors : outcome[p][m] = "NONE"
  /\ pc[p] = "preflight" => \A m \in Mirrors : outcome[p][m] \in Untouched
  /\ pc[p] = "push" =>
       /\ mode[p] = "apply"
       /\ \A m \in Mirrors : outcome[p][m] \in Untouched \cup {"APPLIED", "FAILED"}
       /\ \A m \in Mirrors : cur[p] <= m => outcome[p][m] \in Untouched
  /\ (\E m \in Mirrors : outcome[p][m] = "STALE") =>
       \A m \in Mirrors : outcome[p][m] \in Untouched \cup {"STALE"}
  /\ exit[p] # -1 => pc[p] = "done"
  /\ exit[p] = 2 => <<p, "INTENT">> \notin journal
  /\ pc[p] \in Executing \cup {"intent"} /\ mode[p] = "apply"
       /\ planRequiresForce(planned[p]) => force[p]

PhaseInv == \A p \in Procs : Phase(p)

Justified(u) ==
  /\ pc[u.p] \in {"push", "result"} \cup Stopped
  /\ mode[u.p] = "apply"
  /\ <<u.p, "INTENT">> \in journal
  /\ outcome[u.p][u.m] \in {"APPLIED", "FAILED"}
  /\ u.m \in DOMAIN planned[u.p]
  /\ u.b = planned[u.p][u.m].dst
  /\ u.new \in served[planned[u.p][u.m].src]
  /\ \/ <<u.old, u.new>> \in Anc
     \/ /\ planned[u.p][u.m].force
        /\ force[u.p]
        /\ u.old = planned[u.p][u.m].expectedOld

UpdatesInv == \A u \in Updates : Justified(u)

\* The cache never holds as canonical what canonical has not served.
ServedInv ==
  \A b \in Branches : refs[0][b] \in served[b] /\ track[0][b] \in served[b] \cup {NoOID}

SafetyInv == TypeInv /\ PhaseInv /\ UpdatesInv /\ ServedInv

\* Init establishes SafetyInv.
LEMMA SafetyInvInit == Init => SafetyInv
<1> SUFFICES ASSUME Init PROVE SafetyInv
  OBVIOUS
<1>1. PhaseInv
  BY DEF Init, PhaseInv, Phase, Executing, Stopped, Untouched
<1>2. UpdatesInv
  BY DEF Init, UpdatesInv, Updates
<1>3. ServedInv
  BY MirrorsAreRemotes DEF Init, ServedInv
<1> QED
  BY <1>1, <1>2, <1>3, TypeInvInit DEF SafetyInv

\* An execution changes only its own state and its own records.
LEMMA StepIsLocal ==
  ASSUME TypeInv, NEW p \in Procs, Step(p) \/ Crash(p), NEW q \in Procs, q # p
  PROVE  /\ pc'[q] = pc[q] /\ cur'[q] = cur[q] /\ mode'[q] = mode[q]
         /\ force'[q] = force[q] /\ planned'[q] = planned[q]
         /\ outcome'[q] = outcome[q] /\ exit'[q] = exit[q]
         /\ \A x : <<q, x>> \in journal' <=> <<q, x>> \in journal
<1>1. pc'[q] = pc[q] /\ cur'[q] = cur[q]
  BY StepMoves DEF Moves, TypeInv, TypeOK, ExecutionsOK
<1>2. mode'[q] = mode[q] /\ force'[q] = force[q]
  BY DEF TypeInv, TypeOK, ExecutionsOK, Step, Observe, Plan, Prepare, Execute, Start, Fetch,
         SetRemoteHead, CompareMirror, ObserveFails, ObservationDone, ReadCanonicalHead,
         PlanMirror, ExportArtifact, Authorize, PreparationFails, Validate, WriteIntent,
         Preflight, NoPush, PushSucceeds, PushFails, PushTimesOut, WriteResult, Crash
<1>3. planned'[q] = planned[q]
  BY DEF TypeInv, TypeOK, PlansOK, Step, Observe, Plan, Prepare, Execute, Start, Fetch,
         SetRemoteHead, CompareMirror, ObserveFails, ObservationDone, ReadCanonicalHead,
         PlanMirror, ExportArtifact, Authorize, PreparationFails, Validate, WriteIntent,
         Preflight, NoPush, PushSucceeds, PushFails, PushTimesOut, WriteResult, Crash,
         planVars
<1>4. outcome'[q] = outcome[q]
  BY DEF TypeInv, TypeOK, ExecutionsOK, Step, Observe, Plan, Prepare, Execute, Start, Fetch,
         SetRemoteHead, CompareMirror, ObserveFails, ObservationDone, ReadCanonicalHead,
         PlanMirror, ExportArtifact, Authorize, PreparationFails, Validate, WriteIntent,
         Preflight, NoPush, PushSucceeds, PushFails, PushTimesOut, WriteResult, Crash
<1>5. exit'[q] = exit[q]
  BY DEF TypeInv, TypeOK, ExecutionsOK, Step, Observe, Plan, Prepare, Execute, Start, Fetch,
         SetRemoteHead, CompareMirror, ObserveFails, ObservationDone, ReadCanonicalHead,
         PlanMirror, ExportArtifact, Authorize, PreparationFails, Validate, WriteIntent,
         Preflight, NoPush, PushSucceeds, PushFails, PushTimesOut, WriteResult, Crash, Exit
<1>6. \A x : <<q, x>> \in journal' <=> <<q, x>> \in journal
  <2>1. journal' = journal \/ Publish(p, "INTENT") \/ Publish(p, "RESULT")
    BY DEF Step, Observe, Plan, Prepare, Execute, Start, Fetch, SetRemoteHead,
           CompareMirror, ObserveFails, ObservationDone, ReadCanonicalHead, PlanMirror,
           ExportArtifact, Authorize, PreparationFails, Validate, WriteIntent, Preflight, NoPush,
           PushSucceeds, PushFails, PushTimesOut, WriteResult, Crash
  <2> QED
    BY <2>1 DEF Publish
<1> QED
  BY <1>1, <1>2, <1>3, <1>4, <1>5, <1>6

\* A step keeps the phase of every execution.
LEMMA PhaseStep ==
  ASSUME TypeInv, PhaseInv, NEW p \in Procs, Step(p) \/ Crash(p)
  PROVE  PhaseInv'
<1> SUFFICES ASSUME NEW q \in Procs PROVE Phase(q)'
  BY DEF PhaseInv
<1>1. CASE q # p
  BY <1>1, StepIsLocal DEF PhaseInv, Phase
<1>2. CASE q = p
  <2> SUFFICES Phase(p)'
    BY <1>2
  <2> USE DEF Executing, Stopped
  <2>0. /\ Phase(p) /\ Moves(p)
        /\ outcome \in [Procs -> [Mirrors -> Outcomes]] /\ exit \in [Procs -> {-1, 0, 1, 2}]
        /\ pc \in [Procs -> Steps] /\ cur \in [Procs -> Remotes]
    BY StepMoves DEF PhaseInv, TypeInv, TypeOK, ExecutionsOK
  <2>1. CASE Start(p)
    BY <2>0, <2>1 DEF Start, Goto, Phase
  <2>2. CASE Fetch(p) \/ SetRemoteHead(p) \/ CompareMirror(p)
    <3> PICK next \in {AfterFetch(cur[p]), AfterSetHead(cur[p]), AfterMirror(cur[p])} :
          Goto(p, next[1], next[2])
      BY <2>2 DEF Fetch, SetRemoteHead, CompareMirror
    <3>1. pc'[p] \in {"fetch", "head", "compare", "observed"}
      BY <2>0, NextObservationInRange DEF Goto
    <3>2. pc[p] \in {"fetch", "head", "compare"}
          /\ UNCHANGED <<journal, outcome, mode, force, planned, exit>>
      BY <2>2 DEF Fetch, SetRemoteHead, CompareMirror, planVars
    <3> QED
      BY <2>0, <3>1, <3>2 DEF Phase
  <2>3. CASE ObserveFails(p)
    <3>1. pc'[p] \in {"fetch", "observed", "done"} /\ exit'[p] \in {exit[p], 1}
          /\ (exit'[p] # exit[p] => pc'[p] = "done")
      BY <2>0, <2>3 DEF ObserveFails, AfterMirror, Goto, Exit
    <3>2. pc[p] \in {"fetch", "head", "compare"}
          /\ UNCHANGED <<journal, outcome, mode, force, planned>>
      BY <2>3 DEF ObserveFails
    <3> QED
      BY <2>0, <3>1, <3>2 DEF Phase
  <2>4. CASE ObservationDone(p) \/ ReadCanonicalHead(p) \/ PlanMirror(p) \/ Authorize(p)
             \/ PreparationFails(p) \/ ExportArtifact(p)
    <3>1. pc[p] \notin Executing \cup Stopped \cup {"intent"} /\ UNCHANGED <<journal, outcome>>
      BY <2>4 DEF ObservationDone, ReadCanonicalHead, PlanMirror, Authorize, PreparationFails,
                  ExportArtifact
    <3>2. exit'[p] # exit[p] => pc'[p] = "done"
      BY <2>0, <2>4 DEF ObservationDone, ReadCanonicalHead, PlanMirror, Authorize, PreparationFails,
                        ExportArtifact, Exit
    <3>3. pc'[p] \notin Executing \cup {"crashed", "intent"}
      BY <2>0, <2>4
         DEF ObservationDone, ReadCanonicalHead, PlanMirror, Authorize, PreparationFails,
             ExportArtifact, AfterObservation, AfterPlan, AfterAuthorization, Goto, Exit
    <3> QED
      BY <2>0, <3>1, <3>2, <3>3 DEF Phase
  <2>5. CASE Validate(p)
    <3>1. pc[p] = "validate" /\ UNCHANGED <<journal, outcome, mode, force, planned>>
      BY <2>5 DEF Validate, planVars
    <3>2. CASE Exit(p, 1)
      BY <2>0, <3>1, <3>2 DEF Exit, Phase
    <3>3. CASE ~Exit(p, 1)
      <4>1. pc'[p] = "intent" /\ exit' = exit
            /\ ~(mode[p] = "apply" /\ planRequiresForce(planned[p]) /\ ~force[p])
        BY <2>0, <2>5, <3>3 DEF Validate, Goto
      <4> QED
        BY <2>0, <3>1, <4>1 DEF Phase
    <3> QED
      BY <3>2, <3>3
  <2>6. CASE WriteIntent(p)
    <3>1. pc[p] = "intent" /\ UNCHANGED <<mode, force, planned>>
          /\ (journal' = journal \/ Publish(p, "INTENT"))
      BY <2>6 DEF WriteIntent, planVars
    <3>2. CASE Exit(p, 1)
      <4>1. pc'[p] = "done" /\ exit'[p] = 1 /\ outcome' = outcome
        BY <2>0, <2>6, <3>2 DEF WriteIntent, Exit, Goto
      <4> QED
        BY <2>0, <3>1, <4>1 DEF Phase
    <3>3. CASE ~Exit(p, 1)
      <4>1. pc'[p] = "preflight" /\ Publish(p, "INTENT") /\ exit' = exit
            /\ outcome' = [outcome EXCEPT ![p] =
                 [m \in Mirrors |-> IF m \in DOMAIN planned[p] THEN "SKIPPED" ELSE "NONE"]]
        BY <2>0, <2>6, <3>3 DEF WriteIntent, Goto
      <4>2. \A m \in Mirrors : outcome'[p][m] \in Untouched
        BY <2>0, <4>1 DEF Untouched
      <4> QED
        BY <2>0, <3>1, <4>1, <4>2 DEF Phase, Publish, Untouched
    <3> QED
      BY <3>2, <3>3
  <2>7. CASE Preflight(p)
    <3>1. pc[p] = "preflight" /\ UNCHANGED <<mode, force, planned, journal, exit>>
          /\ cur[p] \in Mirrors
      BY <2>7 DEF Preflight, planVars, TypeInv, PlanningReady
    <3>2. \A m \in Mirrors : outcome[p][m] \in Untouched
      BY <2>0, <3>1 DEF Phase
    <3>3. CASE pc'[p] = "result" /\ outcome' = [outcome EXCEPT ![p][cur[p]] = "STALE"]
      <4>1. \A m \in Mirrors : outcome'[p][m] \in Untouched \cup {"STALE"}
        BY <2>0, <3>2, <3>3
      <4> QED
        BY <2>0, <3>1, <3>3, <4>1 DEF Phase
    <3>4. CASE pc'[p] = "preflight" /\ outcome' = outcome
      BY <2>0, <3>1, <3>4 DEF Phase
    <3>5. CASE pc'[p] = "push" /\ mode[p] = "apply" /\ outcome' = outcome
      BY <2>0, <3>1, <3>2, <3>5 DEF Phase
    <3>6. CASE /\ pc'[p] = "result"
               /\ outcome' = [outcome EXCEPT ![p] =
                    [x \in Mirrors |-> IF x \in DOMAIN planned[p] THEN "VALIDATED" ELSE "NONE"]]
      <4>1. \A m \in Mirrors : outcome'[p][m] # "STALE"
        BY <2>0, <3>6
      <4> QED
        BY <2>0, <3>1, <3>6, <4>1 DEF Phase
    <3> QED
      BY <2>0, <2>7, <3>3, <3>4, <3>5, <3>6 DEF Preflight, Goto
  <2>8. CASE NoPush(p) \/ PushSucceeds(p) \/ PushFails(p) \/ PushTimesOut(p)
    <3>1. pc[p] = "push" /\ UNCHANGED <<mode, force, planned, journal, exit>> /\ NextPush(p)
          /\ cur[p] \in Mirrors
      BY <2>8 DEF NoPush, PushSucceeds, PushFails, PushTimesOut, planVars, TypeInv,
                  PlanningReady
    <3>2. \/ outcome' = outcome
          \/ outcome' = [outcome EXCEPT ![p][cur[p]] = "APPLIED"]
          \/ outcome' = [outcome EXCEPT ![p][cur[p]] = "FAILED"]
      BY <2>8 DEF NoPush, PushSucceeds, PushFails, PushTimesOut
    <3>3. \A m \in Mirrors :
            /\ outcome'[p][m] \in Untouched \cup {"APPLIED", "FAILED"}
            /\ m # cur[p] => outcome'[p][m] = outcome[p][m]
      BY <2>0, <3>1, <3>2 DEF Phase
    <3>4. \/ pc'[p] = "push" /\ cur'[p] = cur[p] + 1
          \/ pc'[p] = "result"
      BY <2>0, <3>1 DEF NextPush, Goto
    <3>5. \A m \in Mirrors : cur[p] + 1 <= m => m # cur[p] /\ cur[p] <= m
      BY <3>1 DEF Mirrors
    <3>6. /\ <<p, "INTENT">> \in journal /\ <<p, "RESULT">> \notin journal
          /\ mode[p] = "apply" /\ exit[p] = -1
          /\ (planRequiresForce(planned[p]) => force[p])
      BY <2>0, <3>1 DEF Phase
    <3>7. \A m \in Mirrors : outcome'[p][m] # "STALE"
      BY <3>3 DEF Untouched
    <3>8. pc'[p] = "push" => \A m \in Mirrors : cur'[p] <= m => outcome'[p][m] \in Untouched
      BY <2>0, <3>1, <3>3, <3>4, <3>5 DEF Phase
    <3>9. pc'[p] \in {"push", "result"}
      BY <3>4
    <3> QED
      BY <3>1, <3>3, <3>6, <3>7, <3>8, <3>9 DEF Phase
  <2>9. CASE WriteResult(p)
    <3>1. pc[p] = "result" /\ pc'[p] = "done" /\ UNCHANGED <<mode, force, planned, outcome>>
          /\ exit'[p] \in {0, 1}
      BY <2>0, <2>9 DEF WriteResult, Exit, planVars
    <3> QED
      BY <2>0, <3>1 DEF Phase
  <2>10. CASE Crash(p)
    BY <2>0, <2>10 DEF Crash, Active, Phase, planVars
  <2> QED
    BY <2>1, <2>2, <2>3, <2>4, <2>5, <2>6, <2>7, <2>8, <2>9, <2>10
       DEF Step, Observe, Plan, Prepare, Execute
<1> QED
  BY <1>1, <1>2

\* The environment changes no execution's state.
LEMMA PhaseEnvironment ==
  ASSUME PhaseInv, UNCHANGED <<journal, pc, cur, mode, force, planned, outcome, exit>>
  PROVE  PhaseInv'
<1> SUFFICES ASSUME NEW p \in Procs, Phase(p) PROVE Phase(p)'
  BY DEF PhaseInv
<1> QED BY DEF Phase

\* A push that Git accepts discards nothing, or only the reviewed old target
\* with the operator's authorization; what it sends canonical has served.
LEMMA PushIsJustified ==
  ASSUME SafetyInv, NEW p \in Procs, pc[p] = "push", NEW m \in DOMAIN planned[p],
         GitAccepts(p, m)
  PROVE  /\ mode[p] = "apply" /\ <<p, "INTENT">> \in journal
         /\ m \in Mirrors
         /\ PushSource(p, m) \in served[planned[p][m].src]
         /\ \/ <<refs[m][planned[p][m].dst], PushSource(p, m)>> \in Anc
            \/ /\ planned[p][m].force
               /\ force[p]
               /\ refs[m][planned[p][m].dst] = planned[p][m].expectedOld
<1>1. m \in Mirrors /\ planned[p][m] \in Action /\ PushSource(p, m) \in Commits
  BY PushSourceIsCommit DEF SafetyInv
<1>2. mode[p] = "apply" /\ <<p, "INTENT">> \in journal
      /\ (planRequiresForce(planned[p]) => force[p])
  BY DEF SafetyInv, PhaseInv, Phase, Executing
<1>3. PushSource(p, m) \in served[planned[p][m].src]
  BY <1>1, SentinelAssumption DEF SafetyInv, ServedInv, PushSource, Action
<1>4. planned[p][m].force => force[p]
  BY <1>2 DEF planRequiresForce
<1> QED
  BY <1>1, <1>2, <1>3, <1>4 DEF GitAccepts

\* An update sent by a push, performed at once or in flight, is justified.
LEMMA PushUpdatesJustified ==
  ASSUME SafetyInv, NEW p \in Procs, PushSucceeds(p) \/ PushTimesOut(p),
         NEW w, w \in Updates', w \notin Updates
  PROVE  Justified(w)'
<1> DEFINE m == cur[p]  b == planned[p][m].dst  new == PushSource(p, m)
<1>1. pc[p] = "push" /\ m \in DOMAIN planned[p] /\ m \in Mirrors
      /\ UNCHANGED <<journal, mode, force, planned, served>>
      /\ (outcome' = [outcome EXCEPT ![p][m] = "APPLIED"]
            \/ outcome' = [outcome EXCEPT ![p][m] = "FAILED"])
      /\ NextPush(p)
  BY DEF PushSucceeds, PushTimesOut, SafetyInv, TypeInv, PlanningReady, planVars, ghostVars
<1>2. GitAccepts(p, m) /\ w = [p |-> p, m |-> m, b |-> b, old |-> refs[m][b], new |-> new]
  <2>1. CASE PushSucceeds(p)
    BY <2>1 DEF PushSucceeds, Updates
  <2>2. CASE PushTimesOut(p)
    BY <2>2 DEF PushTimesOut, Updates, ghostVars
  <2> QED
    BY <2>1, <2>2
<1>3. w.p = p /\ w.m = m /\ w.b = b /\ w.old = refs[m][b] /\ w.new = new
  BY <1>2
<1>4. pc'[p] \in {"push", "result"} /\ outcome'[p][m] \in {"APPLIED", "FAILED"}
  BY <1>1 DEF NextPush, Goto, SafetyInv, TypeInv, TypeOK, ExecutionsOK
<1>5. /\ mode[p] = "apply" /\ <<p, "INTENT">> \in journal
      /\ new \in served[planned[p][m].src]
      /\ \/ <<refs[m][b], new>> \in Anc
         \/ /\ planned[p][m].force
            /\ force[p]
            /\ refs[m][b] = planned[p][m].expectedOld
  BY <1>1, <1>2, PushIsJustified
<1> QED
  BY <1>1, <1>3, <1>4, <1>5 DEF Justified

\* An update stays justified: its execution no longer changes its plan, and
\* outcomes of attempted mirrors are final.
LEMMA JustifiedKept ==
  ASSUME SafetyInv, NEW p \in Procs, Step(p) \/ Crash(p), NEW u \in Updates
  PROVE  Justified(u)'
<1>1. Justified(u) /\ u.p \in Procs /\ u.m \in Mirrors
  BY DEF SafetyInv, UpdatesInv, Updates, TypeInv, TypeOK, RemotesOK, UpdateType
<1>2. served' = served
  BY DEF Step, Observe, Plan, Prepare, Execute, Start, Fetch, SetRemoteHead, CompareMirror,
         ObserveFails, ObservationDone, ReadCanonicalHead, PlanMirror, ExportArtifact,
         Authorize, PreparationFails, Validate, WriteIntent, Preflight, NoPush, PushSucceeds,
         PushFails, PushTimesOut, WriteResult, Crash, ghostVars
<1>3. CASE u.p # p
  BY <1>1, <1>2, <1>3, StepIsLocal DEF SafetyInv, Justified
<1>4. CASE u.p = p
  <2>1. pc[p] \in {"push", "result"} \cup Stopped
    BY <1>1, <1>4 DEF Justified
  <2>2. NoPush(p) \/ PushSucceeds(p) \/ PushFails(p) \/ PushTimesOut(p) \/ WriteResult(p)
          \/ Crash(p)
    BY <2>1 DEF Stopped, Step, Observe, Plan, Prepare, Execute, Start, Fetch, SetRemoteHead,
           CompareMirror, ObserveFails, ObservationDone, ReadCanonicalHead, PlanMirror,
           ExportArtifact, Authorize, PreparationFails, Validate, WriteIntent, Preflight
  <2>3. UNCHANGED <<mode, force, planned>> /\ journal \subseteq journal'
    BY <2>2 DEF NoPush, PushSucceeds, PushFails, PushTimesOut, WriteResult, Crash, planVars,
                Publish
  <2>4. outcome'[p][u.m] \in {"APPLIED", "FAILED"}
    <3>1. \/ outcome' = outcome
          \/ outcome' = [outcome EXCEPT ![p][cur[p]] = "APPLIED"]
          \/ outcome' = [outcome EXCEPT ![p][cur[p]] = "FAILED"]
      BY <2>2 DEF NoPush, PushSucceeds, PushFails, PushTimesOut, WriteResult, Crash
    <3> QED
      BY <1>1, <1>4, <3>1 DEF Justified, SafetyInv, TypeInv, TypeOK, ExecutionsOK
  <2>5. pc'[p] \in {"push", "result"} \cup Stopped
    BY <2>2 DEF NoPush, PushSucceeds, PushFails, PushTimesOut, WriteResult, Crash, NextPush,
                Goto, Exit, Stopped, SafetyInv, TypeInv, TypeOK, ExecutionsOK
  <2> QED
    BY <1>1, <1>2, <1>4, <2>3, <2>4, <2>5 DEF Justified
<1> QED
  BY <1>3, <1>4

\* A step keeps canonical tracking refs among the commits canonical has served.
LEMMA ServedStep ==
  ASSUME SafetyInv, NEW p \in Procs, Step(p) \/ Crash(p)
  PROVE  ServedInv'
<1>1. served' = served
  BY DEF Step, Observe, Plan, Prepare, Execute, Start, Fetch, SetRemoteHead, CompareMirror,
         ObserveFails, ObservationDone, ReadCanonicalHead, PlanMirror, ExportArtifact,
         Authorize, PreparationFails, Validate, WriteIntent, Preflight, NoPush, PushSucceeds,
         PushFails, PushTimesOut, WriteResult, Crash, ghostVars
<1>2. refs'[0] = refs[0] /\ track'[0] \in {track[0], refs[0]}
  <2>0. track \in [Remotes -> [Branches -> Commits \cup {NoOID}]] /\ 0 \in Remotes
        /\ refs \in [Remotes -> [Branches -> Commits]] /\ cur[p] \in Remotes
    BY MirrorsAreRemotes DEF SafetyInv, TypeInv, TypeOK, CacheOK, RemotesOK, ExecutionsOK
  <2>1. CASE UNCHANGED <<refs, track>>
    BY <2>1
  <2>2. CASE Fetch(p)
    BY <2>0, <2>2 DEF Fetch, remoteVars
  <2>3. CASE PushSucceeds(p)
    <3>1. cur[p] # 0
      <4>1. pc[p] = "push"
        BY <2>3 DEF PushSucceeds
      <4>2. cur[p] \in Mirrors
        BY <4>1 DEF SafetyInv, TypeInv, PlanningReady
      <4> QED BY <4>2 DEF Mirrors
    <3> QED
      BY <2>0, <2>3, <3>1 DEF PushSucceeds
  <2> QED
    BY <2>1, <2>2, <2>3
       DEF Step, Observe, Plan, Prepare, Execute, Start, SetRemoteHead, CompareMirror,
         ObserveFails, ObservationDone, ReadCanonicalHead, PlanMirror, ExportArtifact,
         Authorize, PreparationFails, Validate, WriteIntent, Preflight, NoPush,
         PushFails, PushTimesOut, WriteResult, Crash, remoteVars, cacheVars
<1> QED
  BY <1>1, <1>2 DEF SafetyInv, ServedInv

\* Changes made by others, and late updates, keep SafetyInv.
LEMMA SafetyEnvironment == SafetyInv /\ Environment => SafetyInv'
<1> SUFFICES ASSUME SafetyInv, Environment PROVE SafetyInv'
  OBVIOUS
<1>1. UNCHANGED <<track, journal, pc, cur, mode, force, planned, outcome, exit>>
  BY DEF Environment, EnvPush, EnvSetDefault, UpdateLands, UpdateLost, ghostVars, cacheVars,
         planVars
<1>2. PhaseInv'
  BY <1>1, PhaseEnvironment DEF SafetyInv
<1>3. Updates' \subseteq Updates /\ \A b \in Branches : served[b] \subseteq served'[b]
  <2>1. Updates' \subseteq Updates
    BY DEF Environment, EnvPush, EnvSetDefault, UpdateLands, UpdateLost, ghostVars, Updates
  <2>2. CASE served' = served
    BY <2>1, <2>2
  <2>3. ASSUME NEW r \in Remotes, NEW b \in Branches, NEW c \in Commits, EnvPush(r, b, c)
        PROVE  \A x \in Branches : served[x] \subseteq served'[x]
    BY <2>3 DEF EnvPush, SafetyInv, TypeInv, TypeOK, RemotesOK
  <2> QED
    BY <2>1, <2>2, <2>3 DEF Environment, EnvSetDefault, UpdateLands, UpdateLost, ghostVars
<1>4. UpdatesInv'
  <2> SUFFICES ASSUME NEW u \in Updates PROVE Justified(u)'
    BY <1>3 DEF UpdatesInv
  <2>1. Justified(u) /\ u.p \in Procs
    BY DEF SafetyInv, UpdatesInv, Updates, TypeInv, TypeOK, RemotesOK, UpdateType
  <2>2. planned[u.p][u.m].src \in Branches
    BY <2>1 DEF Justified, SafetyInv, TypeInv, TypeOK, PlansOK, IsPlan, Action
  <2> QED
    BY <1>1, <1>3, <2>1, <2>2 DEF Justified
<1>5. ServedInv'
  <2> USE DEF SafetyInv, TypeInv, TypeOK, RemotesOK, ServedInv
  <2>1. ASSUME NEW r \in Remotes, NEW b \in Branches, NEW c \in Commits, EnvPush(r, b, c)
        PROVE  ServedInv'
    BY <1>1, <2>1, MirrorsAreRemotes DEF EnvPush
  <2>2. ASSUME NEW u \in inflight, UpdateLands(u) PROVE ServedInv'
    <3>1. u.m # 0
      BY MirrorsAreRemotes DEF UpdateType, Mirrors
    <3>2. refs'[0] = refs[0] /\ served' = served
      BY <2>2, <3>1, MirrorsAreRemotes DEF UpdateLands
    <3> QED
      BY <1>1, <3>2
  <2>3. CASE UNCHANGED <<refs, served>>
    BY <1>1, <2>3
  <2> QED
    BY <2>1, <2>2, <2>3 DEF Environment, EnvSetDefault, UpdateLost, ghostVars
<1> QED
  BY <1>2, <1>4, <1>5, EnvironmentStep DEF SafetyInv

\* SafetyInv is inductive.
LEMMA SafetyInvNext == SafetyInv /\ [Next]_vars => SafetyInv'
<1>1. ASSUME SafetyInv, NEW p \in Procs, Step(p) \/ Crash(p) PROVE SafetyInv'
  <2>1. TypeInv'
    BY <1>1, TypeInvNext DEF SafetyInv, Next
  <2>2. PhaseInv' /\ ServedInv'
    BY <1>1, PhaseStep, ServedStep DEF SafetyInv
  <2>3. UpdatesInv'
    <3>1. ASSUME NEW w \in Updates', w \notin Updates PROVE Justified(w)'
      <4>1. PushSucceeds(p) \/ PushTimesOut(p)
        BY <1>1, <3>1
           DEF Updates, Step, Observe, Plan, Prepare, Execute, Start, Fetch, SetRemoteHead,
               CompareMirror, ObserveFails, ObservationDone, ReadCanonicalHead, PlanMirror,
               ExportArtifact, Authorize, PreparationFails, Validate, WriteIntent, Preflight,
               NoPush, PushFails, WriteResult, Crash, remoteVars, ghostVars
      <4> QED
        BY <1>1, <3>1, <4>1, PushUpdatesJustified
    <3> QED
      BY <1>1, <3>1, JustifiedKept DEF UpdatesInv
  <2> QED
    BY <2>1, <2>2, <2>3 DEF SafetyInv
<1>2. ASSUME SafetyInv, UNCHANGED vars PROVE SafetyInv'
  <2>1. TypeInv'
    BY <1>2, TypeInvNext DEF SafetyInv
  <2> QED
    BY <1>2, <2>1 DEF vars, SafetyInv, PhaseInv, Phase, UpdatesInv, Updates, Justified, ServedInv
<1> QED
  BY <1>1, <1>2, SafetyEnvironment DEF Next

\* SafetyInv holds in every reachable state.
LEMMA SafetyInvariant == Spec => []SafetyInv
<1> QED
  BY SafetyInvInit, SafetyInvNext, PTL DEF Spec

\* No update discards a commit of a mirror unless the plan, the operator and
\* the lease allow it, for every interleaving of executions and pushes of others.
THEOREM UnreviewedLossNeverHappens == Spec => []NoUnreviewedLoss
<1>1. SafetyInv => NoUnreviewedLoss
  BY DEF SafetyInv, UpdatesInv, Justified, NoUnreviewedLoss
<1> QED
  BY <1>1, SafetyInvariant, PTL

\* Every update carries a commit its plan's canonical branch has served.
THEOREM ContentIsCanonical == Spec => []OnlyCanonicalContent
<1>1. SafetyInv => OnlyCanonicalContent
  BY DEF SafetyInv, UpdatesInv, Justified, OnlyCanonicalContent
<1> QED
  BY <1>1, SafetyInvariant, PTL

\* Every update belongs to an apply whose INTENT record is published.
THEOREM IntentIsFirst == Spec => []IntentPrecedesMutation
<1>1. SafetyInv => IntentPrecedesMutation
  BY DEF SafetyInv, UpdatesInv, Justified, IntentPrecedesMutation
<1> QED
  BY <1>1, SafetyInvariant, PTL

\* Every update is reported as APPLIED or FAILED, never as untouched.
THEOREM EvidenceCoversMutations == Spec => []MutationIsReported
<1>1. SafetyInv => MutationIsReported
  BY DEF SafetyInv, UpdatesInv, Justified, MutationIsReported
<1> QED
  BY <1>1, SafetyInvariant, PTL

\* A refused run leaves no record and a stale one no update.
THEOREM RefusalIsHarmless == Spec => []RefusalChangesNothing
<1>1. SafetyInv => RefusalChangesNothing
  <2> SUFFICES ASSUME SafetyInv, NEW p \in Procs
               PROVE  /\ exit[p] = 2 => <<p, "INTENT">> \notin journal
                      /\ (\E m \in Mirrors : outcome[p][m] = "STALE") =>
                           ~\E u \in Updates : u.p = p
    BY DEF RefusalChangesNothing
  <2>1. Phase(p)
    BY DEF SafetyInv, PhaseInv
  <2>2. ASSUME NEW u \in Updates, u.p = p
        PROVE  u.m \in Mirrors /\ outcome[p][u.m] \in {"APPLIED", "FAILED"}
    BY <2>2 DEF SafetyInv, UpdatesInv, Justified, Updates, TypeInv, TypeOK, RemotesOK,
                UpdateType
  <2> QED
    BY <2>1, <2>2 DEF Phase, Untouched
<1> QED
  BY <1>1, SafetyInvariant, PTL

------------------------------------------------------------------------------
(***************************************************************************)
(* Completeness.  A plan covers what the observation found, and the push   *)
(* loop leaves no mirror of the plan behind.                               *)
(***************************************************************************)
\* The mirrors before the cursor are compared; then the plan has an action for
\* exactly those that differ; then each of them is attempted.
Covers(p) ==
  /\ pc[p] \in {"fetch", "head", "compare"} =>
       \A m \in Mirrors : m < cur[p] => observed[p][m] # "UNSEEN"
  /\ pc[p] \in Planning \cup {"observed"} => \A m \in Mirrors : observed[p][m] # "UNSEEN"
  /\ pc[p] = "export" => mode[p] = "plan"
  /\ pc[p] \in Executing \cup {"intent"} =>
       \A m \in Mirrors : m \in DOMAIN planned[p] <=> observed[p][m] # "EQUAL"
  /\ pc[p] \in {"preflight", "push"} =>
       \A m \in Mirrors : m \notin DOMAIN planned[p] => outcome[p][m] = "NONE"
  /\ pc[p] = "push" =>
       \A m \in DOMAIN planned[p] : m < cur[p] => outcome[p][m] \in {"APPLIED", "FAILED"}
  /\ pc[p] = "result" /\ mode[p] = "apply" =>
       \/ \E m \in Mirrors : outcome[p][m] = "STALE"
       \/ \A m \in Mirrors :
            IF m \in DOMAIN planned[p] THEN outcome[p][m] \in {"APPLIED", "FAILED"}
                                       ELSE outcome[p][m] = "NONE"

CoverInv == (\A p \in Procs : Covers(p)) /\ SuccessIsComplete

\* Every step of p keeps what its plan covers.
LEMMA CoversStep ==
  ASSUME SafetyInv, NEW p \in Procs, Covers(p), Step(p) \/ Crash(p)
  PROVE  Covers(p)'
<1> USE DEF Planning, Executing
<1>0. /\ TypeInv /\ Phase(p) /\ Moves(p)
      /\ outcome \in [Procs -> [Mirrors -> Outcomes]] /\ mode \in [Procs -> AllModes]
      /\ observed \in [Procs -> [Mirrors -> States]]
      /\ pc \in [Procs -> Steps] /\ cur \in [Procs -> Remotes]
      /\ DOMAIN planned[p] \subseteq Mirrors /\ DOMAIN planned = Procs
  BY StepMoves DEF SafetyInv, PhaseInv, TypeInv, TypeOK, ExecutionsOK, PlansOK, IsPlan
<1>1. CASE Start(p)
  BY <1>0, <1>1 DEF Start, Goto, Covers, Mirrors
<1>2. CASE Fetch(p) \/ SetRemoteHead(p)
  <2>1. PICK next \in {AfterFetch(cur[p]), AfterSetHead(cur[p])} : Goto(p, next[1], next[2])
    BY <1>2 DEF Fetch, SetRemoteHead
  <2>2. /\ next[1] \in {"fetch", "head", "compare", "observed"}
        /\ \A m \in Mirrors : m < next[2] => m < cur[p]
        /\ next[1] # "observed"
    BY <1>0, <1>2, <2>1, MirrorsAreRemotes DEF AfterFetch, AfterSetHead, Mirrors, Remotes
  <2>3. pc'[p] = next[1] /\ cur'[p] = next[2] /\ UNCHANGED observed
        /\ pc[p] \in {"fetch", "head"}
    BY <1>0, <1>2, <2>1 DEF Goto, Fetch, SetRemoteHead, planVars
  <2> QED BY <2>2, <2>3 DEF Covers
<1>3. CASE CompareMirror(p) \/ ObserveFails(p)
  <2>1. pc[p] \in {"fetch", "head", "compare"}
    BY <1>3 DEF CompareMirror, ObserveFails
  <2>2. CASE Exit(p, 1)
    BY <1>0, <2>2 DEF Exit, Covers
  <2>3. CASE ~Exit(p, 1)
    <3> DEFINE next == AfterMirror(cur[p])
    <3>1. Goto(p, next[1], next[2])
      BY <1>3, <2>3 DEF CompareMirror, ObserveFails
    <3>2. next = IF cur[p] < NumMirrors THEN <<"fetch", cur[p] + 1>> ELSE <<"observed", 0>>
      BY DEF AfterMirror
    <3>3. pc'[p] = next[1] /\ cur'[p] = next[2]
      BY <1>0, <3>1 DEF Goto
    <3>4. \A m \in Mirrors : m # cur[p] => observed'[p][m] = observed[p][m]
      BY <1>0, <1>3, <2>3 DEF CompareMirror, ObserveFails
    <3>5. cur[p] \in Mirrors => observed'[p][cur[p]] # "UNSEEN"
      <4>1. CASE CompareMirror(p)
        BY <1>0, <4>1, InterpretDivergenceIsState DEF CompareMirror
      <4>2. CASE ObserveFails(p)
        BY <1>0, <2>3, <4>2 DEF ObserveFails
      <4> QED BY <1>3, <4>1, <4>2
    <3>6. \A m \in Mirrors : m < cur[p] => observed[p][m] # "UNSEEN"
      BY <2>1 DEF Covers
    <3>7. \A m \in Mirrors : m < cur[p] + 1 => observed'[p][m] # "UNSEEN"
      <4>1. \A m \in Mirrors : m < cur[p] + 1 => m < cur[p] \/ m = cur[p]
        BY <1>0 DEF Mirrors, Remotes
      <4>2. \A m \in Mirrors : m < cur[p] => m # cur[p]
        BY <1>0 DEF Mirrors, Remotes
      <4> QED BY <3>4, <3>5, <3>6, <4>1, <4>2
    <3>8. ~(cur[p] < NumMirrors) => \A m \in Mirrors : m < cur[p] + 1
      BY <1>0, MirrorsAreRemotes DEF Mirrors, Remotes
    <3> HIDE DEF next
    <3> QED BY <3>2, <3>3, <3>7, <3>8 DEF Covers
  <2> QED BY <2>2, <2>3
<1>4. CASE ObservationDone(p) \/ ReadCanonicalHead(p) \/ PlanMirror(p) \/ ExportArtifact(p)
           \/ Authorize(p) \/ PreparationFails(p)
  <2>1. /\ pc[p] \in (Planning \cup {"observed"}) \ (Executing \cup {"intent"})
        /\ UNCHANGED <<observed, mode>>
    BY <1>4 DEF ObservationDone, ReadCanonicalHead, PlanMirror, ExportArtifact, Authorize,
                PreparationFails, planVars
  <2>2. pc'[p] \in {"planhead", "planmirror", "export", "authorize", "validate", "done"}
        /\ (pc'[p] = "export" => mode[p] = "plan")
    BY <1>0, <1>4 DEF ObservationDone, ReadCanonicalHead, PlanMirror, ExportArtifact, Authorize,
                PreparationFails, Goto, Exit, AfterObservation, AfterPlan, AfterAuthorization
  <2> QED BY <2>1, <2>2 DEF Covers
<1>5. CASE Validate(p)
  <2>1. pc[p] = "validate" /\ UNCHANGED <<observed, planned>>
    BY <1>5 DEF Validate, planVars
  <2>2. CASE Exit(p, 1)
    BY <1>0, <2>2 DEF Exit, Covers
  <2>3. CASE ~Exit(p, 1)
    <3>1. pc'[p] = "intent" /\ IntentAgrees(p)
      BY <1>0, <1>5, <2>3 DEF Validate, Goto
    <3>2. ASSUME NEW m \in Mirrors
          PROVE  m \in DOMAIN planned[p] <=> observed[p][m] # "EQUAL"
      <4>1. observed[p][m] \in {"EQUAL", "BEHIND", "AHEAD", "DIVERGED"}
        BY <1>0, <2>1 DEF Covers, TypeInv, PlanningReady, States
      <4> QED BY <3>1, <4>1 DEF IntentAgrees, Decide
    <3> QED BY <2>1, <3>1, <3>2 DEF Covers
  <2> QED BY <2>2, <2>3
<1>6. CASE WriteIntent(p)
  <2>1. pc[p] = "intent" /\ UNCHANGED <<observed, planned>>
    BY <1>6 DEF WriteIntent, planVars
  <2>2. CASE Exit(p, 1)
    BY <1>0, <2>2 DEF Exit, Covers
  <2>3. CASE ~Exit(p, 1)
    <3>1. pc'[p] = "preflight" /\ outcome' = [outcome EXCEPT ![p] =
            [m \in Mirrors |-> IF m \in DOMAIN planned[p] THEN "SKIPPED" ELSE "NONE"]]
      BY <1>0, <1>6, <2>3 DEF WriteIntent, Goto
    <3>2. \A m \in Mirrors : m \notin DOMAIN planned[p] => outcome'[p][m] = "NONE"
      BY <1>0, <3>1
    <3> QED BY <2>1, <3>1, <3>2 DEF Covers
  <2> QED BY <2>2, <2>3
<1>7. CASE Preflight(p)
  <2>1. /\ pc[p] = "preflight" /\ UNCHANGED <<observed, planned, mode>> /\ cur[p] \in Mirrors
    BY <1>7 DEF Preflight, planVars, SafetyInv, TypeInv, PlanningReady
  <2>2. CASE outcome' = [outcome EXCEPT ![p][cur[p]] = "STALE"] /\ pc'[p] = "result"
    <3>1. outcome'[p][cur[p]] = "STALE"
      BY <1>0, <2>1, <2>2
    <3> QED BY <2>1, <2>2, <3>1 DEF Covers
  <2>3. CASE outcome' = outcome /\ pc'[p] = "preflight"
    BY <2>1, <2>3 DEF Covers
  <2>4. CASE outcome' = outcome /\ pc'[p] = "push" /\ cur'[p] = 1
    BY <1>0, <2>1, <2>4 DEF Covers, Mirrors
  <2>5. CASE mode[p] # "apply" /\ pc'[p] = "result"
    BY <2>1, <2>5 DEF Covers
  <2>6. \A s, r : Goto(p, s, r) => pc'[p] = s /\ cur'[p] = r
    BY <1>0 DEF Goto
  <2>7. \/ outcome' = [outcome EXCEPT ![p][cur[p]] = "STALE"] /\ Goto(p, "result", 0)
        \/ outcome' = outcome /\ Goto(p, "preflight", cur[p] + 1)
        \/ outcome' = outcome /\ Goto(p, "push", 1)
        \/ mode[p] # "apply" /\ Goto(p, "result", 0)
    BY <1>7 DEF Preflight
  <2> QED BY <2>2, <2>3, <2>4, <2>5, <2>6, <2>7
<1>8. CASE NoPush(p) \/ PushSucceeds(p) \/ PushFails(p) \/ PushTimesOut(p)
  <2>1. pc[p] = "push" /\ UNCHANGED <<observed, planned, mode>> /\ NextPush(p)
        /\ cur[p] \in Mirrors
    BY <1>8 DEF NoPush, PushSucceeds, PushFails, PushTimesOut, planVars, SafetyInv, TypeInv,
                PlanningReady
  <2>2. /\ \A m \in Mirrors : m # cur[p] => outcome'[p][m] = outcome[p][m]
        /\ cur[p] \notin DOMAIN planned[p] => outcome' = outcome
        /\ cur[p] \in DOMAIN planned[p] => outcome'[p][cur[p]] \in {"APPLIED", "FAILED"}
    <3>1. CASE NoPush(p)
      BY <3>1 DEF NoPush
    <3>2. CASE ~NoPush(p)
      <4>1. /\ cur[p] \in DOMAIN planned[p]
            /\ \/ outcome' = [outcome EXCEPT ![p][cur[p]] = "APPLIED"]
               \/ outcome' = [outcome EXCEPT ![p][cur[p]] = "FAILED"]
        BY <1>8, <3>2 DEF PushSucceeds, PushFails, PushTimesOut
      <4> QED BY <1>0, <2>1, <4>1
    <3> QED BY <3>1, <3>2
  <2>3. /\ \A m \in Mirrors : m \notin DOMAIN planned[p] => outcome'[p][m] = "NONE"
        /\ \A m \in DOMAIN planned[p] : m < cur[p] + 1 => outcome'[p][m] \in {"APPLIED", "FAILED"}
    <3>1. ASSUME NEW m \in Mirrors, m \notin DOMAIN planned[p] PROVE outcome'[p][m] = "NONE"
      BY <2>1, <2>2, <3>1 DEF Covers
    <3>2. ASSUME NEW m \in DOMAIN planned[p], m < cur[p] + 1
          PROVE  outcome'[p][m] \in {"APPLIED", "FAILED"}
      <4>1. m \in Mirrors /\ (m < cur[p] \/ m = cur[p])
        BY <1>0, <2>1, <3>2 DEF Mirrors
      <4>2. m < cur[p] => m # cur[p] /\ outcome[p][m] \in {"APPLIED", "FAILED"}
        BY <2>1 DEF Covers, Mirrors
      <4> QED BY <2>2, <4>1, <4>2
    <3> QED BY <3>1, <3>2
  <2>4. \/ cur[p] < NumMirrors /\ pc'[p] = "push" /\ cur'[p] = cur[p] + 1
        \/ ~(cur[p] < NumMirrors) /\ pc'[p] = "result"
    BY <1>0, <2>1 DEF NextPush, Goto
  <2>5. ~(cur[p] < NumMirrors) => \A m \in Mirrors : m < cur[p] + 1
    BY <2>1, MirrorsAreRemotes DEF Mirrors
  <2>6. pc'[p] = "result" =>
          \A m \in Mirrors :
            IF m \in DOMAIN planned[p] THEN outcome'[p][m] \in {"APPLIED", "FAILED"}
                                       ELSE outcome'[p][m] = "NONE"
    BY <2>3, <2>4, <2>5
  <2> QED BY <2>1, <2>3, <2>4, <2>6 DEF Covers
<1>9. CASE WriteResult(p) \/ Crash(p)
  BY <1>0, <1>9 DEF WriteResult, Crash, Exit, Covers
<1> QED
  BY <1>1, <1>2, <1>3, <1>4, <1>5, <1>6, <1>7, <1>8, <1>9
     DEF Step, Observe, Plan, Prepare, Execute

\* A step of p exits 0 from an apply only when everything planned is applied.
LEMMA SuccessStep ==
  ASSUME SafetyInv, NEW p \in Procs, Covers(p), Step(p) \/ Crash(p), SuccessIsComplete
  PROVE  SuccessIsComplete'
<1> SUFFICES ASSUME NEW q \in Procs, exit'[q] = 0, mode'[q] = "apply"
             PROVE  /\ {<<q, "INTENT">>, <<q, "RESULT">>} \subseteq journal'
                    /\ \A m \in Mirrors :
                         \/ observed'[q][m] = "EQUAL" /\ outcome'[q][m] = "NONE"
                         \/ observed'[q][m] # "EQUAL" /\ outcome'[q][m] = "APPLIED"
  BY DEF SuccessIsComplete
<1>0. /\ TypeInv /\ Phase(p) /\ exit \in [Procs -> {-1, 0, 1, 2}]
      /\ outcome \in [Procs -> [Mirrors -> Outcomes]] /\ mode \in [Procs -> AllModes]
      /\ pc \in [Procs -> Steps]
  BY DEF SafetyInv, PhaseInv, TypeInv, TypeOK, ExecutionsOK
<1>1. CASE q # p
  <2>1. /\ exit[q] = 0 /\ mode[q] = "apply" /\ outcome'[q] = outcome[q] /\ observed'[q] = observed[q]
        /\ \A x : <<q, x>> \in journal' <=> <<q, x>> \in journal
    BY <1>0, <1>1, StepIsLocal, StepKeepsObserved
  <2> QED BY <2>1 DEF SuccessIsComplete
<1>2. CASE q = p /\ exit[p] # 0
  <2>1. exit'[p] = 0 /\ mode'[p] = "apply"
    BY <1>2
  <2>2. WriteResult(p) \/ ObservationDone(p) \/ ExportArtifact(p)
    <3>1. exit' # exit /\ ~Exit(p, 1) /\ ~Exit(p, 2)
      BY <1>0, <1>2, <2>1 DEF Exit
    <3> QED
      BY <3>1 DEF Step, Observe, Plan, Prepare, Execute, Start, Fetch, SetRemoteHead,
         CompareMirror, ObserveFails, ReadCanonicalHead, PlanMirror, Authorize,
         PreparationFails, Validate, WriteIntent, Preflight, NoPush, PushSucceeds, PushFails,
         PushTimesOut, Crash
  <2>3. ~ObservationDone(p)
    BY <1>0, <1>2, <2>1 DEF ObservationDone, Exit
  <2>4. ~ExportArtifact(p)
    BY <2>1 DEF ExportArtifact, Covers
  <2>5. /\ pc[p] = "result" /\ Publish(p, "RESULT") /\ ~ExecutionFailed(p)
        /\ UNCHANGED <<observed, outcome, mode>>
    BY <1>0, <2>1, <2>2, <2>3, <2>4 DEF WriteResult, Exit, planVars
  <2>6. /\ <<p, "INTENT">> \in journal
        /\ \A m \in Mirrors : m \in DOMAIN planned[p] <=> observed[p][m] # "EQUAL"
        /\ \A m \in Mirrors :
            IF m \in DOMAIN planned[p] THEN outcome[p][m] \in {"APPLIED", "FAILED"}
                                       ELSE outcome[p][m] = "NONE"
    BY <1>0, <2>1, <2>5 DEF Phase, Covers, Executing, ExecutionFailed
  <2> QED BY <1>2, <2>5, <2>6 DEF Publish, ExecutionFailed
<1>3. CASE q = p /\ exit[p] = 0
  <2>1. pc[p] = "done"
    BY <1>0, <1>3 DEF Phase
  <2> QED
    BY <2>1 DEF Step, Observe, Plan, Prepare, Execute, Start, Fetch, SetRemoteHead,
       CompareMirror, ObserveFails, ObservationDone, ReadCanonicalHead, PlanMirror,
       ExportArtifact, Authorize, PreparationFails, Validate, WriteIntent, Preflight, NoPush,
       PushSucceeds, PushFails, PushTimesOut, WriteResult, Crash, Active
<1> QED BY <1>1, <1>2, <1>3

\* Others do not disturb it.
LEMMA CoversKept ==
  ASSUME NEW q \in Procs, Covers(q), pc'[q] = pc[q], cur'[q] = cur[q], mode'[q] = mode[q],
         observed'[q] = observed[q], planned'[q] = planned[q], outcome'[q] = outcome[q]
  PROVE  Covers(q)'
BY DEF Covers

\* Coverage, and what exit status 0 says, survive every step of the system.
LEMMA CoverInvNext == SafetyInv /\ CoverInv /\ [Next]_vars => CoverInv'
<1>1. ASSUME SafetyInv, CoverInv, NEW p \in Procs, Step(p) \/ Crash(p) PROVE CoverInv'
  <2>1. ASSUME NEW q \in Procs PROVE Covers(q)'
    <3>1. CASE q = p
      BY <1>1, <3>1, CoversStep DEF CoverInv
    <3>2. CASE q # p
      BY <1>1, <3>2, StepIsLocal, StepKeepsObserved, CoversKept DEF CoverInv, SafetyInv
    <3> QED BY <3>1, <3>2
  <2> QED BY <1>1, <2>1, SuccessStep DEF CoverInv
<1>2. ASSUME CoverInv, UNCHANGED <<pc, cur, mode, observed, planned, outcome, exit, journal>>
      PROVE  CoverInv'
  BY <1>2 DEF CoverInv, Covers, SuccessIsComplete
<1>3. Environment => UNCHANGED <<pc, cur, mode, observed, planned, outcome, exit, journal>>
  BY DEF Environment, EnvPush, EnvSetDefault, UpdateLands, UpdateLost, planVars
<1> QED
  BY <1>1, <1>2, <1>3 DEF Next, vars

\* Exit status 0 of an apply means that both records are published and that every
\* mirror found different had an action which was applied, none being forgotten
\* by the plan or by the push loop.
THEOREM SuccessMeansApplied == Spec => []SuccessIsComplete
<1>1. Init => CoverInv
  BY DEF Init, CoverInv, Covers, Planning, Executing, SuccessIsComplete
<1>2. CoverInv => SuccessIsComplete
  BY DEF CoverInv
<1> QED BY <1>1, <1>2, CoverInvNext, SafetyInvInit, SafetyInvNext, PTL DEF Spec

------------------------------------------------------------------------------
(* Refinement: every step is a step or a stutter of AuditedExecution.      *)

\* A step that is not a push attempts no target.
LEMMA AttemptedKept ==
  ASSUME SafetyInv, NEW p \in Procs, pc[p] # "push", Step(p) \/ Crash(p)
  PROVE  Attempted' = Attempted
<1>1. CASE outcome' = outcome
  BY <1>1 DEF Attempted
<1>2. CASE WriteIntent(p) \/ Preflight(p)
  <2>1. /\ outcome \in [Procs -> [Mirrors -> Outcomes]]
        /\ \A m \in Mirrors : outcome[p][m] \notin {"APPLIED", "FAILED"}
    BY <1>2 DEF WriteIntent, Preflight, SafetyInv, PhaseInv, Phase, TypeInv, TypeOK,
                ExecutionsOK, Executing, Stopped, Untouched
  <2>2. \A m \in Mirrors : outcome'[p][m] \notin {"APPLIED", "FAILED"}
    <3>1. CASE outcome' = outcome
      BY <2>1, <3>1
    <3>2. CASE outcome' = [outcome EXCEPT ![p][cur[p]] = "STALE"]
      BY <2>1, <3>2
    <3>3. CASE outcome' = [outcome EXCEPT ![p] =
                 [m \in Mirrors |-> IF m \in DOMAIN planned[p] THEN "SKIPPED" ELSE "NONE"]]
      BY <2>1, <3>3
    <3>4. CASE outcome' = [outcome EXCEPT ![p] =
                 [x \in Mirrors |-> IF x \in DOMAIN planned[p] THEN "VALIDATED" ELSE "NONE"]]
      BY <2>1, <3>4
    <3> QED
      BY <1>2, <3>1, <3>2, <3>3, <3>4 DEF WriteIntent, Preflight
  <2>3. \A q \in Procs \ {p} : outcome'[q] = outcome[q]
    BY StepIsLocal DEF SafetyInv
  <2> QED
    BY <2>1, <2>2, <2>3 DEF Attempted
<1> QED
  BY <1>1, <1>2
     DEF Step, Observe, Plan, Prepare, Execute, Start, Fetch, SetRemoteHead, CompareMirror,
         ObserveFails, ObservationDone, ReadCanonicalHead, PlanMirror, ExportArtifact,
         Authorize, PreparationFails, Validate, NoPush, PushSucceeds, PushFails, PushTimesOut,
         WriteResult, Crash

\* A push is an attempt of the abstract execution.
LEMMA PushIsAttempt ==
  ASSUME SafetyInv, NEW p \in Procs, PushSucceeds(p) \/ PushFails(p) \/ PushTimesOut(p)
  PROVE  Audited!Attempt(p, cur[p]) /\ cur[p] \in Mirrors
<1> DEFINE m == cur[p]
<1>1. pc[p] = "push" /\ m \in Mirrors /\ UNCHANGED journal
      /\ \/ outcome' = [outcome EXCEPT ![p][m] = "APPLIED"]
         \/ outcome' = [outcome EXCEPT ![p][m] = "FAILED"]
  BY DEF PushSucceeds, PushFails, PushTimesOut, SafetyInv, TypeInv, PlanningReady
<1>2. /\ <<p, "INTENT">> \in journal /\ <<p, "RESULT">> \notin journal
      /\ outcome[p][m] \in Untouched
  BY <1>1 DEF SafetyInv, PhaseInv, Phase, Executing, TypeInv, Mirrors
<1>3. <<p, m>> \notin Attempted
  BY <1>2 DEF Attempted, Untouched
<1>4. Attempted' = Attempted \cup {<<p, m>>}
  <2>1. \A q \in Procs, n \in Mirrors :
          outcome'[q][n] \in {"APPLIED", "FAILED"}
            <=> (outcome[q][n] \in {"APPLIED", "FAILED"} \/ (q = p /\ n = m))
    BY <1>1 DEF SafetyInv, TypeInv, TypeOK, ExecutionsOK
  <2> QED
    BY <1>1, <2>1 DEF Attempted
<1> QED
  BY <1>1, <1>2, <1>3, <1>4 DEF Audited!Attempt

\* Every step is a step or a stutter of AuditedExecution.
LEMMA StepRefines ==
  ASSUME SafetyInv, [Next]_vars
  PROVE  [Audited!Next]_<<journal, Attempted>>
<1>1. ASSUME NEW p \in Procs, Step(p) \/ Crash(p)
      PROVE  Audited!Next \/ UNCHANGED <<journal, Attempted>>
  <2>1. CASE PushSucceeds(p) \/ PushFails(p) \/ PushTimesOut(p)
    BY <2>1, PushIsAttempt DEF Audited!Next
  <2>2. CASE WriteIntent(p)
    <3>1. Attempted' = Attempted
      BY <2>2, AttemptedKept DEF WriteIntent, Step, Execute
    <3>2. <<p, "INTENT">> \notin journal
      BY <2>2 DEF WriteIntent, SafetyInv, PhaseInv, Phase, Executing, Stopped
    <3>3. journal' = journal \/ Publish(p, "INTENT")
      BY <2>2 DEF WriteIntent
    <3> QED
      BY <3>1, <3>2, <3>3 DEF Publish, Audited!WriteIntent, Audited!Next
  <2>3. CASE WriteResult(p)
    <3>1. Attempted' = Attempted
      BY <2>3 DEF WriteResult, Attempted
    <3>2. <<p, "INTENT">> \in journal /\ <<p, "RESULT">> \notin journal
      BY <2>3 DEF WriteResult, SafetyInv, PhaseInv, Phase, Executing
    <3>3. journal' = journal \/ Publish(p, "RESULT")
      BY <2>3 DEF WriteResult
    <3> QED
      BY <3>1, <3>2, <3>3 DEF Publish, Audited!WriteResult, Audited!Next
  <2>4. CASE UNCHANGED <<journal, outcome>>
    BY <2>4 DEF Attempted
  <2>5. CASE Preflight(p)
    <3>1. Attempted' = Attempted
      BY <2>5, AttemptedKept DEF Preflight, Step, Execute
    <3> QED
      BY <2>5, <3>1 DEF Preflight
  <2> QED
    BY <1>1, <2>1, <2>2, <2>3, <2>4, <2>5
       DEF Step, Observe, Plan, Prepare, Execute, Start, Fetch, SetRemoteHead, CompareMirror,
           ObserveFails, ObservationDone, ReadCanonicalHead, PlanMirror, ExportArtifact,
           Authorize, PreparationFails, Validate, NoPush, Crash
<1>2. CASE Environment
  BY <1>2 DEF Environment, EnvPush, EnvSetDefault, UpdateLands, UpdateLost, Attempted
<1>3. CASE UNCHANGED vars
  BY <1>3 DEF vars, Attempted
<1> QED
  BY <1>1, <1>2, <1>3 DEF Next

\* The reconciliation controller implements the audit promise: each mirror is
\* attempted at most once, between the INTENT and the RESULT record.
THEOREM ControllerIsAudited == Spec => AuditedSpec
<1>1. Init => Audited!Init
  BY DEF Init, Audited!Init, Attempted
<1>2. Spec => Audited!Init /\ [][Audited!Next]_<<journal, Attempted>>
  BY <1>1, StepRefines, SafetyInvariant, PTL DEF Spec
<1> QED
  BY <1>2 DEF AuditedSpec, Audited!Spec

------------------------------------------------------------------------------
(***************************************************************************)
(* What holds of MirrorApply when the operator never overlaps two          *)
(* executions: the cache an execution observed is the cache it plans and   *)
(* pushes from, so the force flags, the branches and the object IDs of its *)
(* plan and of its records agree with each other.                          *)
(***************************************************************************)
USE DEF cacheVars, planVars, ghostVars, remoteVars

Alone == \A p, q \in Procs : Active(p) /\ Active(q) => p = q

\* The two commits a mirror's state is computed from, and that state.
CanonicalCommit == track[0][trackHead[0]]
MirrorCommit(m) == track[m][trackHead[m]]
StateOf(m) ==
  LET n == RevListLeftRightCount(CanonicalCommit, MirrorCommit(m))
  IN  InterpretDivergence(n[1], n[2])

Deciding == {"observed", "planhead", "planmirror", "export", "authorize", "validate", "intent",
             "preflight"}

\* What an execution has read is still what the cache holds.
Coherent(p) ==
  /\ pc[p] \in {"fetch", "head", "compare"} =>
       \A m \in Mirrors : m < cur[p] /\ observed[p][m] # "ERROR" => observed[p][m] = StateOf(m)
  /\ pc[p] \in Deciding =>
       \A m \in Mirrors : observed[p][m] # "ERROR" => observed[p][m] = StateOf(m)
  /\ pc[p] \in {"idle", "fetch", "head", "compare", "observed"} => sourceOID[p] = NoOID
  /\ pc[p] \in Planning => sourceOID[p] \in {NoOID, CanonicalCommit}
  /\ pc[p] = "planmirror" => branch[p] = trackHead[0]
  /\ pc[p] \in Executing \cup {"intent"} => BranchScopeAgrees(p)
  /\ pc[p] = "preflight" =>
       \A m \in DOMAIN planned[p] :
         m < cur[p] => track[0][planned[p][m].src] = planned[p][m].expectedSource
  /\ pc[p] = "push" =>
       \A m \in DOMAIN planned[p] : track[0][planned[p][m].src] = planned[p][m].expectedSource

\* The force flag of every action of a plan tells how its two commits relate.
Honest(plan) ==
  \A m \in DOMAIN plan :
    plan[m].force <=> <<plan[m].expectedOld, plan[m].expectedSource>> \notin Anc

AloneInv ==
  /\ Alone
  /\ \A p \in Procs : Coherent(p)
  /\ \A a \in artifacts : Honest(a)
  /\ \A p \in Procs : Honest(planned[p])
  /\ AfterIsResultingOID

------------------------------------------------------------------------------
\* The counts of rev-list tell whether the mirror has a commit canonical lacks,
\* which is when reconciling it needs force.
LEMMA ForceMeansLoss ==
  ASSUME NEW l \in Commits, NEW r \in Commits, NEW n, n = RevListLeftRightCount(l, r)
  PROVE  Decide(InterpretDivergence(n[1], n[2])).force <=> <<r, l>> \notin Anc
<1>1. /\ IsFiniteSet(Reach(l) \ Reach(r)) /\ IsFiniteSet(Reach(r) \ Reach(l))
  BY HistoryAssumption, FS_Difference DEF Reach
<1>2. n[1] \in Nat /\ n[2] \in Nat /\ (n[2] = 0 <=> Reach(r) \ Reach(l) = {})
  BY <1>1, FS_CardinalityType, FS_EmptySet DEF RevListLeftRightCount
<1>3. Reach(r) \ Reach(l) = {} <=> <<r, l>> \in Anc
  BY MirrorApplyAssumption DEF Reach
<1>4. InterpretDivergence(n[1], n[2]) \in {"AHEAD", "DIVERGED"} <=> n[2] # 0
  BY <1>2 DEF InterpretDivergence
<1> QED BY <1>2, <1>3, <1>4 DEF Decide

\* When p takes a step, no other execution is running.
LEMMA OthersRest ==
  ASSUME Exclusive, TypeInv, Alone, NEW p \in Procs, Step(p) \/ Crash(p),
         NEW q \in Procs, q # p
  PROVE  /\ ~Active(q) /\ pc'[q] = pc[q] /\ sourceOID'[q] = sourceOID[q]
         /\ after'[q] = after[q]
<1>1. Start(p) \/ Active(p)
  BY DEF Step, Observe, Plan, Prepare, Execute, Fetch, SetRemoteHead, CompareMirror,
     ObserveFails, ObservationDone, ReadCanonicalHead, PlanMirror, ExportArtifact, Authorize,
     PreparationFails, Validate, WriteIntent, Preflight, NoPush, PushSucceeds, PushFails,
     PushTimesOut, WriteResult, Crash, Active
<1>2. ~Active(q)
  BY <1>1 DEF Start, Alone
<1>3. pc'[q] = pc[q]
  BY StepIsLocal
<1>4. sourceOID'[q] = sourceOID[q]
  BY DEF TypeInv, TypeOK, PlansOK, Step, Observe, Plan, Prepare, Execute, Start, Fetch,
     SetRemoteHead, CompareMirror, ObserveFails, ObservationDone, ReadCanonicalHead,
     PlanMirror, ExportArtifact, Authorize, PreparationFails, Validate, WriteIntent,
     Preflight, NoPush, PushSucceeds, PushFails, PushTimesOut, WriteResult, Crash
<1>5. after'[q] = after[q]
  BY DEF TypeInv, TypeOK, ExecutionsOK, Step, Observe, Plan, Prepare, Execute, Start, Fetch,
     SetRemoteHead, CompareMirror, ObserveFails, ObservationDone, ReadCanonicalHead,
     PlanMirror, ExportArtifact, Authorize, PreparationFails, Validate, WriteIntent,
     Preflight, NoPush, PushSucceeds, PushFails, PushTimesOut, WriteResult, Crash
<1> QED BY <1>2, <1>3, <1>4, <1>5

\* While the cache stays, so does everything computed from it.
LEMMA SameCache ==
  ASSUME UNCHANGED cacheVars
  PROVE  CanonicalCommit' = CanonicalCommit /\ \A m \in Mirrors : StateOf(m)' = StateOf(m)
BY DEF CanonicalCommit, StateOf, MirrorCommit

\* The step of an execution keeps it coherent with the cache.
LEMMA CoherentStep ==
  ASSUME TypeInv, NEW p \in Procs, Coherent(p), Step(p) \/ Crash(p)
  PROVE  Coherent(p)'
<1> USE DEF Planning, Executing, Deciding
<1>0. /\ Moves(p) /\ pc \in [Procs -> Steps] /\ cur \in [Procs -> Remotes]
      /\ observed \in [Procs -> [Mirrors -> States]]
      /\ DOMAIN planned[p] \subseteq Mirrors /\ DOMAIN planned = Procs
      /\ sourceOID \in [Procs -> Commits \cup {NoOID}] /\ DOMAIN branch = Procs
      /\ track \in [Remotes -> [Branches -> Commits \cup {NoOID}]]
      /\ trackHead \in [Remotes -> Branches \cup {NoBranch}]
  BY StepMoves DEF TypeInv, TypeOK, ExecutionsOK, PlansOK, IsPlan, CacheOK
<1>z. 0 \in Remotes /\ \A m \in Mirrors : m \in Remotes /\ m # 0 /\ ~(m < 0) /\ ~(m < 1)
  BY MirrorsAreRemotes DEF Mirrors
<1>1. CASE Start(p)
  BY <1>0, <1>1, <1>z DEF Start, Goto, Coherent
<1>2. CASE Fetch(p) \/ SetRemoteHead(p)
  <2>1. PICK next \in {AfterFetch(cur[p]), AfterSetHead(cur[p])} : Goto(p, next[1], next[2])
    BY <1>2 DEF Fetch, SetRemoteHead
  <2>2. /\ next[1] \in {"fetch", "head", "compare"}
        /\ \A m \in Mirrors : m < next[2] => m < cur[p]
    BY <1>0, <1>2, <2>1, MirrorsAreRemotes DEF AfterFetch, AfterSetHead, Mirrors, Remotes
  <2>3. /\ pc'[p] = next[1] /\ cur'[p] = next[2] /\ UNCHANGED <<observed, sourceOID>>
        /\ pc[p] \in {"fetch", "head"}
    BY <1>0, <1>2, <2>1 DEF Goto, Fetch, SetRemoteHead
  <2>4. ASSUME NEW r \in Remotes, r # cur[p] PROVE track'[r] = track[r] /\ trackHead'[r] = trackHead[r]
    BY <1>0, <1>2, <2>4 DEF Fetch, SetRemoteHead
  <2>5. ASSUME NEW m \in Mirrors, m < cur[p] PROVE StateOf(m)' = StateOf(m)
    <3>1. cur[p] # 0 /\ m # cur[p]
      BY <1>0, <2>5 DEF Mirrors, Remotes
    <3>2. /\ track'[0] = track[0] /\ trackHead'[0] = trackHead[0]
          /\ track'[m] = track[m] /\ trackHead'[m] = trackHead[m]
      BY <1>z, <2>4, <3>1
    <3> QED BY <3>2 DEF StateOf, MirrorCommit, CanonicalCommit
  <2> QED BY <2>2, <2>3, <2>5 DEF Coherent
<1>3. CASE CompareMirror(p) \/ ObserveFails(p)
  <2>1. pc[p] \in {"fetch", "head", "compare"} /\ UNCHANGED <<track, trackHead, sourceOID>>
    BY <1>3 DEF CompareMirror, ObserveFails
  <2>2. CASE Exit(p, 1)
    BY <1>0, <2>2 DEF Exit, Coherent
  <2>3. CASE ~Exit(p, 1)
    <3> DEFINE next == AfterMirror(cur[p])
    <3>1. Goto(p, next[1], next[2])
      BY <1>3, <2>3 DEF CompareMirror, ObserveFails
    <3>2. next = IF cur[p] < NumMirrors THEN <<"fetch", cur[p] + 1>> ELSE <<"observed", 0>>
      BY DEF AfterMirror
    <3>3. pc'[p] = next[1] /\ cur'[p] = next[2]
      BY <1>0, <3>1 DEF Goto
    <3>4. \A m \in Mirrors : m # cur[p] => observed'[p][m] = observed[p][m]
      BY <1>0, <1>3, <2>3 DEF CompareMirror, ObserveFails
    <3>5. cur[p] \in Mirrors => observed'[p][cur[p]] \in {"ERROR", StateOf(cur[p])}
      <4>1. CASE CompareMirror(p)
        <5> DEFINE n == RevListLeftRightCount(track[0][trackHead[0]], track[cur[p]][trackHead[cur[p]]])
        <5>1. observed' = [observed EXCEPT ![p][cur[p]] = InterpretDivergence(n[1], n[2])]
          BY <4>1 DEF CompareMirror
        <5>2. StateOf(cur[p]) = InterpretDivergence(n[1], n[2])
          BY DEF StateOf, CanonicalCommit, MirrorCommit
        <5> HIDE DEF n
        <5> QED BY <1>0, <5>1, <5>2
      <4>2. CASE ObserveFails(p)
        BY <1>0, <2>3, <4>2 DEF ObserveFails
      <4> QED BY <1>3, <4>1, <4>2
    <3>6. \A m \in Mirrors : m < cur[p] /\ observed[p][m] # "ERROR" => observed[p][m] = StateOf(m)
      BY <2>1 DEF Coherent
    <3>7. ASSUME NEW m \in Mirrors, m < cur[p] + 1, observed'[p][m] # "ERROR"
          PROVE  observed'[p][m] = StateOf(m)'
      <4>1. m < cur[p] \/ m = cur[p]
        BY <1>0, <3>7 DEF Mirrors, Remotes
      <4>2. m < cur[p] => m # cur[p]
        BY <1>0 DEF Mirrors, Remotes
      <4>3. StateOf(m)' = StateOf(m)
        BY <2>1, SameCache
      <4> QED BY <3>4, <3>5, <3>6, <3>7, <4>1, <4>2, <4>3
    <3>8. ~(cur[p] < NumMirrors) => \A m \in Mirrors : m < cur[p] + 1
      BY <1>0, MirrorsAreRemotes DEF Mirrors, Remotes
    <3>9. sourceOID[p] = NoOID
      BY <2>1 DEF Coherent
    <3> HIDE DEF next
    <3> QED BY <2>1, <3>2, <3>3, <3>7, <3>8, <3>9 DEF Coherent
  <2> QED BY <2>2, <2>3
<1>4. CASE ObservationDone(p) \/ ExportArtifact(p) \/ Authorize(p) \/ PreparationFails(p)
           \/ ReadCanonicalHead(p)
  <2>1. /\ pc[p] \in Deciding \ {"intent", "preflight"}
        /\ UNCHANGED <<track, trackHead, observed, sourceOID, planned>>
    BY <1>4 DEF ObservationDone, ReadCanonicalHead, ExportArtifact, Authorize, PreparationFails
  <2>2. /\ pc'[p] \in {"planhead", "planmirror", "authorize", "validate", "done"}
        /\ (pc'[p] = "planmirror" => branch'[p] = trackHead[0])
    BY <1>0, <1>4 DEF ObservationDone, ReadCanonicalHead, ExportArtifact, Authorize,
                PreparationFails, Goto, Exit, AfterObservation, AfterAuthorization
  <2> QED BY <2>1, <2>2, SameCache DEF Coherent
<1>5. CASE PlanMirror(p)
  <2>1. /\ pc[p] = "planmirror" /\ UNCHANGED <<track, trackHead, observed, branch>>
        /\ pc'[p] \in {"planmirror", "export", "authorize", "validate"}
    BY <1>0, <1>5 DEF PlanMirror, Goto, AfterPlan
  <2>2. sourceOID'[p] \in {NoOID, CanonicalCommit}
    BY <1>0, <1>5, <2>1 DEF PlanMirror, Coherent, CanonicalCommit
  <2> QED BY <2>1, <2>2, SameCache DEF Coherent
<1>6. CASE Validate(p)
  <2>1. pc[p] = "validate" /\ UNCHANGED <<track, trackHead, observed, sourceOID, planned>>
    BY <1>6 DEF Validate
  <2>2. CASE Exit(p, 1)
    BY <1>0, <2>2 DEF Exit, Coherent
  <2>3. CASE ~Exit(p, 1)
    <3>1. pc'[p] = "intent" /\ BranchScopeAgrees(p)
      BY <1>0, <1>6, <2>3 DEF Validate, Goto
    <3>2. BranchScopeAgrees(p)'
      BY <2>1, <3>1 DEF BranchScopeAgrees
    <3> QED BY <2>1, <3>1, <3>2, SameCache DEF Coherent
  <2> QED BY <2>2, <2>3
<1>7. CASE WriteIntent(p)
  <2>1. /\ pc[p] = "intent" /\ UNCHANGED <<track, trackHead, observed, sourceOID, planned>>
        /\ \/ pc'[p] = "done"
           \/ pc'[p] = "preflight" /\ cur'[p] = 1
    BY <1>0, <1>7 DEF WriteIntent, Goto, Exit
  <2>2. BranchScopeAgrees(p)'
    BY <2>1 DEF Coherent, BranchScopeAgrees
  <2> QED BY <1>0, <1>z, <2>1, <2>2, SameCache DEF Coherent
<1>8. CASE Preflight(p)
  <2>1. /\ pc[p] = "preflight" /\ UNCHANGED <<track, trackHead, observed, sourceOID, planned>>
        /\ cur[p] \in Mirrors
    BY <1>8 DEF Preflight, TypeInv, PlanningReady
  <2>2. BranchScopeAgrees(p)'
    BY <2>1 DEF Coherent, BranchScopeAgrees
  <2>3. CASE pc'[p] = "result"
    BY <2>1, <2>2, <2>3, SameCache DEF Coherent
  <2>4. CASE pc'[p] # "result"
    <3>1. /\ cur[p] \in DOMAIN planned[p] => RefsCurrent(p, cur[p])
          /\ \/ pc'[p] = "preflight" /\ cur'[p] = cur[p] + 1
             \/ pc'[p] = "push" /\ ~(cur[p] < NumMirrors)
      BY <1>0, <1>8, <2>4 DEF Preflight, Goto
    <3>2. ASSUME NEW m \in DOMAIN planned[p], m < cur[p] + 1
          PROVE  track[0][planned[p][m].src] = planned[p][m].expectedSource
      <4>1. m < cur[p] \/ m = cur[p]
        BY <1>0, <2>1, <3>2 DEF Mirrors
      <4> QED BY <2>1, <3>1, <4>1 DEF Coherent, RefsCurrent
    <3>3. ~(cur[p] < NumMirrors) => \A m \in DOMAIN planned[p] : m < cur[p] + 1
      BY <1>0, <2>1, MirrorsAreRemotes DEF Mirrors
    <3> QED BY <2>1, <2>2, <3>1, <3>2, <3>3, SameCache DEF Coherent
  <2> QED BY <2>3, <2>4
<1>9. CASE NoPush(p) \/ PushSucceeds(p) \/ PushFails(p) \/ PushTimesOut(p)
  <2>1. /\ pc[p] = "push" /\ UNCHANGED <<trackHead, observed, sourceOID, planned>>
        /\ cur[p] \in Mirrors /\ NextPush(p)
    BY <1>9 DEF NoPush, PushSucceeds, PushFails, PushTimesOut, TypeInv, PlanningReady
  <2>2. track'[0] = track[0]
    BY <1>0, <1>9, <1>z, <2>1 DEF NoPush, PushSucceeds, PushFails, PushTimesOut
  <2>3. pc'[p] \in {"push", "result"}
    BY <1>0, <2>1 DEF NextPush, Goto
  <2>4. BranchScopeAgrees(p)' /\ CanonicalCommit' = CanonicalCommit
    BY <2>1, <2>2 DEF Coherent, BranchScopeAgrees, CanonicalCommit
  <2> QED BY <2>1, <2>2, <2>3, <2>4 DEF Coherent
<1>10. CASE WriteResult(p) \/ Crash(p)
  BY <1>0, <1>10 DEF WriteResult, Crash, Exit, Coherent
<1> QED
  BY <1>1, <1>2, <1>3, <1>4, <1>5, <1>6, <1>7, <1>8, <1>9, <1>10
     DEF Step, Observe, Plan, Prepare, Execute

\* An action planned from a coherent cache is honest.
LEMMA PlannedIsHonest ==
  ASSUME TypeInv, NEW p \in Procs, Coherent(p), PlanMirror(p), Honest(planned[p])
  PROVE  Honest(planned'[p])
<1> DEFINE m == cur[p]
           source == IF sourceOID[p] = NoOID THEN track[0][branch[p]] ELSE sourceOID[p]
           a == ActionFor(p, m, source)
<1>1. /\ pc[p] = "planmirror" /\ m \in Mirrors /\ observed[p][m] # "ERROR" /\ DOMAIN planned = Procs
  BY DEF PlanMirror, TypeInv, PlanningReady, Planning, TypeOK, PlansOK
<1>2. /\ source = CanonicalCommit /\ observed[p][m] = StateOf(m)
  BY <1>1 DEF Coherent, Planning, Deciding, CanonicalCommit
<1>3. CanonicalCommit \in Commits /\ MirrorCommit(m) \in Commits
  <2>1. \A r \in {0, m} : track[r] \in [Branches -> Commits] /\ trackHead[r] \in Branches
    BY <1>1, MirrorsAreRemotes DEF TypeInv, CacheFilled, Fetched, HeadKnown, Planning
  <2> QED BY <2>1 DEF CanonicalCommit, MirrorCommit
<1>4. /\ a.force = Decide(StateOf(m)).force /\ a.expectedSource = CanonicalCommit
      /\ a.expectedOld = MirrorCommit(m)
  BY <1>2 DEF ActionFor, MirrorCommit
<1>5. a.force <=> <<a.expectedOld, a.expectedSource>> \notin Anc
  BY <1>3, <1>4, ForceMeansLoss DEF StateOf
<1>6. \/ planned'[p] = planned[p]
      \/ planned'[p] = [x \in DOMAIN planned[p] \cup {m} |-> IF x = m THEN a ELSE planned[p][x]]
  BY <1>1 DEF PlanMirror
<1> HIDE DEF a, m
<1> QED BY <1>5, <1>6 DEF Honest

\* A step keeps every plan and every artifact honest.
LEMMA HonestStep ==
  ASSUME TypeInv, AloneInv, NEW p \in Procs, Step(p) \/ Crash(p)
  PROVE  /\ \A a \in artifacts' : Honest(a)
         /\ \A q \in Procs : Honest(planned'[q])
<1>d. DOMAIN planned = Procs
  BY DEF TypeInv, TypeOK, PlansOK
<1>1. artifacts' \subseteq artifacts \cup {planned[p]}
  BY DEF Step, Observe, Plan, Prepare, Execute, Start, Fetch, SetRemoteHead, CompareMirror,
     ObserveFails, ObservationDone, ReadCanonicalHead, PlanMirror, ExportArtifact, Authorize,
     PreparationFails, Validate, WriteIntent, Preflight, NoPush, PushSucceeds, PushFails,
     PushTimesOut, WriteResult, Crash
<1>2. ASSUME NEW q \in Procs PROVE Honest(planned'[q])
  <2>1. CASE PlanMirror(p) /\ q = p
    BY <2>1, PlannedIsHonest DEF AloneInv
  <2>2. CASE planned'[q] \in artifacts \cup {planned[q]}
    BY <2>2 DEF AloneInv
  <2>3. q # p => planned'[q] = planned[q]
    BY StepIsLocal
  <2>4. ~PlanMirror(p) => planned'[p] \in artifacts \cup {planned[p]}
    <3>1. CASE Start(p)
      BY <1>d, <3>1 DEF Start
    <3>2. CASE planned' = planned
      BY <3>2
    <3> QED
      BY <3>1, <3>2 DEF Step, Observe, Plan, Prepare, Execute, Fetch, SetRemoteHead,
         CompareMirror, ObserveFails, ObservationDone, ReadCanonicalHead, ExportArtifact,
         Authorize, PreparationFails, Validate, WriteIntent, Preflight, NoPush, PushSucceeds,
         PushFails, PushTimesOut, WriteResult, Crash
  <2> QED BY <2>1, <2>2, <2>3, <2>4
<1> QED BY <1>1, <1>2 DEF AloneInv

\* What an execution records of a push it made is what the mirror got.
LEMMA AfterStep ==
  ASSUME Exclusive, SafetyInv, AloneInv, NEW p \in Procs, Step(p) \/ Crash(p)
  PROVE  AfterIsResultingOID'
<1> SUFFICES ASSUME NEW q \in Procs, NEW m \in Mirrors, outcome'[q][m] = "APPLIED"
             PROVE  after'[q][m] = planned'[q][m].expectedSource
  BY DEF AfterIsResultingOID
<1>0. /\ TypeInv /\ Alone /\ Phase(p) /\ Coherent(p)
      /\ outcome \in [Procs -> [Mirrors -> Outcomes]]
      /\ after \in [Procs -> [Mirrors -> Commits \cup {NoOID}]]
  BY DEF SafetyInv, AloneInv, PhaseInv, TypeInv, TypeOK, ExecutionsOK
<1>k. ASSUME outcome'[q] = outcome[q], after'[q] = after[q], planned'[q] = planned[q]
      PROVE  after'[q][m] = planned'[q][m].expectedSource
  BY <1>k DEF AloneInv, AfterIsResultingOID
<1>1. CASE q # p
  BY <1>0, <1>1, <1>k, StepIsLocal, OthersRest
<1>2. CASE q = p /\ PushSucceeds(p)
  <2>1. /\ pc[p] = "push" /\ cur[p] \in DOMAIN planned[p] /\ UNCHANGED planned
        /\ outcome' = [outcome EXCEPT ![p][cur[p]] = "APPLIED"]
        /\ after' = [after EXCEPT ![p][cur[p]] = PushSource(p, cur[p])]
        /\ cur[p] \in Mirrors
    BY <1>2 DEF PushSucceeds, SafetyInv, TypeInv, PlanningReady
  <2>2. PushSource(p, cur[p]) = planned[p][cur[p]].expectedSource
    BY <1>0, <2>1 DEF Coherent, PushSource
  <2>3. CASE m = cur[p]
    BY <1>0, <1>2, <2>1, <2>2, <2>3
  <2>4. CASE m # cur[p]
    <3>1. outcome[p][m] = "APPLIED" /\ after'[p][m] = after[p][m]
      BY <1>0, <1>2, <2>1, <2>4
    <3> QED BY <1>2, <2>1, <3>1 DEF AloneInv, AfterIsResultingOID
  <2> QED BY <2>3, <2>4
<1>3. CASE q = p /\ (WriteIntent(p) \/ Preflight(p) \/ PushFails(p) \/ PushTimesOut(p))
  <2>1. UNCHANGED <<planned, after>>
    BY <1>3 DEF WriteIntent, Preflight, PushFails, PushTimesOut
  <2>2. outcome[p][m] = "APPLIED"
    <3>1. CASE outcome' = outcome
      BY <1>3, <3>1
    <3>2. CASE outcome' = [outcome EXCEPT ![p][cur[p]] = "STALE"]
               \/ outcome' = [outcome EXCEPT ![p][cur[p]] = "FAILED"]
      BY <1>0, <1>3, <3>2
    <3>3. CASE outcome' = [outcome EXCEPT ![p] =
                 [x \in Mirrors |-> IF x \in DOMAIN planned[p] THEN "SKIPPED" ELSE "NONE"]]
      BY <1>0, <1>3, <3>3
    <3>4. CASE outcome' = [outcome EXCEPT ![p] =
                 [x \in Mirrors |-> IF x \in DOMAIN planned[p] THEN "VALIDATED" ELSE "NONE"]]
      BY <1>0, <1>3, <3>4
    <3> QED
      BY <1>3, <3>1, <3>2, <3>3, <3>4 DEF WriteIntent, Preflight, PushFails, PushTimesOut
  <2> QED BY <1>3, <2>1, <2>2 DEF AloneInv, AfterIsResultingOID
<1>4. CASE q = p /\ (Start(p) \/ PlanMirror(p))
  <2>1. outcome[p][m] = "NONE" /\ outcome' = outcome
    BY <1>0, <1>4 DEF Start, PlanMirror, Phase, Executing, Stopped
  <2> QED BY <1>4, <2>1
<1>5. CASE q = p /\ UNCHANGED <<outcome, after, planned>>
  BY <1>k, <1>5
<1> QED
  BY <1>1, <1>2, <1>3, <1>4, <1>5 DEF Step, Observe, Plan, Prepare, Execute, Fetch,
     SetRemoteHead, CompareMirror, ObserveFails, ObservationDone, ReadCanonicalHead,
     ExportArtifact, Authorize, PreparationFails, Validate, NoPush, WriteResult, Crash

\* At first nobody has observed, planned or recorded anything.
LEMMA AloneInvInit == Init => AloneInv
<1> SUFFICES ASSUME Init PROVE AloneInv
  OBVIOUS
<1>1. Alone
  BY DEF Init, Alone, Active
<1>2. \A p \in Procs : Coherent(p)
  BY DEF Init, Coherent, Planning, Executing, Deciding
<1>3. /\ \A a \in artifacts : Honest(a)
      /\ \A p \in Procs : Honest(planned[p])
  BY DEF Init, Honest
<1>4. AfterIsResultingOID
  BY DEF Init, AfterIsResultingOID
<1> QED BY <1>1, <1>2, <1>3, <1>4 DEF AloneInv

\* While executions do not overlap, every step keeps what the records say.
LEMMA AloneInvNext ==
  ASSUME Exclusive
  PROVE  SafetyInv /\ AloneInv /\ [Next]_vars => AloneInv'
<1>1. ASSUME SafetyInv, AloneInv, NEW p \in Procs, Step(p) \/ Crash(p) PROVE AloneInv'
  <2>0. TypeInv /\ Alone
    BY <1>1 DEF SafetyInv, AloneInv
  <2>1. Alone'
    <3>1. \A q \in Procs : q # p => ~Active(q)'
      BY <1>1, <2>0, OthersRest DEF Active
    <3> QED BY <3>1 DEF Alone
  <2>2. ASSUME NEW q \in Procs PROVE Coherent(q)'
    <3>1. CASE q = p
      BY <1>1, <2>0, <3>1, CoherentStep DEF AloneInv
    <3>2. CASE q # p
      <4>1. /\ pc[q] \in {"idle", "done", "crashed"} /\ pc'[q] = pc[q]
            /\ sourceOID'[q] = sourceOID[q] /\ Coherent(q)
        BY <1>1, <2>0, <3>2, OthersRest DEF Active, AloneInv
      <4> QED BY <4>1 DEF Coherent, Planning, Executing, Deciding
    <3> QED BY <3>1, <3>2
  <2>3. AfterIsResultingOID'
    BY <1>1, AfterStep
  <2>4. /\ \A a \in artifacts' : Honest(a)
        /\ \A q \in Procs : Honest(planned'[q])
    BY <1>1, <2>0, HonestStep
  <2> QED BY <2>1, <2>2, <2>3, <2>4 DEF AloneInv, Honest
<1>2. ASSUME AloneInv, UNCHANGED <<cacheVars, artifacts, pc, cur, planVars, outcome, after>>
      PROVE  AloneInv'
  <2>1. Alone' /\ AfterIsResultingOID'
    BY <1>2 DEF AloneInv, Alone, Active, AfterIsResultingOID
  <2>2. \A p \in Procs : Coherent(p)'
    BY <1>2, SameCache DEF AloneInv, Coherent, BranchScopeAgrees
  <2>3. /\ \A a \in artifacts' : Honest(a)'
        /\ \A q \in Procs : Honest(planned[q])'
    BY <1>2 DEF AloneInv, Honest
  <2> QED BY <2>1, <2>2, <2>3 DEF AloneInv
<1>3. Environment => UNCHANGED <<cacheVars, artifacts, pc, cur, planVars, outcome, after>>
  BY DEF Environment, EnvPush, EnvSetDefault, UpdateLands, UpdateLost
<1> QED BY <1>1, <1>2, <1>3 DEF Next, vars

\* AloneInv holds in every reachable state of executions that do not overlap.
LEMMA AloneInvariant ==
  ASSUME Exclusive
  PROVE  Spec => [](SafetyInv /\ AloneInv)
<1>1. SafetyInv /\ AloneInv /\ [Next]_vars => AloneInv'
  BY AloneInvNext
<1> QED BY <1>1, AloneInvInit, SafetyInvInit, SafetyInvNext, PTL DEF Spec

\* Without overlap, an action is forced exactly when it discards commits of the
\* mirror: also in an exported plan, and whatever others push meanwhile.
THEOREM ForceTellsLoss ==
  ASSUME Exclusive
  PROVE  Spec => []ForceIntentHonest
<1>1. AloneInv => ForceIntentHonest
  BY DEF AloneInv, Honest, ForceIntentHonest
<1> QED BY <1>1, AloneInvariant, PTL

\* Without overlap, the object ID a record gives as the result of an applied
\* action is the one the mirror held after the push.
THEOREM RecordedResultIsReal ==
  ASSUME Exclusive
  PROVE  Spec => []AfterIsResultingOID
<1>1. AloneInv => AfterIsResultingOID
  BY DEF AloneInv
<1> QED BY <1>1, AloneInvariant, PTL

\* Without overlap, an execution updates only the branch it found to be the
\* mirror's default one, from the one it found to be canonical's.
THEOREM DefaultBranchesOnly ==
  ASSUME Exclusive
  PROVE  Spec => []DefaultBranchOnly
<1>1. SafetyInv /\ AloneInv => DefaultBranchOnly
  <2> SUFFICES ASSUME SafetyInv, AloneInv, NEW u \in Updates, pc[u.p] \in {"push", "result"}
               PROVE  u.b = trackHead[u.m] /\ planned[u.p][u.m].src = trackHead[0]
    BY DEF DefaultBranchOnly
  <2>1. u.p \in Procs /\ Justified(u)
    BY DEF SafetyInv, UpdatesInv, Updates, TypeInv, TypeOK, RemotesOK, UpdateType
  <2>2. BranchScopeAgrees(u.p)
    BY <2>1 DEF AloneInv, Coherent, Executing
  <2> QED BY <2>1, <2>2 DEF Justified, BranchScopeAgrees
<1> QED BY <1>1, AloneInvariant, PTL
=============================================================================
