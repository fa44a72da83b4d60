------------------------- MODULE ManagedReadmeProofs -------------------------
(***************************************************************************)
(* Safety of managed README planning and apply, for any number of          *)
(* sessions, repositories, branches, texts and moves of others.  Inv is    *)
(* inductive: Typed gives the shapes, Phase what a session has done at     *)
(* each step, Prepared the commits it made, Records the journal, Updates   *)
(* and Kept what became of the pushes.                                     *)
(***************************************************************************)
EXTENDS ManagedReadme, WellFoundedInduction, TLAPS

Steps == {"idle", "fetch", "head", "branch", "base", "content", "export", "reviewed",
          "config", "commit", "push", "finish", "done", "crashed"}
Observing == {"fetch", "head", "branch", "base", "content"}
Commits == Seq(Change)

IsFunction(p) == p = [r \in DOMAIN p |-> p[r]]

Fetched(r) == \A b \in Branches : cacheTip[r][b] # <<>>

\* The types, and that the cache holds every branch of a repository that was
\* observed or planned.
Typed ==
  /\ TypeOK
  /\ tip \in [Repos -> [Branches -> Commits]] /\ cacheTip \in [Repos -> [Branches -> Commits]]
  /\ pc \in [Sessions -> Steps]
  /\ DOMAIN seen = Sessions /\ DOMAIN plan = Sessions /\ DOMAIN candidate = Sessions
  /\ \A s \in Sessions : seen[s] \in [branch : Branches \cup {NoBranch}, base : Commits]
  /\ \A p \in plans : IsPlan(p) /\ IsFunction(p)
  /\ \A s \in Sessions : IsFunction(plan[s])
  /\ \A r \in Repos, b \in Branches : tip[r][b] # <<>>
  /\ \A r \in Repos : cacheHead[r] # NoBranch => Fetched(r)
  /\ \A r \in Repos : (\E b \in Branches : cacheTip[r][b] # <<>>) => Fetched(r)
  /\ \A p \in plans : \A r \in DOMAIN p : Fetched(r)
  /\ \A s \in Sessions : \A r \in DOMAIN plan[s] : Fetched(r)
  /\ \A s \in Sessions :
       /\ pc[s] = "head" => Fetched(cur[s])
       /\ pc[s] \in {"branch", "base", "content"} => cacheHead[cur[s]] # NoBranch
       /\ pc[s] \in {"base", "content"} => seen[s].branch # NoBranch

Untried(s) == \A r \in Repos : attempt[s][r] = "none"
Complete(s) == \A r \in DOMAIN plan[s] : attempt[s][r] = "pushed"

\* Where a session is, and what it has done by then.
Phase(s) ==
  /\ pc[s] \in {"idle", "export", "reviewed"} => stage[s] = "plan"
  /\ pc[s] = "idle" => plan[s] = NoPlan
  /\ pc[s] \in {"config", "commit", "push", "finish"} => plan[s] # NoPlan
  /\ pc[s] = "config" => stage[s] \in {"dryrun", "prepare"}
  /\ pc[s] = "commit" => stage[s] = "prepare"
  /\ pc[s] \in Observing /\ stage[s] # "plan" => cur[s] \in DOMAIN plan[s]
  /\ pc[s] \in {"idle", "export", "reviewed", "config", "commit"} \cup Observing =>
       Untried(s) /\ err[s] = "none"
  /\ pc[s] = "push" =>
       /\ stage[s] = "push" /\ err[s] = "none" /\ cur[s] \in DOMAIN plan[s]
       /\ \A r \in DOMAIN plan[s] : attempt[s][r] = IF r < cur[s] THEN "pushed" ELSE "none"
  /\ pc[s] = "finish" =>
       /\ stage[s] \in {"prepare", "push"}
       /\ err[s] = "none" => Complete(s) /\ stage[s] = "push"
       /\ err[s] = "stale" => Untried(s)
       /\ err[s] = "failed" => ~Complete(s)
  /\ stage[s] # "push" => Untried(s)
  /\ \A r \in Repos : attempt[s][r] # "none" => r \in DOMAIN plan[s]
  /\ exit[s] # -1 => pc[s] = "done"
  /\ exit[s] = 2 => Untried(s)
  /\ exit[s] = 0 /\ stage[s] \in {"prepare", "push"} =>
       <<s, "RESULT">> \in journal /\ Complete(s)

\* What a session has prepared: one child of each reviewed base.
Prepared(s) ==
  /\ stage[s] # "push" => candidate[s] = NoPlan
  /\ stage[s] = "push" =>
       /\ DOMAIN candidate[s] = DOMAIN plan[s]
       /\ \A r \in DOMAIN plan[s] : \E at \in Stamps :
            candidate[s][r] =
              Append(plan[s][r].base, [readme |-> plan[s][r].desired, by |-> at])

\* Which records of a session there are.
Records(s) ==
  /\ stage[s] = "plan" /\ pc[s] # "done" => <<s, "INTENT">> \notin journal
  /\ stage[s] \in {"prepare", "push"} => <<s, "INTENT">> \in journal
  /\ <<s, "RESULT">> \in journal => pc[s] = "done" /\ <<s, "INTENT">> \in journal

\* An update that landed or is under way is the one its session attempted.
IsUpdate(u) ==
  /\ u.s \in Sessions /\ u.r \in DOMAIN plan[u.s] /\ attempt[u.s][u.r] # "none"
  /\ u = [s |-> u.s, r |-> u.r, b |-> plan[u.s][u.r].branch,
          over |-> plan[u.s][u.r].base, new |-> candidate[u.s][u.r]]

Updates == \A u \in landed \cup inflight : IsUpdate(u)

\* What was pushed stays in the history of its branch.
Kept ==
  \A s \in Sessions, r \in Repos :
    attempt[s][r] = "pushed" => IsPrefix(candidate[s][r], tip[r][plan[s][r].branch])

Inv ==
  /\ Typed /\ Updates /\ Kept
  /\ \A s \in Sessions : Phase(s) /\ Prepared(s) /\ Records(s)

USE DEF remoteVars, cacheVars, sessionVars

------------------------------------------------------------------------------
(* Facts about repositories, sequences and functions                       *)

\* The first of some repositories exists: they are numbers.
LEMMA FirstRepository ==
  ASSUME NEW S, S \subseteq Repos, S # {}
  PROVE  Min(S) \in S /\ \A r \in S : Min(S) <= r
<1> DEFINE R == {ss \in Nat \X Nat : ss[1] < ss[2]}
<1>0. R = OpToRel(<, Nat)
  BY Zenon DEF OpToRel
<1>00. IsWellFoundedOn(R, Nat)
  BY <1>0, NatLessThanWellFounded, Zenon
<1>r. \A x, y \in Nat : y < x => <<y, x>> \in R
  OBVIOUS
<1> HIDE DEF R
<1>1. S \subseteq Nat
  BY ReadmeAssumption DEF Repos
<1>2. PICK x \in S : \A y \in S : ~ (<<y, x>> \in R)
  BY <1>1, <1>00, WFMin
<1>3. \A y \in S : x <= y
  <2>1. \A y \in S : ~ (y < x)
    BY <1>1, <1>2, <1>r
  <2> QED BY <1>1, <2>1
<1> QED BY <1>3 DEF Min

\* A sequence is a prefix of another when they agree where the first is defined.
LEMMA PrefixIsAgreement ==
  ASSUME NEW S, NEW s \in Seq(S), NEW t \in Seq(S)
  PROVE  IsPrefix(s, t) <=> Len(s) <= Len(t) /\ \A i \in 1 .. Len(s) : s[i] = t[i]
<1>1. Len(s) \in Nat /\ Len(t) \in Nat /\ SubSeq(s, 1, Len(s)) = s
  OBVIOUS
<1> SUFFICES ASSUME Len(s) <= Len(t)
             PROVE  s = SubSeq(t, 1, Len(s)) <=> \A i \in 1 .. Len(s) : s[i] = t[i]
  BY <1>1 DEF IsPrefix
<1>2. /\ SubSeq(t, 1, Len(s)) \in Seq(S) /\ Len(SubSeq(t, 1, Len(s))) = Len(s)
      /\ \A i \in 1 .. Len(s) : SubSeq(t, 1, Len(s))[i] = t[i]
  BY <1>1
<1> QED BY <1>2

\* A history is a prefix of itself.
LEMMA PrefixIsReflexive ==
  ASSUME NEW S, NEW s \in Seq(S)
  PROVE  IsPrefix(s, s)
BY PrefixIsAgreement

\* What is in the history of a history is in that history.
LEMMA PrefixIsTransitive ==
  ASSUME NEW S, NEW s \in Seq(S), NEW t \in Seq(S), NEW u \in Seq(S),
         IsPrefix(s, t), IsPrefix(t, u)
  PROVE  IsPrefix(s, u)
<1>1. Len(s) \in Nat /\ Len(t) \in Nat /\ Len(u) \in Nat
  OBVIOUS
<1>2. Len(s) <= Len(t) /\ \A i \in 1 .. Len(s) : s[i] = t[i]
  BY PrefixIsAgreement
<1>3. Len(t) <= Len(u) /\ \A i \in 1 .. Len(t) : t[i] = u[i]
  BY PrefixIsAgreement
<1>4. Len(s) <= Len(u) /\ \A i \in 1 .. Len(s) : s[i] = u[i]
  BY <1>1, <1>2, <1>3
<1> QED BY <1>4, PrefixIsAgreement

\* Prefixes of each other are equal.
LEMMA PrefixIsAntisymmetric ==
  ASSUME NEW S, NEW s \in Seq(S), NEW t \in Seq(S), IsPrefix(s, t), IsPrefix(t, s)
  PROVE  s = t
<1>1. Len(s) \in Nat /\ Len(t) \in Nat
  OBVIOUS
<1>2. Len(s) <= Len(t) /\ (\A i \in 1 .. Len(s) : s[i] = t[i]) /\ Len(t) <= Len(s)
  BY PrefixIsAgreement
<1>3. Len(s) = Len(t)
  BY <1>1, <1>2
<1> QED BY <1>2, <1>3

\* Appending keeps what was there, and gives what was appended.
LEMMA Appended ==
  ASSUME NEW S, NEW s \in Seq(S), NEW e \in S
  PROVE  /\ Append(s, e) \in Seq(S) /\ Append(s, e) # <<>>
         /\ IsPrefix(s, Append(s, e)) /\ Front(Append(s, e)) = s /\ Last(Append(s, e)) = e
<1>1. /\ Append(s, e) \in Seq(S) /\ Len(Append(s, e)) = Len(s) + 1 /\ Len(s) \in Nat
      /\ Append(s, e)[Len(s) + 1] = e /\ \A i \in 1 .. Len(s) : Append(s, e)[i] = s[i]
  OBVIOUS
<1>2. IsPrefix(s, Append(s, e))
  <2> DEFINE t == Append(s, e)
  <2>1. t \in Seq(S) /\ Len(s) <= Len(t) /\ \A i \in 1 .. Len(s) : s[i] = t[i]
    BY <1>1
  <2> HIDE DEF t
  <2>2. IsPrefix(s, t)
    BY <2>1, PrefixIsAgreement
  <2> QED BY <2>2 DEF t
<1>3. Front(Append(s, e)) = s
  <2>1. Front(Append(s, e)) = SubSeq(Append(s, e), 1, Len(s))
    BY <1>1 DEF Front
  <2>2. SubSeq(s, 1, Len(s)) = s
    OBVIOUS
  <2> QED BY <1>2, <2>1, <2>2 DEF IsPrefix
<1> QED BY <1>1, <1>2, <1>3 DEF Last

\* The empty history is a prefix of every one.
LEMMA EmptyIsPrefix ==
  ASSUME NEW S, NEW s \in Seq(S)
  PROVE  IsPrefix(<<>>, s)
<1>1. SubSeq(s, 1, 0) = <<>> /\ Len(<<>>) = 0 /\ 0 <= Len(s)
  OBVIOUS
<1> QED BY <1>1 DEF IsPrefix

\* The README of a commit is one of the texts.
LEMMA ReadmeOfCommit ==
  ASSUME NEW c \in Seq(Change), c # <<>>
  PROVE  Readme(c) \in Texts
<1>1. Len(c) \in 1 .. Len(c) /\ \A i \in 1 .. Len(c) : c[i] \in Change
  OBVIOUS
<1> QED BY <1>1 DEF Readme, Last, Change

\* Replacing one value of a function keeps its type.
LEMMA Replaced ==
  ASSUME NEW D, NEW R, NEW f \in [D -> R], NEW d \in D, NEW r \in R
  PROVE  /\ [f EXCEPT ![d] = r] \in [D -> R] /\ [f EXCEPT ![d] = r][d] = r
         /\ \A x \in D \ {d} : [f EXCEPT ![d] = r][x] = f[x]
OBVIOUS

\* Replacing one entry of a function of functions.
LEMMA ReplacedTwice ==
  ASSUME NEW D, NEW E, NEW R, NEW f \in [D -> [E -> R]], NEW d \in D, NEW e \in E, NEW r \in R
  PROVE  /\ [f EXCEPT ![d][e] = r] \in [D -> [E -> R]]
         /\ \A x \in D, y \in E :
              [f EXCEPT ![d][e] = r][x][y] = IF x = d /\ y = e THEN r ELSE f[x][y]
OBVIOUS

------------------------------------------------------------------------------
(* What a step of a session may change                                     *)

SessionStep(s) == Observe(s) \/ Plan(s) \/ Apply(s) \/ Crash(s)

\* Which actions of a session change which variables.
LEMMA Frame ==
  ASSUME NEW s \in Sessions, SessionStep(s)
  PROVE  /\ head' = head /\ moves' = moves /\ switched' = switched
         /\ UNCHANGED <<tip, landed, inflight>> \/ Push(s) \/ PushTimesOut(s)
         /\ UNCHANGED cacheTip \/ Fetch(s) \/ Push(s)
         /\ UNCHANGED cacheHead \/ SetRemoteHead(s)
         /\ UNCHANGED plans \/ ExportPlan(s)
         /\ UNCHANGED journal \/ WriteIntent(s) \/ Finish(s)
         /\ UNCHANGED stage \/ StartDryRun(s) \/ WriteIntent(s) \/ CommitCandidates(s)
         /\ UNCHANGED seen \/ ReadBranch(s) \/ ReadBase(s)
         /\ UNCHANGED plan \/ ImportPlan(s) \/ PlanRepository(s)
         /\ UNCHANGED candidate \/ CommitCandidates(s)
         /\ UNCHANGED attempt \/ Push(s) \/ PushRejected(s) \/ PushTimesOut(s)
<1>1. CASE Observe(s)
  BY <1>1 DEF Observe, Fetch, SetRemoteHead, ReadBranch, ReadBase, ObserveFails
<1>2. CASE Plan(s)
  BY <1>2 DEF Plan, StartPlan, ImportPlan, PlanRepository, ExportPlan
<1>3. CASE Apply(s)
  BY <1>3 DEF Apply, StartDryRun, WriteIntent, BindConfiguration, Preflight,
     CommitCandidates, Push, PushRejected, PushTimesOut, Finish
<1>4. CASE Crash(s)
  BY <1>4 DEF Crash
<1> QED BY <1>1, <1>2, <1>3, <1>4 DEF SessionStep

\* The three ways a session goes on: to another step, to its exit, or to a crash.
Goes(s) == \E step \in Steps, r \in Repos : Goto(s, step, r) /\ exit' = exit
Exits(s) == \E code \in {0, 1, 2} : Exit(s, code)

\* A session works on repositories of the configuration.
LEMMA SelectedRepositories ==
  ASSUME Typed, NEW s \in Sessions
  PROVE  /\ Selected(s) \subseteq Repos /\ DOMAIN plan[s] \subseteq Repos /\ 1 \in Repos
         /\ cur[s] \in Repos
BY ReadmeAssumption DEF Typed, TypeOK, IsPlan, Selected, Repos

\* The empty plan, and that only it is empty.
LEMMA NoPlanIsEmpty ==
  /\ DOMAIN NoPlan = {}
  /\ \A p : IsFunction(p) /\ p # NoPlan => DOMAIN p # {}
  /\ IsPlan(NoPlan) /\ IsFunction(NoPlan)
BY DEF NoPlan, IsPlan, IsFunction

\* A plan that is not empty has a first repository.
LEMMA FirstPlanned ==
  ASSUME Typed, NEW s \in Sessions, plan[s] # NoPlan
  PROVE  /\ Min(DOMAIN plan[s]) \in DOMAIN plan[s]
         /\ \A r \in DOMAIN plan[s] : Min(DOMAIN plan[s]) <= r
<1>1. DOMAIN plan[s] # {}
  BY NoPlanIsEmpty DEF Typed
<1> QED BY <1>1, SelectedRepositories, FirstRepository

\* Where an observation leads.
LEMMA ObservationLeads ==
  ASSUME Typed, NEW s \in Sessions, NextObservation(s), Phase(s), pc[s] \in Observing
  PROVE  \/ \E r \in Selected(s) : Goto(s, "fetch", r) /\ exit' = exit
         \/ stage[s] = "plan" /\ Goto(s, "export", 1) /\ exit' = exit
         \/ stage[s] = "dryrun" /\ Exit(s, 0)
         \/ stage[s] = "prepare" /\ Goto(s, "commit", 1) /\ exit' = exit
         \/ stage[s] = "push" /\ Goto(s, "push", Min(DOMAIN plan[s])) /\ exit' = exit
<1>1. CASE Later(s, cur[s]) # {}
  <2>1. Min(Later(s, cur[s])) \in Selected(s)
    BY <1>1, SelectedRepositories, FirstRepository DEF Later
  <2> QED BY <1>1, <2>1 DEF NextObservation
<1>2. CASE Later(s, cur[s]) = {}
  BY <1>2 DEF NextObservation, AfterObservations, Selected, Typed, TypeOK
<1> QED BY <1>1, <1>2

\* Where a failure leads.
LEMMA FailureLeads ==
  ASSUME Typed, NEW s \in Sessions, NEW e \in {"stale", "failed"}, Fail(s, e)
  PROVE  /\ err' = [err EXCEPT ![s] = e]
         /\ \/ stage[s] \in {"prepare", "push"} /\ Goto(s, "finish", cur[s]) /\ exit' = exit
            \/ stage[s] \in {"plan", "dryrun"} /\ Exit(s, IF e = "stale" THEN 2 ELSE 1)
<1>1. ExitCode(e) = IF e = "stale" THEN 2 ELSE 1
  BY DEF ExitCode
<1> QED BY <1>1 DEF Fail, Typed, TypeOK

\* How a step moves its session's control, and what error it notes.
LEMMA Moves ==
  ASSUME Typed, NEW s \in Sessions, Phase(s), SessionStep(s)
  PROVE  /\ Goes(s) \/ Exits(s) \/ Crash(s)
         /\ err' = err \/ \E e \in {"stale", "failed"} : err' = [err EXCEPT ![s] = e]
<1>a. /\ Selected(s) \subseteq Repos /\ DOMAIN plan[s] \subseteq Repos /\ 1 \in Repos
      /\ cur[s] \in Repos
  BY SelectedRepositories
<1>b. \A step \in Steps, r \in Repos : Goto(s, step, r) /\ exit' = exit => Goes(s)
  BY DEF Goes
<1>c. \A code \in {0, 1, 2} : Exit(s, code) => Exits(s)
  BY DEF Exits
<1>d. \A step \in {"fetch", "head", "branch", "base", "content", "export", "reviewed",
                   "config", "commit", "push", "finish"} : step \in Steps
  BY DEF Steps
<1>e. \A e \in {"stale", "failed"} : Fail(s, e) =>
        (Goes(s) \/ Exits(s)) /\ err' = [err EXCEPT ![s] = e]
  BY <1>a, <1>b, <1>c, <1>d, FailureLeads
<1>f. NextObservation(s) /\ pc[s] \in Observing => Goes(s) \/ Exits(s)
  <2> SUFFICES ASSUME NextObservation(s), pc[s] \in Observing PROVE Goes(s) \/ Exits(s)
    OBVIOUS
  <2>1. CASE \E r \in Selected(s) : Goto(s, "fetch", r) /\ exit' = exit
    BY <1>a, <1>b, <1>d, <2>1
  <2>2. CASE Goto(s, "export", 1) /\ exit' = exit
    BY <1>a, <1>b, <1>d, <2>2
  <2>3. CASE Exit(s, 0)
    BY <1>c, <2>3
  <2>4. CASE Goto(s, "commit", 1) /\ exit' = exit
    BY <1>a, <1>b, <1>d, <2>4
  <2>5. CASE stage[s] = "push" /\ Goto(s, "push", Min(DOMAIN plan[s])) /\ exit' = exit
    <3>1. Min(DOMAIN plan[s]) \in Repos
      <4>1. DOMAIN plan[s] # {}
        BY <2>5 DEF Phase
      <4> QED BY <1>a, <4>1, FirstRepository
    <3> QED BY <1>b, <1>d, <2>5, <3>1
  <2> QED BY <2>1, <2>2, <2>3, <2>4, <2>5, ObservationLeads
<1>1. CASE StartPlan(s)
  BY <1>1, <1>a, <1>b, <1>d DEF StartPlan
<1>2. CASE ImportPlan(s)
  BY <1>2, <1>a, <1>b, <1>d DEF ImportPlan
<1>3. CASE Fetch(s)
  BY <1>3, <1>a, <1>b, <1>d DEF Fetch
<1>4. CASE SetRemoteHead(s)
  BY <1>4, <1>a, <1>b, <1>d DEF SetRemoteHead
<1>5. CASE ReadBranch(s)
  BY <1>5, <1>a, <1>b, <1>d DEF ReadBranch
<1>6. CASE ReadBase(s)
  BY <1>6, <1>a, <1>b, <1>d DEF ReadBase
<1>7. CASE ObserveFails(s)
  BY <1>7, <1>e DEF ObserveFails
<1>8. CASE PlanRepository(s)
  BY <1>8, <1>f DEF PlanRepository, Observing
<1>9. CASE ExportPlan(s)
  BY <1>9, <1>a, <1>b, <1>d DEF ExportPlan
<1>10. CASE StartDryRun(s)
  BY <1>10, <1>a, <1>b, <1>c, <1>d DEF StartDryRun
<1>11. CASE WriteIntent(s)
  BY <1>11, <1>a, <1>b, <1>c, <1>d DEF WriteIntent
<1>m. plan[s] # NoPlan => Min(DOMAIN plan[s]) \in Repos
  BY <1>a, FirstPlanned
<1>12. CASE BindConfiguration(s)
  BY <1>12, <1>a, <1>b, <1>d, <1>e, <1>m DEF BindConfiguration, Phase
<1>13. CASE Preflight(s)
  BY <1>13, <1>e, <1>f DEF Preflight, Observing
<1>14. CASE CommitCandidates(s)
  BY <1>14, <1>a, <1>b, <1>d, <1>e, <1>m DEF CommitCandidates, Phase
<1>15. CASE Push(s)
  <2>1. Later(s, cur[s]) # {} => Min(Later(s, cur[s])) \in Repos
    BY <1>a, FirstRepository DEF Later
  <2> QED BY <1>15, <1>a, <1>b, <1>d, <2>1 DEF Push, AfterPush
<1>16. CASE PushRejected(s)
  BY <1>16, <1>e DEF PushRejected
<1>17. CASE PushTimesOut(s)
  BY <1>17, <1>e DEF PushTimesOut
<1>18. CASE Finish(s)
  <2>1. \A e : ExitCode(e) \in {0, 1, 2}
    BY DEF ExitCode
  <2> QED BY <1>18, <1>c, <2>1 DEF Finish
<1>19. CASE Crash(s)
  BY <1>19 DEF Crash
<1> QED
  BY <1>1, <1>2, <1>3, <1>4, <1>5, <1>6, <1>7, <1>8, <1>9, <1>10, <1>11, <1>12, <1>13, <1>14,
     <1>15, <1>16, <1>17, <1>18, <1>19 DEF SessionStep, Observe, Plan, Apply

------------------------------------------------------------------------------
(* What was prepared                                                       *)

\* A prepared commit is one child of the reviewed base, with the wanted README.
LEMMA Child ==
  ASSUME Typed, NEW s \in Sessions, Prepared(s), stage[s] = "push",
         NEW r \in DOMAIN plan[s]
  PROVE  /\ r \in Repos /\ plan[s][r].branch \in Branches
         /\ plan[s][r].base \in Commits /\ candidate[s][r] \in Commits
         /\ candidate[s][r] # <<>> /\ IsPrefix(plan[s][r].base, candidate[s][r])
         /\ Front(candidate[s][r]) = plan[s][r].base
         /\ Readme(candidate[s][r]) = plan[s][r].desired
<1>1. /\ r \in Repos /\ plan[s][r].branch \in Branches /\ plan[s][r].base \in Commits
      /\ plan[s][r].desired \in Texts
  BY ReadmeAssumption DEF Typed, TypeOK, IsPlan, IsCommit, Commits
<1>2. PICK at \in Stamps : candidate[s][r] =
        Append(plan[s][r].base, [readme |-> plan[s][r].desired, by |-> at])
  BY DEF Prepared
<1> DEFINE e == [readme |-> plan[s][r].desired, by |-> at]
<1>3. e \in Change /\ e.readme = plan[s][r].desired
  BY <1>1 DEF Change
<1>4. candidate[s][r] = Append(plan[s][r].base, e) /\ plan[s][r].base \in Seq(Change)
  BY <1>1, <1>2 DEF Commits
<1> HIDE DEF e
<1>5. /\ candidate[s][r] \in Seq(Change) /\ candidate[s][r] # <<>>
      /\ IsPrefix(plan[s][r].base, candidate[s][r])
      /\ Front(candidate[s][r]) = plan[s][r].base /\ Last(candidate[s][r]) = e
  BY <1>3, <1>4, Appended
<1> QED BY <1>1, <1>3, <1>5 DEF Commits, Readme

\* An update that landed, or may still land, is what its session planned: one
\* commit with the desired text on top of the reviewed base.
LEMMA UpdateIsChild ==
  ASSUME Inv, NEW u, IsUpdate(u)
  PROVE  /\ u.s \in Sessions /\ u.r \in Repos /\ u.r \in DOMAIN plan[u.s] /\ u.b \in Branches
         /\ u.over \in Commits /\ u.new \in Commits /\ u.new # <<>> /\ IsPrefix(u.over, u.new)
         /\ Front(u.new) = u.over /\ Readme(u.new) = plan[u.s][u.r].desired
         /\ stage[u.s] = "push" /\ u.over = plan[u.s][u.r].base
         /\ u.b = plan[u.s][u.r].branch /\ u.new = candidate[u.s][u.r]
<1>1. /\ u.s \in Sessions /\ u.r \in DOMAIN plan[u.s] /\ attempt[u.s][u.r] # "none"
      /\ u.b = plan[u.s][u.r].branch /\ u.over = plan[u.s][u.r].base
      /\ u.new = candidate[u.s][u.r]
  BY DEF IsUpdate
<1>2. Typed /\ Prepared(u.s) /\ Phase(u.s)
  BY <1>1 DEF Inv
<1>3. u.r \in Repos
  BY <1>1, <1>2, SelectedRepositories
<1>4. stage[u.s] = "push"
  BY <1>1, <1>2, <1>3 DEF Phase, Untried
<1> QED BY <1>1, <1>2, <1>4, Child

\* A session at the push step has a prepared commit for the repository at hand.
LEMMA PushesChild ==
  ASSUME Inv, NEW s \in Sessions, pc[s] = "push"
  PROVE  /\ cur[s] \in DOMAIN plan[s] /\ cur[s] \in Repos /\ stage[s] = "push"
         /\ attempt[s][cur[s]] = "none"
         /\ Update(s).s = s /\ Update(s).r = cur[s] /\ Update(s).b = plan[s][cur[s]].branch
         /\ Update(s).over = plan[s][cur[s]].base /\ Update(s).new = candidate[s][cur[s]]
         /\ Update(s).b \in Branches /\ Update(s).over \in Commits /\ Update(s).new \in Commits
         /\ Update(s).new # <<>> /\ IsPrefix(Update(s).over, Update(s).new)
<1>1. Typed /\ Phase(s) /\ Prepared(s)
  BY DEF Inv
<1>2. cur[s] \in DOMAIN plan[s] /\ cur[s] \in Repos /\ stage[s] = "push"
  BY <1>1, SelectedRepositories DEF Phase
<1>3. attempt[s][cur[s]] = "none"
  <2>1. ~ (cur[s] < cur[s])
    BY <1>2, ReadmeAssumption DEF Repos
  <2> QED BY <1>1, <1>2, <2>1 DEF Phase
<1>4. /\ Update(s).s = s /\ Update(s).r = cur[s] /\ Update(s).b = plan[s][cur[s]].branch
      /\ Update(s).over = plan[s][cur[s]].base /\ Update(s).new = candidate[s][cur[s]]
  BY DEF Update
<1> QED BY <1>1, <1>2, <1>3, <1>4, Child

\* An update whose lease holds is recorded as it was sent.
LEMMA Landing ==
  ASSUME Inv, NEW u, u.r \in Repos, u.b \in Branches, u.over \in Commits, u.new \in Commits,
         u.new # <<>>, IsPrefix(u.over, u.new), LeaseHolds(u), Land(u)
  PROVE  /\ tip' \in [Repos -> [Branches -> Commits]]
         /\ \A r \in Repos, b \in Branches :
              tip'[r][b] = IF r = u.r /\ b = u.b THEN u.new ELSE tip[r][b]
         /\ \A r \in Repos, b \in Branches :
              tip'[r][b] # <<>> /\ IsPrefix(tip[r][b], tip'[r][b])
<1>1. tip \in [Repos -> [Branches -> Commits]] /\ \A r \in Repos, b \in Branches : tip[r][b] # <<>>
  BY DEF Inv, Typed
<1>2. tip' = [tip EXCEPT ![u.r][u.b] = u.new] /\ tip[u.r][u.b] = u.over
  BY DEF Land, LeaseHolds
<1>3. /\ tip' \in [Repos -> [Branches -> Commits]]
      /\ \A r \in Repos, b \in Branches :
           tip'[r][b] = IF r = u.r /\ b = u.b THEN u.new ELSE tip[r][b]
  BY <1>1, <1>2, ReplacedTwice
<1>4. ASSUME NEW r \in Repos, NEW b \in Branches PROVE IsPrefix(tip[r][b], tip'[r][b])
  <2>1. CASE r = u.r /\ b = u.b
    BY <1>2, <1>3, <2>1
  <2>2. CASE ~ (r = u.r /\ b = u.b)
    <3>1. tip'[r][b] = tip[r][b] /\ tip[r][b] \in Seq(Change)
      BY <1>1, <1>3, <2>2 DEF Commits
    <3> QED BY <3>1, PrefixIsReflexive
  <2> QED BY <2>1, <2>2
<1>5. \A r \in Repos, b \in Branches : tip'[r][b] # <<>>
  BY <1>1, <1>3
<1> QED BY <1>3, <1>4, <1>5

------------------------------------------------------------------------------
(* Branches only grow                                                      *)

Grows ==
  /\ tip' \in [Repos -> [Branches -> Commits]]
  /\ \A r \in Repos, b \in Branches : tip'[r][b] # <<>> /\ IsPrefix(tip[r][b], tip'[r][b])

\* A branch that is left alone still grows.
LEMMA StillGrows ==
  ASSUME Typed, UNCHANGED tip
  PROVE  Grows
<1>1. \A r \in Repos, b \in Branches : tip[r][b] \in Seq(Change) /\ tip'[r][b] = tip[r][b]
  BY DEF Typed, Commits
<1>2. \A r \in Repos, b \in Branches : IsPrefix(tip[r][b], tip'[r][b])
  BY <1>1, PrefixIsReflexive
<1> QED BY <1>2 DEF Grows, Typed

\* No step takes a commit from a branch.
LEMMA TipsGrow ==
  ASSUME Inv, Next
  PROVE  Grows
<1>t. Typed
  BY DEF Inv
<1>s. UNCHANGED tip => Grows
  BY <1>t, StillGrows
<1>l. ASSUME NEW u, u.r \in Repos, u.b \in Branches, u.over \in Commits, u.new \in Commits,
             u.new # <<>>, IsPrefix(u.over, u.new), LeaseHolds(u), Land(u)
      PROVE  Grows
  BY <1>l, Landing DEF Grows
<1>1. ASSUME NEW s \in Sessions, SessionStep(s) PROVE Grows
  <2>1. CASE Push(s)
    <3>1. pc[s] = "push" /\ (UNCHANGED tip \/ (LeaseHolds(Update(s)) /\ Land(Update(s))))
      BY <2>1 DEF Push
    <3> QED BY <3>1, <1>s, <1>l, PushesChild
  <2>2. CASE PushTimesOut(s)
    <3>1. pc[s] = "push" /\ (UNCHANGED tip \/ (LeaseHolds(Update(s)) /\ Land(Update(s))))
      BY <2>2 DEF PushTimesOut, Unanswered
    <3> QED BY <3>1, <1>s, <1>l, PushesChild
  <2>3. CASE UNCHANGED <<tip, landed, inflight>>
    BY <2>3, <1>s
  <2> QED BY <1>1, <2>1, <2>2, <2>3, Frame
<1>2. ASSUME NEW r \in Repos, NEW b \in Branches, NEW t \in Texts, UserCommits(r, b, t)
      PROVE  Grows
  <2> DEFINE e == [readme |-> t, by |-> User]
             c == Append(tip[r][b], e)
  <2>0. e \in Change
    BY DEF Change
  <2>t. /\ tip \in [Repos -> [Branches -> Commits]] /\ \A x \in Repos, y \in Branches : tip[x][y] # <<>>
    BY <1>t DEF Typed
  <2>1. \A x \in Repos, y \in Branches : tip[x][y] \in Seq(Change)
    BY <2>t DEF Commits
  <2>2. tip' = [tip EXCEPT ![r][b] = c]
    BY <1>2 DEF UserCommits
  <2> HIDE DEF e
  <2>3. c \in Seq(Change) /\ c # <<>> /\ IsPrefix(tip[r][b], c)
    BY <2>0, <2>1, Appended
  <2> HIDE DEF c
  <2>4. /\ tip' \in [Repos -> [Branches -> Commits]]
        /\ \A x \in Repos, y \in Branches :
             tip'[x][y] = IF x = r /\ y = b THEN c ELSE tip[x][y]
    BY <2>t, <2>2, <2>3, ReplacedTwice DEF Commits
  <2>5. ASSUME NEW x \in Repos, NEW y \in Branches
        PROVE  tip'[x][y] # <<>> /\ IsPrefix(tip[x][y], tip'[x][y])
    BY <2>t, <2>1, <2>3, <2>4, PrefixIsReflexive
  <2> QED BY <2>4, <2>5 DEF Grows
<1>3. ASSUME NEW u \in inflight, UpdateArrives(u) PROVE Grows
  <2>1. IsUpdate(u)
    BY DEF Inv, Updates
  <2>2. UNCHANGED tip \/ (LeaseHolds(u) /\ Land(u))
    BY <1>3 DEF UpdateArrives
  <2> QED BY <2>1, <2>2, <1>s, <1>l, UpdateIsChild
<1>4. CASE Environment
  <2>1. ASSUME NEW r \in Repos, NEW b \in Branches, UserSetsDefault(r, b) PROVE UNCHANGED tip
    BY <2>1 DEF UserSetsDefault
  <2>2. ASSUME NEW r \in Repos, OtherFetch(r) \/ OtherSetHead(r) PROVE UNCHANGED tip
    BY <2>2 DEF OtherFetch, OtherSetHead
  <2> QED BY <1>2, <1>3, <1>4, <1>s, <2>1, <2>2 DEF Environment
<1> QED BY <1>1, <1>4 DEF Next, SessionStep

------------------------------------------------------------------------------
(* Sessions touch only their own state                                     *)

Same(q) ==
  /\ pc'[q] = pc[q] /\ cur'[q] = cur[q] /\ stage'[q] = stage[q] /\ seen'[q] = seen[q]
  /\ plan'[q] = plan[q] /\ candidate'[q] = candidate[q] /\ attempt'[q] = attempt[q]
  /\ err'[q] = err[q] /\ exit'[q] = exit[q]
  /\ \A phase : <<q, phase>> \in journal' <=> <<q, phase>> \in journal

\* A step of one session leaves the others as they are.
LEMMA OthersUntouched ==
  ASSUME Inv, NEW s \in Sessions, SessionStep(s), NEW q \in Sessions, q # s
  PROVE  Same(q)
<1>t. /\ Typed /\ Phase(s) /\ DOMAIN pc = Sessions /\ DOMAIN cur = Sessions
      /\ DOMAIN stage = Sessions /\ DOMAIN seen = Sessions /\ DOMAIN plan = Sessions
      /\ DOMAIN candidate = Sessions /\ DOMAIN attempt = Sessions /\ DOMAIN err = Sessions
      /\ DOMAIN exit = Sessions
  BY DEF Inv, Typed, TypeOK
<1>1. pc'[q] = pc[q] /\ cur'[q] = cur[q] /\ exit'[q] = exit[q] /\ err'[q] = err[q]
  BY <1>t, Moves DEF Goes, Exits, Goto, Exit, Crash
<1>2. stage'[q] = stage[q]
  BY <1>t, Frame DEF StartDryRun, WriteIntent, CommitCandidates
<1>3. seen'[q] = seen[q]
  BY <1>t, Frame DEF ReadBranch, ReadBase
<1>4. plan'[q] = plan[q]
  BY <1>t, Frame DEF ImportPlan, PlanRepository
<1>5. candidate'[q] = candidate[q]
  BY <1>t, Frame DEF CommitCandidates
<1>6. attempt'[q] = attempt[q]
  BY <1>t, Frame DEF Push, PushRejected, PushTimesOut, Attempted
<1>7. \A phase : <<q, phase>> \in journal' <=> <<q, phase>> \in journal
  BY Frame DEF WriteIntent, Finish, Publish
<1> QED BY <1>1, <1>2, <1>3, <1>4, <1>5, <1>6, <1>7 DEF Same

\* What became of a repository is final: neither its outcome nor the plan and
\* the commit behind it change again.
LEMMA Settled ==
  ASSUME Inv, Next, NEW q \in Sessions, NEW r \in Repos, attempt[q][r] # "none"
  PROVE  attempt'[q][r] = attempt[q][r] /\ plan'[q] = plan[q] /\ candidate'[q] = candidate[q]
<1>1. CASE Environment
  BY <1>1 DEF Environment, UserCommits, UserSetsDefault, OtherFetch, OtherSetHead, UpdateArrives
<1>2. ASSUME NEW s \in Sessions, SessionStep(s), q # s
      PROVE  attempt'[q][r] = attempt[q][r] /\ plan'[q] = plan[q] /\ candidate'[q] = candidate[q]
  BY <1>2, OthersUntouched DEF Same
<1>3. ASSUME SessionStep(q)
      PROVE  attempt'[q][r] = attempt[q][r] /\ plan'[q] = plan[q] /\ candidate'[q] = candidate[q]
  <2>t. /\ Typed /\ Phase(q) /\ attempt \in [Sessions -> [Repos -> {"none", "pushed", "failed"}]]
    BY DEF Inv, Typed, TypeOK
  <2>1. stage[q] = "push" /\ r \in DOMAIN plan[q]
    BY <2>t DEF Phase, Untried
  <2>2. pc[q] \in {"push", "finish", "done", "crashed"}
    BY <2>t, <2>1 DEF Phase, Untried, Observing, Typed, Steps
  <2>3. plan'[q] = plan[q]
    BY <1>3, <2>2, Frame DEF ImportPlan, PlanRepository
  <2>4. candidate'[q] = candidate[q]
    BY <1>3, <2>2, Frame DEF CommitCandidates
  <2>5. attempt'[q][r] = attempt[q][r]
    <3>1. ASSUME pc[q] = "push", NEW how, Attempted(q, how) PROVE attempt'[q][r] = attempt[q][r]
      <4>1. cur[q] # r
        BY <3>1, PushesChild
      <4> QED BY <3>1, <4>1, <2>t DEF Attempted
    <3> QED BY <1>3, <3>1, Frame DEF Push, PushRejected, PushTimesOut
  <2> QED BY <2>3, <2>4, <2>5
<1> QED BY <1>1, <1>2, <1>3 DEF Next, SessionStep

------------------------------------------------------------------------------
(* Types                                                                   *)

\* Only an observation's own steps lead into it.
LEMMA ObservationSteps ==
  ASSUME Typed, NEW s \in Sessions, Phase(s), SessionStep(s)
  PROVE  /\ pc'[s] = "head" => Fetch(s)
         /\ pc'[s] = "branch" => SetRemoteHead(s)
         /\ pc'[s] = "base" => ReadBranch(s)
         /\ pc'[s] = "content" => ReadBase(s)
<1>p. DOMAIN pc = Sessions
  BY DEF Typed
<1>e. \A e \in {"stale", "failed"} : Fail(s, e) => pc'[s] \in {"finish", "done"}
  BY <1>p, FailureLeads DEF Goto, Exit
<1>n. NextObservation(s) /\ pc[s] \in Observing => pc'[s] \in {"fetch", "export", "done", "commit", "push"}
  BY <1>p, ObservationLeads DEF Goto, Exit
<1>1. CASE Fetch(s) \/ SetRemoteHead(s) \/ ReadBranch(s) \/ ReadBase(s)
  BY <1>1, <1>p DEF Fetch, SetRemoteHead, ReadBranch, ReadBase, Goto
<1>2. CASE ObserveFails(s)
  BY <1>2, <1>e DEF ObserveFails
<1>3. CASE Plan(s)
  BY <1>3, <1>p, <1>n DEF Plan, StartPlan, ImportPlan, PlanRepository, ExportPlan, Goto, Observing
<1>4. CASE Apply(s)
  <2>1. CASE StartDryRun(s) \/ WriteIntent(s) \/ Finish(s)
    BY <2>1, <1>p DEF StartDryRun, WriteIntent, Finish, Goto, Exit
  <2>2. CASE BindConfiguration(s) \/ Preflight(s) \/ CommitCandidates(s)
    BY <2>2, <1>p, <1>e, <1>n DEF BindConfiguration, Preflight, CommitCandidates, Goto, Observing
  <2>3. CASE Push(s) \/ PushRejected(s) \/ PushTimesOut(s)
    BY <2>3, <1>p, <1>e DEF Push, PushRejected, PushTimesOut, AfterPush, Goto
  <2> QED BY <1>4, <2>1, <2>2, <2>3 DEF Apply
<1>5. CASE Crash(s)
  BY <1>5, <1>p DEF Crash
<1> QED BY <1>1, <1>2, <1>3, <1>4, <1>5 DEF SessionStep, Observe

\* A session's steps keep the types.
LEMMA TypedStep ==
  ASSUME Inv, NEW s \in Sessions, SessionStep(s)
  PROVE  Typed'
<1>t. Typed /\ TypeOK /\ Phase(s) /\ Prepared(s)
  BY DEF Inv, Typed
<1>n. Next
  BY DEF Next, SessionStep
<1>a. /\ Selected(s) \subseteq Repos /\ DOMAIN plan[s] \subseteq Repos /\ 1 \in Repos
      /\ cur[s] \in Repos
  BY <1>t, SelectedRepositories
<1>1. Grows
  BY <1>n, TipsGrow
<1>2. /\ cacheTip' \in [Repos -> [Branches -> Commits]]
      /\ \A r \in Repos : Fetched(r) => Fetched(r)'
      /\ \A r \in Repos : (\E b \in Branches : cacheTip'[r][b] # <<>>) => Fetched(r)'
      /\ pc'[s] = "head" => \A b \in Branches : cacheTip'[cur[s]][b] # <<>>
  <2>f. \A r \in Repos : (\E b \in Branches : cacheTip[r][b] # <<>>) => Fetched(r)
    BY <1>t DEF Typed
  <2>t. cacheTip \in [Repos -> [Branches -> Commits]]
    BY <1>t DEF Typed
  <2>1. CASE Fetch(s)
    <3>1. /\ tip[cur[s]] \in [Branches -> Commits] /\ \A b \in Branches : tip[cur[s]][b] # <<>>
      BY <1>t, <1>a DEF Typed
    <3>2. cacheTip' = [cacheTip EXCEPT ![cur[s]] = tip[cur[s]]]
      BY <2>1 DEF Fetch
    <3>3. \A r \in Repos : cacheTip'[r] = IF r = cur[s] THEN tip[cur[s]] ELSE cacheTip[r]
      BY <2>t, <3>2
    <3> QED BY <2>t, <2>f, <3>1, <3>2, <3>3, <1>a, Replaced DEF Fetched
  <2>2. CASE Push(s)
    <3>1. /\ pc[s] = "push" /\ cacheTip' = [cacheTip EXCEPT ![Update(s).r][Update(s).b] = Update(s).new]
      BY <2>2 DEF Push, Track
    <3>2. /\ Update(s).r \in Repos /\ Update(s).b \in Branches /\ Update(s).new \in Commits
          /\ Update(s).new # <<>>
      BY <3>1, PushesChild
    <3>3. /\ cacheTip' \in [Repos -> [Branches -> Commits]]
          /\ \A r \in Repos, b \in Branches :
               cacheTip'[r][b] = IF r = Update(s).r /\ b = Update(s).b THEN Update(s).new
                                 ELSE cacheTip[r][b]
      BY <2>t, <3>1, <3>2, ReplacedTwice
    <3>4. pc'[s] # "head"
      BY <1>t, <3>1, ObservationSteps DEF Fetch
    <3>5. Fetched(Update(s).r)
      BY <1>t, <3>1, PushesChild DEF Typed
    <3> QED BY <2>f, <3>2, <3>3, <3>4, <3>5 DEF Fetched
  <2>3. CASE UNCHANGED cacheTip /\ ~ Fetch(s)
    <3>1. pc'[s] # "head"
      BY <2>3, <1>t, ObservationSteps
    <3> QED BY <2>t, <2>f, <2>3, <3>1 DEF Fetched
  <2> QED BY <2>1, <2>2, <2>3, Frame
<1>3. /\ cacheHead' \in [Repos -> Branches \cup {NoBranch}]
      /\ \/ cacheHead' = cacheHead
         \/ /\ SetRemoteHead(s)
            /\ \A r \in Repos : cacheHead'[r] = IF r = cur[s] THEN head[cur[s]] ELSE cacheHead[r]
  <2>1. cacheHead \in [Repos -> Branches \cup {NoBranch}] /\ head[cur[s]] \in Branches
    BY <1>t, <1>a DEF TypeOK
  <2>2. CASE SetRemoteHead(s)
    <3>1. cacheHead' = [cacheHead EXCEPT ![cur[s]] = head[cur[s]]]
      BY <2>2 DEF SetRemoteHead
    <3> QED BY <1>a, <2>1, <2>2, <3>1
  <2>3. CASE cacheHead' = cacheHead
    BY <2>1, <2>3
  <2>4. cacheHead' = cacheHead \/ SetRemoteHead(s)
    BY Frame
  <2> QED BY <2>2, <2>3, <2>4
<1>4. journal' \subseteq Sessions \X {"INTENT", "RESULT"}
  BY <1>t, Frame DEF WriteIntent, Finish, Publish, TypeOK
<1>5. cur' \in [Sessions -> Repos] /\ pc' \in [Sessions -> Steps]
  <2>1. "done" \in Steps /\ "crashed" \in Steps
    BY DEF Steps
  <2>2. cur \in [Sessions -> Repos] /\ pc \in [Sessions -> Steps]
    BY <1>t DEF TypeOK, Typed
  <2> QED BY <1>t, <2>1, <2>2, Moves DEF Goes, Exits, Goto, Exit, Crash
<1>6. exit' \in [Sessions -> {-1, 0, 1, 2}]
  <2>2. exit \in [Sessions -> {-1, 0, 1, 2}]
    BY <1>t DEF TypeOK
  <2> QED BY <1>t, <2>2, Moves DEF Goes, Exits, Exit, Crash
<1>7. err' \in [Sessions -> {"none", "stale", "failed"}]
  <2>2. err \in [Sessions -> {"none", "stale", "failed"}]
    BY <1>t DEF TypeOK
  <2> QED BY <1>t, <2>2, Moves
<1>8. stage' \in [Sessions -> {"plan", "dryrun", "prepare", "push"}]
  <2>2. stage \in [Sessions -> {"plan", "dryrun", "prepare", "push"}]
    BY <1>t DEF TypeOK
  <2> QED BY <2>2, Frame DEF StartDryRun, WriteIntent, CommitCandidates
<1>9. attempt' \in [Sessions -> [Repos -> {"none", "pushed", "failed"}]]
  <2>2. attempt \in [Sessions -> [Repos -> {"none", "pushed", "failed"}]]
    BY <1>t DEF TypeOK
  <2>3. ASSUME NEW how \in {"pushed", "failed"}, Attempted(s, how)
        PROVE  attempt' \in [Sessions -> [Repos -> {"none", "pushed", "failed"}]]
    BY <2>2, <2>3, <1>a DEF Attempted
  <2> QED BY <2>2, <2>3, Frame DEF Push, PushRejected, PushTimesOut
<1>10. \A q \in Sessions : seen'[q] \in [branch : Branches \cup {NoBranch}, base : Commits]
  <2>1. /\ DOMAIN seen = Sessions /\ cacheHead[cur[s]] \in Branches \cup {NoBranch}
        /\ \A q \in Sessions : seen[q] \in [branch : Branches \cup {NoBranch}, base : Commits]
    BY <1>t, <1>a DEF Typed, TypeOK
  <2>2. CASE ReadBranch(s)
    BY <2>1, <2>2 DEF ReadBranch
  <2>3. CASE ReadBase(s)
    <3>1. cacheHead[cur[s]] \in Branches
      BY <1>t, <2>1, <2>3 DEF Typed, ReadBase
    <3>2. CachedHead(cur[s]) \in Commits
      BY <1>t, <1>a, <3>1 DEF CachedHead, Typed
    <3> QED BY <2>1, <2>3, <3>2 DEF ReadBase
  <2> QED BY <2>1, <2>2, <2>3, Frame
<1>11. DOMAIN seen' = Sessions /\ DOMAIN plan' = Sessions /\ DOMAIN candidate' = Sessions
  BY <1>t, Frame DEF Typed, ReadBranch, ReadBase, ImportPlan, PlanRepository, CommitCandidates
<1>h. head' \in [Repos -> Branches]
  BY <1>t, Frame DEF TypeOK
<1>12. /\ \A q \in Sessions : IsPlan(plan'[q]) /\ IsFunction(plan'[q])
       /\ \A p \in plans' : IsPlan(p) /\ IsFunction(p)
  <2>1. /\ \A q \in Sessions : IsPlan(plan[q]) /\ IsFunction(plan[q])
        /\ \A p \in plans : IsPlan(p) /\ IsFunction(p)
        /\ DOMAIN plan = Sessions
    BY <1>t DEF Typed, TypeOK
  <2>2. \A p \in plans' : IsPlan(p) /\ IsFunction(p)
    BY <2>1, Frame DEF ExportPlan
  <2>3. CASE ImportPlan(s)
    BY <2>1, <2>2, <2>3 DEF ImportPlan
  <2>4. CASE PlanRepository(s) /\ plan' # plan
    <3> DEFINE text == Readme(CachedHead(cur[s]))
    <3>1. pc[s] = "content" /\ text # Rendered[cur[s]] /\ plan' = [plan EXCEPT ![s] = Planned(s, text)]
      BY <2>4 DEF PlanRepository
    <3>2. cacheHead[cur[s]] \in Branches /\ seen[s].branch \in Branches /\ seen[s].base \in Commits
      BY <1>t, <1>a, <3>1 DEF Typed, TypeOK
    <3>3. CachedHead(cur[s]) \in Seq(Change) /\ CachedHead(cur[s]) # <<>>
      <4>1. /\ cacheTip \in [Repos -> [Branches -> Commits]] /\ cacheHead[cur[s]] # NoBranch
            /\ cacheTip[cur[s]][cacheHead[cur[s]]] # <<>>
        BY <1>t, <1>a, <3>1, <3>2 DEF Typed, Fetched
      <4> QED BY <1>a, <3>2, <4>1 DEF CachedHead, Commits
    <3>4. text \in Texts
      BY <3>3, ReadmeOfCommit
    <3> HIDE DEF text
    <3> DEFINE p == Planned(s, text)
               a == PlanAction(s, text)
    <3>5. /\ a.branch \in Branches /\ IsCommit(a.base) /\ a.observed \in Texts \ {Rendered[cur[s]]}
          /\ a.desired = Rendered[cur[s]]
      BY <3>1, <3>2, <3>4 DEF PlanAction, IsCommit, Commits
    <3>6. /\ DOMAIN p = DOMAIN plan[s] \cup {cur[s]} /\ IsFunction(p)
          /\ \A r \in DOMAIN p : p[r] = IF r = cur[s] THEN a ELSE plan[s][r]
      BY DEF Planned, IsFunction
    <3> HIDE DEF p, a
    <3>7. IsPlan(p)
      <4>1. IsPlan(plan[s])
        BY <2>1
      <4> QED BY <4>1, <3>5, <3>6, <1>a DEF IsPlan
    <3> QED BY <2>1, <2>2, <3>1, <3>6, <3>7 DEF p
  <2>5. CASE plan' = plan
    BY <2>1, <2>2, <2>5
  <2> QED BY <2>3, <2>4, <2>5, Frame
<1>13. \A q \in Sessions : DOMAIN candidate'[q] \in {{}, DOMAIN plan'[q]}
  <2>1. \A q \in Sessions : DOMAIN candidate[q] \in {{}, DOMAIN plan[q]}
    BY <1>t DEF TypeOK
  <2>2. ASSUME NEW q \in Sessions, q # s PROVE DOMAIN candidate'[q] \in {{}, DOMAIN plan'[q]}
    BY <2>1, <2>2, OthersUntouched DEF Same
  <2>3. CASE CommitCandidates(s)
    <3>1. \/ candidate'[s] = candidate[s] /\ plan'[s] = plan[s]
          \/ DOMAIN candidate'[s] = DOMAIN plan[s] /\ plan'[s] = plan[s]
      BY <2>3, <1>t DEF CommitCandidates, Typed
    <3> QED BY <2>1, <2>2, <3>1
  <2>4. CASE (ImportPlan(s) \/ PlanRepository(s)) /\ candidate' = candidate
    <3>1. stage[s] = "plan"
      BY <2>4, <1>t DEF ImportPlan, PlanRepository, Phase
    <3>2. DOMAIN candidate[s] = {}
      BY <3>1, <1>t, NoPlanIsEmpty DEF Prepared
    <3> QED BY <2>2, <2>4, <3>2
  <2>5. CASE candidate' = candidate /\ plan' = plan
    BY <2>1, <2>5
  <2> QED BY <2>3, <2>4, <2>5, Frame DEF ImportPlan, PlanRepository
<1>14. TypeOK'
  <2>1. \A r \in Repos, b \in Branches : IsCommit(tip'[r][b]) /\ IsCommit(cacheTip'[r][b])
    BY <1>1, <1>2 DEF Grows, IsCommit, Commits
  <2> QED BY <2>1, <1>h, <1>3, <1>4, <1>5, <1>6, <1>7, <1>8, <1>9, <1>12, <1>13 DEF TypeOK
<1>15. \A r \in Repos : cacheHead'[r] # NoBranch => Fetched(r)'
  <2>1. ASSUME NEW r \in Repos, cacheHead'[r] # NoBranch
        PROVE  Fetched(r)
    <3>1. CASE cacheHead'[r] = cacheHead[r]
      BY <2>1, <3>1, <1>t DEF Typed
    <3>2. CASE SetRemoteHead(s) /\ r = cur[s]
      BY <3>2, <1>t DEF Typed, SetRemoteHead
    <3> QED BY <3>1, <3>2, <1>3
  <2> QED BY <2>1, <1>2
<1>16. ASSUME NEW q \in Sessions
       PROVE  /\ pc'[q] = "head" => Fetched(cur[q])'
              /\ pc'[q] \in {"branch", "base", "content"} => cacheHead'[cur'[q]] # NoBranch
              /\ pc'[q] \in {"base", "content"} => seen'[q].branch # NoBranch
  <2>h. \A r \in Repos : cacheHead[r] # NoBranch => cacheHead'[r] # NoBranch
    BY <1>3, <1>a, <1>t, ReadmeAssumption DEF TypeOK
  <2>1. CASE q # s
    <3>1. Same(q)
      BY <2>1, OthersUntouched
    <3>2. cur[q] \in Repos
      BY <1>t DEF TypeOK
    <3>3. pc'[q] = "head" => Fetched(cur[q])'
      <4>1. pc'[q] = "head" => Fetched(cur[q])
        BY <1>t, <3>1 DEF Same, Typed
      <4>2. cur'[q] = cur[q]
        BY <3>1 DEF Same
      <4>3. Fetched(cur[q]) => \A b \in Branches : cacheTip'[cur[q]][b] # <<>>
        BY <1>2, <3>2 DEF Fetched
      <4> QED BY <4>1, <4>2, <4>3 DEF Fetched
    <3> QED BY <1>t, <2>h, <3>1, <3>2, <3>3 DEF Same, Typed
  <2>2. CASE q = s
    <3>d. DOMAIN cur = Sessions /\ DOMAIN seen = Sessions
      BY <1>t DEF Typed, TypeOK
    <3>c. pc'[s] \in {"head", "branch", "base", "content"} => cur'[s] = cur[s]
      BY <1>t, <3>d, ObservationSteps DEF Fetch, SetRemoteHead, ReadBranch, ReadBase, Goto
    <3>1. pc'[s] = "head" => Fetched(cur[s])'
      BY <1>2, <3>c DEF Fetched
    <3>2. pc'[s] = "branch" => cacheHead'[cur'[s]] # NoBranch
      <4> SUFFICES ASSUME pc'[s] = "branch" PROVE cacheHead'[cur'[s]] # NoBranch
        OBVIOUS
      <4>1. SetRemoteHead(s)
        BY <1>t, ObservationSteps
      <4>2. cacheHead'[cur[s]] = head[cur[s]]
        BY <1>a, <1>t, <4>1 DEF SetRemoteHead, TypeOK
      <4> QED BY <1>a, <1>t, <3>c, <4>2, ReadmeAssumption DEF TypeOK
    <3>3. pc'[s] = "base" => cacheHead'[cur'[s]] # NoBranch /\ seen'[s].branch # NoBranch
      BY <1>a, <1>t, <2>h, <3>c, <3>d, ObservationSteps DEF ReadBranch, Typed
    <3>4. pc'[s] = "content" => cacheHead'[cur'[s]] # NoBranch /\ seen'[s].branch # NoBranch
      BY <1>a, <1>t, <2>h, <3>c, <3>d, ObservationSteps DEF ReadBase, Typed
    <3> QED BY <2>2, <3>1, <3>2, <3>3, <3>4
  <2> QED BY <2>1, <2>2
<1>17. /\ \A p \in plans' : \A r \in DOMAIN p : Fetched(r)'
       /\ \A q \in Sessions : \A r \in DOMAIN plan'[q] : Fetched(r)'
  <2>1. /\ \A p \in plans : \A r \in DOMAIN p : Fetched(r) /\ r \in Repos
        /\ \A q \in Sessions : \A r \in DOMAIN plan[q] : Fetched(r) /\ r \in Repos
        /\ DOMAIN plan = Sessions
    BY <1>t DEF Typed, TypeOK, IsPlan
  <2>2. \A p \in plans' : \A r \in DOMAIN p : Fetched(r) /\ r \in Repos
    BY <2>1, Frame DEF ExportPlan
  <2>3. CASE ImportPlan(s)
    <3>1. \A q \in Sessions : \A r \in DOMAIN plan'[q] : Fetched(r) /\ r \in Repos
      BY <2>1, <2>3 DEF ImportPlan
    <3> QED BY <1>2, <2>2, <3>1
  <2>4. CASE PlanRepository(s)
    <3>1. Fetched(cur[s])
      BY <1>t, <1>a, <2>4 DEF PlanRepository, Typed
    <3>2. \A q \in Sessions : \A r \in DOMAIN plan'[q] : r \in DOMAIN plan[q] \/ r = cur[s]
      BY <2>1, <2>4 DEF PlanRepository, Planned
    <3> QED BY <1>2, <1>a, <2>1, <2>2, <3>1, <3>2
  <2>5. CASE plan' = plan
    BY <1>2, <2>1, <2>2, <2>5
  <2> QED BY <2>3, <2>4, <2>5, Frame
<1> QED BY <1>14, <1>1, <1>2, <1>5, <1>10, <1>11, <1>12, <1>15, <1>16, <1>17 DEF Typed, Grows

------------------------------------------------------------------------------
(* Where a session is after its step                                       *)

\* A failure before the journal is written ends the command; a later one goes
\* to finish with what was attempted so far.
LEMMA PhaseOfFailure ==
  ASSUME Typed, NEW s \in Sessions, Phase(s), NEW e \in {"stale", "failed"}, Fail(s, e),
         pc[s] # "done", plan'[s] = plan[s],
         stage[s] \in {"prepare", "push"} => plan[s] # NoPlan /\ stage'[s] \in {"prepare", "push"},
         stage[s] \in {"plan", "dryrun"} => stage'[s] = stage[s],
         e = "stale" => Untried(s)',
         stage[s] \in {"prepare", "push"} /\ e = "failed" => ~Complete(s)',
         stage'[s] # "push" => Untried(s)',
         \A r \in Repos : attempt'[s][r] # "none" => r \in DOMAIN plan[s]
  PROVE  Phase(s)'
<1>d. /\ DOMAIN pc = Sessions /\ DOMAIN cur = Sessions /\ DOMAIN err = Sessions
      /\ DOMAIN exit = Sessions /\ exit[s] = -1 /\ stage[s] \in {"plan", "dryrun", "prepare", "push"}
  BY DEF Typed, TypeOK, Phase
<1>1. CASE stage[s] \in {"prepare", "push"} /\ Goto(s, "finish", cur[s]) /\ exit' = exit
  <2>1. pc'[s] = "finish" /\ err'[s] = e /\ exit'[s] = -1
    BY <1>1, <1>d, FailureLeads DEF Goto
  <2> QED BY <1>1, <2>1 DEF Phase, Observing
<1>2. CASE stage[s] \in {"plan", "dryrun"} /\ Exit(s, IF e = "stale" THEN 2 ELSE 1)
  <2>1. pc'[s] = "done" /\ exit'[s] = IF e = "stale" THEN 2 ELSE 1
    BY <1>2, <1>d DEF Exit
  <2> QED BY <1>2, <2>1 DEF Phase, Observing
<1> QED BY <1>1, <1>2, FailureLeads

\* An observation that succeeds.
LEMMA PhaseOfObservation ==
  ASSUME Typed, NEW s \in Sessions, Phase(s), pc[s] = "content", NextObservation(s),
         UNCHANGED <<stage, attempt, err, journal>>, plan'[s] = plan[s] \/ stage[s] = "plan"
  PROVE  Phase(s)'
<1>d. /\ DOMAIN pc = Sessions /\ DOMAIN cur = Sessions /\ DOMAIN exit = Sessions /\ exit[s] = -1
      /\ Untried(s)' /\ err'[s] = "none" /\ stage'[s] = stage[s] /\ Untried(s)
  BY DEF Typed, TypeOK, Phase, Observing, Untried
<1>o. pc[s] \in Observing /\ (stage[s] # "plan" => cur[s] \in DOMAIN plan[s])
  BY DEF Phase, Observing
<1>n. stage[s] # "plan" => plan[s] # NoPlan
  BY <1>o, NoPlanIsEmpty
<1>1. CASE \E r \in Selected(s) : Goto(s, "fetch", r) /\ exit' = exit
  <2>1. pc'[s] = "fetch" /\ exit'[s] = -1 /\ (stage[s] # "plan" => cur'[s] \in DOMAIN plan[s])
    BY <1>1, <1>d DEF Goto, Selected
  <2> QED BY <1>d, <2>1 DEF Phase, Observing, Untried
<1>2. CASE stage[s] = "plan" /\ Goto(s, "export", 1) /\ exit' = exit
  <2>1. pc'[s] = "export" /\ exit'[s] = -1
    BY <1>2, <1>d DEF Goto
  <2> QED BY <1>2, <1>d, <2>1 DEF Phase, Observing, Untried
<1>3. CASE stage[s] = "dryrun" /\ Exit(s, 0)
  <2>1. pc'[s] = "done" /\ exit'[s] = 0
    BY <1>3, <1>d DEF Exit
  <2> QED BY <1>3, <1>d, <2>1 DEF Phase, Observing, Untried
<1>4. CASE stage[s] = "prepare" /\ Goto(s, "commit", 1) /\ exit' = exit
  <2>1. pc'[s] = "commit" /\ exit'[s] = -1 /\ plan'[s] # NoPlan
    BY <1>4, <1>d, <1>n DEF Goto
  <2> QED BY <1>4, <1>d, <2>1 DEF Phase, Observing, Untried
<1>5. CASE stage[s] = "push" /\ Goto(s, "push", Min(DOMAIN plan[s])) /\ exit' = exit
  <2>1. pc'[s] = "push" /\ exit'[s] = -1 /\ cur'[s] = Min(DOMAIN plan[s]) /\ plan'[s] = plan[s]
    BY <1>5, <1>d DEF Goto
  <2>2. cur'[s] \in DOMAIN plan[s] /\ (\A r \in DOMAIN plan[s] : cur'[s] <= r) /\ plan[s] # NoPlan
    BY <2>1, <1>5, <1>n, FirstPlanned
  <2>3. \A r \in DOMAIN plan[s] : attempt'[s][r] = IF r < cur'[s] THEN "pushed" ELSE "none"
    <3> SUFFICES ASSUME NEW r \in DOMAIN plan[s] PROVE attempt'[s][r] = "none" /\ ~ (r < cur'[s])
      OBVIOUS
    <3>1. r \in Nat /\ r \in Repos /\ cur'[s] \in Nat /\ cur'[s] <= r
      BY <2>2, SelectedRepositories, ReadmeAssumption DEF Repos
    <3> QED BY <3>1, <1>d DEF Untried
  <2> QED BY <1>5, <1>d, <2>1, <2>2, <2>3 DEF Phase, Observing, Untried
<1> QED BY <1>o, <1>1, <1>2, <1>3, <1>4, <1>5, ObservationLeads

\* A push keeps what is known of its session's phase.
LEMMA PhaseOfPush ==
  ASSUME Inv, NEW s \in Sessions, Push(s)
  PROVE  Phase(s)'
<1>t. Typed /\ Phase(s)
  BY DEF Inv
<1>d. /\ DOMAIN pc = Sessions /\ DOMAIN cur = Sessions /\ exit[s] = -1 /\ pc[s] = "push"
      /\ attempt \in [Sessions -> [Repos -> {"none", "pushed", "failed"}]]
      /\ stage[s] = "push" /\ err[s] = "none" /\ plan[s] # NoPlan
      /\ cur[s] \in DOMAIN plan[s] /\ DOMAIN plan[s] \subseteq Repos /\ Selected(s) = DOMAIN plan[s]
      /\ \A r \in DOMAIN plan[s] : attempt[s][r] = IF r < cur[s] THEN "pushed" ELSE "none"
      /\ \A r \in Repos : attempt[s][r] # "none" => r \in DOMAIN plan[s]
  BY <1>t, SelectedRepositories DEF Typed, TypeOK, Phase, Push, Selected
<1>u. /\ UNCHANGED <<stage, plan, err, exit, journal>> /\ AfterPush(s)
      /\ \A r \in Repos : attempt'[s][r] = IF r = cur[s] THEN "pushed" ELSE attempt[s][r]
  BY <1>d DEF Push, Attempted
<1>n. DOMAIN plan[s] \subseteq Nat
  BY <1>d, ReadmeAssumption DEF Repos
<1>1. CASE Later(s, cur[s]) # {}
  <2> DEFINE q == Min(Later(s, cur[s]))
  <2>1. q \in DOMAIN plan[s] /\ q > cur[s] /\ \A r \in DOMAIN plan[s] : r > cur[s] => q <= r
    BY <1>1, <1>d, FirstRepository DEF Later
  <2>2. pc'[s] = "push" /\ cur'[s] = q
    BY <1>1, <1>d, <1>u DEF AfterPush, Goto
  <2> HIDE DEF q
  <2>3. \A r \in DOMAIN plan[s] : attempt'[s][r] = IF r < q THEN "pushed" ELSE "none"
    <3> SUFFICES ASSUME NEW r \in DOMAIN plan[s]
                 PROVE  attempt'[s][r] = IF r < q THEN "pushed" ELSE "none"
      OBVIOUS
    <3>1. r \in Nat /\ q \in Nat /\ cur[s] \in Nat /\ r \in Repos
      BY <1>n, <1>d, <2>1
    <3>2. attempt'[s][r] = IF r = cur[s] \/ r < cur[s] THEN "pushed" ELSE "none"
      BY <1>d, <1>u, <3>1
    <3>3. (r = cur[s] \/ r < cur[s]) <=> r < q
      BY <2>1, <3>1
    <3> QED BY <3>2, <3>3
  <2> QED BY <1>d, <1>u, <2>1, <2>2, <2>3 DEF Phase, Observing, Untried
<1>2. CASE Later(s, cur[s]) = {}
  <2>1. pc'[s] = "finish"
    BY <1>2, <1>d, <1>u DEF AfterPush, Goto
  <2>2. Complete(s)'
    <3> SUFFICES ASSUME NEW r \in DOMAIN plan[s] PROVE attempt'[s][r] = "pushed"
      BY <1>u DEF Complete
    <3>1. r \in Nat /\ cur[s] \in Nat /\ r \in Repos /\ ~ (r > cur[s])
      BY <1>n, <1>d, <1>2 DEF Later
    <3> QED BY <1>d, <1>u, <3>1
  <2> QED BY <1>d, <1>u, <2>1, <2>2 DEF Phase, Observing, Untried
<1> QED BY <1>1, <1>2

\* A session that is done takes no step.
LEMMA DoneIsFinal ==
  ASSUME NEW s \in Sessions, SessionStep(s)
  PROVE  pc[s] # "done"
BY DEF SessionStep, Observe, Plan, Apply, Crash, Fetch, SetRemoteHead, ReadBranch, ReadBase,
   ObserveFails, StartPlan, ImportPlan, PlanRepository, ExportPlan, StartDryRun, WriteIntent,
   BindConfiguration, Preflight, CommitCandidates, Push, PushRejected, PushTimesOut, Finish

\* A session's steps keep what is known of its phase.
LEMMA PhaseStep ==
  ASSUME Inv, NEW s \in Sessions, SessionStep(s)
  PROVE  Phase(s)'
<1>t. Typed /\ Phase(s)
  BY DEF Inv
<1>d. /\ DOMAIN pc = Sessions /\ DOMAIN cur = Sessions /\ DOMAIN exit = Sessions
      /\ DOMAIN stage = Sessions /\ DOMAIN plan = Sessions
      /\ exit[s] = -1 /\ pc[s] # "done"
      /\ attempt \in [Sessions -> [Repos -> {"none", "pushed", "failed"}]]
      /\ err \in [Sessions -> {"none", "stale", "failed"}]
      /\ stage[s] \in {"plan", "dryrun", "prepare", "push"} /\ DOMAIN plan[s] \subseteq Repos
      /\ cur[s] \in Repos
  BY <1>t, DoneIsFinal DEF Typed, TypeOK, Phase, IsPlan
<1>m. plan[s] # NoPlan => Min(DOMAIN plan[s]) \in DOMAIN plan[s]
  BY <1>t, FirstPlanned
\* A failure while nothing was pushed.
<1>f. ASSUME NEW e \in {"stale", "failed"}, Fail(s, e), Untried(s), attempt' = attempt,
             plan' = plan, stage[s] \in {"prepare", "push"} => plan[s] # NoPlan,
             stage[s] \in {"prepare", "push"} => stage'[s] \in {"prepare", "push"},
             stage[s] \in {"plan", "dryrun"} => stage'[s] = stage[s]
      PROVE  Phase(s)'
  <2>1. Untried(s)' /\ \A r \in Repos : attempt'[s][r] = "none"
    BY <1>f DEF Untried
  <2>2. stage[s] \in {"prepare", "push"} => ~Complete(s)'
    <3> SUFFICES ASSUME plan[s] # NoPlan PROVE ~Complete(s)'
      BY <1>f
    <3>1. Min(DOMAIN plan[s]) \in DOMAIN plan[s] /\ Min(DOMAIN plan[s]) \in Repos
      BY <1>d, <1>m
    <3> QED BY <3>1, <2>1, <1>f DEF Complete
  <2> QED BY <1>t, <1>d, <1>f, <2>1, <2>2, PhaseOfFailure
<1>1. CASE Observe(s)
  <2>1. CASE Fetch(s) \/ SetRemoteHead(s) \/ ReadBranch(s) \/ ReadBase(s)
    <3>1. /\ UNCHANGED <<stage, plan, attempt, err, exit, journal>> /\ pc[s] \in Observing
          /\ pc'[s] \in Observing /\ cur'[s] = cur[s]
      BY <2>1, <1>d DEF Fetch, SetRemoteHead, ReadBranch, ReadBase, Goto, Observing
    <3> QED BY <1>t, <1>d, <3>1 DEF Phase, Observing, Untried
  <2>2. CASE ObserveFails(s)
    <3>1. UNCHANGED <<stage, plan, attempt>> /\ pc[s] \in Observing /\ Fail(s, "failed")
      BY <2>2 DEF ObserveFails, Observing
    <3>2. Untried(s) /\ (stage[s] \in {"prepare", "push"} => cur[s] \in DOMAIN plan[s])
      BY <1>t, <3>1 DEF Phase
    <3>3. stage[s] \in {"prepare", "push"} => plan[s] # NoPlan
      BY <3>2, NoPlanIsEmpty
    <3> QED BY <1>f, <3>1, <3>2, <3>3
  <2> QED BY <1>1, <2>1, <2>2 DEF Observe
<1>2. CASE StartPlan(s) \/ ImportPlan(s) \/ ExportPlan(s)
  <2>1. /\ UNCHANGED <<stage, attempt, err, exit, journal>> /\ pc[s] \in {"idle", "export"}
        /\ pc'[s] \in {"fetch", "reviewed"}
    BY <1>2, <1>d DEF StartPlan, ImportPlan, ExportPlan, Goto
  <2> QED BY <1>t, <1>d, <2>1 DEF Phase, Observing, Untried
<1>3. CASE PlanRepository(s)
  <2>1. /\ UNCHANGED <<stage, attempt, err, journal>> /\ pc[s] = "content" /\ stage[s] = "plan"
        /\ NextObservation(s)
    BY <1>3 DEF PlanRepository
  <2> QED BY <1>t, <2>1, PhaseOfObservation
<1>4. CASE StartDryRun(s)
  <2>1. /\ UNCHANGED <<plan, attempt, err, journal>> /\ pc[s] = "reviewed" /\ stage'[s] = "dryrun"
        /\ \/ pc'[s] = "done" /\ exit'[s] = 0
           \/ plan[s] # NoPlan /\ pc'[s] = "config" /\ exit' = exit
    BY <1>4, <1>d DEF StartDryRun, Exit, Goto
  <2> QED BY <1>t, <1>d, <2>1 DEF Phase, Observing, Untried
<1>5. CASE WriteIntent(s)
  <2>1. /\ UNCHANGED <<plan, attempt, err>> /\ pc[s] = "reviewed" /\ plan[s] # NoPlan
        /\ \/ pc'[s] = "done" /\ exit'[s] = 1 /\ stage' = stage
           \/ stage'[s] = "prepare" /\ pc'[s] = "config" /\ exit' = exit
    BY <1>5, <1>d DEF WriteIntent, Exit, Goto
  <2> QED BY <1>t, <1>d, <2>1 DEF Phase, Observing, Untried
<1>6. CASE BindConfiguration(s)
  <2>1. /\ UNCHANGED <<plan, attempt, stage, journal>> /\ pc[s] = "config" /\ plan[s] # NoPlan
        /\ Untried(s) /\ err[s] = "none"
    BY <1>6, <1>t DEF BindConfiguration, Phase
  <2>2. CASE Goto(s, "fetch", Min(DOMAIN plan[s])) /\ UNCHANGED <<err, exit>>
    <3>1. pc'[s] = "fetch" /\ cur'[s] \in DOMAIN plan[s]
      BY <1>d, <1>m, <2>1, <2>2 DEF Goto
    <3> QED BY <1>t, <1>d, <2>1, <2>2, <3>1 DEF Phase, Observing, Untried
  <2>3. CASE Fail(s, "stale")
    BY <1>f, <2>1, <2>3
  <2> QED BY <1>6, <2>2, <2>3 DEF BindConfiguration
<1>7. CASE Preflight(s)
  <2>1. /\ UNCHANGED <<plan, attempt, stage, journal>> /\ pc[s] = "content" /\ stage[s] # "plan"
        /\ Untried(s) /\ cur[s] \in DOMAIN plan[s]
    BY <1>7, <1>t DEF Preflight, Phase, Observing
  <2>2. CASE NextObservation(s) /\ UNCHANGED err
    BY <1>t, <2>1, <2>2, PhaseOfObservation
  <2>3. CASE Fail(s, "stale")
    <3>1. plan[s] # NoPlan
      BY <2>1, NoPlanIsEmpty
    <3> QED BY <1>f, <2>1, <2>3, <3>1
  <2> QED BY <1>7, <2>2, <2>3 DEF Preflight
<1>8. CASE CommitCandidates(s)
  <2>1. /\ UNCHANGED <<plan, attempt, journal>> /\ pc[s] = "commit" /\ plan[s] # NoPlan
        /\ Untried(s) /\ err[s] = "none" /\ stage[s] = "prepare"
    BY <1>8, <1>t DEF CommitCandidates, Phase
  <2>2. CASE Fail(s, "failed") /\ stage' = stage
    BY <1>f, <2>1, <2>2
  <2>3. CASE stage' = [stage EXCEPT ![s] = "push"] /\ Fail(s, "failed")
    <3>1. stage'[s] = "push"
      BY <1>d, <2>3
    <3> QED BY <1>f, <2>1, <2>3, <3>1
  <2>4. CASE /\ stage' = [stage EXCEPT ![s] = "push"] /\ UNCHANGED <<err, exit>>
             /\ Goto(s, "fetch", Min(DOMAIN plan[s]))
    <3>1. pc'[s] = "fetch" /\ cur'[s] \in DOMAIN plan[s] /\ stage'[s] = "push"
      BY <1>d, <1>m, <2>1, <2>4 DEF Goto
    <3> QED BY <1>t, <1>d, <2>1, <2>4, <3>1 DEF Phase, Observing, Untried
  <2> QED BY <1>8, <2>2, <2>3, <2>4 DEF CommitCandidates
<1>9. CASE Push(s)
  BY <1>9, PhaseOfPush
<1>10. CASE PushRejected(s) \/ PushTimesOut(s)
  <2>1. /\ UNCHANGED <<plan, stage, journal>> /\ pc[s] = "push" /\ Fail(s, "failed")
        /\ stage[s] = "push" /\ plan[s] # NoPlan /\ cur[s] \in DOMAIN plan[s]
        /\ \A r \in Repos : attempt'[s][r] = IF r = cur[s] THEN "failed" ELSE attempt[s][r]
        /\ \A r \in Repos : attempt[s][r] # "none" => r \in DOMAIN plan[s]
    BY <1>10, <1>t, <1>d DEF PushRejected, PushTimesOut, Attempted, Phase
  <2>2. ~Complete(s)'
    BY <1>d, <2>1 DEF Complete
  <2>3. \A r \in Repos : attempt'[s][r] # "none" => r \in DOMAIN plan[s]
    BY <2>1
  <2> QED BY <1>t, <1>d, <2>1, <2>2, <2>3, PhaseOfFailure
<1>11. CASE Finish(s)
  <2>1. /\ UNCHANGED <<plan, stage, attempt, err>> /\ pc[s] = "finish" /\ pc'[s] = "done"
        /\ stage[s] \in {"prepare", "push"}
        /\ \/ <<s, "RESULT">> \in journal' /\ exit'[s] = ExitCode(err[s])
           \/ exit'[s] = ExitCode(IF err[s] = "none" THEN "failed" ELSE err[s])
    BY <1>11, <1>t, <1>d DEF Finish, Publish, Exit, Phase
  <2>2. /\ exit'[s] = 2 => err[s] = "stale"
        /\ exit'[s] = 0 => err[s] = "none" /\ <<s, "RESULT">> \in journal'
    BY <1>d, <2>1 DEF ExitCode
  <2>3. /\ exit'[s] = 2 => Untried(s)'
        /\ stage'[s] # "push" => Untried(s)'
        /\ exit'[s] = 0 => Complete(s)'
        /\ \A r \in Repos : attempt'[s][r] # "none" => r \in DOMAIN plan'[s]
    BY <1>t, <2>1, <2>2 DEF Phase, Untried, Complete
  <2> QED BY <2>1, <2>2, <2>3 DEF Phase, Observing
<1>12. CASE Crash(s)
  <2>1. UNCHANGED <<plan, stage, attempt, err, exit, journal>> /\ pc'[s] = "crashed"
    BY <1>12, <1>d DEF Crash
  <2> QED BY <1>t, <1>d, <2>1 DEF Phase, Observing, Untried
<1> QED BY <1>1, <1>2, <1>3, <1>4, <1>5, <1>6, <1>7, <1>8, <1>9, <1>10, <1>11, <1>12
        DEF SessionStep, Plan, Apply

\* A session's steps keep its candidates commits on the planned bases.
LEMMA PreparedStep ==
  ASSUME Inv, NEW s \in Sessions, SessionStep(s)
  PROVE  Prepared(s)'
<1>t. /\ Typed /\ Phase(s) /\ Prepared(s) /\ DOMAIN stage = Sessions /\ DOMAIN plan = Sessions
      /\ DOMAIN candidate = Sessions
  BY DEF Inv, Typed, TypeOK
<1>1. CASE CommitCandidates(s)
  <2>1. CASE UNCHANGED <<candidate, stage, plan>>
    BY <2>1, <1>t DEF Prepared
  <2>2. CASE /\ stage' = [stage EXCEPT ![s] = "push"] /\ plan' = plan
             /\ \E at \in Stamps :
                  candidate' = [candidate EXCEPT ![s] =
                    [r \in DOMAIN plan[s] |->
                       Append(plan[s][r].base, [readme |-> plan[s][r].desired, by |-> at])]]
    BY <2>2, <1>t DEF Prepared
  <2> QED BY <1>1, <2>1, <2>2 DEF CommitCandidates
<1>2. CASE StartDryRun(s) \/ WriteIntent(s)
  <2>1. stage[s] = "plan" /\ stage'[s] # "push" /\ candidate' = candidate
    BY <1>2, <1>t DEF StartDryRun, WriteIntent, Phase
  <2> QED BY <1>t, <2>1 DEF Prepared
<1>3. CASE ImportPlan(s) \/ PlanRepository(s)
  <2>1. stage[s] = "plan" /\ stage' = stage /\ candidate' = candidate
    BY <1>3, <1>t DEF ImportPlan, PlanRepository, Phase
  <2> QED BY <1>t, <2>1 DEF Prepared
<1>4. CASE UNCHANGED <<stage, plan, candidate>>
  BY <1>4, <1>t DEF Prepared
<1> QED BY <1>1, <1>2, <1>3, <1>4, Frame

\* A session's steps keep its records in order and its exit status true to them.
LEMMA RecordsStep ==
  ASSUME Inv, NEW s \in Sessions, SessionStep(s)
  PROVE  Records(s)'
<1>t. /\ Typed /\ Phase(s) /\ Records(s) /\ DOMAIN stage = Sessions /\ DOMAIN pc = Sessions
      /\ pc[s] # "done" /\ stage[s] \in {"plan", "dryrun", "prepare", "push"}
  BY DoneIsFinal DEF Inv, Typed, TypeOK
<1>1. CASE WriteIntent(s)
  <2>1. /\ stage[s] = "plan" /\ \A phase : phase # "INTENT" =>
             (<<s, phase>> \in journal' => <<s, phase>> \in journal)
        /\ \/ pc'[s] = "done" /\ stage'[s] = "plan"
           \/ <<s, "INTENT">> \in journal' /\ stage'[s] = "prepare"
    BY <1>1, <1>t DEF WriteIntent, Phase, Publish, Exit
  <2> QED BY <1>t, <2>1 DEF Records
<1>2. CASE Finish(s)
  <2>1. /\ stage[s] \in {"prepare", "push"} /\ stage' = stage /\ pc'[s] = "done"
        /\ journal \subseteq journal'
    BY <1>2, <1>t DEF Finish, Phase, Publish, Exit
  <2> QED BY <1>t, <2>1 DEF Records
<1>3. CASE UNCHANGED journal /\ (StartDryRun(s) \/ CommitCandidates(s))
  <2>1. \/ stage'[s] = "dryrun"
        \/ stage[s] \in {"prepare", "push"} /\ stage'[s] \in {"prepare", "push"}
    BY <1>3, <1>t DEF StartDryRun, CommitCandidates, Phase
  <2> QED BY <1>3, <1>t, <2>1 DEF Records
<1>4. CASE UNCHANGED <<journal, stage>>
  BY <1>4, <1>t DEF Records
<1> QED BY <1>1, <1>2, <1>3, <1>4, Frame

------------------------------------------------------------------------------
(* Invariance                                                              *)

\* The invariant holds before the first session.
LEMMA InitInv == Init => Inv
<1> SUFFICES ASSUME Init PROVE Inv
  OBVIOUS
<1>0. 1 \in Repos /\ DOMAIN NoPlan = {} /\ IsPlan(NoPlan) /\ IsFunction(NoPlan)
  BY NoPlanIsEmpty, ReadmeAssumption DEF Repos
<1>1. ASSUME NEW t \in Texts PROVE Root(t) \in Commits /\ Root(t) # <<>>
  <2> DEFINE e == [readme |-> t, by |-> User]
  <2>1. e \in Change
    BY DEF Change
  <2> HIDE DEF e
  <2>2. <<e>> \in Seq(Change) /\ <<e>> # <<>>
    BY <2>1
  <2> QED BY <2>2 DEF Root, Commits, e
<1>e. <<>> \in Commits
  BY DEF Commits
<1>2. /\ tip \in [Repos -> [Branches -> Commits]]
      /\ \A r \in Repos, b \in Branches : tip[r][b] # <<>>
  <2>1. PICK t \in [Repos -> Texts] : tip = [r \in Repos |-> [b \in Branches |-> Root(t[r])]]
    BY DEF Init
  <2> QED BY <2>1, <1>1
<1>3. /\ cacheTip \in [Repos -> [Branches -> Commits]] /\ cacheHead = [r \in Repos |-> NoBranch]
  BY <1>e DEF Init
<1>4. \A s \in Sessions :
        /\ pc[s] = "idle" /\ cur[s] = 1 /\ stage[s] = "plan" /\ err[s] = "none" /\ exit[s] = -1
        /\ seen[s] = [branch |-> NoBranch, base |-> <<>>] /\ plan[s] = NoPlan
        /\ candidate[s] = NoPlan /\ \A r \in Repos : attempt[s][r] = "none"
  BY DEF Init
<1>5. TypeOK
  <2>1. \A r \in Repos, b \in Branches : IsCommit(tip[r][b]) /\ IsCommit(cacheTip[r][b])
    BY <1>2, <1>3 DEF IsCommit, Commits
  <2>2. /\ head \in [Repos -> Branches] /\ cacheHead \in [Repos -> Branches \cup {NoBranch}]
        /\ journal \subseteq Sessions \X {"INTENT", "RESULT"} /\ cur \in [Sessions -> Repos]
        /\ stage \in [Sessions -> {"plan", "dryrun", "prepare", "push"}]
        /\ attempt \in [Sessions -> [Repos -> {"none", "pushed", "failed"}]]
        /\ err \in [Sessions -> {"none", "stale", "failed"}]
        /\ exit \in [Sessions -> {-1, 0, 1, 2}]
    BY <1>0 DEF Init
  <2> QED BY <2>1, <2>2, <1>0, <1>4 DEF TypeOK
<1>6. Typed
  <2>1. pc \in [Sessions -> Steps]
    BY DEF Init, Steps
  <2>2. DOMAIN seen = Sessions /\ DOMAIN plan = Sessions /\ DOMAIN candidate = Sessions /\ plans = {}
    BY DEF Init
  <2>f. \A r \in Repos : cacheHead[r] = NoBranch /\ \A b \in Branches : cacheTip[r][b] = <<>>
    BY DEF Init
  <2> QED BY <2>1, <2>2, <1>0, <1>2, <1>3, <1>4, <1>5, <1>e, <2>f DEF Typed
<1>7. \A s \in Sessions : Phase(s) /\ Prepared(s) /\ Records(s)
  <2>1. journal = {}
    BY DEF Init
  <2> QED BY <2>1, <1>4 DEF Phase, Prepared, Records, Observing, Untried
<1>8. Updates /\ Kept
  BY <1>4 DEF Init, Updates, Kept
<1> QED BY <1>6, <1>7, <1>8 DEF Inv

\* Every update keeps being the one its session attempted, and no other appears.
LEMMA UpdatesStep ==
  ASSUME Inv, Next
  PROVE  Updates'
<1>1. ASSUME NEW u, IsUpdate(u) PROVE IsUpdate(u)'
  <2>1. u.s \in Sessions /\ u.r \in Repos /\ attempt[u.s][u.r] # "none" /\ u.r \in DOMAIN plan[u.s]
    BY <1>1, UpdateIsChild DEF IsUpdate
  <2>2. attempt'[u.s][u.r] = attempt[u.s][u.r] /\ plan'[u.s] = plan[u.s] /\ candidate'[u.s] = candidate[u.s]
    BY <2>1, Settled
  <2> QED BY <1>1, <2>1, <2>2 DEF IsUpdate
<1>2. \A u \in landed \cup inflight : IsUpdate(u) /\ IsUpdate(u)'
  BY <1>1 DEF Inv, Updates
<1>3. ASSUME NEW s \in Sessions, pc[s] = "push", NEW how \in {"pushed", "failed"}, Attempted(s, how),
             plan' = plan, candidate' = candidate, NEW u, u = Update(s)
      PROVE  IsUpdate(u)'
  <2>1. /\ cur[s] \in DOMAIN plan[s] /\ cur[s] \in Repos
        /\ attempt \in [Sessions -> [Repos -> {"none", "pushed", "failed"}]]
    BY <1>3, PushesChild DEF Inv, Typed, TypeOK
  <2>2. attempt'[s][cur[s]] # "none"
    BY <1>3, <2>1 DEF Attempted
  <2> QED BY <1>3, <2>1, <2>2 DEF IsUpdate, Update
<1>4. ASSUME NEW u, u = [s |-> u.s, r |-> u.r, b |-> u.b, over |-> u.over, new |-> u.new],
             LeaseHolds(u), Land(u)
      PROVE  landed' = landed \cup {u}
  <2>1. [u EXCEPT !.over = u.over] = u
    BY <1>4
  <2> QED BY <1>4, <2>1 DEF LeaseHolds, Land
<1>5. ASSUME NEW s \in Sessions
      PROVE  Update(s) = [s |-> Update(s).s, r |-> Update(s).r, b |-> Update(s).b,
                          over |-> Update(s).over, new |-> Update(s).new]
  BY DEF Update
<1>6. ASSUME NEW s \in Sessions, SessionStep(s) PROVE Updates'
  <2>1. CASE Push(s)
    <3>1. /\ pc[s] = "push" /\ Attempted(s, "pushed") /\ plan' = plan /\ candidate' = candidate
      BY <2>1 DEF Push
    <3>u. PICK u : u = Update(s)
      OBVIOUS
    <3>2. landed' \cup inflight' \subseteq landed \cup inflight \cup {u}
      BY <2>1, <1>4, <1>5, <3>u DEF Push
    <3> QED BY <1>2, <1>3, <3>1, <3>2, <3>u DEF Updates
  <2>2. CASE PushTimesOut(s)
    <3>1. pc[s] = "push" /\ Attempted(s, "failed") /\ plan' = plan /\ candidate' = candidate
      BY <2>2 DEF PushTimesOut
    <3>u. PICK u : u = Update(s)
      OBVIOUS
    <3>2. landed' \cup inflight' \subseteq landed \cup inflight \cup {u}
      BY <2>2, <1>4, <1>5, <3>u DEF PushTimesOut, Unanswered
    <3> QED BY <1>2, <1>3, <3>1, <3>2, <3>u DEF Updates
  <2>3. CASE UNCHANGED <<tip, landed, inflight>>
    BY <1>2, <2>3 DEF Updates
  <2> QED BY <1>6, <2>1, <2>2, <2>3, Frame
<1>7. CASE Environment
  <2>1. ASSUME NEW u \in inflight, UpdateArrives(u) PROVE landed' \cup inflight' \subseteq landed \cup inflight
    <3>1. u = [s |-> u.s, r |-> u.r, b |-> u.b, over |-> u.over, new |-> u.new]
      BY <1>2 DEF IsUpdate
    <3> QED BY <2>1, <3>1, <1>4 DEF UpdateArrives
  <2>3. landed' \cup inflight' \subseteq landed \cup inflight
    BY <2>1, <1>7 DEF Environment, UserCommits, UserSetsDefault, OtherFetch, OtherSetHead
  <2> QED BY <1>2, <2>3 DEF Updates
<1> QED BY <1>6, <1>7 DEF Next, SessionStep

\* What was pushed stays in the history of its branch.
LEMMA KeptStep ==
  ASSUME Inv, Next, Updates'
  PROVE  Kept'
<1> SUFFICES ASSUME NEW s \in Sessions, NEW r \in Repos, attempt'[s][r] = "pushed"
             PROVE  IsPrefix(candidate'[s][r], tip'[r][plan'[s][r].branch])
  BY DEF Kept
<1>t. Typed /\ Phase(s) /\ Prepared(s) /\ Grows
  BY TipsGrow DEF Inv
<1>1. CASE attempt[s][r] = "pushed"
  <2>1. /\ attempt[s][r] # "none" /\ plan'[s] = plan[s] /\ candidate'[s] = candidate[s]
    BY <1>1, Settled
  <2>2. stage[s] = "push" /\ r \in DOMAIN plan[s]
    BY <1>t, <2>1 DEF Phase, Untried
  <2>3. plan[s][r].branch \in Branches /\ candidate[s][r] \in Seq(Change)
    BY <1>t, <2>2, Child DEF Commits
  <2> DEFINE c == candidate[s][r]
             t == tip[r][plan[s][r].branch]
             n == tip'[r][plan[s][r].branch]
  <2>4. IsPrefix(c, t) /\ IsPrefix(t, n)
    BY <1>1, <1>t, <2>3 DEF Inv, Kept, Grows
  <2>5. t \in Seq(Change) /\ n \in Seq(Change)
    BY <1>t, <2>3 DEF Typed, Grows, Commits
  <2>6. IsPrefix(c, n)
    BY <2>3, <2>4, <2>5, PrefixIsTransitive
  <2> QED BY <2>1, <2>6
<1>2. CASE attempt[s][r] # "pushed"
  <2>1. PICK q \in Sessions : SessionStep(q)
    BY <1>2 DEF Next, SessionStep, Environment, UserCommits, UserSetsDefault, OtherFetch,
       OtherSetHead, UpdateArrives
  <2>2. q = s
    BY <1>2, <2>1, OthersUntouched DEF Same
  <2>d. attempt \in [Sessions -> [Repos -> {"none", "pushed", "failed"}]]
    BY <1>t DEF Typed, TypeOK
  <2>3. Push(s) /\ r = cur[s]
    <3>1. Attempted(s, "pushed") \/ Attempted(s, "failed") \/ attempt' = attempt
      BY <2>1, <2>2, Frame DEF Push, PushRejected, PushTimesOut
    <3>2. attempt' # attempt /\ ~Attempted(s, "failed")
      BY <1>2, <2>d DEF Attempted
    <3>3. r = cur[s]
      BY <1>2, <2>d, <3>1, <3>2 DEF Attempted
    <3> QED BY <2>1, <2>2, <3>2, <3>3, Frame DEF PushRejected, PushTimesOut
  <2>4. /\ pc[s] = "push" /\ plan' = plan /\ candidate' = candidate
        /\ \/ LeaseHolds(Update(s)) /\ Land(Update(s))
           \/ tip[Update(s).r][Update(s).b] = Update(s).new /\ UNCHANGED tip
    BY <2>3 DEF Push
  <2> DEFINE u == Update(s)
  <2>5. /\ u.r = r /\ u.b = plan[s][r].branch /\ u.new = candidate[s][r] /\ u.b \in Branches
        /\ u.over \in Commits /\ u.new \in Commits /\ u.new # <<>> /\ IsPrefix(u.over, u.new)
    BY <2>3, <2>4, PushesChild
  <2> HIDE DEF u
  <2>6. tip'[u.r][u.b] = u.new
    <3>1. CASE LeaseHolds(u) /\ Land(u)
      BY <3>1, <2>5, Landing
    <3> QED BY <2>4, <3>1 DEF u
  <2>7. IsPrefix(u.new, u.new)
    BY <2>5, PrefixIsReflexive DEF Commits
  <2> QED BY <2>4, <2>5, <2>6, <2>7
<1> QED BY <1>1, <1>2

\* What a session has done stays true while others move.
LEMMA SameKeeps ==
  ASSUME NEW q \in Sessions, Same(q), Phase(q), Prepared(q), Records(q)
  PROVE  Phase(q)' /\ Prepared(q)' /\ Records(q)'
<1>1. Phase(q)'
  BY DEF Same, Phase, Untried, Complete
<1>2. Prepared(q)'
  BY DEF Same, Prepared
<1>3. Records(q)'
  BY DEF Same, Records
<1> QED BY <1>1, <1>2, <1>3

\* What others do, and updates that arrive late, disturb no session's state.
LEMMA EnvironmentStep ==
  ASSUME Inv, Environment
  PROVE  Typed' /\ \A q \in Sessions : Phase(q)' /\ Prepared(q)' /\ Records(q)'
<1>t. Typed /\ TypeOK /\ \A q \in Sessions : Phase(q) /\ Prepared(q) /\ Records(q)
  BY DEF Inv, Typed
<1>u. UNCHANGED sessionVars
  BY DEF Environment, UserCommits, UserSetsDefault, OtherFetch, OtherSetHead, UpdateArrives
<1>g. Grows
  BY TipsGrow DEF Next
<1>h. head' \in [Repos -> Branches]
  <2>1. ASSUME NEW r \in Repos, NEW b \in Branches, UserSetsDefault(r, b) PROVE head' \in [Repos -> Branches]
    BY <2>1, <1>t DEF UserSetsDefault, TypeOK
  <2>2. head' = head \/ \E r \in Repos, b \in Branches : UserSetsDefault(r, b)
    BY DEF Environment, UserCommits, OtherFetch, OtherSetHead, UpdateArrives
  <2>3. head \in [Repos -> Branches]
    BY <1>t DEF TypeOK
  <2> QED BY <2>1, <2>2, <2>3
<1>c. /\ cacheTip' \in [Repos -> [Branches -> Commits]]
      /\ \A r \in Repos : Fetched(r) => Fetched(r)'
      /\ \A r \in Repos : (\E b \in Branches : cacheTip'[r][b] # <<>>) => Fetched(r)'
  <2>1. ASSUME NEW r \in Repos, OtherFetch(r)
        PROVE  /\ cacheTip' \in [Repos -> [Branches -> Commits]]
               /\ \A q \in Repos : cacheTip'[q] = IF q = r THEN tip[r] ELSE cacheTip[q]
    BY <2>1, <1>t DEF OtherFetch, Typed
  <2>2. cacheTip' = cacheTip \/ \E r \in Repos : OtherFetch(r)
    BY DEF Environment, UserCommits, UserSetsDefault, OtherSetHead, UpdateArrives
  <2>3. /\ cacheTip \in [Repos -> [Branches -> Commits]]
        /\ \A r \in Repos, b \in Branches : tip[r][b] # <<>>
        /\ \A r \in Repos : (\E b \in Branches : cacheTip[r][b] # <<>>) => Fetched(r)
    BY <1>t DEF Typed
  <2>4. CASE cacheTip' = cacheTip
    BY <2>3, <2>4 DEF Fetched
  <2>5. ASSUME NEW r \in Repos, OtherFetch(r)
        PROVE  /\ \A q \in Repos : Fetched(q) => Fetched(q)'
               /\ \A q \in Repos : (\E b \in Branches : cacheTip'[q][b] # <<>>) => Fetched(q)'
    <3>1. \A q \in Repos : cacheTip'[q] = IF q = r THEN tip[r] ELSE cacheTip[q]
      BY <2>1, <2>5
    <3>2. \A q \in Repos : Fetched(q) => Fetched(q)'
      BY <3>1, <2>3 DEF Fetched
    <3>3. \A q \in Repos : (\E b \in Branches : cacheTip'[q][b] # <<>>) => Fetched(q)'
      BY <3>1, <2>3 DEF Fetched
    <3> QED BY <3>2, <3>3
  <2> QED BY <2>1, <2>2, <2>4, <2>5
<1>d. /\ cacheHead' \in [Repos -> Branches \cup {NoBranch}]
      /\ \A r \in Repos : cacheHead'[r] = cacheHead[r]
           \/ (cacheHead'[r] # NoBranch /\ Fetched(r))
  <2>1. ASSUME NEW r \in Repos, OtherSetHead(r)
        PROVE  /\ cacheHead' \in [Repos -> Branches \cup {NoBranch}]
               /\ \A q \in Repos : cacheHead'[q] = IF q = r THEN head[r] ELSE cacheHead[q]
               /\ Fetched(r) /\ head[r] # NoBranch
    BY <2>1, <1>t, ReadmeAssumption DEF OtherSetHead, TypeOK, Typed
  <2>2. cacheHead' = cacheHead \/ \E r \in Repos : OtherSetHead(r)
    BY DEF Environment, UserCommits, UserSetsDefault, OtherFetch, UpdateArrives
  <2>3. cacheHead \in [Repos -> Branches \cup {NoBranch}]
    BY <1>t DEF TypeOK
  <2>4. CASE cacheHead' = cacheHead
    BY <2>3, <2>4
  <2> QED BY <2>1, <2>2, <2>4
<1>1. TypeOK'
  <2>1. \A r \in Repos, b \in Branches : IsCommit(tip'[r][b]) /\ IsCommit(cacheTip'[r][b])
    BY <1>g, <1>c DEF Grows, IsCommit, Commits
  <2> QED BY <2>1, <1>t, <1>u, <1>h, <1>d DEF TypeOK
<1>2. Typed'
  <2>1. /\ pc' = pc /\ cur' = cur /\ seen' = seen /\ plan' = plan /\ candidate' = candidate
        /\ plans' = plans
    BY <1>u
  <2>2. /\ \A p \in plans : \A r \in DOMAIN p : Fetched(r)'
        /\ \A s \in Sessions : \A r \in DOMAIN plan[s] : Fetched(r)'
    BY <1>t, <1>c DEF Typed, TypeOK, IsPlan
  <2>3. \A r \in Repos : cacheHead'[r] # NoBranch => Fetched(r)'
    BY <1>t, <1>c, <1>d DEF Typed
  <2>4. \A s \in Sessions :
          /\ pc[s] = "head" => Fetched(cur[s])'
          /\ pc[s] \in {"branch", "base", "content"} => cacheHead'[cur[s]] # NoBranch
          /\ pc[s] \in {"base", "content"} => seen[s].branch # NoBranch
    <3>1. \A s \in Sessions : cur[s] \in Repos
      BY <1>t DEF TypeOK
    <3>2. \A s \in Sessions : pc[s] = "head" => Fetched(cur[s])'
      <4>1. \A s \in Sessions : Fetched(cur[s]) => Fetched(cur[s])'
        BY <3>1, <1>c, <2>1 DEF Fetched
      <4> QED BY <4>1, <1>t DEF Typed
    <3> QED BY <3>1, <3>2, <1>d, <1>t DEF Typed
  <2>5. \A s \in Sessions : pc[s] = "head" => (Fetched(cur[s]))'
    BY <2>4
  <2> QED BY <2>1, <2>2, <2>3, <2>4, <2>5, <1>1, <1>c, <1>g, <1>t DEF Typed, Grows
<1>3. ASSUME NEW q \in Sessions PROVE Phase(q)' /\ Prepared(q)' /\ Records(q)'
  <2>1. Same(q)
    BY <1>u DEF Same
  <2> QED BY <1>t, <2>1, SameKeeps
<1> QED BY <1>2, <1>3

\* The invariant is inductive.
LEMMA InvStep == Inv /\ [Next]_vars => Inv'
<1> SUFFICES ASSUME Inv, [Next]_vars PROVE Inv'
  OBVIOUS
<1>1. CASE Next
  <2>1. Updates' /\ Kept'
    BY <1>1, UpdatesStep, KeptStep
  <2>2. ASSUME NEW s \in Sessions, SessionStep(s)
        PROVE  Typed' /\ \A q \in Sessions : Phase(q)' /\ Prepared(q)' /\ Records(q)'
    <3>1. Typed' /\ Phase(s)' /\ Prepared(s)' /\ Records(s)'
      BY <2>2, TypedStep, PhaseStep, PreparedStep, RecordsStep
    <3>2. ASSUME NEW q \in Sessions, q # s PROVE Phase(q)' /\ Prepared(q)' /\ Records(q)'
      <4>1. Same(q) /\ Phase(q) /\ Prepared(q) /\ Records(q)
        BY <2>2, <3>2, OthersUntouched DEF Inv
      <4> QED BY <4>1, SameKeeps
    <3> QED BY <3>1, <3>2
  <2> QED BY <1>1, <2>1, <2>2, EnvironmentStep DEF Next, SessionStep, Inv
<1>2. CASE UNCHANGED vars
  <2>1. Typed'
    BY <1>2 DEF vars, Inv, Typed, TypeOK, Fetched
  <2>2. Updates' /\ Kept'
    BY <1>2 DEF vars, Inv, Updates, IsUpdate, Kept
  <2>3. ASSUME NEW q \in Sessions PROVE Phase(q)' /\ Prepared(q)' /\ Records(q)'
    <3>1. Same(q) /\ Phase(q) /\ Prepared(q) /\ Records(q)
      BY <1>2 DEF vars, Inv, Same
    <3> QED BY <3>1, SameKeeps
  <2> QED BY <2>1, <2>2, <2>3 DEF Inv
<1> QED BY <1>1, <1>2

\* Inv holds of every state the sessions and their environment reach.
THEOREM Invariance == Spec => []Inv
BY InitInv, InvStep, PTL DEF Spec

\* Every variable keeps its type; a plan names real branches and wants a change.
THEOREM TypeCorrect == Spec => []TypeOK
<1>1. Inv => TypeOK
  BY DEF Inv, Typed
<1> QED BY <1>1, Invariance, PTL

\* Whatever others commit and whenever a push lands, it puts the reviewed text
\* on top of the reviewed base and of nothing else.
THEOREM NothingForeignIsLost == Spec => []ReviewedBaseOnly
<1>1. Inv => ReviewedBaseOnly
  <2> SUFFICES ASSUME Inv, NEW u \in landed
               PROVE  /\ u.over = plan[u.s][u.r].base /\ Front(u.new) = u.over
                      /\ Readme(u.new) = plan[u.s][u.r].desired
    BY DEF ReviewedBaseOnly
  <2>1. IsUpdate(u)
    BY DEF Inv, Updates
  <2> QED BY <2>1, UpdateIsChild
<1> QED BY <1>1, Invariance, PTL

\* A session without an attempt has no update that landed or could still land.
LEMMA UntriedHasNoUpdate ==
  ASSUME Inv, NEW s \in Sessions, NEW r \in Repos, attempt[s][r] = "none",
         NEW u \in landed \cup inflight
  PROVE  ~ (u.s = s /\ u.r = r)
BY DEF Inv, Updates, IsUpdate

\* What the outcome of a repository says about its attempt.
LEMMA OutcomeOfAttempt ==
  ASSUME NEW s \in Sessions, NEW r, attempt[s][r] \in {"none", "pushed", "failed"}
  PROVE  /\ RepositoryOutcome(s, r) = "APPLIED" <=> attempt[s][r] = "pushed"
         /\ RepositoryOutcome(s, r) \in {"SKIPPED", "STALE"} => attempt[s][r] = "none"
         /\ attempt[s][r] = "none" /\ Overall(s) = "STALE" => RepositoryOutcome(s, r) = "STALE"
<1>1. CASE attempt[s][r] = "pushed"
  BY <1>1 DEF RepositoryOutcome
<1>2. CASE attempt[s][r] = "failed"
  BY <1>2 DEF RepositoryOutcome
<1>3. CASE attempt[s][r] = "none"
  <2>1. CASE Overall(s) = "STALE"
    BY <1>3, <2>1 DEF RepositoryOutcome
  <2>2. CASE Overall(s) # "STALE" /\ r \in DOMAIN candidate[s]
    BY <1>3, <2>2 DEF RepositoryOutcome
  <2>3. CASE Overall(s) # "STALE" /\ r \notin DOMAIN candidate[s]
    BY <1>3, <2>3 DEF RepositoryOutcome
  <2> QED BY <1>3, <2>1, <2>2, <2>3
<1> QED BY <1>1, <1>2, <1>3

\* The RESULT record never denies a change and never claims one that is not there.
THEOREM EvidenceHonest == Spec => []EvidenceIsHonest
<1>1. Inv => EvidenceIsHonest
  <2> SUFFICES ASSUME Inv, NEW s \in Sessions, NEW r \in DOMAIN plan[s]
               PROVE  /\ RepositoryOutcome(s, r) \in {"SKIPPED", "STALE"} =>
                           \A u \in landed \cup inflight : ~(u.s = s /\ u.r = r)
                      /\ RepositoryOutcome(s, r) = "APPLIED" =>
                           IsPrefix(candidate[s][r], tip[r][plan[s][r].branch])
    BY DEF EvidenceIsHonest
  <2>1. r \in Repos /\ attempt[s][r] \in {"none", "pushed", "failed"}
    BY SelectedRepositories DEF Inv, Typed, TypeOK
  <2>2. RepositoryOutcome(s, r) \in {"SKIPPED", "STALE"} => attempt[s][r] = "none"
    BY <2>1, OutcomeOfAttempt
  <2>3. RepositoryOutcome(s, r) = "APPLIED" => attempt[s][r] = "pushed"
    BY <2>1, OutcomeOfAttempt
  <2> QED BY <2>1, <2>2, <2>3, UntriedHasNoUpdate DEF Inv, Kept
<1> QED BY <1>1, Invariance, PTL

\* The record's validation accepts every RESULT that Execute builds.
THEOREM ResultRecordable == Spec => []ResultIsRecordable
<1>1. Inv => ResultIsRecordable
  <2> SUFFICES ASSUME Inv, NEW s \in Sessions, pc[s] = "finish"
               PROVE  ValidResult(s)
    BY DEF ResultIsRecordable
  <2>1. /\ Phase(s) /\ Prepared(s) /\ DOMAIN plan[s] \subseteq Repos
        /\ err[s] \in {"none", "stale", "failed"}
        /\ \A r \in Repos : attempt[s][r] \in {"none", "pushed", "failed"}
    BY SelectedRepositories DEF Inv, Typed, TypeOK
  <2>2. \A r \in DOMAIN plan[s] : RepositoryOutcome(s, r) = "APPLIED" <=> attempt[s][r] = "pushed"
    BY <2>1, OutcomeOfAttempt
  <2>3. Overall(s) = "APPLIED" => \A r \in DOMAIN plan[s] : RepositoryOutcome(s, r) = "APPLIED"
    BY <2>1, <2>2 DEF Overall, Phase, Complete
  <2>4. Overall(s) = "STALE" => \A r \in DOMAIN plan[s] : RepositoryOutcome(s, r) = "STALE"
    BY <2>1, OutcomeOfAttempt DEF Overall, Phase, Untried
  <2>5. Overall(s) = "FAILED" => ~ \A r \in DOMAIN plan[s] : RepositoryOutcome(s, r) = "APPLIED"
    BY <2>1, <2>2 DEF Overall, Phase, Complete
  <2>6. \A r \in DOMAIN plan[s] :
          RepositoryOutcome(s, r) = "APPLIED" => r \in DOMAIN candidate[s]
    BY <2>1, <2>2 DEF Phase, Untried, Prepared
  <2> QED BY <2>3, <2>4, <2>5, <2>6 DEF ValidResult
<1> QED BY <1>1, Invariance, PTL

\* A session that exits 2 changed nothing and will change nothing.
THEOREM StaleIsHarmless == Spec => []StaleChangesNothing
<1>1. Inv => StaleChangesNothing
  <2> SUFFICES ASSUME Inv, NEW s \in Sessions, exit[s] = 2, NEW u \in landed \cup inflight, u.s = s
               PROVE  FALSE
    BY DEF StaleChangesNothing
  <2>1. IsUpdate(u)
    BY DEF Inv, Updates
  <2>2. u.r \in Repos /\ attempt[s][u.r] # "none"
    BY <2>1, UpdateIsChild DEF IsUpdate
  <2> QED BY <2>2 DEF Inv, Phase, Untried
<1> QED BY <1>1, Invariance, PTL

\* Exit status 0 of a real apply is earned: every repository took the change and
\* both records are there.
THEOREM SuccessComplete == Spec => []SuccessIsComplete
<1>1. Inv => SuccessIsComplete
  BY DEF Inv, SuccessIsComplete, Phase, Records, Complete
<1> QED BY <1>1, Invariance, PTL

------------------------------------------------------------------------------
(* Refinement: every step is a step or a stutter of AuditedExecution.      *)

\* An attempted push is an attempt of the abstract execution.
LEMMA AttemptRefines ==
  ASSUME Inv, NEW s \in Sessions, pc[s] = "push", NEW how \in {"pushed", "failed"},
         Attempted(s, how), journal' = journal
  PROVE  Audited!Attempt(s, cur[s]) /\ cur[s] \in Repos
<1>1. /\ cur[s] \in Repos /\ attempt[s][cur[s]] = "none" /\ stage[s] = "push"
      /\ attempt \in [Sessions -> [Repos -> {"none", "pushed", "failed"}]]
  BY PushesChild DEF Inv, Typed, TypeOK
<1>2. <<s, "INTENT">> \in journal /\ <<s, "RESULT">> \notin journal
  BY <1>1 DEF Inv, Records
<1>3. /\ \A q \in Sessions, r \in Repos :
           attempt'[q][r] = IF q = s /\ r = cur[s] THEN how ELSE attempt[q][r]
  BY <1>1 DEF Attempted
<1>4. Tried' = Tried \cup {<<s, cur[s]>>}
  BY <1>1, <1>3 DEF Tried
<1>5. <<s, cur[s]>> \notin Tried
  BY <1>1 DEF Tried
<1> QED BY <1>1, <1>2, <1>4, <1>5 DEF Audited!Attempt

\* Every step is a step of the abstract execution, or a stutter.
LEMMA StepRefines ==
  ASSUME Inv, [Next]_vars
  PROVE  [Audited!Next]_<<journal, Tried>>
<1>1. ASSUME NEW s \in Sessions, SessionStep(s)
      PROVE  Audited!Next \/ UNCHANGED <<journal, Tried>>
  <2>1. CASE Push(s) \/ PushRejected(s) \/ PushTimesOut(s)
    <3>1. /\ pc[s] = "push" /\ journal' = journal
          /\ Attempted(s, "pushed") \/ Attempted(s, "failed")
      BY <2>1 DEF Push, PushRejected, PushTimesOut
    <3>2. Audited!Attempt(s, cur[s]) /\ cur[s] \in Repos
      BY <3>1, AttemptRefines
    <3> QED BY <3>2 DEF Audited!Next
  <2>2. CASE WriteIntent(s)
    <3>1. Tried' = Tried
      BY <2>2 DEF WriteIntent, Tried
    <3>2. <<s, "INTENT">> \notin journal
      BY <2>2 DEF WriteIntent, Inv, Phase, Records
    <3>3. journal' = journal \/ Publish(s, "INTENT")
      BY <2>2 DEF WriteIntent
    <3> QED BY <3>1, <3>2, <3>3 DEF Publish, Audited!WriteIntent, Audited!Next
  <2>3. CASE Finish(s)
    <3>1. Tried' = Tried
      BY <2>3 DEF Finish, Tried
    <3>2. <<s, "INTENT">> \in journal /\ <<s, "RESULT">> \notin journal
      BY <2>3 DEF Finish, Inv, Phase, Records
    <3>3. journal' = journal \/ Publish(s, "RESULT")
      BY <2>3 DEF Finish
    <3> QED BY <3>1, <3>2, <3>3 DEF Publish, Audited!WriteResult, Audited!Next
  <2>4. CASE UNCHANGED <<journal, attempt>>
    BY <2>4 DEF Tried
  <2> QED BY <1>1, <2>1, <2>2, <2>3, <2>4, Frame
<1>2. CASE Environment
  BY <1>2 DEF Environment, UserCommits, UserSetsDefault, OtherFetch, OtherSetHead,
     UpdateArrives, Tried
<1>3. CASE UNCHANGED vars
  BY <1>3 DEF vars, Tried
<1> QED BY <1>1, <1>2, <1>3 DEF Next, SessionStep

\* apply-readme implements the audit promise: each repository is attempted at
\* most once, between the INTENT and the RESULT record.
THEOREM ApplyIsAudited == Spec => AuditedSpec
<1>1. Init => Audited!Init
  BY DEF Init, Audited!Init, Tried
<1>2. Spec => Audited!Init /\ [][Audited!Next]_<<journal, Tried>>
  BY <1>1, StepRefines, Invariance, PTL DEF Spec
<1> QED BY <1>2 DEF AuditedSpec, Audited!Spec

------------------------------------------------------------------------------
(***************************************************************************)
(* While nobody changes the default branch, an update replaces the README  *)
(* text its operator reviewed, although the branch, the base commit and    *)
(* the text of an observation are three reads of a cache that every other  *)
(* command refreshes: the text is that of some commit between the base and *)
(* the tip, and the lease admits only the base as the tip.                 *)
(***************************************************************************)
\* The cache follows the canonical repository and its default branch.
Follows ==
  /\ \A r \in Repos, b \in Branches : IsPrefix(cacheTip[r][b], tip[r][b])
  /\ \A r \in Repos \ switched : cacheHead[r] \in {NoBranch, head[r]}

\* What an observation has read so far is of the default branch, and its base is
\* in the history of what the cache holds.
Observed(s) ==
  cur[s] \notin switched =>
  /\ pc[s] \in {"base", "content"} => seen[s].branch = head[cur[s]]
  /\ pc[s] = "content" => IsPrefix(seen[s].base, cacheTip[cur[s]][head[cur[s]]])

\* The text of a reviewed action is that of a commit at or after its base.
Reviewed(r, a) ==
  /\ a.branch = head[r]
  /\ \E c \in Commits : /\ c # <<>> /\ IsPrefix(a.base, c) /\ IsPrefix(c, tip[r][head[r]])
                        /\ Readme(c) = a.observed

AllReviewed ==
  /\ \A p \in plans : \A r \in DOMAIN p \ switched : Reviewed(r, p[r])
  /\ \A s \in Sessions : \A r \in DOMAIN plan[s] \ switched : Reviewed(r, plan[s][r])

DefaultInv == Follows /\ (\A s \in Sessions : Observed(s)) /\ AllReviewed /\ ReviewedTextOnly

------------------------------------------------------------------------------
\* A repository whose default branch was never changed keeps it in this step.
LEMMA DefaultStays ==
  ASSUME Inv, Next, NEW r \in Repos, r \notin switched'
  PROVE  r \notin switched /\ head'[r] = head[r]
<1>1. ASSUME NEW s \in Sessions, SessionStep(s) PROVE switched' = switched /\ head' = head
  BY <1>1, Frame
<1>2. CASE Environment
  <2>1. ASSUME NEW q \in Repos, NEW b \in Branches, UserSetsDefault(q, b)
        PROVE  r \notin switched /\ head'[r] = head[r]
    BY <2>1 DEF UserSetsDefault, Inv, Typed, TypeOK
  <2>2. UNCHANGED <<switched, head>> \/ \E q \in Repos, b \in Branches : UserSetsDefault(q, b)
    BY <1>2 DEF Environment, UserCommits, OtherFetch, OtherSetHead, UpdateArrives
  <2> QED BY <2>1, <2>2
<1> QED BY <1>1, <1>2 DEF Next, SessionStep

\* The cache only moves forward, and never past the canonical repository.
LEMMA CacheFollows ==
  ASSUME Inv, Next, \A r \in Repos, b \in Branches : IsPrefix(cacheTip[r][b], tip[r][b])
  PROVE  \A r \in Repos, b \in Branches :
           IsPrefix(cacheTip[r][b], cacheTip'[r][b]) /\ IsPrefix(cacheTip'[r][b], tip'[r][b])
<1> SUFFICES ASSUME NEW r \in Repos, NEW b \in Branches
             PROVE  IsPrefix(cacheTip[r][b], cacheTip'[r][b]) /\ IsPrefix(cacheTip'[r][b], tip'[r][b])
  OBVIOUS
<1>g. Grows /\ Typed
  BY TipsGrow DEF Inv
<1> DEFINE c == cacheTip[r][b]
           t == tip[r][b]
           n == tip'[r][b]
<1>1. c \in Seq(Change) /\ t \in Seq(Change) /\ n \in Seq(Change) /\ IsPrefix(c, t) /\ IsPrefix(t, n)
  BY <1>g DEF Grows, Typed, Commits
<1>2. IsPrefix(c, c) /\ IsPrefix(c, n) /\ IsPrefix(n, n)
  BY <1>1, PrefixIsReflexive, PrefixIsTransitive
<1>3. CASE cacheTip'[r][b] = c \/ cacheTip'[r][b] = n \/ (cacheTip'[r][b] = t)
  BY <1>1, <1>2, <1>3
<1>4. ASSUME NEW s \in Sessions, SessionStep(s)
      PROVE  cacheTip'[r][b] = c \/ cacheTip'[r][b] = n \/ cacheTip'[r][b] = t
  <2>t. cacheTip \in [Repos -> [Branches -> Commits]]
    BY <1>g DEF Typed
  <2>1. CASE Fetch(s)
    BY <2>t, <2>1 DEF Fetch
  <2>2. CASE Push(s)
    <3> DEFINE u == Update(s)
    <3>1. /\ pc[s] = "push" /\ cacheTip' = [cacheTip EXCEPT ![u.r][u.b] = u.new]
          /\ \/ LeaseHolds(u) /\ Land(u)
             \/ tip[u.r][u.b] = u.new /\ UNCHANGED tip
      BY <2>2 DEF Push, Track
    <3>2. /\ u.r \in Repos /\ u.b \in Branches /\ u.new \in Commits /\ u.over \in Commits
          /\ u.new # <<>> /\ IsPrefix(u.over, u.new)
      BY <3>1, PushesChild
    <3> HIDE DEF u
    <3>3. cacheTip'[r][b] = IF r = u.r /\ b = u.b THEN u.new ELSE c
      BY <2>t, <3>1, <3>2, ReplacedTwice
    <3>4. tip'[u.r][u.b] = u.new
      <4>1. CASE LeaseHolds(u) /\ Land(u)
        BY <4>1, <3>2, Landing
      <4> QED BY <3>1, <4>1
    <3> QED BY <3>3, <3>4
  <2>3. CASE UNCHANGED cacheTip
    BY <2>3
  <2> QED BY <1>4, <2>1, <2>2, <2>3, Frame
<1>5. CASE Environment
  <2>t. cacheTip \in [Repos -> [Branches -> Commits]]
    BY <1>g DEF Typed
  <2>1. ASSUME NEW q \in Repos, OtherFetch(q) PROVE cacheTip'[r][b] = c \/ cacheTip'[r][b] = t
    BY <2>t, <2>1 DEF OtherFetch
  <2>2. cacheTip' = cacheTip \/ \E q \in Repos : OtherFetch(q)
    BY <1>5 DEF Environment, UserCommits, UserSetsDefault, OtherSetHead, UpdateArrives
  <2> QED BY <2>1, <2>2, <1>3
<1> QED BY <1>3, <1>4, <1>5 DEF Next, SessionStep

\* The cache's default branch is one that was read from the canonical repository.
LEMMA DefaultFollows ==
  ASSUME Inv, Next, NEW r \in Repos, r \notin switched', cacheHead[r] \in {NoBranch, head[r]}
  PROVE  cacheHead'[r] \in {NoBranch, head'[r]}
<1>t. cacheHead \in [Repos -> Branches \cup {NoBranch}] /\ head'[r] = head[r]
  BY DefaultStays DEF Inv, Typed, TypeOK
<1>1. ASSUME NEW s \in Sessions, SessionStep(s) PROVE cacheHead'[r] \in {NoBranch, head[r]}
  <2>1. CASE SetRemoteHead(s)
    BY <1>t, <2>1 DEF SetRemoteHead
  <2>2. CASE cacheHead' = cacheHead
    BY <2>2
  <2> QED BY <1>1, <2>1, <2>2, Frame
<1>2. CASE Environment
  <2>1. ASSUME NEW q \in Repos, OtherSetHead(q) PROVE cacheHead'[r] \in {NoBranch, head[r]}
    BY <1>t, <2>1 DEF OtherSetHead
  <2>2. cacheHead' = cacheHead \/ \E q \in Repos : OtherSetHead(q)
    BY <1>2 DEF Environment, UserCommits, UserSetsDefault, OtherFetch, UpdateArrives
  <2>3. CASE cacheHead' = cacheHead
    BY <1>t, <2>3
  <2>4. CASE \E q \in Repos : OtherSetHead(q)
    BY <1>t, <2>1, <2>4
  <2> QED BY <2>2, <2>3, <2>4
<1> QED BY <1>t, <1>1, <1>2 DEF Next, SessionStep

\* A reviewed action stays reviewed: its commit stays in the branch's history.
LEMMA ReviewedStays ==
  ASSUME Inv, Next, NEW r \in Repos, r \notin switched', NEW a, Reviewed(r, a)
  PROVE  Reviewed(r, a)'
<1>1. PICK c \in Commits : /\ c # <<>> /\ IsPrefix(a.base, c) /\ IsPrefix(c, tip[r][head[r]])
                           /\ Readme(c) = a.observed
  BY DEF Reviewed
<1>2. head[r] \in Branches /\ head'[r] = head[r] /\ tip \in [Repos -> [Branches -> Commits]]
  BY DefaultStays DEF Inv, Typed, TypeOK
<1> DEFINE t == tip[r][head[r]]
           n == tip'[r][head[r]]
<1>3. t \in Seq(Change) /\ n \in Seq(Change) /\ c \in Seq(Change) /\ IsPrefix(c, t) /\ IsPrefix(t, n)
  BY <1>1, <1>2, TipsGrow DEF Grows, Commits
<1>4. IsPrefix(c, n)
  BY <1>3, PrefixIsTransitive
<1> QED BY <1>1, <1>2, <1>4 DEF Reviewed

\* An observation under way stays one of the default branch, while that stays.
LEMMA ObservedStep ==
  ASSUME Inv, DefaultInv, Next, NEW q \in Sessions
  PROVE  Observed(q)'
<1>t. /\ Typed /\ Phase(q) /\ cur[q] \in Repos /\ head[cur[q]] \in Branches
      /\ cacheTip \in [Repos -> [Branches -> Commits]] /\ DOMAIN seen = Sessions
      /\ DOMAIN cur = Sessions
      /\ seen[q] \in [branch : Branches \cup {NoBranch}, base : Commits]
  BY DEF Inv, Typed, TypeOK
<1>h. cur[q] \notin switched' => cur[q] \notin switched /\ head'[cur[q]] = head[cur[q]]
  BY <1>t, DefaultStays
<1>c. /\ cacheTip'[cur[q]][head[cur[q]]] \in Commits
      /\ IsPrefix(cacheTip[cur[q]][head[cur[q]]], cacheTip'[cur[q]][head[cur[q]]])
  <2>1. cacheTip' \in [Repos -> [Branches -> Commits]]
    BY InvStep DEF Inv, Typed
  <2> QED BY <2>1, <1>t, CacheFollows DEF DefaultInv, Follows
\* What q has read stays in the history of the cache.
<1>p. ASSUME NEW b \in Commits, IsPrefix(b, cacheTip[cur[q]][head[cur[q]]])
      PROVE  IsPrefix(b, cacheTip'[cur[q]][head[cur[q]]])
  <2>1. /\ b \in Seq(Change) /\ cacheTip[cur[q]][head[cur[q]]] \in Seq(Change)
        /\ cacheTip'[cur[q]][head[cur[q]]] \in Seq(Change)
    BY <1>t, <1>c DEF Commits
  <2> QED BY <1>p, <1>c, <2>1, PrefixIsTransitive
<1>1. CASE Same(q)
  <2>1. pc'[q] = pc[q] /\ cur'[q] = cur[q] /\ seen'[q] = seen[q] /\ Observed(q)
    BY <1>1 DEF Same, DefaultInv
  <2>2. cur[q] \notin switched /\ pc[q] = "content" => IsPrefix(seen[q].base, cacheTip'[cur[q]][head[cur[q]]])
    BY <2>1, <1>p, <1>t DEF Observed
  <2> QED BY <2>1, <2>2, <1>h DEF Observed
<1>2. CASE SessionStep(q)
  <2>1. pc'[q] = "base" /\ cur[q] \notin switched =>
          cur'[q] = cur[q] /\ seen'[q].branch = head[cur[q]]
    <3> SUFFICES ASSUME pc'[q] = "base", cur[q] \notin switched
                 PROVE  cur'[q] = cur[q] /\ seen'[q].branch = head[cur[q]]
      OBVIOUS
    <3>1. ReadBranch(q)
      BY <1>2, <1>t, ObservationSteps
    <3>2. cacheHead[cur[q]] = head[cur[q]]
      BY <3>1, <1>t DEF ReadBranch, Typed, DefaultInv, Follows
    <3> QED BY <3>1, <3>2, <1>t DEF ReadBranch, Goto
  <2>2. pc'[q] = "content" /\ cur[q] \notin switched =>
          /\ cur'[q] = cur[q] /\ seen'[q].branch = head[cur[q]]
          /\ IsPrefix(seen'[q].base, cacheTip'[cur[q]][head[cur[q]]])
    <3> SUFFICES ASSUME pc'[q] = "content", cur[q] \notin switched
                 PROVE  /\ cur'[q] = cur[q] /\ seen'[q].branch = head[cur[q]]
                        /\ IsPrefix(seen'[q].base, cacheTip'[cur[q]][head[cur[q]]])
      OBVIOUS
    <3>1. ReadBase(q)
      BY <1>2, <1>t, ObservationSteps
    <3>2. cacheHead[cur[q]] = head[cur[q]] /\ seen[q].branch = head[cur[q]]
      BY <3>1, <1>t DEF ReadBase, Typed, DefaultInv, Follows, Observed
    <3> DEFINE c == cacheTip[cur[q]][head[cur[q]]]
    <3>3. /\ cur'[q] = cur[q] /\ seen'[q].branch = head[cur[q]] /\ seen'[q].base = c
      BY <3>1, <3>2, <1>t DEF ReadBase, Goto, CachedHead
    <3>4. c \in Commits
      BY <1>t
    <3> QED BY <3>3, <3>4, <1>c
  <2>3. pc'[q] \in {"base", "content"} => cur'[q] = cur[q]
    BY <1>2, <1>t, ObservationSteps DEF ReadBranch, ReadBase, Goto
  <2> QED BY <2>1, <2>2, <2>3, <1>h DEF Observed
<1>3. Same(q) \/ SessionStep(q)
  <2>1. CASE Environment
    BY <2>1 DEF Environment, UserCommits, UserSetsDefault, OtherFetch, OtherSetHead,
       UpdateArrives, Same
  <2> QED BY <2>1, OthersUntouched DEF Next, SessionStep
<1> QED BY <1>1, <1>2, <1>3

\* The action a session plans is reviewed.
LEMMA PlannedIsReviewed ==
  ASSUME Inv, DefaultInv, NEW s \in Sessions, pc[s] = "content", cur[s] \notin switched
  PROVE  Reviewed(cur[s], PlanAction(s, Readme(CachedHead(cur[s]))))
<1>1. /\ Typed /\ cur[s] \in Repos /\ head[cur[s]] \in Branches
      /\ cacheTip \in [Repos -> [Branches -> Commits]] /\ Observed(s) /\ Follows
  BY DEF Inv, Typed, TypeOK, DefaultInv
<1>2. cacheHead[cur[s]] = head[cur[s]] /\ Fetched(cur[s])
  BY <1>1 DEF Typed, Follows
<1> DEFINE c == cacheTip[cur[s]][head[cur[s]]]
<1>3. /\ c \in Commits /\ c # <<>> /\ IsPrefix(seen[s].base, c) /\ IsPrefix(c, tip[cur[s]][head[cur[s]]])
      /\ seen[s].branch = head[cur[s]] /\ CachedHead(cur[s]) = c
  BY <1>1, <1>2 DEF Observed, Follows, Fetched, CachedHead
<1> HIDE DEF c
<1> QED BY <1>3 DEF Reviewed, PlanAction

\* Every plan, written or in memory, keeps binding a text between base and tip.
LEMMA AllReviewedStep ==
  ASSUME Inv, DefaultInv, Next
  PROVE  AllReviewed'
<1>k. ASSUME NEW r \in Repos, r \notin switched', NEW a, Reviewed(r, a) PROVE Reviewed(r, a)'
  BY <1>k, ReviewedStays
<1>p. ASSUME NEW p, p \in plans \/ (\E q \in Sessions : p = plan[q]),
             NEW r \in DOMAIN p \ switched'
      PROVE  r \in Repos /\ Reviewed(r, p[r])'
  <2>1. r \in Repos
    BY <1>p DEF Inv, Typed, TypeOK, IsPlan
  <2>2. Reviewed(r, p[r])
    BY <1>p, <2>1, DefaultStays DEF DefaultInv, AllReviewed
  <2> QED BY <2>1, <2>2, <1>k
<1>q. ASSUME NEW q \in Sessions, NEW p, p = plan'[q], NEW r \in DOMAIN p \ switched'
      PROVE  Reviewed(r, p[r])'
  <2>d. DOMAIN plan = Sessions
    BY DEF Inv, Typed
  <2>1. CASE p \in plans \/ (\E x \in Sessions : p = plan[x])
    BY <1>p, <2>1
  <2>2. CASE PlanRepository(q) /\ plan'[q] # plan[q]
    <3> DEFINE text == Readme(CachedHead(cur[q]))
    <3>1. pc[q] = "content" /\ p = Planned(q, text)
      BY <1>q, <2>2, <2>d DEF PlanRepository
    <3>2. PICK a : a = PlanAction(q, text)
      OBVIOUS
    <3>3. cur[q] \in Repos /\ (cur[q] \notin switched => Reviewed(cur[q], a))
      BY <3>1, <3>2, PlannedIsReviewed DEF Inv, Typed, TypeOK
    <3> HIDE DEF text
    <3>4. r \in DOMAIN plan[q] \cup {cur[q]} /\ p[r] = IF r = cur[q] THEN a ELSE plan[q][r]
      BY <1>q, <3>1, <3>2 DEF Planned
    <3>5. CASE r = cur[q]
      BY <1>k, <1>q, <3>3, <3>4, <3>5, DefaultStays
    <3>6. CASE r # cur[q]
      <4>1. PICK o : o = plan[q]
        OBVIOUS
      <4>2. r \in DOMAIN o \ switched' /\ p[r] = o[r]
        BY <1>q, <3>4, <3>6, <4>1
      <4>3. Reviewed(r, o[r])'
        BY <1>p, <4>1, <4>2
      <4> QED BY <4>2, <4>3
    <3> QED BY <3>5, <3>6
  <2>3. \/ plan'[q] = plan[q] \/ plan'[q] \in plans
        \/ PlanRepository(q) /\ plan'[q] # plan[q]
    <3>1. CASE SessionStep(q)
      BY <3>1, <2>d, Frame DEF ImportPlan
    <3>2. CASE Environment
      BY <3>2 DEF Environment, UserCommits, UserSetsDefault, OtherFetch, OtherSetHead, UpdateArrives
    <3>3. ASSUME NEW s \in Sessions, SessionStep(s), s # q PROVE plan'[q] = plan[q]
      BY <3>3, OthersUntouched DEF Same
    <3> QED BY <3>1, <3>2, <3>3 DEF Next, SessionStep
  <2> QED BY <1>q, <2>1, <2>2, <2>3
<1>s. ASSUME NEW p \in plans', NEW r \in DOMAIN p \ switched' PROVE Reviewed(r, p[r])'
  <2>1. p \in plans \/ \E q \in Sessions : p = plan[q]
    <3>1. CASE Environment
      BY <3>1 DEF Environment, UserCommits, UserSetsDefault, OtherFetch, OtherSetHead, UpdateArrives
    <3>2. ASSUME NEW s \in Sessions, SessionStep(s) PROVE plans' \subseteq plans \cup {plan[s]}
      BY <3>2, Frame DEF ExportPlan
    <3> QED BY <1>s, <3>1, <3>2 DEF Next, SessionStep
  <2> QED BY <2>1, <1>p
<1>2. \A q \in Sessions : \A r \in DOMAIN plan'[q] \ switched' : Reviewed(r, plan[q][r])'
  BY <1>q DEF Reviewed
<1> QED BY <1>2, <1>s DEF AllReviewed

\* An update is accepted only where the text that was reviewed is that of its base.
LEMMA LeaseMeansReviewed ==
  ASSUME Inv, DefaultInv, NEW u, u.s \in Sessions, u.r \in DOMAIN plan[u.s],
         u.b = plan[u.s][u.r].branch, u.over = plan[u.s][u.r].base, LeaseHolds(u), u.r \notin switched
  PROVE  Readme(u.over) = plan[u.s][u.r].observed
<1> DEFINE a == plan[u.s][u.r]
           t == tip[u.r][u.b]
<1>1. u.r \in Repos /\ a.base \in Seq(Change)
  BY DEF Inv, Typed, TypeOK, IsPlan, IsCommit
<1>2. Reviewed(u.r, a)
  BY DEF DefaultInv, AllReviewed
<1>3. u.b = head[u.r] /\ t = a.base
  BY <1>2 DEF Reviewed, LeaseHolds
<1>4. PICK c \in Commits : IsPrefix(a.base, c) /\ IsPrefix(c, t) /\ Readme(c) = a.observed
  BY <1>2, <1>3 DEF Reviewed
<1> HIDE DEF a
<1>5. c = a.base
  BY <1>1, <1>3, <1>4, PrefixIsAntisymmetric DEF Commits
<1> QED BY <1>4, <1>5 DEF a

\* An update replaces the text of the plan: the lease admits only its base.
LEMMA TextStep ==
  ASSUME Inv, DefaultInv, Next
  PROVE  ReviewedTextOnly'
<1>o. ASSUME NEW u \in landed, u.r \notin switched' PROVE Readme(u.over) = plan'[u.s][u.r].observed
  <2>1. IsUpdate(u)
    BY DEF Inv, Updates
  <2>2. u.s \in Sessions /\ u.r \in Repos /\ attempt[u.s][u.r] # "none"
    BY <2>1, UpdateIsChild DEF IsUpdate
  <2>3. Readme(u.over) = plan[u.s][u.r].observed
    BY <1>o, <2>2, DefaultStays DEF DefaultInv, ReviewedTextOnly
  <2> QED BY <2>1, <2>2, <2>3, Settled
\* An update that lands in this step.
<1>n. ASSUME NEW u, u = [s |-> u.s, r |-> u.r, b |-> u.b, over |-> u.over, new |-> u.new],
             u.s \in Sessions, u.r \in DOMAIN plan[u.s], u.b = plan[u.s][u.r].branch,
             u.over = plan[u.s][u.r].base, LeaseHolds(u), Land(u), plan' = plan
      PROVE  ReviewedTextOnly'
  <2>1. [u EXCEPT !.over = u.over] = u
    BY <1>n
  <2>2. landed' = landed \cup {u}
    BY <1>n, <2>1 DEF LeaseHolds, Land
  <2>3. u.r \notin switched' => Readme(u.over) = plan[u.s][u.r].observed
    <3>1. u.r \in Repos
      BY <1>n DEF Inv, Typed, TypeOK, IsPlan
    <3> QED BY <1>n, <3>1, LeaseMeansReviewed, DefaultStays
  <2> QED BY <1>o, <1>n, <2>2, <2>3 DEF ReviewedTextOnly
<1>k. landed' = landed => ReviewedTextOnly'
  BY <1>o DEF ReviewedTextOnly
<1>1. ASSUME NEW s \in Sessions, SessionStep(s) PROVE ReviewedTextOnly'
  <2>1. ASSUME pc[s] = "push", LeaseHolds(Update(s)), Land(Update(s)), plan' = plan
        PROVE  ReviewedTextOnly'
    <3>1. PICK u : u = Update(s)
      OBVIOUS
    <3>2. u = [s |-> u.s, r |-> u.r, b |-> u.b, over |-> u.over, new |-> u.new]
      BY <3>1 DEF Update
    <3>3. /\ u.s = s /\ u.r = cur[s] /\ u.b = plan[s][cur[s]].branch
          /\ u.over = plan[s][cur[s]].base /\ cur[s] \in DOMAIN plan[s]
      BY <2>1, <3>1, PushesChild
    <3>4. LeaseHolds(u) /\ Land(u)
      BY <2>1, <3>1
    <3> QED BY <1>n, <2>1, <3>2, <3>3, <3>4
  <2>2. CASE Push(s)
    BY <1>k, <2>1, <2>2 DEF Push
  <2>3. CASE PushTimesOut(s)
    BY <1>k, <2>1, <2>3 DEF PushTimesOut, Unanswered
  <2> QED BY <1>1, <1>k, <2>2, <2>3, Frame
<1>2. ASSUME NEW u \in inflight, UpdateArrives(u) PROVE ReviewedTextOnly'
  <2>1. IsUpdate(u)
    BY DEF Inv, Updates
  <2>2. /\ u = [s |-> u.s, r |-> u.r, b |-> u.b, over |-> u.over, new |-> u.new]
        /\ u.s \in Sessions /\ u.r \in DOMAIN plan[u.s] /\ u.b = plan[u.s][u.r].branch
        /\ u.over = plan[u.s][u.r].base
    BY <2>1 DEF IsUpdate
  <2>3. UNCHANGED landed \/ (LeaseHolds(u) /\ Land(u) /\ plan' = plan)
    BY <1>2 DEF UpdateArrives
  <2> QED BY <1>k, <1>n, <2>2, <2>3
<1>3. CASE Environment
  <2>1. landed' = landed \/ \E u \in inflight : UpdateArrives(u)
    BY <1>3 DEF Environment, UserCommits, UserSetsDefault, OtherFetch, OtherSetHead
  <2> QED BY <1>k, <1>2, <2>1
<1> QED BY <1>1, <1>3 DEF Next, SessionStep

\* The observation invariant holds before the first session.
LEMMA InitDefault == Init => DefaultInv
<1> SUFFICES ASSUME Init PROVE DefaultInv
  OBVIOUS
<1>1. Follows
  <2>1. ASSUME NEW r \in Repos, NEW b \in Branches PROVE IsPrefix(cacheTip[r][b], tip[r][b])
    <3>1. tip[r][b] \in Seq(Change) /\ cacheTip[r][b] = <<>>
      BY InitInv DEF Inv, Typed, Commits, Init
    <3> QED BY <3>1, EmptyIsPrefix
  <2> QED BY <2>1 DEF Follows, Init
<1>2. \A s \in Sessions : Observed(s)
  BY DEF Observed, Init
<1>3. AllReviewed /\ ReviewedTextOnly
  BY NoPlanIsEmpty DEF AllReviewed, ReviewedTextOnly, Init
<1> QED BY <1>1, <1>2, <1>3 DEF DefaultInv

\* The observation invariant is inductive.
LEMMA DefaultStep == Inv /\ DefaultInv /\ [Next]_vars => DefaultInv'
<1> SUFFICES ASSUME Inv, DefaultInv, [Next]_vars PROVE DefaultInv'
  OBVIOUS
<1>1. CASE Next
  <2>1. Follows'
    BY <1>1, CacheFollows, DefaultFollows, DefaultStays DEF DefaultInv, Follows
  <2>2. \A s \in Sessions : Observed(s)'
    BY <1>1, ObservedStep
  <2> QED BY <1>1, <2>1, <2>2, AllReviewedStep, TextStep DEF DefaultInv
<1>2. CASE UNCHANGED vars
  BY <1>2 DEF vars, DefaultInv, Follows, Observed, AllReviewed, Reviewed, ReviewedTextOnly
<1> QED BY <1>1, <1>2

\* As long as a repository's default branch stays, what an update replaces is the
\* README its operator saw in the plan.
THEOREM ReviewedTextIsReplaced == Spec => []ReviewedTextOnly
<1>1. Spec => [](Inv /\ DefaultInv)
  BY InitInv, InvStep, InitDefault, DefaultStep, PTL DEF Spec
<1>2. DefaultInv => ReviewedTextOnly
  BY DEF DefaultInv
<1> QED BY <1>1, <1>2, PTL
=============================================================================
