--------------------------- MODULE BootstrapProofs ---------------------------
(***************************************************************************)
(* Safety of the bootstrap commands, for any number of processes, files,   *)
(* contents and edits.  AllInv is inductive: ControlInv says what each     *)
(* process knows at each step, FileInv what it has at the target while it  *)
(* writes, HistoryInv what the plans and the outcomes rest on.             *)
(***************************************************************************)
EXTENDS Bootstrap, TLAPS

\* The steps before a create-only open, and those after it.
Before == {"idle", "observe", "workflows", "read", "evaluate", "create"}
Writing == {"write", "sync", "close", "remove"}

\* What a process about to plan or to write has in its hands.
Prepared(p) ==
  IF cmd[p] = "init" THEN data[p] = DefaultManifest
  ELSE ValidManifest(data[p]) /\ (cmd[p] = "apply" => data[p] = plan[p].manifest)

Control(p) ==
  /\ pc[p] = "idle" => cmd[p] = "none" /\ outcome[p] = "none"
  /\ exit[p] # -1 => pc[p] = "done"
  /\ pc[p] \in {"create"} \cup Writing => cmd[p] \in {"apply", "init"}
  /\ pc[p] \in {"read", "evaluate"} => cmd[p] \in {"plan", "apply"}
  /\ cmd[p] \in {"plan", "apply"} => plan[p].path \in Paths
  /\ cmd[p] = "apply" => plan[p] \in plans
  /\ pc[p] \in {"evaluate", "create"} \cup Writing => Prepared(p)
ControlInv == \A p \in Processes : Control(p)

\* The file in the hands of a process is there, is the only one it made, and once it is
\* written holds what the process has in its hands.
File(p) ==
  /\ pc[p] \in Before => made[p] = {}
  /\ pc[p] \in Writing =>
       made[p] = {Goal(p)} /\ holder[Goal(p)] = p /\ content[Goal(p)] # Absent
  /\ pc[p] \in {"sync", "close"} => content[Goal(p)] = data[p]
  /\ exit[p] = 2 => made[p] = {}
FileInv == \A p \in Processes : File(p)

HistoryInv ==
  /\ content[Target] \in held
  /\ \A a \in plans :
       ~a.write /\ a.blocked = DecisionBlockers(a.manifest) => a.manifest \in held
  /\ kept # {} => holder[Target] = Nobody
  /\ \A p \in Processes : p \in kept \/ outcome[p] = "no-op" => pc[p] = "done"
  /\ kept \subseteq Processes
  /\ OutcomeIsTrue

AllInv == TypeOK /\ ControlInv /\ FileInv /\ HistoryInv

USE DEF disk, history, local

------------------------------------------------------------------------------
(* Facts about files and manifests                                         *)

\* What a process observes one after the other are observed files.
LEMMA WatchedFiles ==
  /\ DOMAIN Watched = 1 .. Len(Watched) /\ Len(Watched) \in Nat
  /\ \A i \in DOMAIN Watched : Watched[i] \in Observed
  /\ Workflows \subseteq Observed
  /\ Target \in Files /\ Proposal \in Files /\ Target # Proposal /\ Target \in Observed
  /\ Observed \subseteq Files /\ Paths \subseteq Files
<1> DEFINE S == STRING \cup {Target, Proposal}
<1> DEFINE front == <<Target, Proposal>>
<1>1. Others \in Seq(S)
  BY BootstrapAssumption
<1>2. front \in Seq(S) /\ Len(front) = 2 /\ front[1] = Target /\ front[2] = Proposal
  OBVIOUS
<1>0. Watched = front \o Others
  BY DEF Watched
<1> HIDE DEF front, S
<1>c. \A s, t \in Seq(S) : /\ s \o t \in Seq(S) /\ Len(s \o t) = Len(s) + Len(t)
                          /\ DOMAIN s = 1 .. Len(s) /\ Len(s) \in Nat
  OBVIOUS
<1>e. \A s, t \in Seq(S) : \A i \in 1 .. Len(s) + Len(t) :
        (s \o t)[i] = IF i <= Len(s) THEN s[i] ELSE t[i - Len(s)]
  OBVIOUS
<1>3. DOMAIN Watched = 1 .. Len(Watched) /\ Len(Watched) = 2 + Len(Others) /\ Len(Others) \in Nat
      /\ DOMAIN Others = 1 .. Len(Others)
  BY <1>0, <1>1, <1>2, <1>c
<1>4. Watched[1] = Target /\ Watched[2] = Proposal
      /\ \A i \in 3 .. Len(Watched) : Watched[i] = Others[i - 2]
  BY <1>0, <1>1, <1>2, <1>3, <1>e
<1>5. \A i \in DOMAIN Watched : Watched[i] # Input
  <2>1. \A i \in 3 .. Len(Watched) : i - 2 \in DOMAIN Others
    BY <1>3
  <2>2. \A j \in DOMAIN Others : Others[j] # Input
    BY BootstrapAssumption DEF Range
  <2>3. Target # Input /\ Proposal # Input
    BY DEF Target, Proposal, Input
  <2> QED BY <1>3, <1>4, <2>1, <2>2, <2>3
<1>6. \A i \in DOMAIN Watched : Watched[i] \in Range(Watched)
  BY DEF Range
<1>7. 1 \in DOMAIN Watched /\ 2 \in DOMAIN Watched
  BY <1>3
<1>8. Input \notin Workflows
  BY BootstrapAssumption
<1> QED BY <1>3, <1>4, <1>5, <1>6, <1>7, <1>8 DEF Files, Observed, Paths, Target, Proposal

\* A manifest, or a torn file, is there.
LEMMA Presence ==
  /\ \A c : ValidManifest(c) => c # Absent /\ c # Torn
  /\ DefaultManifest # Absent /\ Torn # Absent
<1>1. Absent.is = "absent" /\ Torn.is = "torn" /\ DefaultManifest.is = "manifest"
  BY DEF Absent, Torn, DefaultManifest, Content
<1>2. \A c : ValidManifest(c) => c.is = "manifest"
  BY DEF ValidManifest
<1> QED BY <1>1, <1>2

\* The action that marks a differing target is none of the manifest's own.
LEMMA TargetDiffersIsExtra == \A m : TargetDiffers \notin DecisionBlockers(m)
<1>1. \A c \in Capabilities : c.type # "WRITE_BOOTSTRAP_MANIFEST"
  BY DEF Capabilities
<1>2. TargetDiffers.type = "WRITE_BOOTSTRAP_MANIFEST"
  BY DEF TargetDiffers
<1>3. \A m : \A b \in DecisionBlockers(m) : \E c \in Capabilities : b.type = c.type
  BY DEF DecisionBlockers, Blocker
<1> QED BY <1>1, <1>2, <1>3

------------------------------------------------------------------------------
(* Every step keeps the types                                              *)

\* What a step of p leaves alone: the others, what was exported and what the target
\* has held.
Untouched(q) ==
  /\ pc'[q] = pc[q] /\ cmd'[q] = cmd[q] /\ exit'[q] = exit[q] /\ outcome'[q] = outcome[q]
  /\ data'[q] = data[q] /\ plan'[q] = plan[q] /\ made'[q] = made[q]

\* A process writes only its own state; bound plans, held contents and edits of
\* others are never taken back.
LEMMA OthersUntouched ==
  ASSUME TypeOK, NEW p \in Processes, Step(p)
  PROVE  /\ \A q \in Processes \ {p} : Untouched(q)
         /\ plans \subseteq plans' /\ held \subseteq held' /\ edits' = edits
<1>a. Processes = DOMAIN pc /\ Processes = DOMAIN cmd /\ Processes = DOMAIN exit
      /\ Processes = DOMAIN outcome /\ Processes = DOMAIN data /\ Processes = DOMAIN plan
      /\ Processes = DOMAIN made
  BY DEF TypeOK
<1> USE <1>a DEF Untouched, Goto, Exit, Stale, Refuse, Start
<1>1. CASE StartInspect(p)
  BY <1>1 DEF StartInspect
<1>2. CASE StartPlan(p)
  BY <1>2 DEF StartPlan
<1>3. CASE StartApply(p)
  BY <1>3 DEF StartApply
<1>4. CASE StartInit(p)
  BY <1>4 DEF StartInit
<1>5. CASE ObserveFile(p)
  BY <1>5 DEF ObserveFile, InspectionFails
<1>6. CASE ListWorkflows(p)
  BY <1>6 DEF ListWorkflows
<1>7. CASE ReadWorkflow(p)
  BY <1>7 DEF ReadWorkflow, InspectionFails
<1>8. CASE ReportInspection(p)
  BY <1>8 DEF ReportInspection
<1>9. CASE SnapshotChanged(p)
  BY <1>9 DEF SnapshotChanged
<1>10. CASE LookAtInput(p)
  BY <1>10 DEF LookAtInput, InspectionFails
<1>11. CASE ReadInput(p)
  BY <1>11 DEF ReadInput
<1>12. CASE BuildPlan(p)
  BY <1>12 DEF BuildPlan, Export
<1>13. CASE Revalidate(p)
  BY <1>13 DEF Revalidate
<1>14. CASE Create(p)
  BY <1>14 DEF Create, InspectionFails
<1>15. CASE Write(p)
  BY <1>15 DEF Write
<1>16. CASE Sync(p)
  BY <1>16 DEF Sync
<1>17. CASE Close(p)
  BY <1>17 DEF Close, Created
<1>18. CASE Remove(p)
  BY <1>18 DEF Remove
<1>19. CASE Kill(p)
  BY <1>19 DEF Kill
<1> QED
  BY <1>1, <1>2, <1>3, <1>4, <1>5, <1>6, <1>7, <1>8, <1>9, <1>10, <1>11, <1>12, <1>13, <1>14,
     <1>15, <1>16, <1>17, <1>18, <1>19 DEF Step

\* A step keeps the holders: who moves on without touching the holders is no holder,
\* or stays one.
LEMMA HoldersKept ==
  ASSUME TypeOK, NEW p \in Processes, Step(p), holder' = holder,
         pc[p] \in Writing => pc'[p] \in Writing /\ cmd'[p] = cmd[p]
  PROVE  HeldByWriters'
<1>1. \A q \in Processes : pc[q] \in Writing => pc'[q] \in Writing /\ cmd'[q] = cmd[q]
  BY OthersUntouched DEF Untouched
<1> SUFFICES ASSUME NEW f \in Files, holder[f] # Nobody
             PROVE  f = Goal(holder[f])' /\ pc'[holder[f]] \in Writing
  BY DEF HeldByWriters, Writing
<1>2. holder[f] \in Processes /\ f = Goal(holder[f]) /\ pc[holder[f]] \in Writing
  BY DEF TypeOK, HeldByWriters, Writing
<1> QED BY <1>1, <1>2 DEF Goal

\* Replacing one value of a function by one of its range keeps its type.
LEMMA Replaced ==
  ASSUME NEW D, NEW R, NEW f \in [D -> R], NEW d \in D, NEW r \in R
  PROVE  [f EXCEPT ![d] = r] \in [D -> R]
OBVIOUS

\* Where a step of p takes it, and with which status it ends.
LEMMA Moves ==
  ASSUME TypeOK, NEW p \in Processes, Step(p)
  PROVE  pc' \in [Processes -> Steps] /\ exit' \in [Processes -> {-1, 0, 1, 2}]
<1> DEFINE To(step) == pc' = [pc EXCEPT ![p] = step]
<1> DEFINE Ends(code) == exit' = [exit EXCEPT ![p] = code]
<1>q. \A step \in Steps : To(step) => pc' \in [Processes -> Steps]
  BY DEF TypeOK
<1>r. \A code \in {-1, 0, 1, 2} : Ends(code) => exit' \in [Processes -> {-1, 0, 1, 2}]
  BY DEF TypeOK
<1>p. pc \in [Processes -> Steps] /\ exit \in [Processes -> {-1, 0, 1, 2}]
  BY DEF TypeOK
<1> SUFFICES /\ pc' = pc \/ \E step \in Steps : To(step)
             /\ exit' = exit \/ \E code \in {-1, 0, 1, 2} : Ends(code)
  BY <1>p, <1>q, <1>r
<1>0. \A step \in Steps : Goto(p, step) => To(step)
  BY DEF Goto
<1>00. /\ Refuse(p) => To("done") /\ Ends(1)
       /\ Stale(p) => To("done") /\ Ends(2)
       /\ Exit(p, 0) => To("done") /\ Ends(0)
       /\ InspectionFails(p) => To("done") /\ (Ends(1) \/ Ends(2))
  BY DEF Refuse, Stale, Exit, InspectionFails, Goto
<1>s. Steps = {"idle", "observe", "workflows", "read", "evaluate", "create", "write", "sync",
               "close", "remove", "done", "killed"}
  BY DEF Steps
<1> HIDE DEF To, Ends
<1>1. CASE StartInspect(p)
  BY <1>0, <1>00, <1>s, <1>1 DEF StartInspect, Start
<1>2. CASE StartPlan(p)
  BY <1>0, <1>00, <1>s, <1>2 DEF StartPlan, Start
<1>3. CASE StartApply(p)
  BY <1>0, <1>00, <1>s, <1>3 DEF StartApply, Start
<1>4. CASE StartInit(p)
  BY <1>0, <1>00, <1>s, <1>4 DEF StartInit, Start
<1>5. CASE ObserveFile(p)
  BY <1>0, <1>00, <1>s, <1>5 DEF ObserveFile
<1>6. CASE ListWorkflows(p)
  BY <1>0, <1>00, <1>s, <1>6 DEF ListWorkflows
<1>7. CASE ReadWorkflow(p)
  BY <1>0, <1>00, <1>s, <1>7 DEF ReadWorkflow
<1>8. CASE ReportInspection(p)
  BY <1>0, <1>00, <1>s, <1>8 DEF ReportInspection
<1>9. CASE SnapshotChanged(p)
  BY <1>0, <1>00, <1>s, <1>9 DEF SnapshotChanged
<1>10. CASE LookAtInput(p)
  BY <1>0, <1>00, <1>s, <1>10 DEF LookAtInput
<1>11. CASE ReadInput(p)
  BY <1>0, <1>00, <1>s, <1>11 DEF ReadInput
<1>12. CASE BuildPlan(p)
  BY <1>0, <1>00, <1>s, <1>12 DEF BuildPlan, Export
<1>13. CASE Revalidate(p)
  BY <1>0, <1>00, <1>s, <1>13 DEF Revalidate
<1>14. CASE Create(p)
  BY <1>0, <1>00, <1>s, <1>14 DEF Create
<1>15. CASE Write(p)
  BY <1>0, <1>00, <1>s, <1>15 DEF Write
<1>16. CASE Sync(p)
  BY <1>0, <1>00, <1>s, <1>16 DEF Sync
<1>17. CASE Close(p)
  BY <1>0, <1>00, <1>s, <1>17 DEF Close
<1>18. CASE Remove(p)
  BY <1>0, <1>00, <1>s, <1>18 DEF Remove
<1>19. CASE Kill(p)
  BY <1>0, <1>00, <1>s, <1>19 DEF Kill
<1> QED
  BY <1>1, <1>2, <1>3, <1>4, <1>5, <1>6, <1>7, <1>8, <1>9, <1>10, <1>11, <1>12, <1>13, <1>14,
     <1>15, <1>16, <1>17, <1>18, <1>19 DEF Step

\* Every step keeps the types.
LEMMA TypeStep == AllInv /\ [Next]_vars => TypeOK'
<1> SUFFICES ASSUME AllInv, [Next]_vars PROVE TypeOK'
  OBVIOUS
<1>0. /\ {Absent, Torn, DefaultManifest} \subseteq Texts /\ Nobody \notin Processes
      /\ MaxEdits \in Nat
  BY BootstrapAssumption
<1>a. TypeOK
  BY DEF AllInv
<1> USE DEF Goto, Exit, Stale, Refuse, Steps, Start
<1>1. CASE Edit
  <2>1. HeldByWriters'
    BY <1>a, <1>1 DEF Edit, TypeOK, HeldByWriters, Goal
  <2>2. content' \in [Files -> Texts] /\ parent' \in BOOLEAN
    BY <1>0, <1>a, <1>1 DEF Edit, TypeOK
  <2>3. edits' \in 0 .. MaxEdits
    BY <1>0, <1>a, <1>1 DEF Edit, TypeOK
  <2> QED BY <1>a, <1>1, <2>1, <2>2, <2>3 DEF Edit, TypeOK
<1>2. ASSUME NEW p \in Processes, StartInspect(p) PROVE TypeOK'
  <2>0. Step(p)
    BY <1>2 DEF Step
  <2>m. pc' \in [Processes -> Steps] /\ exit' \in [Processes -> {-1, 0, 1, 2}]
    BY <1>a, <2>0, Moves
  <2>1. cmd' \in [Processes -> {"none", "inspect", "plan", "apply", "init"}]
    BY <1>0, <1>a, <1>2 DEF StartInspect, TypeOK
  <2>2. HeldByWriters'
    BY <1>a, <1>2, <2>0, HoldersKept DEF StartInspect, TypeOK, Writing
  <2> QED BY <1>a, <1>2, <2>m, <2>1, <2>2 DEF StartInspect, TypeOK
<1>3. ASSUME NEW p \in Processes, StartPlan(p) PROVE TypeOK'
  <2>0. Step(p)
    BY <1>3 DEF Step
  <2>m. pc' \in [Processes -> Steps] /\ exit' \in [Processes -> {-1, 0, 1, 2}]
    BY <1>a, <2>0, Moves
  <2>1. cmd' \in [Processes -> {"none", "inspect", "plan", "apply", "init"}]
    BY <1>0, <1>a, <1>3 DEF StartPlan, TypeOK
  <2>2. DOMAIN plan' = Processes /\ \A q \in Processes : plan'[q].path \in Paths \cup {"none"}
    BY <1>0, <1>a, <1>3 DEF StartPlan, Paths, TypeOK
  <2>3. HeldByWriters'
    BY <1>a, <1>3, <2>0, HoldersKept DEF StartPlan, TypeOK, Writing
  <2> QED BY <1>a, <1>3, <2>m, <2>1, <2>2, <2>3 DEF StartPlan, TypeOK
<1>4. ASSUME NEW p \in Processes, StartApply(p) PROVE TypeOK'
  <2>0. Step(p)
    BY <1>4 DEF Step
  <2>m. pc' \in [Processes -> Steps] /\ exit' \in [Processes -> {-1, 0, 1, 2}]
    BY <1>a, <2>0, Moves
  <2>1. cmd' \in [Processes -> {"none", "inspect", "plan", "apply", "init"}]
    BY <1>0, <1>a, <1>4 DEF StartApply, TypeOK
  <2>2. DOMAIN plan' = Processes /\ \A q \in Processes : plan'[q].path \in Paths \cup {"none"}
    BY <1>0, <1>a, <1>4 DEF StartApply, TypeOK
  <2>3. outcome' \in [Processes -> {"none", "blocked", "no-op", "created"}]
    BY <1>0, <1>a, <1>4 DEF StartApply, TypeOK
  <2>4. HeldByWriters'
    BY <1>a, <1>4, <2>0, HoldersKept DEF StartApply, TypeOK, Writing
  <2> QED BY <1>a, <1>4, <2>m, <2>1, <2>2, <2>3, <2>4 DEF StartApply, TypeOK
<1>5. ASSUME NEW p \in Processes, StartInit(p) PROVE TypeOK'
  <2>0. Step(p)
    BY <1>5 DEF Step
  <2>m. pc' \in [Processes -> Steps] /\ exit' \in [Processes -> {-1, 0, 1, 2}]
    BY <1>a, <2>0, Moves
  <2>1. cmd' \in [Processes -> {"none", "inspect", "plan", "apply", "init"}]
    BY <1>0, <1>a, <1>5 DEF StartInit, TypeOK
  <2>2. data' \in [Processes -> Texts]
    BY <1>0, <1>a, <1>5 DEF StartInit, TypeOK
  <2>3. HeldByWriters'
    BY <1>a, <1>5, <2>0, HoldersKept DEF StartInit, TypeOK, Writing
  <2> QED BY <1>a, <1>5, <2>m, <2>1, <2>2, <2>3 DEF StartInit, TypeOK
<1>6. ASSUME NEW p \in Processes, ObserveFile(p) PROVE TypeOK'
  <2>0. Step(p)
    BY <1>6 DEF Step
  <2>m. pc' \in [Processes -> Steps] /\ exit' \in [Processes -> {-1, 0, 1, 2}]
    BY <1>a, <2>0, Moves
  <2>1. seen' \in [Processes -> [Observed -> Texts]]
    <3> DEFINE Updated(f) == [seen[p] EXCEPT ![f] = content[f]]
    <3>1. seen \in [Processes -> [Observed -> Texts]] /\ content \in [Files -> Texts]
      BY <1>a DEF TypeOK
    <3>2. \/ seen' = seen
          \/ \E f \in Observed :
               seen' = [seen EXCEPT ![p] = Updated(f)]
      BY <1>6, WatchedFiles DEF ObserveFile
    <3>3. \A f \in Observed : Updated(f) \in [Observed -> Texts]
      BY <3>1, WatchedFiles
    <3> HIDE DEF Updated
    <3>4. \A r \in [Observed -> Texts] : [seen EXCEPT ![p] = r] \in [Processes -> [Observed -> Texts]]
      BY <3>1, Replaced
    <3> QED BY <3>1, <3>2, <3>3, <3>4
  <2>2. cursor' \in [Processes -> 1 .. Len(Watched) + 1]
    <3>1. cursor \in [Processes -> 1 .. Len(Watched) + 1]
      BY <1>a DEF TypeOK
    <3>2. \/ cursor' = cursor
          \/ cursor[p] \in DOMAIN Watched /\ cursor' = [cursor EXCEPT ![p] = cursor[p] + 1]
      BY <1>6 DEF ObserveFile
    <3>3. \A i \in DOMAIN Watched : i + 1 \in 1 .. Len(Watched) + 1
      BY WatchedFiles
    <3> QED BY <3>1, <3>2, <3>3, Replaced
  <2>3. HeldByWriters'
    BY <1>a, <1>6, <2>0, HoldersKept DEF ObserveFile, InspectionFails, TypeOK, Writing
  <2> QED BY <1>a, <1>6, <2>m, <2>1, <2>2, <2>3 DEF ObserveFile, TypeOK
<1>7. ASSUME NEW p \in Processes, ListWorkflows(p) PROVE TypeOK'
  <2>0. Step(p)
    BY <1>7 DEF Step
  <2>m. pc' \in [Processes -> Steps] /\ exit' \in [Processes -> {-1, 0, 1, 2}]
    BY <1>a, <2>0, Moves
  <2>1. pending' \in [Processes -> SUBSET Workflows]
    BY <1>0, <1>a, <1>7 DEF ListWorkflows, TypeOK
  <2>2. HeldByWriters'
    BY <1>a, <1>7, <2>0, HoldersKept DEF ListWorkflows, TypeOK, Writing
  <2> QED BY <1>a, <1>7, <2>m, <2>1, <2>2 DEF ListWorkflows, TypeOK
<1>8. ASSUME NEW p \in Processes, ReadWorkflow(p) PROVE TypeOK'
  <2>0. Step(p)
    BY <1>8 DEF Step
  <2>m. pc' \in [Processes -> Steps] /\ exit' \in [Processes -> {-1, 0, 1, 2}]
    BY <1>a, <2>0, Moves
  <2>1. pending' \in [Processes -> SUBSET Workflows]
    <3>1. pending \in [Processes -> SUBSET Workflows]
      BY <1>a DEF TypeOK
    <3>2. pending' = pending \/ \E w : pending' = [pending EXCEPT ![p] = pending[p] \ {w}]
      BY <1>8 DEF ReadWorkflow
    <3>3. \A w : pending[p] \ {w} \in SUBSET Workflows
      BY <3>1
    <3> QED BY <3>1, <3>2, <3>3, Replaced
  <2>2. seen' \in [Processes -> [Observed -> Texts]]
    <3> DEFINE Updated(f) == [seen[p] EXCEPT ![f] = content[f]]
    <3>1. seen \in [Processes -> [Observed -> Texts]] /\ content \in [Files -> Texts]
      BY <1>a DEF TypeOK
    <3>2. \/ seen' = seen
          \/ \E f \in Observed :
               seen' = [seen EXCEPT ![p] = Updated(f)]
      BY <1>a, <1>8, WatchedFiles DEF ReadWorkflow, TypeOK
    <3>3. \A f \in Observed : Updated(f) \in [Observed -> Texts]
      BY <3>1, WatchedFiles
    <3> HIDE DEF Updated
    <3>4. \A r \in [Observed -> Texts] : [seen EXCEPT ![p] = r] \in [Processes -> [Observed -> Texts]]
      BY <3>1, Replaced
    <3> QED BY <3>1, <3>2, <3>3, <3>4
  <2>3. HeldByWriters'
    BY <1>a, <1>8, <2>0, HoldersKept DEF ReadWorkflow, InspectionFails, TypeOK, Writing
  <2> QED BY <1>a, <1>8, <2>m, <2>1, <2>2, <2>3 DEF ReadWorkflow, TypeOK
<1>9. ASSUME NEW p \in Processes, ReportInspection(p) PROVE TypeOK'
  <2>0. Step(p)
    BY <1>9 DEF Step
  <2>m. pc' \in [Processes -> Steps] /\ exit' \in [Processes -> {-1, 0, 1, 2}]
    BY <1>a, <2>0, Moves
  <2>1. HeldByWriters'
    BY <1>a, <1>9, <2>0, HoldersKept DEF ReportInspection, Inspected, TypeOK, Writing
  <2> QED BY <1>a, <1>9, <2>m, <2>1 DEF ReportInspection, Inspected, TypeOK
<1>10. ASSUME NEW p \in Processes, SnapshotChanged(p) PROVE TypeOK'
  <2>0. Step(p)
    BY <1>10 DEF Step
  <2>m. pc' \in [Processes -> Steps] /\ exit' \in [Processes -> {-1, 0, 1, 2}]
    BY <1>a, <2>0, Moves
  <2>1. HeldByWriters'
    BY <1>a, <1>10, <2>0, HoldersKept DEF SnapshotChanged, Inspected, TypeOK, Writing
  <2> QED BY <1>a, <1>10, <2>m, <2>1 DEF SnapshotChanged, Inspected, TypeOK
<1>11. ASSUME NEW p \in Processes, LookAtInput(p) PROVE TypeOK'
  <2>0. Step(p)
    BY <1>11 DEF Step
  <2>m. pc' \in [Processes -> Steps] /\ exit' \in [Processes -> {-1, 0, 1, 2}]
    BY <1>a, <2>0, Moves
  <2>1. HeldByWriters'
    BY <1>a, <1>11, <2>0, HoldersKept DEF LookAtInput, Inspected, InspectionFails, TypeOK, Writing
  <2> QED BY <1>a, <1>11, <2>m, <2>1 DEF LookAtInput, TypeOK
<1>12. ASSUME NEW p \in Processes, ReadInput(p) PROVE TypeOK'
  <2>0. Step(p)
    BY <1>12 DEF Step
  <2>m. pc' \in [Processes -> Steps] /\ exit' \in [Processes -> {-1, 0, 1, 2}]
    BY <1>a, <2>0, Moves
  <2>1. data' \in [Processes -> Texts]
    BY <1>0, <1>a, <1>12, WatchedFiles DEF ReadInput, AllInv, ControlInv, Control, TypeOK
  <2>2. HeldByWriters'
    BY <1>a, <1>12, <2>0, HoldersKept DEF ReadInput, TypeOK, Writing
  <2> QED BY <1>a, <1>12, <2>m, <2>1, <2>2 DEF ReadInput, TypeOK
<1>13. ASSUME NEW p \in Processes, BuildPlan(p) PROVE TypeOK'
  <2>0. Step(p)
    BY <1>13 DEF Step
  <2>m. pc' \in [Processes -> Steps] /\ exit' \in [Processes -> {-1, 0, 1, 2}]
    BY <1>a, <2>0, Moves
  <2>1. DOMAIN plan' = Processes /\ \A q \in Processes : plan'[q].path \in Paths \cup {"none"}
    <3>1. \/ plan' = plan
          \/ \E a : plan' = [plan EXCEPT ![p] = a] /\ a.path = plan[p].path
      BY <1>13 DEF BuildPlan, Export, PlanOf
    <3> QED BY <1>a, <3>1 DEF TypeOK
  <2>2. \A a \in plans' : a.path \in Paths /\ a.snapshot \in [Observed -> Texts]
                           /\ ValidManifest(a.manifest)
    BY <1>0, <1>a, <1>13 DEF BuildPlan, Export, PlanOf, AllInv, ControlInv, Control, Prepared, TypeOK
  <2>3. HeldByWriters'
    BY <1>a, <1>13, <2>0, HoldersKept DEF BuildPlan, Export, TypeOK, Writing
  <2> QED BY <1>a, <1>13, <2>m, <2>1, <2>2, <2>3 DEF BuildPlan, Export, TypeOK
<1>14. ASSUME NEW p \in Processes, Revalidate(p) PROVE TypeOK'
  <2>0. Step(p)
    BY <1>14 DEF Step
  <2>m. pc' \in [Processes -> Steps] /\ exit' \in [Processes -> {-1, 0, 1, 2}]
    BY <1>a, <2>0, Moves
  <2>1. outcome' \in [Processes -> {"none", "blocked", "no-op", "created"}]
    BY <1>0, <1>a, <1>14 DEF Revalidate, TypeOK
  <2>2. HeldByWriters'
    BY <1>a, <1>14, <2>0, HoldersKept DEF Revalidate, TypeOK, Writing
  <2> QED BY <1>a, <1>14, <2>m, <2>1, <2>2 DEF Revalidate, TypeOK
<1>15. ASSUME NEW p \in Processes, Create(p) PROVE TypeOK'
  <2>0. Step(p)
    BY <1>15 DEF Step
  <2>m. pc' \in [Processes -> Steps] /\ exit' \in [Processes -> {-1, 0, 1, 2}]
    BY <1>a, <2>0, Moves
  <2>1. /\ content' = content \/ content' = [content EXCEPT ![Goal(p)] = Torn]
        /\ holder' = holder \/ holder' = [holder EXCEPT ![Goal(p)] = p]
        /\ Goal(p) \in Files
    BY <1>15, WatchedFiles DEF Create, Goal
  <2>2. content' \in [Files -> Texts] /\ holder' \in [Files -> Processes \cup {Nobody}]
    <3>1. content \in [Files -> Texts] /\ holder \in [Files -> Processes \cup {Nobody}]
      BY <1>a DEF TypeOK
    <3>2. [content EXCEPT ![Goal(p)] = Torn] \in [Files -> Texts]
      BY <1>0, <2>1, <3>1, Replaced
    <3>3. [holder EXCEPT ![Goal(p)] = p] \in [Files -> Processes \cup {Nobody}]
      BY <2>1, <3>1, Replaced
    <3> QED BY <2>1, <3>1, <3>2, <3>3
  <2>3. made' \in [Processes -> SUBSET Files]
    <3>1. made \in [Processes -> SUBSET Files]
      BY <1>a DEF TypeOK
    <3>2. made' = made \/ made' = [made EXCEPT ![p] = made[p] \cup {Goal(p)}]
      BY <1>15 DEF Create
    <3>3. made[p] \cup {Goal(p)} \in SUBSET Files
      BY <3>1, WatchedFiles DEF Goal
    <3> QED BY <3>1, <3>2, <3>3, Replaced
  <2>4. HeldByWriters'
    <3>1. CASE parent /\ content[Goal(p)] = Absent
      <4>1. /\ holder' = [holder EXCEPT ![Goal(p)] = p] /\ Goal(p) \in Files
            /\ pc'[p] = "write" /\ cmd' = cmd
        BY <1>a, <1>15, <3>1, WatchedFiles DEF Create, Goal, TypeOK
      <4>2. \A q \in Processes \ {p} : pc'[q] = pc[q]
        BY <1>a, <2>0, OthersUntouched DEF Untouched
      <4>3. pc[p] = "create"
        BY <1>15 DEF Create
      <4> QED BY <1>0, <1>a, <4>1, <4>2, <4>3 DEF TypeOK, HeldByWriters, Goal
    <3>2. CASE ~(parent /\ content[Goal(p)] = Absent)
      <4>1. holder' = holder /\ pc[p] \notin Writing
        BY <1>15, <3>2 DEF Create, Writing
      <4> QED BY <1>a, <2>0, <4>1, HoldersKept
    <3> QED BY <3>1, <3>2
  <2>5. UNCHANGED <<parent, plans, cmd, local, outcome, kept, edits>>
    BY <1>15 DEF Create
  <2> QED BY <1>a, <2>m, <2>2, <2>3, <2>4, <2>5 DEF TypeOK
<1>16. ASSUME NEW p \in Processes, Write(p) PROVE TypeOK'
  <2>0. Step(p)
    BY <1>16 DEF Step
  <2>m. pc' \in [Processes -> Steps] /\ exit' \in [Processes -> {-1, 0, 1, 2}]
    BY <1>a, <2>0, Moves
  <2>1. content' \in [Files -> Texts]
    <3>1. content \in [Files -> Texts] /\ data[p] \in Texts
      BY <1>a DEF TypeOK
    <3>2. content' = content \/ content' = [content EXCEPT ![Goal(p)] = data[p]]
      BY <1>16 DEF Write
    <3>3. [content EXCEPT ![Goal(p)] = data[p]] \in [Files -> Texts]
      BY <3>1, Replaced
    <3> QED BY <3>1, <3>2, <3>3
  <2>2. HeldByWriters'
    BY <1>a, <1>16, <2>0, HoldersKept DEF Write, TypeOK, Writing
  <2> QED BY <1>a, <1>16, <2>m, <2>1, <2>2 DEF Write, TypeOK
<1>17. ASSUME NEW p \in Processes, Sync(p) PROVE TypeOK'
  <2>0. Step(p)
    BY <1>17 DEF Step
  <2>m. pc' \in [Processes -> Steps] /\ exit' \in [Processes -> {-1, 0, 1, 2}]
    BY <1>a, <2>0, Moves
  <2>1. HeldByWriters'
    BY <1>a, <1>17, <2>0, HoldersKept DEF Sync, TypeOK, Writing
  <2> QED BY <1>a, <1>17, <2>m, <2>1 DEF Sync, TypeOK
<1>18. ASSUME NEW p \in Processes, Close(p) PROVE TypeOK'
  <2>0. Step(p)
    BY <1>18 DEF Step
  <2>m. pc' \in [Processes -> Steps] /\ exit' \in [Processes -> {-1, 0, 1, 2}]
    BY <1>a, <2>0, Moves
  <2>1. holder' \in [Files -> Processes \cup {Nobody}]
    BY <1>0, <1>a, <1>18 DEF Close, Created, TypeOK
  <2>2. outcome' \in [Processes -> {"none", "blocked", "no-op", "created"}]
    <3>1. outcome' = outcome \/ outcome' = [outcome EXCEPT ![p] = "created"]
      BY <1>18 DEF Close, Created
    <3> QED BY <1>a, <3>1 DEF TypeOK
  <2>1h. /\ holder' = [holder EXCEPT ![Goal(p)] = Nobody] /\ pc[p] = "close"
          /\ cmd' = cmd /\ Goal(p) \in Files
    BY <1>18, WatchedFiles DEF Close, Goal
  <2>2h. \A q \in Processes \ {p} : pc'[q] = pc[q]
    BY <1>a, <2>0, OthersUntouched DEF Untouched
  <2>3. HeldByWriters'
    BY <1>0, <1>a, <2>1h, <2>2h DEF TypeOK, HeldByWriters, Goal
  <2> QED BY <1>a, <1>18, <2>m, <2>1, <2>2, <2>3 DEF Close, Created, TypeOK
<1>19. ASSUME NEW p \in Processes, Remove(p) PROVE TypeOK'
  <2>0. Step(p)
    BY <1>19 DEF Step
  <2>m. pc' \in [Processes -> Steps] /\ exit' \in [Processes -> {-1, 0, 1, 2}]
    BY <1>a, <2>0, Moves
  <2>1. content' \in [Files -> Texts]
    BY <1>0, <1>a, <1>19 DEF Remove, TypeOK
  <2>2. holder' \in [Files -> Processes \cup {Nobody}]
    BY <1>0, <1>a, <1>19 DEF Remove, TypeOK
  <2>3. made' \in [Processes -> SUBSET Files]
    <3>1. made \in [Processes -> SUBSET Files]
      BY <1>a DEF TypeOK
    <3>2. made' = made \/ made' = [made EXCEPT ![p] = made[p] \ {Goal(p)}]
      BY <1>19 DEF Remove
    <3>3. made[p] \ {Goal(p)} \in SUBSET Files
      BY <3>1
    <3> QED BY <3>1, <3>2, <3>3, Replaced
  <2>4. HeldByWriters'
    BY <1>0, <1>a, <1>19, WatchedFiles DEF Remove, TypeOK, HeldByWriters, Goal
  <2> QED BY <1>a, <1>19, <2>m, <2>1, <2>2, <2>3, <2>4 DEF Remove, TypeOK
<1>20. ASSUME NEW p \in Processes, Kill(p) PROVE TypeOK'
  <2>0. Step(p)
    BY <1>20 DEF Step
  <2>m. pc' \in [Processes -> Steps] /\ exit' \in [Processes -> {-1, 0, 1, 2}]
    BY <1>a, <2>0, Moves
  <2>1. holder' \in [Files -> Processes \cup {Nobody}]
    BY <1>0, <1>a, <1>20 DEF Kill, TypeOK
  <2>2. HeldByWriters'
    BY <1>0, <1>a, <1>20, WatchedFiles DEF Kill, TypeOK, HeldByWriters, Goal
  <2> QED BY <1>a, <1>20, <2>m, <2>1, <2>2 DEF Kill, TypeOK
<1>21. CASE UNCHANGED vars
  BY <1>a, <1>21 DEF vars, TypeOK, HeldByWriters, Goal
<1> QED
  BY <1>1, <1>2, <1>3, <1>4, <1>5, <1>6, <1>7, <1>8, <1>9, <1>10, <1>11, <1>12, <1>13, <1>14,
     <1>15, <1>16, <1>17, <1>18, <1>19, <1>20, <1>21 DEF Next, Step
------------------------------------------------------------------------------
(* What each process knows                                               *)

\* A step of p keeps what the others know.
LEMMA ControlOfOthers ==
  ASSUME TypeOK, NEW p \in Processes, Step(p), NEW q \in Processes \ {p}, Control(q)
  PROVE  Control(q)'
BY OthersUntouched DEF Untouched, Control, Prepared

\* A step of p leaves it knowing what the next one needs.
LEMMA ControlOfOwn ==
  ASSUME TypeOK, NEW p \in Processes, Step(p), Control(p)
  PROVE  Control(p)'
<1>a. Processes = DOMAIN pc /\ Processes = DOMAIN cmd /\ Processes = DOMAIN exit
      /\ Processes = DOMAIN outcome /\ Processes = DOMAIN data /\ Processes = DOMAIN plan
      /\ \A a \in plans : a.path \in Paths
  BY DEF TypeOK
<1> USE DEF Goto, Exit, Stale, Refuse, Control, Prepared, Writing
<1>1. CASE StartInspect(p)
  BY <1>a, <1>1 DEF StartInspect, Start
<1>2. CASE StartPlan(p)
  <2>1. plan'[p].path \in Paths
    BY <1>a, <1>2 DEF StartPlan
  <2>2. pc'[p] = "observe" /\ cmd'[p] = "plan" /\ exit' = exit /\ exit[p] = -1
    BY <1>a, <1>2 DEF StartPlan, Start
  <2> QED BY <2>1, <2>2
<1>3. CASE StartApply(p)
  BY <1>a, <1>3 DEF StartApply, Start
<1>4. CASE StartInit(p)
  BY <1>a, <1>4 DEF StartInit, Start
<1>5. CASE ObserveFile(p)
  BY <1>a, <1>5 DEF ObserveFile, InspectionFails
<1>6. CASE ListWorkflows(p)
  BY <1>a, <1>6 DEF ListWorkflows
<1>7. CASE ReadWorkflow(p)
  BY <1>a, <1>7 DEF ReadWorkflow, InspectionFails
<1>8. CASE ReportInspection(p)
  BY <1>a, <1>8 DEF ReportInspection, Inspected
<1>9. CASE SnapshotChanged(p)
  BY <1>a, <1>9 DEF SnapshotChanged, Inspected
<1>10. CASE LookAtInput(p)
  BY <1>a, <1>10 DEF LookAtInput, Inspected, InspectionFails
<1>11. CASE ReadInput(p)
  BY <1>a, <1>11 DEF ReadInput
<1>12. CASE BuildPlan(p)
  <2>1. pc'[p] = "done" /\ cmd[p] = "plan" /\ cmd' = cmd
    BY <1>a, <1>12 DEF BuildPlan, Export
  <2>2. plan'[p].path = plan[p].path
    BY <1>a, <1>12 DEF BuildPlan, Export, PlanOf
  <2> QED BY <2>1, <2>2
<1>13. CASE Revalidate(p)
  BY <1>a, <1>13 DEF Revalidate
<1>14. CASE Create(p)
  BY <1>a, <1>14 DEF Create, InspectionFails, Goal
<1>15. CASE Write(p)
  BY <1>a, <1>15 DEF Write, Goal
<1>16. CASE Sync(p)
  BY <1>a, <1>16 DEF Sync
<1>17. CASE Close(p)
  BY <1>a, <1>17 DEF Close, Created, Goal
<1>18. CASE Remove(p)
  BY <1>a, <1>18 DEF Remove, Goal
<1>19. CASE Kill(p)
  BY <1>a, <1>19 DEF Kill, Running
<1> QED
  BY <1>1, <1>2, <1>3, <1>4, <1>5, <1>6, <1>7, <1>8, <1>9, <1>10, <1>11, <1>12, <1>13, <1>14,
     <1>15, <1>16, <1>17, <1>18, <1>19 DEF Step

\* Every step keeps what a process has done and knows at each of its steps.
LEMMA ControlStep == AllInv /\ [Next]_vars => ControlInv'
<1> SUFFICES ASSUME AllInv, [Next]_vars PROVE ControlInv'
  OBVIOUS
<1>a. TypeOK /\ ControlInv
  BY DEF AllInv
<1>1. CASE Edit
  BY <1>a, <1>1 DEF Edit, ControlInv, Control, Prepared
<1>2. ASSUME NEW p \in Processes, Step(p) PROVE ControlInv'
  BY <1>a, <1>2, ControlOfOthers, ControlOfOwn DEF ControlInv
<1>3. CASE UNCHANGED vars
  BY <1>a, <1>3 DEF vars, ControlInv, Control, Prepared
<1> QED
  BY <1>1, <1>2, <1>3 DEF Next

------------------------------------------------------------------------------
(* What each process has at its target                                     *)

\* A step of p leaves the file another process holds as it is.
LEMMA HeldElsewhere ==
  ASSUME TypeOK, FileInv, NEW p \in Processes, Step(p), NEW q \in Processes \ {p},
         pc[q] \in Writing
  PROVE  holder'[Goal(q)] = q /\ content'[Goal(q)] = content[Goal(q)]
<1>a. Files = DOMAIN content /\ Files = DOMAIN holder
  BY DEF TypeOK
<1>b. Goal(q) \in Files /\ holder[Goal(q)] = q /\ content[Goal(q)] # Absent
  BY WatchedFiles DEF FileInv, File, Goal
<1>c. pc[p] \in Writing => holder[Goal(p)] = p
  BY DEF FileInv, File
<1>d. Goal(p) = Goal(q) => pc[p] \notin Writing
  BY <1>b, <1>c
<1> HIDE DEF Goal
<1>1. CASE StartInspect(p)
  BY <1>a, <1>b, <1>d, <1>1 DEF StartInspect, Start
<1>2. CASE StartPlan(p)
  BY <1>a, <1>b, <1>d, <1>2 DEF StartPlan, Start
<1>3. CASE StartApply(p)
  BY <1>a, <1>b, <1>d, <1>3 DEF StartApply, Start
<1>4. CASE StartInit(p)
  BY <1>a, <1>b, <1>d, <1>4 DEF StartInit, Start
<1>5. CASE ObserveFile(p)
  BY <1>a, <1>b, <1>d, <1>5 DEF ObserveFile, InspectionFails
<1>6. CASE ListWorkflows(p)
  BY <1>a, <1>b, <1>d, <1>6 DEF ListWorkflows
<1>7. CASE ReadWorkflow(p)
  BY <1>a, <1>b, <1>d, <1>7 DEF ReadWorkflow, InspectionFails
<1>8. CASE ReportInspection(p)
  BY <1>a, <1>b, <1>d, <1>8 DEF ReportInspection, Inspected
<1>9. CASE SnapshotChanged(p)
  BY <1>a, <1>b, <1>d, <1>9 DEF SnapshotChanged, Inspected
<1>10. CASE LookAtInput(p)
  BY <1>a, <1>b, <1>d, <1>10 DEF LookAtInput, Inspected, InspectionFails
<1>11. CASE ReadInput(p)
  BY <1>a, <1>b, <1>d, <1>11 DEF ReadInput
<1>12. CASE BuildPlan(p)
  BY <1>a, <1>b, <1>d, <1>12 DEF BuildPlan, Export, PlanOf
<1>13. CASE Revalidate(p)
  BY <1>a, <1>b, <1>d, <1>13 DEF Revalidate
<1>14. CASE Create(p)
  BY <1>a, <1>b, <1>d, <1>14 DEF Create, InspectionFails
<1>15. CASE Write(p)
  BY <1>a, <1>b, <1>d, <1>15 DEF Write, Writing
<1>16. CASE Sync(p)
  BY <1>a, <1>b, <1>d, <1>16 DEF Sync
<1>17. CASE Close(p)
  BY <1>a, <1>b, <1>d, <1>17 DEF Close, Created, Writing
<1>18. CASE Remove(p)
  BY <1>a, <1>b, <1>d, <1>18 DEF Remove, Writing
<1>19. CASE Kill(p)
  BY <1>a, <1>b, <1>d, <1>19 DEF Kill, Running
<1> QED
  BY <1>1, <1>2, <1>3, <1>4, <1>5, <1>6, <1>7, <1>8, <1>9, <1>10, <1>11, <1>12, <1>13, <1>14,
     <1>15, <1>16, <1>17, <1>18, <1>19 DEF Step

\* A step of p keeps what the others have.
LEMMA FileOfOthers ==
  ASSUME TypeOK, FileInv, NEW p \in Processes, Step(p), NEW q \in Processes \ {p}
  PROVE  File(q)'
<1>1. Untouched(q)
  BY OthersUntouched
<1>2. Goal(q)' = Goal(q)
  BY <1>1 DEF Untouched, Goal
<1>3. pc[q] \in Writing => holder'[Goal(q)] = q /\ content'[Goal(q)] = content[Goal(q)]
  BY HeldElsewhere
<1>4. File(q)
  BY DEF FileInv
<1> QED BY <1>1, <1>2, <1>3, <1>4 DEF Untouched, File, Writing

\* A step of p leaves it with the file it is to go on with, or with none.
LEMMA FileOfOwn ==
  ASSUME TypeOK, NEW p \in Processes, Step(p), Control(p), File(p)
  PROVE  File(p)'
<1>a. Processes = DOMAIN pc /\ Processes = DOMAIN cmd /\ Processes = DOMAIN exit
      /\ Processes = DOMAIN data /\ Processes = DOMAIN made
      /\ Files = DOMAIN content /\ Files = DOMAIN holder
  BY DEF TypeOK
<1>b. Goal(p) \in Files
  BY WatchedFiles DEF Goal
<1>c. /\ pc[p] = "write" => data[p] # Absent
      /\ Torn # Absent
      /\ exit[p] # -1 => pc[p] = "done"
      /\ pc[p] \in {"read", "evaluate"} => cmd[p] \in {"plan", "apply"}
  BY Presence DEF Control, Prepared, Writing
<1> USE DEF Goto, Exit, Stale, Refuse, File, Before, Writing
<1>1. CASE StartInspect(p)
  BY <1>a, <1>b, <1>c, <1>1 DEF StartInspect, Start, Goal
<1>2. CASE StartPlan(p)
  BY <1>a, <1>b, <1>c, <1>2 DEF StartPlan, Start, Goal
<1>3. CASE StartApply(p)
  BY <1>a, <1>b, <1>c, <1>3 DEF StartApply, Start, Goal
<1>4. CASE StartInit(p)
  BY <1>a, <1>b, <1>c, <1>4 DEF StartInit, Start, Goal
<1>5. CASE ObserveFile(p)
  BY <1>a, <1>b, <1>c, <1>5 DEF ObserveFile, InspectionFails, Goal
<1>6. CASE ListWorkflows(p)
  BY <1>a, <1>b, <1>c, <1>6 DEF ListWorkflows, Goal
<1>7. CASE ReadWorkflow(p)
  BY <1>a, <1>b, <1>c, <1>7 DEF ReadWorkflow, InspectionFails, Goal
<1>8. CASE ReportInspection(p)
  BY <1>a, <1>b, <1>c, <1>8 DEF ReportInspection, Inspected, Goal
<1>9. CASE SnapshotChanged(p)
  BY <1>a, <1>b, <1>c, <1>9 DEF SnapshotChanged, Inspected, Goal
<1>10. CASE LookAtInput(p)
  BY <1>a, <1>b, <1>c, <1>10 DEF LookAtInput, Inspected, InspectionFails, Goal
<1>11. CASE ReadInput(p)
  BY <1>a, <1>b, <1>c, <1>11 DEF ReadInput, Goal
<1>12. CASE BuildPlan(p)
  BY <1>a, <1>b, <1>c, <1>12 DEF BuildPlan, Export, PlanOf, Goal
<1>13. CASE Revalidate(p)
  BY <1>a, <1>b, <1>c, <1>13 DEF Revalidate, Goal
<1>14. CASE Create(p)
  <2>1. CASE parent /\ content[Goal(p)] = Absent
    <3>1. /\ pc'[p] = "write" /\ cmd' = cmd /\ exit' = exit
          /\ made'[p] = made[p] \cup {Goal(p)}
          /\ holder'[Goal(p)] = p /\ content'[Goal(p)] = Torn
      BY <1>a, <1>b, <1>14, <2>1 DEF Create
    <3>2. made[p] = {} /\ exit[p] = -1
      BY <1>c, <1>14 DEF Create
    <3>3. Goal(p)' = Goal(p)
      BY <3>1 DEF Goal
    <3> QED BY <1>c, <3>1, <3>2, <3>3
  <2>2. CASE ~(parent /\ content[Goal(p)] = Absent)
    BY <1>a, <1>14, <2>2 DEF Create, InspectionFails
  <2> QED BY <2>1, <2>2
<1>15. CASE Write(p)
  BY <1>a, <1>b, <1>c, <1>15 DEF Write, Goal
<1>16. CASE Sync(p)
  BY <1>a, <1>b, <1>c, <1>16 DEF Sync, Goal
<1>17. CASE Close(p)
  <2>1. pc'[p] = "done" /\ exit'[p] \in {0, 1}
    BY <1>a, <1>17 DEF Close
  <2> QED BY <2>1
<1>18. CASE Remove(p)
  <2>1. pc'[p] = "done" /\ exit'[p] = 1
    BY <1>a, <1>18 DEF Remove
  <2> QED BY <2>1
<1>19. CASE Kill(p)
  BY <1>a, <1>b, <1>c, <1>19 DEF Kill, Running, Goal
<1> QED
  BY <1>1, <1>2, <1>3, <1>4, <1>5, <1>6, <1>7, <1>8, <1>9, <1>10, <1>11, <1>12, <1>13, <1>14,
     <1>15, <1>16, <1>17, <1>18, <1>19 DEF Step

\* Every step keeps who is writing which file, and what it still owes.
LEMMA FileStep == AllInv /\ [Next]_vars => FileInv'
<1> SUFFICES ASSUME AllInv, [Next]_vars PROVE FileInv'
  OBVIOUS
<1>a. TypeOK /\ ControlInv /\ FileInv
  BY DEF AllInv
<1>1. CASE Edit
  <2>1. \A q \in Processes : Goal(q)' = Goal(q) /\ q # Nobody
    BY <1>1, BootstrapAssumption DEF Edit, Goal
  <2>2. \A f \in Files : holder[f] # Nobody => content'[f] = content[f] /\ holder'[f] = holder[f]
    BY <1>a, <1>1 DEF Edit, TypeOK
  <2>3. \A q \in Processes : Goal(q) \in Files
    BY WatchedFiles DEF Goal
  <2> QED BY <1>a, <1>1, <2>1, <2>2, <2>3 DEF Edit, FileInv, File, Writing
<1>2. ASSUME NEW p \in Processes, Step(p) PROVE FileInv'
  BY <1>a, <1>2, FileOfOthers, FileOfOwn DEF FileInv, ControlInv
<1>3. CASE UNCHANGED vars
  BY <1>a, <1>3 DEF vars, FileInv, File, Goal
<1> QED
  BY <1>1, <1>2, <1>3 DEF Next
------------------------------------------------------------------------------
(* What the plans and the outcomes rest on                                 *)

\* A process that is through takes no step.
LEMMA DoneStays ==
  ASSUME TypeOK, NEW p \in Processes, Step(p), NEW q \in Processes, pc[q] = "done"
  PROVE  Untouched(q)
<1>1. pc[p] # "done"
  <2>1. CASE StartInspect(p)
    BY <2>1 DEF StartInspect, Start, Start, Running, Inspected
  <2>2. CASE StartPlan(p)
    BY <2>2 DEF StartPlan, Start, Start, Running, Inspected
  <2>3. CASE StartApply(p)
    BY <2>3 DEF StartApply, Start, Start, Running, Inspected
  <2>4. CASE StartInit(p)
    BY <2>4 DEF StartInit, Start, Start, Running, Inspected
  <2>5. CASE ObserveFile(p)
    BY <2>5 DEF ObserveFile, InspectionFails, Start, Running, Inspected
  <2>6. CASE ListWorkflows(p)
    BY <2>6 DEF ListWorkflows, Start, Running, Inspected
  <2>7. CASE ReadWorkflow(p)
    BY <2>7 DEF ReadWorkflow, InspectionFails, Start, Running, Inspected
  <2>8. CASE ReportInspection(p)
    BY <2>8 DEF ReportInspection, Inspected, Start, Running, Inspected
  <2>9. CASE SnapshotChanged(p)
    BY <2>9 DEF SnapshotChanged, Inspected, Start, Running, Inspected
  <2>10. CASE LookAtInput(p)
    BY <2>10 DEF LookAtInput, Inspected, InspectionFails, Start, Running, Inspected
  <2>11. CASE ReadInput(p)
    BY <2>11 DEF ReadInput, Start, Running, Inspected
  <2>12. CASE BuildPlan(p)
    BY <2>12 DEF BuildPlan, Export, PlanOf, Start, Running, Inspected
  <2>13. CASE Revalidate(p)
    BY <2>13 DEF Revalidate, Start, Running, Inspected
  <2>14. CASE Create(p)
    BY <2>14 DEF Create, InspectionFails, Goal, Start, Running, Inspected
  <2>15. CASE Write(p)
    BY <2>15 DEF Write, Goal, Start, Running, Inspected
  <2>16. CASE Sync(p)
    BY <2>16 DEF Sync, Start, Running, Inspected
  <2>17. CASE Close(p)
    BY <2>17 DEF Close, Created, Goal, Start, Running, Inspected
  <2>18. CASE Remove(p)
    BY <2>18 DEF Remove, Goal, Start, Running, Inspected
  <2>19. CASE Kill(p)
    BY <2>19 DEF Kill, Running, Start, Running, Inspected
  <2> QED
    BY <2>1,   <2>2,   <2>3,   <2>4,   <2>5,   <2>6,   <2>7,   <2>8,   <2>9,   <2>10,   <2>11,   <2>12,   <2>13,   <2>14,
       <2>15,   <2>16,   <2>17,   <2>18,   <2>19 DEF Step
<1> QED BY <1>1, OthersUntouched

\* Whatever the target is given to hold is recorded.
LEMMA TargetHeld ==
  ASSUME TypeOK, NEW p \in Processes, Step(p), content[Target] \in held
  PROVE  content'[Target] \in held'
<1>a. Files = DOMAIN content /\ Target \in Files /\ Goal(p) \in Files
  BY WatchedFiles DEF TypeOK, Goal
<1> HIDE DEF Goal
<1>1. CASE StartInspect(p)
  BY <1>a, <1>1 DEF StartInspect, Start
<1>2. CASE StartPlan(p)
  BY <1>a, <1>2 DEF StartPlan, Start
<1>3. CASE StartApply(p)
  BY <1>a, <1>3 DEF StartApply, Start
<1>4. CASE StartInit(p)
  BY <1>a, <1>4 DEF StartInit, Start
<1>5. CASE ObserveFile(p)
  BY <1>a, <1>5 DEF ObserveFile, InspectionFails
<1>6. CASE ListWorkflows(p)
  BY <1>a, <1>6 DEF ListWorkflows
<1>7. CASE ReadWorkflow(p)
  BY <1>a, <1>7 DEF ReadWorkflow, InspectionFails
<1>8. CASE ReportInspection(p)
  BY <1>a, <1>8 DEF ReportInspection, Inspected
<1>9. CASE SnapshotChanged(p)
  BY <1>a, <1>9 DEF SnapshotChanged, Inspected
<1>10. CASE LookAtInput(p)
  BY <1>a, <1>10 DEF LookAtInput, Inspected, InspectionFails
<1>11. CASE ReadInput(p)
  BY <1>a, <1>11 DEF ReadInput
<1>12. CASE BuildPlan(p)
  BY <1>a, <1>12 DEF BuildPlan, Export, PlanOf
<1>13. CASE Revalidate(p)
  BY <1>a, <1>13 DEF Revalidate
<1>14. CASE Create(p)
  BY <1>a, <1>14 DEF Create, InspectionFails
<1>15. CASE Write(p)
  BY <1>a, <1>15 DEF Write
<1>16. CASE Sync(p)
  BY <1>a, <1>16 DEF Sync
<1>17. CASE Close(p)
  BY <1>a, <1>17 DEF Close, Created
<1>18. CASE Remove(p)
  BY <1>a, <1>18 DEF Remove
<1>19. CASE Kill(p)
  BY <1>a, <1>19 DEF Kill, Running
<1> QED
  BY <1>1, <1>2, <1>3, <1>4, <1>5, <1>6, <1>7, <1>8, <1>9, <1>10, <1>11, <1>12, <1>13, <1>14,
     <1>15, <1>16, <1>17, <1>18, <1>19 DEF Step

\* A plan that writes nothing and is not blocked by the target binds what the target
\* has held.
Settled(a) == ~a.write /\ a.blocked = DecisionBlockers(a.manifest) => a.manifest \in held

\* A plan that has nothing to write is made of a manifest the target has held.
LEMMA PlansSettled ==
  ASSUME TypeOK, NEW p \in Processes, Step(p), content[Target] \in held,
         \A a \in plans : Settled(a)
  PROVE  \A a \in plans' : Settled(a)'
<1>1. held \subseteq held'
  BY OthersUntouched
<1>2. CASE plans' = plans
  BY <1>1, <1>2 DEF Settled
<1>3. CASE BuildPlan(p)
  <2>1. held' = held
    BY <1>3 DEF BuildPlan
  <2> SUFFICES ASSUME NEW a, plans' = plans \cup {a},
                      \/ a = PlanOf(p, TRUE, FALSE)
                      \/ a = PlanOf(p, FALSE, content[Target] # data[p])
               PROVE  Settled(a)
    BY <1>2, <1>3, <2>1 DEF BuildPlan, Export, Settled
  <2>2. CASE a = PlanOf(p, TRUE, FALSE)
    BY <2>2 DEF PlanOf, Settled
  <2>3. CASE a = PlanOf(p, FALSE, content[Target] # data[p])
    <3>1. CASE content[Target] = data[p]
      BY <2>3, <3>1 DEF PlanOf, Settled
    <3>2. CASE content[Target] # data[p]
      <4>1. TargetDiffers \in a.blocked /\ a.manifest = data[p]
        BY <2>3, <3>2 DEF PlanOf
      <4> QED BY <4>1, TargetDiffersIsExtra DEF Settled
    <3> QED BY <3>1, <3>2
  <2> QED BY <2>2, <2>3
<1>4. plans' = plans \/ BuildPlan(p)
  BY DEF Step, StartInspect, StartPlan, StartApply, StartInit, ObserveFile, ListWorkflows,
     ReadWorkflow, ReportInspection, SnapshotChanged, LookAtInput, ReadInput, Revalidate,
     Create, Write, Sync, Close, Remove, Kill
<1> QED BY <1>2, <1>3, <1>4

\* A target that an applier created and nobody edited since is there for good: no step
\* of a process changes or holds it, and no second one creates it.
LEMMA KeptStays ==
  ASSUME AllInv, NEW p \in Processes, Step(p), kept # {}
  PROVE  content'[Target] = content[Target] /\ holder'[Target] = Nobody /\ kept' = kept
<1>a. Files = DOMAIN content /\ Files = DOMAIN holder /\ Target \in Files /\ Goal(p) \in Files
  BY WatchedFiles DEF AllInv, TypeOK, Goal
<1>b. holder[Target] = Nobody /\ content[Target] # Absent
  BY Presence DEF AllInv, HistoryInv, OutcomeIsTrue
<1>c. pc[p] \in {"write", "sync", "close", "remove"} => Goal(p) # Target
  BY <1>b, BootstrapAssumption DEF AllInv, FileInv, File, Writing
<1>d. cmd[p] = "apply" => Goal(p) = Target
  BY DEF Goal
<1> HIDE DEF Goal
<1>1. CASE StartInspect(p)
  BY <1>a, <1>b, <1>c, <1>d, <1>1 DEF StartInspect, Start
<1>2. CASE StartPlan(p)
  BY <1>a, <1>b, <1>c, <1>d, <1>2 DEF StartPlan, Start
<1>3. CASE StartApply(p)
  BY <1>a, <1>b, <1>c, <1>d, <1>3 DEF StartApply, Start
<1>4. CASE StartInit(p)
  BY <1>a, <1>b, <1>c, <1>d, <1>4 DEF StartInit, Start
<1>5. CASE ObserveFile(p)
  BY <1>a, <1>b, <1>c, <1>d, <1>5 DEF ObserveFile, InspectionFails
<1>6. CASE ListWorkflows(p)
  BY <1>a, <1>b, <1>c, <1>d, <1>6 DEF ListWorkflows
<1>7. CASE ReadWorkflow(p)
  BY <1>a, <1>b, <1>c, <1>d, <1>7 DEF ReadWorkflow, InspectionFails
<1>8. CASE ReportInspection(p)
  BY <1>a, <1>b, <1>c, <1>d, <1>8 DEF ReportInspection, Inspected
<1>9. CASE SnapshotChanged(p)
  BY <1>a, <1>b, <1>c, <1>d, <1>9 DEF SnapshotChanged, Inspected
<1>10. CASE LookAtInput(p)
  BY <1>a, <1>b, <1>c, <1>d, <1>10 DEF LookAtInput, Inspected, InspectionFails
<1>11. CASE ReadInput(p)
  BY <1>a, <1>b, <1>c, <1>d, <1>11 DEF ReadInput
<1>12. CASE BuildPlan(p)
  BY <1>a, <1>b, <1>c, <1>d, <1>12 DEF BuildPlan, Export, PlanOf
<1>13. CASE Revalidate(p)
  BY <1>a, <1>b, <1>c, <1>d, <1>13 DEF Revalidate
<1>14. CASE Create(p)
  BY <1>a, <1>b, <1>c, <1>d, <1>14 DEF Create, InspectionFails
<1>15. CASE Write(p)
  BY <1>a, <1>b, <1>c, <1>d, <1>15 DEF Write
<1>16. CASE Sync(p)
  BY <1>a, <1>b, <1>c, <1>d, <1>16 DEF Sync
<1>17. CASE Close(p)
  BY <1>a, <1>b, <1>c, <1>d, <1>17 DEF Close, Created
<1>18. CASE Remove(p)
  BY <1>a, <1>b, <1>c, <1>d, <1>18 DEF Remove
<1>19. CASE Kill(p)
  BY <1>a, <1>b, <1>c, <1>d, <1>19 DEF Kill, Running
<1> QED
  BY <1>1, <1>2, <1>3, <1>4, <1>5, <1>6, <1>7, <1>8, <1>9, <1>10, <1>11, <1>12, <1>13, <1>14,
     <1>15, <1>16, <1>17, <1>18, <1>19 DEF Step

\* The first one to keep a target has closed what its plan binds.
LEMMA KeptBegins ==
  ASSUME AllInv, NEW p \in Processes, Step(p), kept' # kept
  PROVE  /\ kept' = kept \cup {p} /\ pc'[p] = "done" /\ plan' = plan
         /\ content'[Target] = plan[p].manifest /\ ValidManifest(plan[p].manifest)
         /\ holder'[Target] = Nobody
<1>1. Close(p) /\ cmd[p] = "apply"
  BY DEF Step, StartInspect, StartPlan, StartApply, StartInit, ObserveFile, ListWorkflows,
     ReadWorkflow, ReportInspection, SnapshotChanged, LookAtInput, ReadInput, BuildPlan,
     Revalidate, Create, Write, Sync, Close, Created, Remove, Kill
<1>2. Goal(p) = Target /\ pc[p] = "close"
  BY <1>1 DEF Goal, Close
<1>3. content[Target] = data[p] /\ data[p] = plan[p].manifest /\ ValidManifest(data[p])
  BY <1>1, <1>2 DEF AllInv, FileInv, File, ControlInv, Control, Prepared, Writing
<1>4. Files = DOMAIN holder /\ Target \in Files /\ Processes = DOMAIN pc
  BY WatchedFiles DEF AllInv, TypeOK
<1>5. kept' = kept \cup {p} /\ plan' = plan /\ content' = content
  BY <1>1 DEF Close, Created
<1>6. pc'[p] = "done" /\ holder'[Target] = Nobody
  BY <1>1, <1>2, <1>4 DEF Close, Exit, Refuse, Goto
<1> QED BY <1>3, <1>5, <1>6

\* Who reports that there was nothing to do has a plan whose manifest the target has
\* held.
LEMMA NoOpBegins ==
  ASSUME AllInv, NEW p \in Processes, Step(p), outcome[p] # "no-op", outcome'[p] = "no-op"
  PROVE  pc'[p] = "done" /\ plan' = plan /\ plan[p].manifest \in held
<1>a. Processes = DOMAIN outcome /\ Processes = DOMAIN pc
  BY DEF AllInv, TypeOK
<1>1. \/ outcome' = outcome \/ outcome' = [outcome EXCEPT ![p] = "blocked"]
      \/ outcome' = [outcome EXCEPT ![p] = "created"] \/ Revalidate(p)
  BY DEF Step, StartInspect, StartPlan, StartApply, StartInit, ObserveFile, ListWorkflows,
     ReadWorkflow, ReportInspection, SnapshotChanged, LookAtInput, ReadInput, BuildPlan,
     Create, Write, Sync, Close, Created, Remove, Kill
<1>2. Revalidate(p) /\ outcome' # outcome
  BY <1>a, <1>1
<1>3. /\ cmd[p] = "apply" /\ pc[p] = "evaluate" /\ Follows(plan[p], data[p])
      /\ ~plan[p].write /\ Exit(p, 0) /\ plan' = plan
  BY <1>2 DEF Revalidate
<1>4. plan[p] \in plans /\ data[p] = plan[p].manifest
  BY <1>3 DEF AllInv, ControlInv, Control, Prepared
<1>5. plan[p].manifest \in held
  BY <1>3, <1>4 DEF AllInv, HistoryInv, Follows
<1> QED BY <1>a, <1>3, <1>5 DEF Exit, Goto

\* Every step keeps the histories: what was held, created, bound and answered.
LEMMA HistoryStep == AllInv /\ [Next]_vars => HistoryInv'
<1> SUFFICES ASSUME AllInv, [Next]_vars PROVE HistoryInv'
  OBVIOUS
<1>a. TypeOK /\ HistoryInv /\ Files = DOMAIN content /\ Target \in Files
  BY WatchedFiles DEF AllInv, TypeOK
<1>1. CASE Edit
  <2>1. content'[Target] \in held' /\ held \subseteq held'
    BY <1>a, <1>1 DEF Edit, HistoryInv
  <2>2. kept' # {} => kept' = kept /\ content'[Target] = content[Target]
    BY <1>a, <1>1 DEF Edit
  <2>3. kept' \subseteq kept
    BY <1>1 DEF Edit
  <2>4. OutcomeIsTrue'
    BY <1>a, <1>1, <2>1, <2>2 DEF Edit, HistoryInv, OutcomeIsTrue
  <2> QED BY <1>a, <1>1, <2>1, <2>2, <2>3, <2>4 DEF Edit, HistoryInv
<1>2. ASSUME NEW p \in Processes, Step(p) PROVE HistoryInv'
  <2>1. content'[Target] \in held'
    BY <1>a, <1>2, TargetHeld DEF HistoryInv
  <2>2. \A a \in plans' : Settled(a)'
    BY <1>a, <1>2, PlansSettled DEF HistoryInv, Settled
  <2>3. held \subseteq held'
    BY <1>a, <1>2, OthersUntouched
  <2>4. \A q \in Processes : pc[q] = "done" => Untouched(q)
    BY <1>a, <1>2, DoneStays
  <2>5. \A q \in Processes \ {p} : Untouched(q)
    BY <1>a, <1>2, OthersUntouched
  <2>6. \A q \in Processes : q \in kept \/ outcome[q] = "no-op" => Untouched(q) /\ pc[q] = "done"
    BY <1>a, <2>4 DEF HistoryInv
  <2>7. kept # {} =>
          content'[Target] = content[Target] /\ holder'[Target] = Nobody /\ kept' = kept
    BY <1>2, KeptStays
  <2>8. kept' # kept =>
          /\ kept' = {p} /\ pc'[p] = "done" /\ plan' = plan
          /\ content'[Target] = plan[p].manifest /\ ValidManifest(plan[p].manifest)
          /\ holder'[Target] = Nobody
    BY <1>2, <2>7, KeptBegins
  <2>9. outcome'[p] = "no-op" /\ outcome[p] # "no-op" =>
          pc'[p] = "done" /\ plan' = plan /\ plan[p].manifest \in held
    BY <1>2, NoOpBegins
  <2>10. kept' # {} => holder'[Target] = Nobody
    BY <2>7, <2>8
  <2>11. kept' \subseteq Processes
    BY <1>a, <2>8 DEF HistoryInv
  <2>12. \A q \in Processes : q \in kept' \/ outcome'[q] = "no-op" => pc'[q] = "done"
    BY <2>5, <2>6, <2>8, <2>9 DEF Untouched
  <2>13. \A q \in kept' : content'[Target] = plan'[q].manifest /\ ValidManifest(plan'[q].manifest)
    <3>1. CASE kept' = kept
      BY <1>a, <2>6, <2>7, <3>1 DEF HistoryInv, OutcomeIsTrue, Untouched
    <3>2. CASE kept' # kept
      BY <2>8, <3>2
    <3> QED BY <3>1, <3>2
  <2>14. \A q, r \in kept' : q = r
    BY <1>a, <2>8 DEF HistoryInv, OutcomeIsTrue
  <2>15. \A q \in Processes : outcome'[q] = "no-op" => plan'[q].manifest \in held'
    <3> SUFFICES ASSUME NEW q \in Processes, outcome'[q] = "no-op"
                 PROVE  plan'[q].manifest \in held'
      OBVIOUS
    <3>1. CASE outcome[q] = "no-op"
      BY <1>a, <2>3, <2>6, <3>1 DEF HistoryInv, OutcomeIsTrue, Untouched
    <3>2. CASE outcome[q] # "no-op"
      BY <2>3, <2>5, <2>9, <3>2 DEF Untouched
    <3> QED BY <3>1, <3>2
  <2>16. OutcomeIsTrue'
    BY <2>13, <2>14, <2>15 DEF OutcomeIsTrue
  <2> QED BY <2>1, <2>2, <2>10, <2>11, <2>12, <2>16 DEF HistoryInv, Settled
<1>3. CASE UNCHANGED vars
  BY <1>a, <1>3 DEF vars, HistoryInv, OutcomeIsTrue
<1> QED
  BY <1>1, <1>2, <1>3 DEF Next

------------------------------------------------------------------------------
(* Theorems                                                                *)

\* The invariant holds before the first command.
LEMMA Initially == Init => AllInv
<1> SUFFICES ASSUME Init PROVE AllInv
  OBVIOUS
<1>0. /\ {Absent, Torn, DefaultManifest} \subseteq Texts /\ MaxEdits \in Nat
      /\ content \in [Files -> Texts]
  BY BootstrapAssumption DEF Init
<1>1. HeldByWriters
  BY DEF Init, HeldByWriters
<1>2. cursor \in [Processes -> 1 .. Len(Watched) + 1]
  BY WatchedFiles DEF Init
<1>3. seen \in [Processes -> [Observed -> Texts]]
  <2>1. Nothing \in [Observed -> Texts]
    BY <1>0 DEF Nothing
  <2> QED BY <2>1 DEF Init
<1>4. /\ holder \in [Files -> Processes \cup {Nobody}] /\ parent \in BOOLEAN
      /\ pc \in [Processes -> Steps] /\ pending \in [Processes -> SUBSET Workflows]
      /\ data \in [Processes -> Texts] /\ edits \in 0 .. MaxEdits
  BY <1>0 DEF Init, Steps
<1>5. DOMAIN plan = Processes /\ \A p \in Processes : plan[p].path \in Paths \cup {"none"}
  BY DEF Init, NoPlan
<1>6. TypeOK
  BY <1>0, <1>1, <1>2, <1>3, <1>4, <1>5 DEF Init, TypeOK
<1>7. ControlInv /\ FileInv
  BY DEF Init, ControlInv, Control, FileInv, File, Before, Writing
<1>8. HistoryInv
  BY DEF Init, HistoryInv, OutcomeIsTrue
<1> QED BY <1>6, <1>7, <1>8 DEF AllInv

\* AllInv holds of every state the commands and the people reach.
THEOREM Invariance == Spec => []AllInv
<1>1. AllInv /\ [Next]_vars => AllInv'
  BY TypeStep, ControlStep, FileStep, HistoryStep DEF AllInv
<1> QED BY <1>1, Initially, PTL DEF Spec

\* Every variable keeps its type, and only a process on its way through a create-only
\* write holds a file.
THEOREM TypeCorrect == Spec => []TypeOK
<1>1. AllInv => TypeOK
  BY DEF AllInv
<1> QED BY <1>1, Invariance, PTL

\* ApplyResult tells the truth: what was "created" is the bound manifest, one process
\* created it and no other process has touched it since; "no-op" is said only of a
\* manifest the target has held.
THEOREM OutcomesAreTrue == Spec => []OutcomeIsTrue
<1>1. AllInv => OutcomeIsTrue
  BY DEF AllInv, HistoryInv
<1> QED BY <1>1, Invariance, PTL

\* An error that wraps ErrStale leaves nothing behind, and a running command has made at
\* most the file it has open.
THEOREM StaleLeavesNothing == Spec => []StaleTouchesNothing
<1>1. AllInv => StaleTouchesNothing
  <2> SUFFICES ASSUME AllInv, NEW p \in Processes
               PROVE  /\ exit[p] = 2 => made[p] = {}
                      /\ Running(p) => \A f \in made[p] : holder[f] = p
    BY DEF StaleTouchesNothing
  <2>1. File(p) /\ pc[p] \in Steps
    BY DEF AllInv, FileInv, TypeOK
  <2>2. Running(p) => pc[p] \in Before \cup Writing
    BY <2>1 DEF Running, Steps, Before, Writing
  <2> QED BY <2>1, <2>2 DEF File
<1> QED BY <1>1, Invariance, PTL

\* A step of a command changes an absent file, or the one it holds.
LEMMA ChangesItsOwn ==
  ASSUME AllInv, NEW p \in Processes, Step(p), NEW f \in Files, content'[f] # content[f]
  PROVE  content[f] = Absent \/ holder[f] # Nobody
<1>a. Files = DOMAIN content
  BY DEF AllInv, TypeOK
<1>b. pc[p] \in {"write", "sync", "close", "remove"} => holder[Goal(p)] # Nobody
  BY BootstrapAssumption DEF AllInv, FileInv, File, Writing
<1> HIDE DEF Goal
<1>1. CASE StartInspect(p)
  BY <1>a, <1>b, <1>1 DEF StartInspect, Start
<1>2. CASE StartPlan(p)
  BY <1>a, <1>b, <1>2 DEF StartPlan, Start
<1>3. CASE StartApply(p)
  BY <1>a, <1>b, <1>3 DEF StartApply, Start
<1>4. CASE StartInit(p)
  BY <1>a, <1>b, <1>4 DEF StartInit, Start
<1>5. CASE ObserveFile(p)
  BY <1>a, <1>b, <1>5 DEF ObserveFile, InspectionFails
<1>6. CASE ListWorkflows(p)
  BY <1>a, <1>b, <1>6 DEF ListWorkflows
<1>7. CASE ReadWorkflow(p)
  BY <1>a, <1>b, <1>7 DEF ReadWorkflow, InspectionFails
<1>8. CASE ReportInspection(p)
  BY <1>a, <1>b, <1>8 DEF ReportInspection, Inspected
<1>9. CASE SnapshotChanged(p)
  BY <1>a, <1>b, <1>9 DEF SnapshotChanged, Inspected
<1>10. CASE LookAtInput(p)
  BY <1>a, <1>b, <1>10 DEF LookAtInput, Inspected, InspectionFails
<1>11. CASE ReadInput(p)
  BY <1>a, <1>b, <1>11 DEF ReadInput
<1>12. CASE BuildPlan(p)
  BY <1>a, <1>b, <1>12 DEF BuildPlan, Export, PlanOf
<1>13. CASE Revalidate(p)
  BY <1>a, <1>b, <1>13 DEF Revalidate
<1>14. CASE Create(p)
  BY <1>a, <1>b, <1>14 DEF Create, InspectionFails
<1>15. CASE Write(p)
  BY <1>a, <1>b, <1>15 DEF Write
<1>16. CASE Sync(p)
  BY <1>a, <1>b, <1>16 DEF Sync
<1>17. CASE Close(p)
  BY <1>a, <1>b, <1>17 DEF Close, Created
<1>18. CASE Remove(p)
  BY <1>a, <1>b, <1>18 DEF Remove
<1>19. CASE Kill(p)
  BY <1>a, <1>b, <1>19 DEF Kill, Running
<1> QED
  BY <1>1, <1>2, <1>3, <1>4, <1>5, <1>6, <1>7, <1>8, <1>9, <1>10, <1>11, <1>12, <1>13, <1>14,
     <1>15, <1>16, <1>17, <1>18, <1>19 DEF Step

\* The commands only create: O_EXCL and the removal of one's own file are all they do to
\* what is there.
THEOREM CommandsOnlyCreate == Spec => CreateOnly
<1>1. AllInv /\ [Next]_vars =>
        [ edits' = edits =>
            \A f \in Files : content'[f] # content[f] =>
              content[f] = Absent \/ holder[f] # Nobody ]_vars
  <2> SUFFICES ASSUME AllInv, Next, edits' = edits, NEW f \in Files, content'[f] # content[f]
               PROVE  content[f] = Absent \/ holder[f] # Nobody
    OBVIOUS
  <2>1. ~Edit
    BY DEF Edit, AllInv, TypeOK
  <2> QED BY <2>1, ChangesItsOwn DEF Next
<1> QED BY <1>1, Invariance, PTL DEF Spec, CreateOnly
=============================================================================
