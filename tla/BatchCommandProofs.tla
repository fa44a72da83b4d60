------------------------- MODULE BatchCommandProofs -------------------------
(***************************************************************************)
(* Safety of status, plan and apply over any number of repositories, with  *)
(* any value of --parallel.  AllInv is inductive: PoolInv ties the worker  *)
(* of a repository to the channel and to the slice of results, RoundInv    *)
(* says what each round has established when the main goroutine decides.   *)
(***************************************************************************)
EXTENDS BatchCommand, FiniteSetTheorems, TLAPS

Working == {r \in Repos : task[r] \in {"running", "pushing", "sending"}}
Decided == main \in {"decide", "exited"}

\* The result of r is on its way.
InChannel(r) == \E i \in 1 .. Len(channel) : channel[i][1] = r

PoolInv ==
  /\ slots = Cardinality(Working)
  /\ \A r \in Repos : task[r] # "new" => r \in Launched
  /\ main = "launch" => ~closed /\ \A r \in Repos : task[r] # "new" => r < next
  /\ closed => \A r \in Launched : task[r] = "finished"
  /\ \A r \in Repos : task[r] \in {"sending", "finished"} => made[r] \in Observations
  /\ \A i \in 1 .. Len(channel) :
       /\ task[channel[i][1]] = "finished"
       /\ channel[i][2] = made[channel[i][1]]
  /\ \A r \in Repos : task[r] = "finished" => InChannel(r) \/ placed[r] = made[r]
  /\ Decided => closed /\ channel = <<>>

RoundInv ==
  /\ round = "prepare" =>
       /\ intents = {} /\ mutated = {}
       /\ \A r \in Repos : task[r] # "pushing"
       /\ Multi /\ cmd.command # "status" =>
            \A r \in Repos : task[r] \in {"sending", "finished"} /\ made[r] # "error"
                            => r \in built
       /\ Decided => status = placed
  /\ round = "execute" =>
       /\ cmd.command = "apply" /\ Refusal = 0
       /\ status \in [Repos -> Observations]
       /\ Multi => built = Repos
       /\ \A r \in Repos : /\ task[r] = "pushing" => r \in intents
                           /\ made[r] # "unsafe"
                           /\ made[r] = "ok" => r \in intents
  /\ main # "exited" => exit = -1 /\ ~exported

AllInv == TypeOK /\ PoolInv /\ RoundInv /\ ExportIsComplete /\ OtherwiseSuccessIsComplete

------------------------------------------------------------------------------
(* Facts about the pool                                                    *)

USE BatchAssumption DEF Repos, Observations

\* The fields of a command line.
LEMMA CommandLineFields ==
  ASSUME TypeOK
  PROVE  /\ cmd.command \in {"status", "plan", "apply"}
         /\ cmd.force \in BOOLEAN /\ cmd.continue \in BOOLEAN /\ cmd.dryRun \in BOOLEAN
         /\ cmd.imported \in BOOLEAN /\ cmd.artifact \in BOOLEAN /\ cmd.multi \in BOOLEAN
  BY DEF TypeOK, CommandLines

\* The slots taken are the goroutines at work.
LEMMA WorkingIsFinite == IsFiniteSet(Working) /\ Cardinality(Working) \in Nat
<1>1. IsFiniteSet(Repos)
  BY FS_Interval
<1>2. Working \subseteq Repos
  BY DEF Working
<1> QED BY <1>1, <1>2, FS_Subset, FS_CardinalityType

\* A goroutine that starts takes one slot, one that has sent frees it, and
\* every other step leaves the slots alone.
LEMMA SlotsStep ==
  ASSUME TypeOK, TypeOK', PoolInv, NEW r \in Repos,
         \A q \in Repos \ {r} : task'[q] = task[q]
  PROVE  /\ r \notin Working /\ r \in Working' => Cardinality(Working') = Cardinality(Working) + 1
         /\ r \in Working /\ r \notin Working' => Cardinality(Working') = Cardinality(Working) - 1
         /\ (r \in Working <=> r \in Working') => Working' = Working
<1>1. CASE r \notin Working /\ r \in Working'
  <2>1. Working' = Working \cup {r}
    BY <1>1 DEF Working
  <2> QED BY <1>1, <2>1, WorkingIsFinite, FS_AddElement
<1>2. CASE r \in Working /\ r \notin Working'
  <2>1. Working' = Working \ {r}
    BY <1>2 DEF Working
  <2> QED BY <1>2, <2>1, WorkingIsFinite, FS_RemoveElement
<1>3. CASE r \in Working <=> r \in Working'
  BY <1>3 DEF Working
<1> QED BY <1>1, <1>2, <1>3

\* When the main goroutine decides, every result is in its place.
LEMMA ResultsArePlaced ==
  ASSUME TypeOK, PoolInv, Decided
  PROVE  \A r \in Launched : task[r] = "finished" /\ placed[r] = made[r] /\ made[r] \in Observations
  BY DEF PoolInv, Decided, InChannel, TypeOK, Launched

\* Init establishes the invariant.
LEMMA InitInv == Init => AllInv
<1> SUFFICES ASSUME Init PROVE AllInv
  OBVIOUS
<1>1. TypeOK
  <2>1. forcedIn \subseteq Repos
    BY DEF Init
  <2>2. next \in 1 .. NumRepos + 1 /\ slots \in 0 .. Slots
    BY DEF Init, Slots
  <2>3. /\ task \in [Repos -> {"new", "running", "pushing", "sending", "finished"}]
        /\ made \in [Repos -> Observations \cup {"none"}]
        /\ placed \in [Repos -> Observations \cup {"none"}]
        /\ status \in [Repos -> Observations \cup {"none"}]
    BY DEF Init, Fresh
  <2>4. channel \in Seq(Repos \X Observations)
    BY DEF Init
  <2> QED BY <2>1, <2>2, <2>3, <2>4 DEF Init, TypeOK
<1>2. Working = {}
  BY DEF Init, Working, Fresh
<1>3. PoolInv
  BY <1>2, FS_EmptySet DEF Init, PoolInv, Fresh, Decided, InChannel
<1>4. RoundInv /\ ExportIsComplete /\ OtherwiseSuccessIsComplete
  BY DEF Init, RoundInv, ExportIsComplete, OtherwiseSuccessIsComplete, SuccessIsComplete, Fresh,
         Decided
<1> QED BY <1>1, <1>3, <1>4 DEF AllInv

------------------------------------------------------------------------------
(* Every step keeps the types                                              *)

\* No step leaves the types: a slot is freed only by a goroutine that holds one.
LEMMA TypeStep == AllInv /\ [Next]_vars => TypeOK'
<1> SUFFICES ASSUME AllInv, [Next]_vars PROVE TypeOK'
  OBVIOUS
<1>0. 1 \in 1 .. NumRepos + 1
  OBVIOUS
<1> USE DEF AllInv, TypeOK, pool, effects
<1>1. CASE Launch
  BY <1>1 DEF Launch, Slots
<1>2. CASE AllLaunched
  BY <1>2 DEF AllLaunched
<1>3. CASE Collect
  <2>1. Head(channel) \in Repos \X Observations /\ Tail(channel) \in Seq(Repos \X Observations)
    BY <1>3 DEF Collect
  <2> QED BY <1>3, <2>1 DEF Collect
<1>4. CASE Drained
  BY <1>4 DEF Drained
<1>5. CASE DecideStatus
  BY <1>5 DEF DecideStatus, Exit, StatusCode
<1>6. CASE DecidePathBoundPlan
  <2>1. exported' \in BOOLEAN
    BY <1>6, CommandLineFields DEF DecidePathBoundPlan
  <2>2. exit' \in {0, 1, 2} /\ main' = "exited"
    BY <1>6 DEF DecidePathBoundPlan, Exit
  <2> QED BY <1>6, <2>1, <2>2 DEF DecidePathBoundPlan
<1>7. CASE DecideSinglePlan
  <2>1. exported' \in BOOLEAN
    BY <1>7, CommandLineFields DEF DecideSinglePlan
  <2>2. exit' \in {0, 1, 2} /\ main' = "exited"
    BY <1>7 DEF DecideSinglePlan, Exit
  <2>3. built' \subseteq Repos
    BY <1>7 DEF DecideSinglePlan
  <2> QED BY <1>7, <2>1, <2>2, <2>3 DEF DecideSinglePlan
<1>8. CASE RefuseApply
  BY <1>8 DEF RefuseApply, Exit, Refusal
<1>9. CASE ExecuteRound
  <2>1. built' \subseteq Repos
    BY <1>9 DEF ExecuteRound
  <2>4. next' \in 1 .. NumRepos + 1 /\ closed' \in BOOLEAN
    <3>1. UNCHANGED <<next, closed>> \/ (next' = 1 /\ closed' = FALSE)
      BY <1>9 DEF ExecuteRound
    <3> QED BY <1>0, <3>1
  <2>2. /\ exit' \in {-1, 0, 1, 2} /\ main' \in {"launch", "exited"}
        /\ round' \in {"prepare", "execute"}
    BY <1>9 DEF ExecuteRound, Exit
  <2>3. /\ task' \in [Repos -> {"new", "running", "pushing", "sending", "finished"}]
        /\ made' \in [Repos -> Observations \cup {"none"}]
        /\ placed' \in [Repos -> Observations \cup {"none"}]
    BY <1>9 DEF ExecuteRound, Fresh
  <2> QED BY <1>9, <2>1, <2>2, <2>3, <2>4 DEF ExecuteRound
<1>10. CASE DecideApply
  BY <1>10 DEF DecideApply, Exit
<1>11. CASE Close
  BY <1>11 DEF Close
<1>12. ASSUME NEW r \in Repos, Prepare(r) PROVE TypeOK'
  BY <1>12 DEF Prepare, Return
<1>13. ASSUME NEW r \in Repos, StartExecution(r) PROVE TypeOK'
  <2>1. /\ task' \in [Repos -> {"new", "running", "pushing", "sending", "finished"}]
        /\ made' \in [Repos -> Observations \cup {"none"}]
    BY <1>13 DEF StartExecution, Return
  <2>2. built' \subseteq Repos /\ intents' \subseteq Repos /\ mutated' \subseteq intents'
    BY <1>13 DEF StartExecution
  <2> QED BY <1>13, <2>1, <2>2 DEF StartExecution
<1>14. ASSUME NEW r \in Repos, FinishExecution(r) PROVE TypeOK'
  <2>1. r \in intents
    BY <1>14 DEF FinishExecution, RoundInv
  <2>2. mutated' \subseteq intents'
    BY <1>14, <2>1 DEF FinishExecution
  <2> QED BY <1>14, <2>2 DEF FinishExecution, Return
<1>15. ASSUME NEW r \in Repos, Send(r) PROVE TypeOK'
  <2>1. slots' \in 0 .. Slots
    <3>1. r \in Working /\ Working # {}
      BY <1>15 DEF Send, Working
    <3>2. slots # 0
      BY <3>1, WorkingIsFinite, FS_EmptySet DEF PoolInv
    <3> QED BY <1>15, <3>2 DEF Send, Slots
  <2>2. channel' \in Seq(Repos \X Observations)
    BY <1>15 DEF Send, PoolInv
  <2> QED BY <1>15, <2>1, <2>2 DEF Send
<1>16. CASE UNCHANGED vars
  BY <1>16 DEF vars
<1> QED
  BY <1>1, <1>2, <1>3, <1>4, <1>5, <1>6, <1>7, <1>8, <1>9, <1>10, <1>11, <1>12, <1>13, <1>14,
     <1>15, <1>16 DEF Next, Main, Worker, Exited

------------------------------------------------------------------------------
(* Every step keeps the pool's invariant                                   *)

\* A step of the main goroutine that leaves the pool as it is.
LEMMA PoolUntouched ==
  ASSUME TypeOK, PoolInv, UNCHANGED <<cmd, round, pool>>,
         round = "execute" => UNCHANGED status,
         main' # "launch" \/ UNCHANGED main,
         Decided' => closed /\ channel = <<>>
  PROVE  PoolInv'
<1>1. Launched' = Launched
  BY DEF Launched, Failed, Multi
<1>2. Working' = Working
  BY DEF Working, pool
<1> QED
  BY <1>1, <1>2 DEF PoolInv, InChannel, Decided, pool

\* A step of the call a goroutine makes: its result, if it returns one.
LEMMA CallStep ==
  ASSUME TypeOK, TypeOK', PoolInv, NEW r \in Repos,
         task[r] \in {"running", "pushing"}, task'[r] \in {"pushing", "sending"},
         task'[r] = "sending" => made'[r] \in Observations,
         \A q \in Repos \ {r} : task'[q] = task[q] /\ made'[q] = made[q],
         UNCHANGED <<cmd, main, round, next, slots, channel, closed, placed, status>>
  PROVE  PoolInv'
<1>1. Launched' = Launched
  BY DEF Launched, Failed, Multi
<1>2. slots' = Cardinality(Working')
  <2>1. (r \in Working) /\ (r \in Working')
    BY DEF Working
  <2> QED BY <2>1, SlotsStep DEF PoolInv
<1>3. ~closed
  BY DEF PoolInv
<1>4. \A i \in 1 .. Len(channel) : channel[i][1] \in Repos
  BY DEF TypeOK
<1>5. /\ \A q \in Repos : task'[q] # "new" => q \in Launched'
      /\ main' = "launch" => ~closed' /\ \A q \in Repos : task'[q] # "new" => q < next'
      /\ closed' => \A q \in Launched' : task'[q] = "finished"
  BY <1>1, <1>3 DEF PoolInv
<1>6. \A q \in Repos : task'[q] \in {"sending", "finished"} => made'[q] \in Observations
  BY DEF PoolInv
<1>7. \A i \in 1 .. Len(channel') : task'[channel'[i][1]] = "finished"
                                   /\ channel'[i][2] = made'[channel'[i][1]]
  BY <1>4 DEF PoolInv
<1>8. \A q \in Repos : task'[q] = "finished" => InChannel(q)' \/ placed'[q] = made'[q]
  BY DEF PoolInv, InChannel
<1>9. Decided' => closed' /\ channel' = <<>>
  BY DEF PoolInv, Decided
<1> QED BY <1>2, <1>5, <1>6, <1>7, <1>8, <1>9 DEF PoolInv

\* No step loses a result or leaves a goroutine behind.
LEMMA PoolStep == ASSUME AllInv, TypeOK', [Next]_vars PROVE PoolInv'
<1> USE DEF AllInv, effects
<1>1. CASE Launch
  <2>1. Launched' = Launched
    BY <1>1 DEF Launch, Launched, Failed, Multi
  <2>2. /\ main = "launch" /\ next' = next + 1 /\ next \in Repos
        /\ UNCHANGED <<cmd, main, round, made, channel, closed, placed, status>>
        /\ \A q \in Repos \ {next} : task'[q] = task[q]
    BY <1>1 DEF Launch, TypeOK
  <2>3. ~closed /\ task[next] = "new" /\ \A q \in Repos : task[q] # "new" => q < next
    BY <2>2 DEF PoolInv, TypeOK
  <2>4. \/ next \in Launched /\ task'[next] = "running" /\ slots' = slots + 1
        \/ task' = task /\ slots' = slots
    BY <1>1, <2>2 DEF Launch, TypeOK
  <2>5. slots' = Cardinality(Working')
    <3>1. CASE task' = task /\ slots' = slots
      BY <3>1 DEF PoolInv, Working
    <3>2. CASE task'[next] = "running" /\ slots' = slots + 1
      <4>1. next \notin Working /\ next \in Working'
        BY <2>2, <2>3, <3>2 DEF Working
      <4> QED BY <2>2, <3>2, <4>1, SlotsStep DEF PoolInv
    <3> QED BY <2>4, <3>1, <3>2
  <2>6. /\ \A q \in Repos : task'[q] # "new" => q \in Launched'
        /\ \A q \in Repos : task'[q] # "new" => q < next'
    BY <2>1, <2>2, <2>3, <2>4 DEF PoolInv, TypeOK
  <2>7. \A q \in Repos : task[q] \in {"sending", "finished"} \/ task'[q] \in {"sending", "finished"}
                        => task'[q] = task[q]
    BY <2>2, <2>3, <2>4
  <2>8. \A i \in 1 .. Len(channel) : channel[i][1] \in Repos
    BY DEF TypeOK
  <2> QED BY <2>2, <2>3, <2>5, <2>6, <2>7, <2>8 DEF PoolInv, InChannel, Decided
<1>2. CASE AllLaunched
  BY <1>2, PoolUntouched DEF AllLaunched, Decided
<1>3. CASE Collect
  <2> DEFINE n == Len(channel)
  <2> DEFINE s == channel[1][1]
  <2>1. /\ n \in Nat \ {0} /\ Len(channel') = n - 1
        /\ \A i \in 1 .. n - 1 : channel'[i] = channel[i + 1]
        /\ \A i \in 1 .. n : channel[i][1] \in Repos
        /\ s \in Repos /\ placed' = [placed EXCEPT ![s] = channel[1][2]]
    <3>1. channel \in Seq(Repos \X Observations) /\ channel # <<>> /\ n \in Nat \ {0}
      BY <1>3 DEF Collect, TypeOK
    <3>2. channel' = Tail(channel) /\ Head(channel) = channel[1]
      BY <1>3, <3>1 DEF Collect
    <3>3. Len(channel') = n - 1 /\ \A i \in 1 .. n - 1 : channel'[i] = channel[i + 1]
      BY <3>1, <3>2
    <3>4. \A i \in 1 .. n : channel[i][1] \in Repos
      BY <3>1
    <3>5. placed' = [placed EXCEPT ![s] = channel[1][2]]
      BY <1>3, <3>2 DEF Collect
    <3>6. s \in Repos
      BY <3>1
    <3> HIDE DEF n
    <3> QED BY <3>1, <3>3, <3>4, <3>5, <3>6
  <2>2. UNCHANGED <<cmd, main, round, next, slots, task, made, closed, status>> /\ main = "collect"
    BY <1>3 DEF Collect
  <2>3. Launched' = Launched /\ Working' = Working
    BY <2>2 DEF Launched, Working, Failed, Multi
  <2>4. placed'[s] = made[s] /\ \A q \in Repos \ {s} : placed'[q] = placed[q]
    BY <2>1 DEF PoolInv, TypeOK
  <2>5. \A i \in 1 .. Len(channel') : task'[channel'[i][1]] = "finished"
                                     /\ channel'[i][2] = made'[channel'[i][1]]
    BY <2>1, <2>2 DEF PoolInv
  <2>6. \A q \in Repos : task'[q] = "finished" => InChannel(q)' \/ placed'[q] = made'[q]
    <3> SUFFICES ASSUME NEW q \in Repos \ {s}, task[q] = "finished", placed[q] # made[q]
                 PROVE  InChannel(q)'
      BY <2>2, <2>4
    <3>1. PICK i \in 1 .. n : channel[i][1] = q
      BY DEF PoolInv, InChannel
    <3>2. i # 1
      BY <3>1
    <3>3. i - 1 \in 1 .. Len(channel') /\ channel'[i - 1] = channel[i]
      BY <2>1, <3>2
    <3> QED BY <3>1, <3>3 DEF InChannel
  <2> QED BY <2>2, <2>3, <2>5, <2>6 DEF PoolInv, Decided
<1>4. CASE Drained
  BY <1>4, PoolUntouched DEF Drained, Decided
<1>5. CASE DecideStatus
  BY <1>5, PoolUntouched DEF DecideStatus, Deciding, Exit, PoolInv, Decided
<1>6. CASE DecidePathBoundPlan
  <2>1. UNCHANGED <<cmd, round, pool, status>> /\ main = "decide" /\ main' = "exited"
    BY <1>6 DEF DecidePathBoundPlan, Deciding, Exit
  <2> QED BY <2>1, PoolUntouched DEF PoolInv, Decided
<1>7. CASE DecideSinglePlan
  <2>1. UNCHANGED <<cmd, round, pool, status>> /\ main = "decide" /\ main' = "exited"
    BY <1>7 DEF DecideSinglePlan, Deciding, Exit
  <2> QED BY <2>1, PoolUntouched DEF PoolInv, Decided
<1>8. CASE RefuseApply
  BY <1>8, PoolUntouched DEF RefuseApply, Deciding, Exit, PoolInv, Decided
<1>9. CASE ExecuteRound
  <2>1. CASE UNCHANGED <<round, pool>> /\ main' = "exited"
    <3>1. UNCHANGED <<cmd, status>> /\ main = "decide"
      BY <1>9 DEF ExecuteRound, Deciding
    <3> QED BY <2>1, <3>1, PoolUntouched DEF PoolInv, Decided
  <2>2. CASE main' = "launch"
    <3>1. /\ main = "decide" /\ closed' = FALSE /\ UNCHANGED <<slots, channel>>
          /\ task' = Fresh("new")
      BY <1>9, <2>2 DEF ExecuteRound, Deciding, Exit
    <3>2. Working = {} /\ Working' = {}
      BY <3>1 DEF Working, PoolInv, Decided, Fresh
    <3>3. channel' = <<>> /\ slots' = Cardinality(Working')
      BY <3>1, <3>2 DEF PoolInv, Decided
    <3>4. \A r \in Repos : task'[r] = "new"
      BY <3>1 DEF Fresh
    <3> QED BY <2>2, <3>1, <3>3, <3>4 DEF PoolInv, Decided
  <2> QED BY <1>9, <2>1, <2>2 DEF ExecuteRound, Exit
<1>10. CASE DecideApply
  BY <1>10, PoolUntouched DEF DecideApply, Deciding, Exit, PoolInv, Decided
<1>11. CASE Close
  <2>1. Launched' = Launched
    BY <1>11 DEF Close, Launched, Failed, Multi
  <2>2. Working' = Working
    BY <1>11 DEF Close, Working
  <2> QED BY <1>11, <2>1, <2>2 DEF Close, PoolInv, InChannel, Decided
<1>12. ASSUME NEW r \in Repos, Prepare(r) PROVE PoolInv'
  BY <1>12, CallStep DEF Prepare, Return, TypeOK
<1>13. ASSUME NEW r \in Repos, StartExecution(r) PROVE PoolInv'
  BY <1>13, CallStep DEF StartExecution, Return, TypeOK
<1>14. ASSUME NEW r \in Repos, FinishExecution(r) PROVE PoolInv'
  BY <1>14, CallStep DEF FinishExecution, Return, TypeOK
<1>15. ASSUME NEW r \in Repos, Send(r) PROVE PoolInv'
  <2> DEFINE n == Len(channel)
  <2>1. Launched' = Launched
    BY <1>15 DEF Send, Launched, Failed, Multi
  <2>2. slots' = Cardinality(Working')
    <3>1. r \in Working /\ r \notin Working'
      BY <1>15 DEF Send, Working, TypeOK
    <3>2. \A q \in Repos \ {r} : task'[q] = task[q]
      BY <1>15 DEF Send, TypeOK
    <3> QED BY <1>15, <3>1, <3>2, SlotsStep DEF Send, PoolInv
  <2>3. /\ r \in Launched /\ task[r] = "sending" /\ made[r] \in Observations
        /\ task'[r] = "finished"
        /\ \A q \in Repos \ {r} : task'[q] = task[q]
        /\ UNCHANGED <<cmd, main, round, next, made, closed, placed, status>>
    BY <1>15 DEF Send, PoolInv, TypeOK
  <2>4. ~closed /\ ~Decided
    BY <2>3 DEF PoolInv
  <2>5. /\ n \in Nat /\ Len(channel') = n + 1
        /\ \A i \in 1 .. n : channel'[i] = channel[i] /\ channel[i][1] \in Repos
        /\ channel'[n + 1] = <<r, made[r]>>
    BY <1>15 DEF Send, TypeOK
  <2>6. /\ \A q \in Repos : task'[q] # "new" => q \in Launched'
        /\ main' = "launch" => ~closed' /\ \A q \in Repos : task'[q] # "new" => q < next'
        /\ closed' => \A q \in Launched' : task'[q] = "finished"
    BY <2>1, <2>3, <2>4 DEF PoolInv
  <2>7. \A q \in Repos : task'[q] \in {"sending", "finished"} => made'[q] \in Observations
    BY <2>3 DEF PoolInv
  <2>8. \A i \in 1 .. Len(channel') : task'[channel'[i][1]] = "finished"
                                     /\ channel'[i][2] = made'[channel'[i][1]]
    <3> SUFFICES ASSUME NEW i \in 1 .. n + 1
                 PROVE  task'[channel'[i][1]] = "finished" /\ channel'[i][2] = made'[channel'[i][1]]
      BY <2>5
    <3>1. CASE i = n + 1
      BY <2>3, <2>5, <3>1
    <3>2. CASE i \in 1 .. n
      BY <2>3, <2>5, <3>2 DEF PoolInv
    <3> QED BY <2>5, <3>1, <3>2
  <2>9. \A q \in Repos : task'[q] = "finished" => InChannel(q)' \/ placed'[q] = made'[q]
    <3>1. InChannel(r)'
      <4>1. n + 1 \in 1 .. Len(channel') /\ channel'[n + 1][1] = r
        BY <2>5
      <4> QED BY <4>1 DEF InChannel
    <3>2. ASSUME NEW q \in Repos \ {r}, task'[q] = "finished"
          PROVE  InChannel(q)' \/ placed'[q] = made'[q]
      <4>1. InChannel(q) \/ placed[q] = made[q]
        BY <2>3, <3>2 DEF PoolInv
      <4>2. InChannel(q) => InChannel(q)'
        BY <2>5 DEF InChannel
      <4> QED BY <2>3, <4>1, <4>2
    <3> QED BY <3>1, <3>2
  <2>10. Decided' => closed' /\ channel' = <<>>
    BY <2>3, <2>4 DEF Decided
  <2> QED BY <2>2, <2>6, <2>7, <2>8, <2>9, <2>10 DEF PoolInv
<1>16. CASE UNCHANGED vars
  BY <1>16, PoolUntouched DEF vars, pool, PoolInv, Decided
<1> QED
  BY <1>1, <1>2, <1>3, <1>4, <1>5, <1>6, <1>7, <1>8, <1>9, <1>10, <1>11, <1>12, <1>13, <1>14,
     <1>15, <1>16 DEF Next, Main, Worker, Exited

------------------------------------------------------------------------------
(* Every step keeps what the rounds establish                              *)

\* Whether apply is refused depends on the command, the artifact and the status.
LEMMA SameRefusal ==
  ASSUME UNCHANGED <<cmd, forcedIn, status>>
  PROVE  Refusal' = Refusal
  BY DEF Refusal, Failed, Multi, StopsOnError, Unauthorized, Forced

\* A step of the main goroutine that only moves it on.
LEMMA RoundUntouched ==
  ASSUME RoundInv, UNCHANGED <<cmd, forcedIn, round, task, made, intents, mutated, built>>,
         UNCHANGED status \/ round = "prepare",
         (round = "prepare" /\ Decided') => status' = placed',
         main' = "exited" \/ (UNCHANGED <<exit, exported>> /\ main # "exited")
  PROVE  RoundInv'
<1>1. UNCHANGED status => Refusal' = Refusal
  BY SameRefusal
<1> QED BY <1>1 DEF RoundInv, Multi

\* No step forgets what the first round has established.
LEMMA RoundStep == ASSUME AllInv, TypeOK', [Next]_vars PROVE RoundInv'
<1> USE DEF AllInv, effects, pool
<1>1. CASE Launch
  <2>1. /\ UNCHANGED <<cmd, forcedIn, main, round, made, placed, status, effects, exit>>
        /\ main = "launch"
        /\ \A q \in Repos : task'[q] = task[q] \/ task'[q] = "running"
    BY <1>1 DEF Launch, TypeOK
  <2>2. Refusal' = Refusal
    BY <2>1, SameRefusal
  <2> QED BY <2>1, <2>2 DEF RoundInv, Decided, Multi
<1>2. CASE AllLaunched
  BY <1>2, RoundUntouched DEF AllLaunched, Decided
<1>3. CASE Collect
  BY <1>3, RoundUntouched DEF Collect, Decided
<1>4. CASE Drained
  BY <1>4, RoundUntouched DEF Drained, Decided
<1>5. CASE DecideStatus
  BY <1>5, RoundUntouched DEF DecideStatus, Deciding, Exit, Decided, RoundInv
<1>6. CASE DecidePathBoundPlan
  <2>1. /\ UNCHANGED <<cmd, forcedIn, round, pool, status, built, intents, mutated>>
        /\ main = "decide" /\ main' = "exited"
    BY <1>6 DEF DecidePathBoundPlan, Deciding, Exit
  <2> QED BY <2>1, RoundUntouched DEF Decided, RoundInv
<1>7. CASE DecideSinglePlan
  <2>1. /\ UNCHANGED <<cmd, forcedIn, round, pool, status, intents, mutated>>
        /\ round = "prepare" /\ ~Multi /\ main = "decide" /\ main' = "exited"
    BY <1>7 DEF DecideSinglePlan, Deciding, Exit
  <2> QED BY <2>1 DEF Decided, RoundInv, Multi
<1>8. CASE RefuseApply
  BY <1>8, RoundUntouched DEF RefuseApply, Deciding, Exit, Decided, RoundInv
<1>9. CASE ExecuteRound
  <2>0. /\ UNCHANGED <<cmd, forcedIn, status, intents, mutated, exported>>
        /\ main = "decide" /\ round = "prepare" /\ cmd.command = "apply" /\ Refusal = 0
    BY <1>9 DEF ExecuteRound, Deciding
  <2>1. CASE main' = "exited" /\ UNCHANGED <<round, pool, built>>
    BY <2>0, <2>1, RoundUntouched DEF Decided, RoundInv
  <2>2. CASE main' = "launch"
    <3>1. /\ round' = "execute" /\ task' = Fresh("new") /\ made' = Fresh("none")
          /\ built' = (IF cmd.imported THEN Repos ELSE built) /\ UNCHANGED exit
      BY <1>9, <2>2 DEF ExecuteRound, Exit
    <3>2. Refusal' = 0
      BY <2>0, SameRefusal
    <3>3. \A q \in Repos : status[q] = made[q] /\ made[q] \in Observations /\ task[q] = "finished"
      BY <2>0, ResultsArePlaced DEF Decided, RoundInv, Launched
    <3>4. status \in [Repos -> Observations]
      BY <3>3 DEF TypeOK
    <3>5. Multi => built' = Repos
      <4>1. SUFFICES ASSUME Multi, ~cmd.imported PROVE built = Repos
        BY <3>1
      <4>2. Failed = {}
        BY <2>0, <4>1 DEF Refusal
      <4>3. \A q \in Repos : made[q] # "error"
        BY <3>3, <4>2 DEF Failed
      <4> QED BY <2>0, <3>3, <4>1, <4>3 DEF RoundInv, TypeOK
    <3>6. \A q \in Repos : task'[q] = "new" /\ made'[q] = "none"
      BY <3>1 DEF Fresh
    <3> QED BY <2>0, <2>2, <3>1, <3>2, <3>4, <3>5, <3>6 DEF RoundInv, Multi, Decided
  <2> QED BY <1>9, <2>1, <2>2 DEF ExecuteRound, Exit
<1>10. CASE DecideApply
  BY <1>10, RoundUntouched DEF DecideApply, Deciding, Exit, Decided, RoundInv
<1>11. CASE Close
  BY <1>11, RoundUntouched DEF Close, Decided
<1>12. ASSUME NEW r \in Repos, Prepare(r) PROVE RoundInv'
  <2>1. UNCHANGED <<cmd, forcedIn, main, round, status, placed, exit, exported>>
    BY <1>12 DEF Prepare
  <2>2. Refusal' = Refusal
    BY <2>1, SameRefusal
  <2>3. /\ round = "prepare" /\ UNCHANGED <<intents, mutated>>
        /\ task'[r] = "sending" /\ \A q \in Repos \ {r} : task'[q] = task[q] /\ made'[q] = made[q]
        /\ built \subseteq built'
        /\ Multi /\ cmd.command # "status" /\ made'[r] # "error" => r \in built'
    BY <1>12 DEF Prepare, Return, TypeOK
  <2> QED BY <2>1, <2>3 DEF RoundInv, Decided, Multi
<1>13. ASSUME NEW r \in Repos, StartExecution(r) PROVE RoundInv'
  <2>1. UNCHANGED <<cmd, forcedIn, main, round, status, placed, exit, exported>>
    BY <1>13 DEF StartExecution
  <2>2. Refusal' = Refusal
    BY <2>1, SameRefusal
  <2>3. /\ round = "execute" /\ built \subseteq built' /\ intents \subseteq intents'
        /\ \A q \in Repos \ {r} : task'[q] = task[q] /\ made'[q] = made[q]
        /\ \/ task'[r] = "sending" /\ made'[r] = "error"
           \/ task'[r] = "pushing" /\ made'[r] = made[r] /\ r \in intents'
    BY <1>13 DEF StartExecution, Return, TypeOK
  <2>4. Multi => built' = Repos
    <3>1. built' \subseteq Repos
      BY DEF TypeOK
    <3> QED BY <2>3, <3>1 DEF RoundInv
  <2>5. \A q \in Repos : /\ task'[q] = "pushing" => q \in intents'
                         /\ made'[q] # "unsafe"
                         /\ made'[q] = "ok" => q \in intents'
    BY <2>3 DEF RoundInv
  <2>6. status \in [Repos -> Observations] /\ cmd.command = "apply" /\ Refusal = 0
    BY <2>3 DEF RoundInv
  <2> QED BY <2>1, <2>2, <2>3, <2>4, <2>5, <2>6 DEF RoundInv, Multi
<1>14. ASSUME NEW r \in Repos, FinishExecution(r) PROVE RoundInv'
  <2>1. UNCHANGED <<cmd, forcedIn, main, round, status, placed, exit, exported>>
    BY <1>14 DEF FinishExecution
  <2>2. Refusal' = Refusal
    BY <2>1, SameRefusal
  <2>3. round = "execute" /\ r \in intents /\ UNCHANGED <<intents, built>>
    BY <1>14 DEF FinishExecution, RoundInv, TypeOK
  <2>4. /\ task'[r] = "sending" /\ made'[r] \in {"ok", "error"}
        /\ \A q \in Repos \ {r} : task'[q] = task[q] /\ made'[q] = made[q]
    BY <1>14 DEF FinishExecution, Return, TypeOK
  <2> QED BY <2>1, <2>2, <2>3, <2>4 DEF RoundInv, Decided, Multi
<1>15. ASSUME NEW r \in Repos, Send(r) PROVE RoundInv'
  <2>1. UNCHANGED <<cmd, forcedIn, main, round, status, placed, exit, exported>>
    BY <1>15 DEF Send
  <2>2. Refusal' = Refusal
    BY <2>1, SameRefusal
  <2>3. /\ UNCHANGED <<made, built, intents, mutated>>
        /\ task[r] = "sending" /\ task'[r] = "finished"
        /\ \A q \in Repos \ {r} : task'[q] = task[q]
    BY <1>15 DEF Send, TypeOK
  <2> QED BY <2>1, <2>2, <2>3 DEF RoundInv, Decided, Multi
<1>16. CASE UNCHANGED vars
  BY <1>16, RoundUntouched DEF vars, Decided, RoundInv
<1> QED
  BY <1>1, <1>2, <1>3, <1>4, <1>5, <1>6, <1>7, <1>8, <1>9, <1>10, <1>11, <1>12, <1>13, <1>14,
     <1>15, <1>16 DEF Next, Main, Worker, Exited

------------------------------------------------------------------------------
(* What the exit status and the exported artifact say                      *)

Outcome == ExportIsComplete /\ OtherwiseSuccessIsComplete

\* Nothing is left to run when the main goroutine decides.
LEMMA AllAtRest ==
  ASSUME TypeOK, PoolInv, Decided
  PROVE  closed /\ \A r \in Repos : task[r] \in {"new", "finished"}
  BY DEF PoolInv, TypeOK

\* Every command line but one executes only when nothing has failed.
LEMMA NothingHasFailed ==
  ASSUME AllInv, round = "execute", ~GoesOnWithout
  PROVE  Failed = {} /\ Launched = Repos
<1>1. Refusal = 0 /\ cmd.command = "apply"
  BY DEF AllInv, RoundInv
<1>2. Failed = {}
  BY <1>1, CommandLineFields DEF AllInv, Refusal, GoesOnWithout, StopsOnError, Multi
<1> QED BY <1>2 DEF Launched

\* The first round leaves a result of every repository.
LEMMA PreparedResults ==
  ASSUME AllInv, main = "decide", round = "prepare"
  PROVE  \A r \in Repos : /\ status[r] = made[r] /\ made[r] \in Observations
                          /\ task[r] = "finished"
  BY ResultsArePlaced DEF AllInv, RoundInv, Decided, Launched

\* Every decision tells the truth about what has been done.
LEMMA OutcomeStep ==
  ASSUME AllInv, TypeOK', RoundInv', [Next]_vars
  PROVE  Outcome'
<1> USE DEF AllInv, Outcome, effects, pool
<1>1. CASE main' # "exited"
  BY <1>1 DEF RoundInv, ExportIsComplete, OtherwiseSuccessIsComplete, SuccessIsComplete
<1>2. CASE main' = "exited" /\ UNCHANGED vars
  BY <1>2 DEF vars, ExportIsComplete, OtherwiseSuccessIsComplete, SuccessIsComplete,
              GoesOnWithout, Multi
<1>3. CASE DecideStatus
  <2>1. /\ UNCHANGED <<cmd, status, exported, built>> /\ cmd.command = "status"
        /\ main = "decide" /\ round = "prepare" /\ exit' = StatusCode
    BY <1>3 DEF DecideStatus, Deciding, Exit
  <2>2. exit' = 0 => \A r \in Repos : status[r] \in {"ok", "unsafe"}
    BY <2>1, PreparedResults DEF StatusCode, Failed
  <2> QED BY <2>1, <2>2 DEF ExportIsComplete, OtherwiseSuccessIsComplete, SuccessIsComplete
<1>4. CASE DecidePathBoundPlan
  <2>1. /\ UNCHANGED <<cmd, status, built>> /\ cmd.command = "plan" /\ Multi
        /\ main = "decide" /\ round = "prepare"
    BY <1>4 DEF DecidePathBoundPlan, Deciding
  <2>2. Failed = {} => built = Repos /\ \A r \in Repos : status[r] \in {"ok", "unsafe"}
    <3>1. \A r \in Repos : /\ status[r] = made[r] /\ made[r] \in Observations
                           /\ task[r] = "finished"
      BY <2>1, PreparedResults
    <3>2. \A r \in Repos : status[r] # "error" => r \in built
      <4>1. \A r \in Repos : task[r] \in {"sending", "finished"} /\ made[r] # "error"
                              => r \in built
        BY <2>1 DEF RoundInv
      <4> QED BY <3>1, <4>1
    <3>3. built \subseteq Repos
      BY DEF TypeOK
    <3> QED BY <3>1, <3>2, <3>3 DEF Failed
  <2>3. exit' = 0 => Failed = {}
    BY <1>4 DEF DecidePathBoundPlan, Exit
  <2>4. exported' => Failed = {}
    BY <1>4, <2>1 DEF DecidePathBoundPlan, RoundInv
  <2> QED BY <2>1, <2>2, <2>3, <2>4
           DEF ExportIsComplete, OtherwiseSuccessIsComplete, SuccessIsComplete
<1>5. CASE DecideSinglePlan
  <2>1. /\ UNCHANGED <<cmd, status>> /\ cmd.command = "plan"
        /\ main = "decide" /\ round = "prepare"
    BY <1>5 DEF DecideSinglePlan, Deciding
  <2>2. exit' = 0 => Failed = {} /\ built' = Repos
    <3> SUFFICES ASSUME exit' = 0 PROVE Failed = {} /\ built' = Repos
      OBVIOUS
    <3>1. ~StopsOnError
      BY <1>5 DEF DecideSinglePlan, Exit
    <3>2. PICK unbuilt \in SUBSET (Repos \ Failed) :
            /\ built' = Repos \ (Failed \cup unbuilt)
            /\ exit' = IF unbuilt # {} \/ (cmd.artifact /\ SingleArtifactSuppressed(unbuilt)) THEN 1
                       ELSE IF Failed # {} THEN (IF Unsafe # {} THEN 2 ELSE 1)
                       ELSE IF Unsafe # {} /\ ~cmd.force THEN 2 ELSE 0
      BY <1>5, <3>1 DEF DecideSinglePlan, Exit
    <3>3. unbuilt = {} /\ Failed = {}
      BY <3>2
    <3> QED BY <3>2, <3>3
  <2>3. exported' => Failed = {} /\ built' = Repos
    BY <1>5, <2>1 DEF DecideSinglePlan, SingleArtifactSuppressed, RoundInv
  <2>4. Failed = {} => \A r \in Repos : status[r] \in {"ok", "unsafe"}
    BY <2>1, PreparedResults DEF Failed
  <2> QED BY <2>1, <2>2, <2>3, <2>4
           DEF ExportIsComplete, OtherwiseSuccessIsComplete, SuccessIsComplete
<1>6. CASE RefuseApply
  <2>1. exit' # 0 /\ UNCHANGED <<exported, built>> /\ main = "decide"
    BY <1>6 DEF RefuseApply, Exit, Deciding
  <2> QED BY <2>1 DEF ExportIsComplete, OtherwiseSuccessIsComplete, SuccessIsComplete
<1>7. CASE ExecuteRound /\ main' = "exited"
  <2>1. exit' # 0 /\ UNCHANGED exported /\ main = "decide"
    BY <1>7 DEF ExecuteRound, Exit, Deciding
  <2> QED BY <2>1 DEF ExportIsComplete, OtherwiseSuccessIsComplete, SuccessIsComplete, RoundInv
<1>8. CASE DecideApply
  <2>1. /\ UNCHANGED <<cmd, status, made, placed, intents, exported, built>>
        /\ cmd.command = "apply" /\ main = "decide" /\ round = "execute"
        /\ exit' = (IF AnyError THEN 1 ELSE 0)
    BY <1>8 DEF DecideApply, Deciding, Exit
  <2>0. ~exported' /\ GoesOnWithout' = GoesOnWithout
    BY <2>1 DEF RoundInv, GoesOnWithout, Multi
  <2>2. SUFFICES ASSUME exit' = 0, ~GoesOnWithout PROVE SuccessIsComplete'
    <3>1. ExportIsComplete'
      BY <2>0 DEF ExportIsComplete
    <3>2. exit' # 0 => SuccessIsComplete'
      BY DEF SuccessIsComplete
    <3> QED BY <2>0, <3>1, <3>2 DEF OtherwiseSuccessIsComplete
  <2>3. Failed = {} /\ Launched = Repos
    BY <2>1, <2>2, NothingHasFailed
  <2>4. \A r \in Repos : placed[r] = made[r] /\ made[r] = "ok"
    BY <2>1, <2>2, <2>3, ResultsArePlaced DEF AnyError, RoundInv, Decided
  <2>5. intents = Repos
    BY <2>1, <2>4 DEF RoundInv, TypeOK
  <2>6. \A r \in Repos : status[r] \in {"ok", "unsafe"}
    BY <2>1, <2>3 DEF RoundInv, Failed
  <2> QED BY <2>1, <2>4, <2>5, <2>6 DEF SuccessIsComplete
<1>9. CASE main' = "exited" /\ (Launch \/ AllLaunched \/ Collect \/ Drained)
  BY <1>9 DEF Launch, AllLaunched, Collect, Drained
<1>10. CASE main' = "exited" /\ Close
  BY <1>10 DEF Close
<1>11. ASSUME NEW r \in Repos, Worker(r), main' = "exited" PROVE FALSE
  <2>1. main = "exited"
    BY <1>11 DEF Worker, Prepare, StartExecution, FinishExecution, Send
  <2>2. task[r] \in {"new", "finished"}
    BY <2>1, AllAtRest DEF Decided
  <2> QED BY <1>11, <2>2 DEF Worker, Prepare, StartExecution, FinishExecution, Send
<1> QED
  BY <1>1, <1>2, <1>3, <1>4, <1>5, <1>6, <1>7, <1>8, <1>9, <1>10, <1>11 DEF Next, Main, Exited

------------------------------------------------------------------------------
(* The theorems                                                            *)

\* The inductive invariant holds of every command, whatever the goroutines do.
THEOREM Invariance == Spec => []AllInv
<1>1. ASSUME AllInv, [Next]_vars PROVE AllInv'
  BY <1>1, TypeStep, PoolStep, RoundStep, OutcomeStep DEF AllInv, Outcome
<1> QED BY InitInv, <1>1, PTL DEF Spec

\* Types; no more than Slots goroutines work at the same time, and a repository
\* is changed only after its INTENT.
THEOREM TypeCorrect == Spec => []TypeOK
<1>1. AllInv => TypeOK
  BY DEF AllInv
<1> QED BY <1>1, Invariance, PTL

\* The path-bound apply observes and plans the whole selection before the first
\* INTENT.
THEOREM PathBoundPrepares == Spec => []PathBoundPreparedBeforeIntent
<1>1. ASSUME AllInv PROVE PathBoundPreparedBeforeIntent
  <2> SUFFICES ASSUME Multi, intents # {}
               PROVE  (\A r \in Repos : status[r] \in {"ok", "unsafe"}) /\ built = Repos
    BY DEF PathBoundPreparedBeforeIntent, PreparedBeforeIntent
  <2>1. round = "execute"
    BY <1>1 DEF AllInv, RoundInv, TypeOK
  <2>2. Failed = {}
    BY <1>1, <2>1, NothingHasFailed DEF GoesOnWithout
  <2> QED BY <1>1, <2>1, <2>2 DEF AllInv, RoundInv, Failed
<1> QED BY <1>1, Invariance, PTL

\* A selection that needs --force and does not have it is refused before any
\* INTENT.
THEOREM RefusedFirst == Spec => []RefusedAsAWhole
<1>1. ASSUME AllInv PROVE RefusedAsAWhole
  <2> SUFFICES ASSUME intents # {} PROVE ~Unauthorized
    BY DEF RefusedAsAWhole
  <2>1. round = "execute"
    BY <1>1 DEF AllInv, RoundInv, TypeOK
  <2> QED BY <1>1, <2>1 DEF AllInv, RoundInv, Refusal
<1> QED BY <1>1, Invariance, PTL

\* Whatever order the goroutines end in, every result is stored under its own
\* repository before the main goroutine looks at any.
THEOREM ResultsAreNotMixedUp == Spec => []ResultsKeepTheirPlace
<1>1. ASSUME AllInv PROVE ResultsKeepTheirPlace
  BY <1>1, ResultsArePlaced DEF AllInv, ResultsKeepTheirPlace, Decided
<1> QED BY <1>1, Invariance, PTL

\* An exact artifact on standard output covers the whole selection.
THEOREM ExportsAreComplete == Spec => []ExportIsComplete
<1>1. AllInv => ExportIsComplete
  BY DEF AllInv
<1> QED BY <1>1, Invariance, PTL

\* Exit status 0 means the operation completed for every repository, except for
\* the one command line that says it may not.
THEOREM SuccessMeansComplete == Spec => []OtherwiseSuccessIsComplete
<1>1. AllInv => OtherwiseSuccessIsComplete
  BY DEF AllInv
<1> QED BY <1>1, Invariance, PTL
=============================================================================
