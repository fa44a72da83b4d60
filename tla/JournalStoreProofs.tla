-------------------------- MODULE JournalStoreProofs --------------------------
(***************************************************************************)
(* Safety of the journal writer for every set of calls, every assignment   *)
(* of record names to them, and any number of power losses.  AllInv is     *)
(* inductive: CallsInv ties the step of a call to the file and directory   *)
(* it has made, NamesInv ties each record name to the call that owns it.   *)
(***************************************************************************)
EXTENDS JournalStore, TLAPS

InDirectory == {"create", "write", "sync", "link", "remove", "syncdir"}
Publishing == {"remove", "syncdir", "done", "crashed"}

CallInv(w) ==
  /\ pc[w] # "done" => answer[w] = "none"
  /\ pc[w] = "journal" => depth >= 1
  /\ pc[w] \in InDirectory => depth = 2
  /\ pc[w] = "sync" => data[w] = Whole
  /\ pc[w] = "link" => data[w] = Whole /\ dataKept[w] = Whole
  /\ pc[w] \in {"remove", "syncdir"} => final[NameOf[w]] = w
  /\ pc[w] = "syncdir" /\ ~dirty[w] => w \notin temp

\* What makes a success last: all that a power loss would spare.
SuccessInv(w) ==
  FsyncParents /\ answer[w] = "ok" =>
    /\ final[NameOf[w]] = w /\ finalKept[NameOf[w]] = w
    /\ w \notin temp /\ w \notin tempKept
    /\ depthKept = 2 /\ depth = 2

NameInv(n) ==
  /\ final[n] # Absent =>
       /\ NameOf[final[n]] = n
       /\ data[final[n]] = Whole /\ dataKept[final[n]] = Whole
       /\ pc[final[n]] \in Publishing
       /\ answer[final[n]] \notin {"error", "exists"}
  /\ finalKept[n] # Absent => finalKept[n] = final[n]

AllInv ==
  /\ TypeOK
  /\ \A w \in Writers : CallInv(w) /\ SuccessInv(w)
  /\ \A n \in Names : NameInv(n)

------------------------------------------------------------------------------
(* The invariant holds initially and no step of a call disturbs it.        *)

USE JournalAssumption DEF Absent, Empty, Partial, Whole

\* Init establishes the invariant.
LEMMA InitInv == Init => AllInv
  BY DEF Init, AllInv, TypeOK, CallInv, SuccessInv, NameInv, Steps, Answers, InDirectory

\* Types are preserved by every action, given types.
LEMMA TypeStep == TypeOK /\ [Next]_vars => TypeOK'
<1> SUFFICES ASSUME TypeOK, [Next]_vars PROVE TypeOK'
  OBVIOUS
<1> USE DEF TypeOK, Steps, Answers, durable, volatile, Goto, Answer, Discard
<1>1. ASSUME NEW w \in Writers, Step(w) PROVE TypeOK'
  <2>1. CASE Reject(w) \/ Begin(w)
    BY <2>1 DEF Reject, Begin
  <2>2. CASE EnsureDirectory(w)
    BY <2>2 DEF EnsureDirectory
  <2>3. CASE CreateTemp(w)
    BY <2>3 DEF CreateTemp
  <2>4. CASE WriteTemp(w)
    BY <2>4 DEF WriteTemp
  <2>5. CASE SyncTemp(w)
    BY <2>5 DEF SyncTemp, FsyncReaches
  <2>6. CASE Link(w)
    BY <2>6 DEF Link
  <2>7. CASE RemoveTemp(w)
    BY <2>7 DEF RemoveTemp
  <2>8. CASE SyncDirectory(w)
    BY <2>8 DEF SyncDirectory, FsyncReaches
  <2> QED BY <1>1, <2>1, <2>2, <2>3, <2>4, <2>5, <2>6, <2>7, <2>8 DEF Step
<1>2. ASSUME NEW w \in Writers, Crash(w) PROVE TypeOK'
  BY <1>2 DEF Crash
<1>3. CASE PowerLoss
  BY <1>3 DEF PowerLoss, Running
<1>4. CASE UNCHANGED vars
  BY <1>4 DEF vars
<1> QED BY <1>1, <1>2, <1>3, <1>4 DEF Next

\* A step of one call keeps every conjunct of the invariant, also those about
\* the other calls and names.
LEMMA CallStep ==
  ASSUME AllInv, TypeOK', NEW v \in Writers, Step(v) \/ Crash(v)
  PROVE  /\ \A w \in Writers : CallInv(w)' /\ SuccessInv(w)'
         /\ \A n \in Names : NameInv(n)'
<1> USE DEF AllInv, TypeOK, CallInv, SuccessInv, NameInv, InDirectory, Publishing,
            durable, volatile, Goto, Answer, Discard
<1>1. CASE Reject(v) \/ Begin(v) \/ Crash(v)
  BY <1>1 DEF Reject, Begin, Crash, Running
<1>2. CASE EnsureDirectory(v)
  BY <1>2 DEF EnsureDirectory
<1>3. CASE CreateTemp(v)
  BY <1>3 DEF CreateTemp
<1>4. CASE WriteTemp(v)
  BY <1>4 DEF WriteTemp
<1>5. CASE SyncTemp(v)
  BY <1>5 DEF SyncTemp, FsyncReaches
<1>6. CASE Link(v)
  BY <1>6 DEF Link
<1>7. CASE RemoveTemp(v)
  BY <1>7 DEF RemoveTemp
<1>8. CASE SyncDirectory(v)
  BY <1>8 DEF SyncDirectory, FsyncReaches
<1> QED BY <1>1, <1>2, <1>3, <1>4, <1>5, <1>6, <1>7, <1>8 DEF Step

\* A power loss keeps the invariant: whole records stay whole because their
\* data was synced before they were linked.
LEMMA LossStep ==
  ASSUME AllInv, TypeOK', PowerLoss
  PROVE  /\ \A w \in Writers : CallInv(w)' /\ SuccessInv(w)'
         /\ \A n \in Names : NameInv(n)'
<1> USE DEF AllInv, TypeOK
<1>1. \A w \in Writers : pc'[w] \in {"idle", "done", "crashed"} /\ (pc[w] = "done" <=> pc'[w] = "done")
  BY DEF PowerLoss, Running
<1>2. \A w \in Writers : CallInv(w)'
  BY <1>1 DEF PowerLoss, CallInv, InDirectory
<1>3. \A w \in Writers : SuccessInv(w)'
  BY DEF PowerLoss, SuccessInv
<1>4. \A n \in Names : final'[n] # Absent => final'[n] = final[n]
  BY DEF PowerLoss
<1>5. \A w \in Writers : dataKept[w] = Whole => data'[w] = Whole /\ dataKept'[w] = Whole
  BY DEF PowerLoss
<1>6. \A w \in Writers : pc[w] \in Publishing => pc'[w] \in Publishing
  BY DEF PowerLoss, Publishing, Running
<1>7. \A n \in Names : NameInv(n)'
  BY <1>4, <1>5, <1>6 DEF PowerLoss, NameInv
<1> QED BY <1>2, <1>3, <1>7

\* AllInv is preserved by every step of the specification.
LEMMA NextInv == AllInv /\ [Next]_vars => AllInv'
<1> SUFFICES ASSUME AllInv, [Next]_vars PROVE AllInv'
  OBVIOUS
<1>1. TypeOK'
  BY TypeStep DEF AllInv
<1>2. ASSUME NEW w \in Writers, Step(w) \/ Crash(w) PROVE AllInv'
  BY <1>1, <1>2, CallStep DEF AllInv
<1>3. CASE PowerLoss
  BY <1>1, <1>3, LossStep DEF AllInv
<1>4. CASE UNCHANGED vars
  BY <1>1, <1>4 DEF vars, AllInv, CallInv, SuccessInv, NameInv
<1> QED BY <1>2, <1>3, <1>4 DEF Next

\* The inductive invariant holds in every reachable state.
LEMMA Invariance == Spec => []AllInv
  BY InitInv, NextInv, PTL DEF Spec

------------------------------------------------------------------------------
(* The properties                                                          *)

\* Every variable of the writer keeps its type.
THEOREM TypeCorrect == Spec => []TypeOK
<1>1. AllInv => TypeOK
  BY DEF AllInv
<1> QED BY <1>1, Invariance, PTL

\* A file under a record name holds a whole record, after any number of crashes
\* and power losses and on a file system that promises no more than the model's.
THEOREM NoRecordIsTorn == Spec => []NoTornRecord
<1>1. AllInv => NoTornRecord
  BY DEF AllInv, NameInv, NoTornRecord
<1> QED BY <1>1, Invariance, PTL

\* A call that failed without a reference has published nothing.
THEOREM FailureIsClean == Spec => []FailureLeavesNothing
<1>1. AllInv => FailureLeavesNothing
  BY DEF AllInv, NameInv, FailureLeavesNothing
<1> QED BY <1>1, Invariance, PTL

\* Where an fsync makes the parents of a file durable, a successful call's
\* record is never lost.
THEOREM SuccessLasts ==
  ASSUME FsyncParents PROVE Spec => []SuccessIsDurable
<1>1. AllInv => SuccessIsDurable
  BY DEF AllInv, SuccessInv, SuccessIsDurable
<1> QED BY <1>1, Invariance, PTL

\* One step: a name keeps its record because os.Link refuses a taken name.
LEMMA StepKeepsRecords ==
  ASSUME AllInv, [Next]_vars, NEW n \in Names, final[n] # Absent
  PROVE  final'[n] = final[n] \/ (final'[n] = Absent /\ losses' > losses)
<1>1. ASSUME NEW w \in Writers, Step(w) \/ Crash(w) PROVE final'[n] = final[n]
  BY <1>1 DEF AllInv, TypeOK, Step, Crash, Reject, Begin, EnsureDirectory, CreateTemp,
              WriteTemp, SyncTemp, Link, RemoveTemp, SyncDirectory, volatile
<1>2. CASE PowerLoss
  BY <1>2 DEF AllInv, TypeOK, PowerLoss
<1>3. CASE UNCHANGED vars
  BY <1>3 DEF vars
<1> QED BY <1>1, <1>2, <1>3 DEF Next

\* No record is ever replaced; only a power loss takes one away.
THEOREM RecordsAreImmutable == Spec => PublishedIsImmutable
<1>1. AllInv /\ [Next]_vars =>
        [\A n \in Names : final[n] # Absent =>
           final'[n] = final[n] \/ (final'[n] = Absent /\ losses' > losses)]_vars
  BY StepKeepsRecords
<1> QED BY <1>1, Invariance, PTL DEF Spec, PublishedIsImmutable

------------------------------------------------------------------------------
(* The writer implements the write-once store                              *)

\* A step of one call publishes its record, assures its caller, or is
\* invisible in the store.
LEMMA CallRefines ==
  ASSUME AllInv, AllInv', FsyncParents, NEW w \in Writers, Step(w) \/ Crash(w)
  PROVE  [Store!Next]_<<final, Assured>>
<1> USE DEF AllInv, TypeOK, volatile, durable, Goto, Answer, Assured
<1>1. CASE Link(w)
  <2>1. Assured' = Assured
    BY <1>1 DEF Link, CallInv
  <2>2. CASE final' = final
    BY <2>1, <2>2
  <2>3. CASE final' # final
    <3>1. Store!Publish(w)
      BY <1>1, <2>1, <2>3 DEF Link, Store!Publish, Store!Absent
    <3> QED BY <3>1 DEF Store!Next
  <2> QED BY <2>2, <2>3
<1>2. CASE SyncDirectory(w)
  <2>1. final' = final /\ final[NameOf[w]] = w
    BY <1>2 DEF SyncDirectory, CallInv
  <2>2. CASE answer'[w] = "ok"
    <3>1. Assured' = Assured \cup {w}
      BY <1>2, <2>2 DEF SyncDirectory
    <3>2. Store!Assure(w)
      BY <2>1, <3>1 DEF Store!Assure
    <3> QED BY <3>2 DEF Store!Next
  <2>3. CASE answer'[w] # "ok"
    <3>1. Assured' = Assured
      BY <1>2, <2>3 DEF SyncDirectory, CallInv
    <3> QED BY <2>1, <3>1
  <2> QED BY <2>2, <2>3
<1>3. CASE ~Link(w) /\ ~SyncDirectory(w)
  BY <1>3, Step(w) \/ Crash(w) DEF Step, Crash, Reject, Begin, EnsureDirectory, CreateTemp,
     WriteTemp, SyncTemp, RemoveTemp, Discard, CallInv
<1> QED BY <1>1, <1>2, <1>3

\* A power loss takes only records nobody was assured of.
LEMMA LossRefines ==
  ASSUME AllInv, AllInv', FsyncParents, PowerLoss
  PROVE  [Store!Next]_<<final, Assured>>
<1> DEFINE gone == {n \in Names : final'[n] = Absent}
<1>1. Assured' = Assured
  BY DEF PowerLoss, Assured
<1>2. \A w \in Assured : NameOf[w] \notin gone
  <2> TAKE w \in Assured
  <2>1. w \in Writers /\ answer'[w] = "ok"
    BY <1>1 DEF Assured
  <2>2. final'[NameOf[w]] = w
    BY <2>1 DEF AllInv, SuccessInv
  <2> QED BY <2>1, <2>2
<1>3. final' = [n \in Names |-> IF n \in gone THEN Store!Absent ELSE final[n]]
  BY DEF AllInv, TypeOK, PowerLoss, Store!Absent
<1>4. Store!Lose(gone)
  BY <1>1, <1>2, <1>3 DEF Store!Lose
<1>5. gone \in SUBSET Names
  OBVIOUS
<1> QED BY <1>4, <1>5 DEF Store!Next

\* Where an fsync makes the parents of a file durable, writeEncoded is a
\* write-once store whose assured records are never lost.
THEOREM WriterIsWriteOnceStore ==
  ASSUME FsyncParents PROVE Spec => StoreSpec
<1>1. Init => Store!Init
  BY DEF Init, Store!Init, Store!Absent, Assured
<1>2. AllInv /\ AllInv' /\ [Next]_vars => [Store!Next]_<<final, Assured>>
  <2> SUFFICES ASSUME AllInv, AllInv', [Next]_vars PROVE [Store!Next]_<<final, Assured>>
    OBVIOUS
  <2>1. CASE UNCHANGED vars
    BY <2>1 DEF vars, Assured
  <2> QED BY <2>1, CallRefines, LossRefines DEF Next
<1> QED BY <1>1, <1>2, Invariance, PTL DEF Spec, StoreSpec, Store!Spec
=============================================================================
