---------------------------- MODULE JournalStore -----------------------------
(***************************************************************************)
(* internal/journal/writer.go: calls of Writer.writeEncoded that publish   *)
(* records beneath one root, over a file system that keeps a volatile view *)
(* (what processes see) and a durable part (what a power loss spares).     *)
(* The file system is external: rename, link and unlink are atomic in the  *)
(* volatile view, and become durable with an fsync of the directory or     *)
(* earlier, in any order.                                                  *)
(*                                                                         *)
(* A file is identified with the call that created it.  `depth' is how     *)
(* much of the path root/.repora/journal exists: 0, 1 or 2 components.     *)
(***************************************************************************)
EXTENDS Naturals

CONSTANTS
  Writers,        \* calls of Write and WriteManagedArtifact
  Names,          \* record file names
  NameOf,         \* recordFilename: from UID or kind, execution ID and phase
  FsyncParents,   \* file system: an fsync makes the file's parents durable too
  MaxLosses       \* bound on power losses

Absent == "absent"
Empty == 0        \* what a file may hold: nothing, some, or all of the record
Partial == 1
Whole == 2

ASSUME JournalAssumption ==
  /\ NameOf \in [Writers -> Names]
  /\ Absent \notin Writers
  /\ FsyncParents \in BOOLEAN
  /\ MaxLosses \in Nat

Steps == {"idle", "parent", "journal", "create", "write", "sync", "link",
          "remove", "syncdir", "done", "crashed"}
Answers == {"none", "ok", "exists", "error", "uncertain"}

VARIABLES
  pc,            \* step of each call
  dirty,         \* os.Remove of the temporary file failed after publication
  answer,        \* ok; ErrRecordExists; error; published but uncertain
  temp,          \* calls whose .record-*.tmp entry exists
  final,         \* final[n]: the file linked under the record name n
  data,          \* data[w]: how much of its record w's file holds
  depth,         \* components of .repora/journal that exist
  tempKept, finalKept, dataKept, depthKept,   \* their durable parts
  losses

volatile == <<temp, final, data, depth>>
durable  == <<tempKept, finalKept, dataKept, depthKept>>
vars == <<pc, dirty, answer, temp, final, data, depth, tempKept, finalKept,
          dataKept, depthKept, losses>>

Init ==
  /\ pc = [w \in Writers |-> "idle"]
  /\ dirty = [w \in Writers |-> FALSE]
  /\ answer = [w \in Writers |-> "none"]
  /\ temp = {} /\ tempKept = {}
  /\ final = [n \in Names |-> Absent] /\ finalKept = final
  /\ data = [w \in Writers |-> Empty] /\ dataKept = data
  /\ depth \in 0 .. 2 /\ depthKept = depth
  /\ losses = 0

Goto(w, step) == pc' = [pc EXCEPT ![w] = step]

Answer(w, a) ==
  /\ Goto(w, "done")
  /\ answer' = [answer EXCEPT ![w] = a]

\* The record fails validation, or the root cannot be resolved: nothing is
\* created and no reference is returned.
Reject(w) ==
  /\ pc[w] = "idle"
  /\ Answer(w, "error")
  /\ UNCHANGED <<dirty, volatile, durable, losses>>

Begin(w) ==
  /\ pc[w] = "idle"
  /\ Goto(w, "parent")
  /\ UNCHANGED <<dirty, answer, volatile, durable, losses>>

\* ensurePrivateDirectory, once for .repora and once for journal: Lstat, Mkdir
\* when absent (losing a race to another Mkdir is fine).  Neither the new
\* directory nor its parent is synced.
EnsureDirectory(w) ==
  /\ pc[w] \in {"parent", "journal"}
  /\ \/ LET level == IF pc[w] = "parent" THEN 1 ELSE 2 IN
        /\ depth' = IF depth < level THEN level ELSE depth
        /\ Goto(w, IF pc[w] = "parent" THEN "journal" ELSE "create")
        /\ UNCHANGED answer
     \/ Answer(w, "error") /\ UNCHANGED depth
  /\ UNCHANGED <<dirty, temp, final, data, durable, losses>>

CreateTemp(w) ==
  /\ pc[w] = "create"
  /\ \/ temp' = temp \cup {w} /\ Goto(w, "write") /\ UNCHANGED answer
     \/ Answer(w, "error") /\ UNCHANGED temp
  /\ UNCHANGED <<dirty, final, data, depth, durable, losses>>

\* The deferred clean-up of a call that has not published: the temporary file
\* is removed, and an error of that removal is ignored.
Discard(w) == temp' = temp \/ temp' = temp \ {w}

\* Chmod and Write; a failed write may leave a part of the record.
WriteTemp(w) ==
  /\ pc[w] = "write"
  /\ \/ /\ data' = [data EXCEPT ![w] = Whole]
        /\ Goto(w, "sync")
        /\ UNCHANGED <<answer, temp>>
     \/ /\ \E d \in {Empty, Partial} : data' = [data EXCEPT ![w] = d]
        /\ Discard(w)
        /\ Answer(w, "error")
  /\ UNCHANGED <<dirty, final, depth, durable, losses>>

\* Mutant of SyncTemp: the temporary file is closed without a Sync.
CloseTempUnsynced(w) ==
  /\ pc[w] = "sync"
  /\ Goto(w, "link")
  /\ UNCHANGED <<dirty, answer, volatile, durable, losses>>

FsyncReaches == IF FsyncParents THEN depth ELSE depthKept

\* Sync and Close.
SyncTemp(w) ==
  /\ pc[w] = "sync"
  /\ \/ /\ dataKept' = [dataKept EXCEPT ![w] = data[w]]
        /\ depthKept' = FsyncReaches
        /\ Goto(w, "link")
        /\ UNCHANGED <<answer, temp>>
     \/ /\ Discard(w)
        /\ Answer(w, "error")
        /\ UNCHANGED <<dataKept, depthKept>>
  /\ UNCHANGED <<dirty, final, data, depth, tempKept, finalKept, losses>>

\* Mutant of Link: the temporary file is renamed over whatever is there.
RenameOver(w) ==
  /\ pc[w] = "link"
  /\ final' = [final EXCEPT ![NameOf[w]] = w]
  /\ temp' = temp \ {w}
  /\ Goto(w, "syncdir")
  /\ UNCHANGED <<dirty, answer, data, depth, durable, losses>>

\* os.Link publishes unless the name is taken.
Link(w) ==
  /\ pc[w] = "link"
  /\ \/ /\ final[NameOf[w]] = Absent
        /\ final' = [final EXCEPT ![NameOf[w]] = w]
        /\ Goto(w, "remove")
        /\ UNCHANGED <<answer, temp>>
     \/ /\ final[NameOf[w]] # Absent
        /\ Discard(w)
        /\ Answer(w, "exists")
        /\ UNCHANGED final
     \/ /\ Discard(w)
        /\ Answer(w, "error")
        /\ UNCHANGED final
  /\ UNCHANGED <<dirty, data, depth, durable, losses>>

\* Mutant of RemoveTemp: a failed removal is an ordinary error, no directory sync.
RemoveTempOrFail(w) ==
  /\ pc[w] = "remove"
  /\ \/ temp' = temp \ {w} /\ Goto(w, "syncdir") /\ UNCHANGED answer
     \/ Answer(w, "error") /\ UNCHANGED temp
  /\ UNCHANGED <<dirty, final, data, depth, durable, losses>>

RemoveTemp(w) ==
  /\ pc[w] = "remove"
  /\ \/ temp' = temp \ {w} /\ UNCHANGED dirty
     \/ dirty' = [dirty EXCEPT ![w] = TRUE] /\ UNCHANGED temp
  /\ Goto(w, "syncdir")
  /\ UNCHANGED <<answer, final, data, depth, durable, losses>>

\* Mutant of SyncDirectory: an error of the sync is ignored.
SyncDirectoryIgnored(w) ==
  /\ pc[w] = "syncdir"
  /\ \/ tempKept' = temp /\ finalKept' = final /\ depthKept' = FsyncReaches
     \/ UNCHANGED <<tempKept, finalKept, depthKept>>
  /\ Answer(w, IF dirty[w] THEN "uncertain" ELSE "ok")
  /\ UNCHANGED <<dirty, volatile, dataKept, losses>>

\* syncDirectory makes every entry of the directory durable, other calls' too.
SyncDirectory(w) ==
  /\ pc[w] = "syncdir"
  /\ \/ /\ tempKept' = temp /\ finalKept' = final /\ depthKept' = FsyncReaches
        /\ Answer(w, IF dirty[w] THEN "uncertain" ELSE "ok")
     \/ /\ Answer(w, "uncertain")
        /\ UNCHANGED <<tempKept, finalKept, depthKept>>
  /\ UNCHANGED <<dirty, volatile, dataKept, losses>>

------------------------------------------------------------------------------
(* The environment                                                         *)

Running(w) == pc[w] \notin {"idle", "done", "crashed"}

\* The process is killed: deferred clean-up does not run.
Crash(w) ==
  /\ Running(w)
  /\ Goto(w, "crashed")
  /\ UNCHANGED <<dirty, answer, volatile, durable, losses>>

\* Every process stops.  What was not made durable survives or not, entry by
\* entry and file by file; without its directory nothing does.
PowerLoss ==
  /\ losses < MaxLosses
  /\ losses' = losses + 1
  /\ pc' = [w \in Writers |-> IF Running(w) THEN "crashed" ELSE pc[w]]
  /\ \E d \in depthKept .. depth, spared \in SUBSET Names, t \in SUBSET (temp \cup tempKept) :
       /\ (temp \cap tempKept) \subseteq t
       /\ depth' = d
       /\ temp' = IF d = 2 THEN t ELSE {}
       /\ final' = [n \in Names |-> IF d = 2 /\ (n \in spared \/ finalKept[n] # Absent)
                                    THEN final[n] ELSE Absent]
  /\ data' \in [Writers -> Empty .. Whole]
  /\ \A w \in Writers : dataKept[w] <= data'[w] /\ data'[w] <= data[w]
  /\ depthKept' = depth' /\ tempKept' = temp' /\ finalKept' = final' /\ dataKept' = data'
  /\ UNCHANGED <<dirty, answer>>

Step(w) ==
  \/ Reject(w) \/ Begin(w) \/ EnsureDirectory(w) \/ CreateTemp(w) \/ WriteTemp(w)
  \/ SyncTemp(w) \/ Link(w) \/ RemoveTemp(w) \/ SyncDirectory(w)

Next ==
  \/ \E w \in Writers : Step(w) \/ Crash(w)
  \/ PowerLoss

Spec == Init /\ [][Next]_vars

------------------------------------------------------------------------------
(* Properties                                                              *)

\* Types of every variable.
TypeOK ==
  /\ pc \in [Writers -> Steps]
  /\ dirty \in [Writers -> BOOLEAN]
  /\ answer \in [Writers -> Answers]
  /\ temp \subseteq Writers /\ tempKept \subseteq Writers
  /\ final \in [Names -> Writers \cup {Absent}]
  /\ finalKept \in [Names -> Writers \cup {Absent}]
  /\ data \in [Writers -> Empty .. Whole]
  /\ dataKept \in [Writers -> Empty .. Whole]
  /\ depth \in 0 .. 2 /\ depthKept \in 0 .. 2
  /\ losses \in 0 .. MaxLosses

\* A file found under a record name holds a whole record, at every moment and
\* after any power loss: the temporary file is synced before it is linked.
NoTornRecord == \A n \in Names : final[n] # Absent => data[final[n]] = Whole

\* A record name never changes from one record to another, whoever else writes
\* under it, and only a power loss can take a record away.
PublishedIsImmutable ==
  [][\A n \in Names : final[n] # Absent =>
       final'[n] = final[n] \/ (final'[n] = Absent /\ losses' > losses)]_vars

\* A call answered without an error has its record published, its temporary
\* file gone, and both outlive every later crash and power loss.
SuccessIsDurable ==
  \A w \in Writers : answer[w] = "ok" => final[NameOf[w]] = w /\ w \notin temp

\* A call answered with an error and no reference has published nothing, now
\* or later: an intent reported as failed is not found in the journal.
FailureLeavesNothing ==
  \A w \in Writers : answer[w] = "error" => final[NameOf[w]] # w

Assured == {w \in Writers : answer[w] = "ok"}
Store == INSTANCE EvidenceStore WITH records <- final, assured <- Assured
\* writeEncoded implements the write-once store: a record goes under a free name,
\* success is answered only for a record that stays, nothing is replaced.
StoreSpec == Store!Spec
=============================================================================
