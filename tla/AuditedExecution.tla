-------------------------- MODULE AuditedExecution --------------------------
(***************************************************************************)
(* What an audited execution promises, whatever it mutates: each target is *)
(* attempted at most once, only between the execution's INTENT and RESULT  *)
(* records, and a record once published stays as it is.  Losing either     *)
(* record, or stopping at any point, is allowed; an attempt without an     *)
(* INTENT, or after the RESULT that should have reported it, is not.       *)
(***************************************************************************)
CONSTANTS Executions, Targets

VARIABLES
  journal,    \* published <<execution, phase>> records
  attempted   \* <<execution, target>>: a mutation of target was started

Init == journal = {} /\ attempted = {}

WriteIntent(x) ==
  /\ <<x, "INTENT">> \notin journal
  /\ journal' = journal \cup {<<x, "INTENT">>}
  /\ UNCHANGED attempted

Attempt(x, t) ==
  /\ <<x, "INTENT">> \in journal
  /\ <<x, "RESULT">> \notin journal
  /\ <<x, t>> \notin attempted
  /\ attempted' = attempted \cup {<<x, t>>}
  /\ UNCHANGED journal

WriteResult(x) ==
  /\ <<x, "INTENT">> \in journal
  /\ <<x, "RESULT">> \notin journal
  /\ journal' = journal \cup {<<x, "RESULT">>}
  /\ UNCHANGED attempted

Next ==
  \E x \in Executions :
    WriteIntent(x) \/ WriteResult(x) \/ \E t \in Targets : Attempt(x, t)

Spec == Init /\ [][Next]_<<journal, attempted>>
==============================================================================
