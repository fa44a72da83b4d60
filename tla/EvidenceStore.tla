---------------------------- MODULE EvidenceStore ----------------------------
(***************************************************************************)
(* What the journal promises its callers: a store of whole records, each   *)
(* name written at most once.  A call that was answered with success has   *)
(* its own record under its name, for good.  A record no caller was        *)
(* assured of may disappear in a power loss; nothing ever replaces one.    *)
(***************************************************************************)
CONSTANTS
  Writers,    \* calls that write one record each
  Names,      \* record file names
  NameOf      \* NameOf[w]: the name under which w's record goes

Absent == "absent"

VARIABLES
  records,    \* records[n]: the call whose whole record is stored under n
  assured     \* calls answered with success

Init ==
  /\ records = [n \in Names |-> Absent]
  /\ assured = {}

Publish(w) ==
  /\ records[NameOf[w]] = Absent
  /\ records' = [records EXCEPT ![NameOf[w]] = w]
  /\ UNCHANGED assured

Assure(w) ==
  /\ records[NameOf[w]] = w
  /\ assured' = assured \cup {w}
  /\ UNCHANGED records

\* Power loss: any records nobody was assured of disappear.
Lose(gone) ==
  /\ \A w \in assured : NameOf[w] \notin gone
  /\ records' = [n \in Names |-> IF n \in gone THEN Absent ELSE records[n]]
  /\ UNCHANGED assured

Next ==
  \/ \E w \in Writers : Publish(w) \/ Assure(w)
  \/ \E gone \in SUBSET Names : Lose(gone)

Spec == Init /\ [][Next]_<<records, assured>>
=============================================================================
