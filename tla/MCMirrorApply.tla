---------------------------- MODULE MCMirrorApply ----------------------------
(***************************************************************************)
(* Instances of MirrorApply for TLC.  The history is                        *)
(*                 base <- c1          (a line of development)              *)
(*                 base <- fork        (work done on a mirror only)         *)
(* and Line is the part of it without the fork.                             *)
(***************************************************************************)
EXTENDS MirrorApply, TLC

CONSTANTS p1, p2, base, c1, fork, main, dev

OneProc  == {p1}
TwoProcs == {p1, p2}
Line     == {base, c1}
History  == {base, c1, fork}
AncestryOf(commits) ==
  {<<a, c>> \in commits \X commits : a = c \/ a = base}
LineAncestry == AncestryOf(Line)
Ancestry == AncestryOf(History)
OneBranch == {main}
TwoBranches == {main, dev}
OnlyApply == {"apply"}
PlanAndApply == {"plan", "apply"}
EveryMode == AllModes
FirstPathBound == {p1}

\* Reviews start from a dev branch that is everywhere at base, and from a main
\* branch in any relationship.
ReviewInit ==
  /\ Init
  /\ \A r \in Remotes : refs[r][dev] = base
ReviewSpec == ReviewInit /\ [][Next]_vars

\* Executions are interchangeable: no step or property names one of them.
Interchangeable == Permutations(TwoProcs)
==============================================================================
