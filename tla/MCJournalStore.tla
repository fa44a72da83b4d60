--------------------------- MODULE MCJournalStore ----------------------------
(* Three calls, two of which compete for one record name. *)
EXTENDS JournalStore, TLC
CONSTANTS w1, w2, w3, n1, n2

ThreeCalls == {w1, w2, w3}
TwoNames == {n1, n2}
Contended == w1 :> n1 @@ w2 :> n1 @@ w3 :> n2

OneName == {n1}
TwoCalls == {w1, w2}
BothContended == w1 :> n1 @@ w2 :> n1
Rivals == Permutations(TwoCalls)
=============================================================================
