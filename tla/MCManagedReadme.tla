--------------------------- MODULE MCManagedReadme ---------------------------
EXTENDS ManagedReadme, TLC
CONSTANTS s1, s2, main, dev, wanted, other, t1, t2

OneSession == {s1}
TwoSessions == {s1, s2}
OneBranch == {main}
TwoBranches == {main, dev}
SomeTexts == {NoReadme, wanted, other}
WantedEverywhere == [r \in 1 .. NumRepos |-> wanted]
Interchangeable == Permutations(TwoSessions)
OneSecond == {t1}
TwoSeconds == {t1, t2}
=============================================================================
