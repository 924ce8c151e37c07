----------------------------- MODULE MCProfiles -----------------------------
(* Instances of Profiles for TLC: two labs, two names. *)
EXTENDS Profiles

CONSTANTS c1, c2, t1, t2, home, away, work

OneCard == {c1}
TwoCards == {c1, c2}
TwoThreads == {t1, t2}
TwoLabs == {home, away}
TwoNames == {DefaultName, work}
OtherLab == <<away>>
\* three profiles: two of the default lab
Set == home :> <<DefaultName, work>> @@ away :> <<work>>
HomeOnly == {home}
ThreadSymmetry == Permutations(TwoThreads)
=============================================================================
