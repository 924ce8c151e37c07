------------------------------ MODULE MCLeases ------------------------------
(* Instances of Leases for TLC: a repo of two or three files. *)
EXTENDS Leases, TLC

CONSTANTS x, y

TwoCards == {x, y}
CardSymmetry == Permutations(TwoCards)

FileA == <<"d", "/", "a">>                         \* d/a
FileB == <<"e", "/", "a">>                         \* e/a
Secret == <<"e", "/", "k">>                        \* e/k
Files == {FileB, Secret}
DeepFiles == {FileA, <<"d", "/", "e", "/", "a">>, <<"d", "/", "a", "b">>}

InD == <<"d", "/", "**">>                          \* d/**
InE == <<"e", "/", "**">>                          \* e/**
InFolder == <<"*", "/", "a">>                      \* */a
AnyK == <<"**/", "k">>                             \* **/k
SomeGlobs == {InD, InE, InFolder, AnyK}
Fences == {AnyK}

StartsWithA == <<"d", "/", "a", "*">>              \* d/a*
EndsInB == <<"d", "/", "*", "b">>                  \* d/*b
WildGlobs == {StartsWithA, EndsInB, AnyK}
=============================================================================
