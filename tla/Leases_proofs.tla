--------------------------- MODULE Leases_proofs ---------------------------
(***************************************************************************)
(* That what is in an opened branch was let by, however many runs it took, *)
(* whoever changes the leases and the mode meanwhile and whenever the      *)
(* board dies; that what is protected was named; and that two runs are     *)
(* never given one path, as long as globs that share a path are found to   *)
(* overlap.                                                                *)
(***************************************************************************)
EXTENDS Leases, TLAPS

\* A compiled policy, and the bounds
PolicyState == [globs : SUBSET Leasable, remembered : SUBSET Paths, mode : {"strict", "soft"},
                held : SUBSET Leasable]
Spent == [writes : 0..MaxWrites, starts : 0..MaxStarts, changes : 0..MaxChanges]

\* The types of the variables
Typed ==
  /\ lease \in [Cards -> SUBSET Leasable] /\ remembered \in SUBSET Paths
  /\ mode \in {"strict", "soft"}
  /\ status \in [Cards -> {"todo", "doing", "blocked", "conflict", "checking", "accepted"}]
  /\ live \in [Cards -> Stages]
  /\ guard \in [Cards -> PolicyState] /\ given \in [Cards -> PolicyState]
  /\ clone \in [Cards -> SUBSET Paths] /\ since \in [Cards -> SUBSET Paths]
  /\ before \in [Cards -> SUBSET Paths]
  /\ passed \in [Cards -> BOOLEAN] /\ refused \in [Cards -> BOOLEAN]
  /\ approving \in SUBSET Answers /\ raced \in [Cards -> SUBSET Cards]
  /\ named \in [Cards -> SUBSET Paths] /\ judged \in [Cards -> SUBSET Paths]
  /\ spent \in Spent

\* a card without a run has no hook and no clone, and is not doing; one that nobody is starting has
\* no rows set under its run, and nobody has begun before it
AtRest ==
  \A c \in Cards :
    /\ live[c] \in {"no", "checked"} => guard[c] = NoPolicy /\ clone[c] = {} /\ status[c] # "doing"
    /\ live[c] = "no" => c \notin patched /\ raced[c] = {}

\* a run that has a hook is of a card that is doing, and a card that is decided on has no run
StatusFollows ==
  \A c \in Cards : /\ live[c] \in {"checked", "starting"} => status[c] \in Startable
                   /\ c \in Guarded => status[c] = "doing"

\* since its turn began, no check has passed for a worker; the check is passed where a run goes on
\* to its gates, and where it opened its pull request
PassedFollows ==
  \A c \in Cards : /\ live[c] \in {"working", "fetched"} => ~passed[c]
                   /\ live[c] = "gated" \/ c \in Opened => passed[c]

\* what a branch had changed before its last check began was judged, and so was all since then once
\* that check has passed
CheckedIsJudged ==
  \A c \in Cards : before[c] \subseteq judged[c] /\ (passed[c] => since[c] \subseteq judged[c])
CheckedIsNamed ==
  \A c \in Cards : /\ before[c] \cap Allowed(Protected) \subseteq named[c]
                   /\ passed[c] => since[c] \cap Allowed(Protected) \subseteq named[c]

\* The inductive invariant of the checks
CheckInv ==
  /\ Typed /\ AtRest
  /\ StatusFollows /\ PassedFollows /\ CheckedIsJudged /\ CheckedIsNamed

\* a run nobody rewrote holds the rows of its card, and no other such run has a path of theirs, nor
\* of those a start has looked at, other than the runs begun since
Looked == {c \in Cards : live[c] # "no"}
HoldsItsRows == \A c \in Guarded \ patched : guard[c].globs = lease[c]
RowsAreApart ==
  \A c \in Looked \ patched, d \in Live \ patched :
    c # d /\ c \notin raced[d] /\ d \notin raced[c] => Allowed(lease[c]) \cap Allowed(lease[d]) = {}

-----------------------------------------------------------------------------
(* globs and policies *)

\* Whatever the globs, what they cover are paths of the repo, and more globs cover more.
LEMMA AllowedTypes ==
  ASSUME NEW gs \in SUBSET Leasable
  PROVE  /\ Allowed(gs) \subseteq Paths
         /\ \A hs \in SUBSET gs : Allowed(hs) \subseteq Allowed(gs)
<1>1. \A g \in Leasable : Covers[g] \subseteq Paths
  BY DEF Covers
<1> QED
  BY <1>1 DEF Allowed

\* The invariant's types are those of the model.
LEMMA TypesOfModel == Typed /\ AtRest => TypeOK
<1> SUFFICES ASSUME Typed, AtRest
             PROVE  TypeOK
  OBVIOUS
<1>1. \A f \in {clone, since, before, named, judged} : f \in [Cards -> SUBSET Paths]
  BY DEF Typed
<1>2. \A c \in Cards : /\ c \in Live \/ (guard[c] = NoPolicy /\ clone[c] = {})
                       /\ live[c] # "no" \/ (c \notin patched /\ raced[c] = {})
  BY DEF AtRest, Live
<1>3. \A c \in Cards : status[c] = "doing" => c \in Live
  BY DEF AtRest, Live
<1>4. spent.writes <= MaxWrites /\ spent.starts <= MaxStarts /\ spent.changes <= MaxChanges
  <2>1. /\ spent.writes \in 0..MaxWrites /\ spent.starts \in 0..MaxStarts
        /\ spent.changes \in 0..MaxChanges
    BY DEF Typed, Spent
  <2> QED
    BY <2>1, LeasesConstants DEF LeasesConstants
<1> QED
  BY <1>1, <1>2, <1>3, <1>4 DEF Typed, TypeOK

\* What is compiled from the rows is a policy, fenced off what is protected.
LEMMA PolicyTypes ==
  ASSUME Typed, NEW c \in Cards, NEW kept \in SUBSET Paths
  PROVE  /\ Policy(c, kept) \in PolicyState
         /\ Policy(c, kept).globs = lease[c] /\ Policy(c, kept).remembered = kept
         /\ Policy(c, kept).mode = mode
<1>1. /\ lease[c] \in SUBSET Leasable
      /\ UNION {lease[d] : d \in {x \in Cards \ {c} : Active(x)}} \in SUBSET Leasable
  BY DEF Typed
<1> QED
  BY <1>1 DEF Policy, PolicyState, Typed

\* No policy is a policy.
LEMMA NoPolicyTypes == NoPolicy \in PolicyState
BY DEF NoPolicy, PolicyState

\* What any policy lets by of what is protected was named by its own globs.
LEMMA ProtectedIsOwn ==
  ASSUME NEW policy \in PolicyState
  PROVE  /\ Own(policy) \subseteq Paths
         /\ Permitted(policy) \cap Allowed(Protected) \subseteq Own(policy)
<1>1. policy.globs \cup policy.remembered \in SUBSET Leasable /\ policy.held \in SUBSET Leasable
  BY DEF PolicyState, Leasable
<1>2. Protected \cup policy.held \in SUBSET Leasable
  BY <1>1, LeasesConstants DEF LeasesConstants, Leasable
<1>3. Allowed(Protected) \subseteq Fenced(policy)
  BY <1>2, AllowedTypes DEF Fenced
<1>4. Own(policy) \subseteq Paths
  BY <1>1, AllowedTypes DEF Own
<1> QED
  BY <1>3, <1>4 DEF Permitted

\* The bounds are counted up to what they allow.
LEMMA SpentTypes ==
  ASSUME spent \in Spent
  PROVE  /\ spent.writes < MaxWrites => [spent EXCEPT !.writes = @ + 1] \in Spent
         /\ spent.starts < MaxStarts => [spent EXCEPT !.starts = @ + 1] \in Spent
         /\ spent.changes < MaxChanges => [spent EXCEPT !.changes = @ + 1] \in Spent
<1>1. MaxWrites \in Nat /\ MaxStarts \in Nat /\ MaxChanges \in Nat
  BY LeasesConstants DEF LeasesConstants
<1>2. /\ spent = [writes |-> spent.writes, starts |-> spent.starts, changes |-> spent.changes]
      /\ spent.writes \in 0..MaxWrites /\ spent.starts \in 0..MaxStarts
      /\ spent.changes \in 0..MaxChanges
  BY DEF Spent
<1>3. spent.writes < MaxWrites => [spent EXCEPT !.writes = @ + 1] \in Spent
  BY <1>1, <1>2 DEF Spent
<1>4. spent.starts < MaxStarts => [spent EXCEPT !.starts = @ + 1] \in Spent
  BY <1>1, <1>2 DEF Spent
<1>5. spent.changes < MaxChanges => [spent EXCEPT !.changes = @ + 1] \in Spent
  BY <1>1, <1>2 DEF Spent
<1> QED
  BY <1>3, <1>4, <1>5

-----------------------------------------------------------------------------
(* types *)

\* Each step keeps the types, and leaves nothing of a run that is over.
LEMMA TypesStep ==
  ASSUME Typed, AtRest, [Next]_vars
  PROVE  Typed' /\ AtRest'
<1>1. ASSUME NEW c \in Cards, Start(c)
      PROVE  Typed' /\ AtRest'
  <2>1. /\ live' = [live EXCEPT ![c] = "starting"] /\ live[c] = "checked"
        /\ raced' = [d \in Cards |->
                       IF live[d] = "checked" /\ d # c THEN raced[d] \cup {c} ELSE raced[d]]
        /\ UNCHANGED <<lease, remembered, mode, guard, given, clone, branch, refused, patched>>
        /\ UNCHANGED <<named, judged>>
    BY <1>1 DEF Start, Goto
  <2>2. approving' \in SUBSET Answers
    BY <1>1 DEF Start, Typed, Answers
  <2>3. /\ status' = status \/ status' = [status EXCEPT ![c] = "blocked"]
        /\ spent' \in Spent
    BY <1>1, SpentTypes DEF Start, Typed
  <2>4. Typed'
    BY <2>1, <2>2, <2>3 DEF Typed, branch, Stages
  <2> QED
    BY <2>1, <2>3, <2>4 DEF Typed, AtRest
<1>2. ASSUME NEW c \in Cards, Compile(c)
      PROVE  Typed' /\ AtRest'
  BY <1>2, PolicyTypes DEF Typed, AtRest, branch, past, Compile, Goto, Stages
<1>3. ASSUME NEW c \in Cards, Turn(c)
      PROVE  Typed' /\ AtRest'
  BY <1>3, PolicyTypes DEF Typed, AtRest, branch, past, Turn, Goto, Stages
<1>4. ASSUME NEW c \in Cards, NEW p \in Paths, Write(c, p)
      PROVE  Typed' /\ AtRest'
  BY <1>4, SpentTypes DEF Typed, AtRest, branch, past, Write, WorkerActs
<1>5. ASSUME NEW c \in Cards, NEW p \in Paths, RefuseEdit(c, p)
      PROVE  Typed' /\ AtRest'
  BY <1>5 DEF Typed, AtRest, branch, past, RefuseEdit, WorkerActs
<1>6. ASSUME NEW c \in Cards, NEW p \in Paths, PutBack(c, p)
      PROVE  Typed' /\ AtRest'
  BY <1>6 DEF Typed, AtRest, branch, past, PutBack, WorkerActs
<1>7. ASSUME NEW c \in Cards, FetchBack(c)
      PROVE  Typed' /\ AtRest'
  BY <1>7 DEF Typed, AtRest, branch, past, FetchBack, Goto, Stages
<1>8. ASSUME NEW c \in Cards, Check(c)
      PROVE  Typed' /\ AtRest'
  <2>1. /\ named' \in [Cards -> SUBSET Paths] /\ judged' \in [Cards -> SUBSET Paths]
        /\ passed' \in [Cards -> BOOLEAN]
    BY <1>8 DEF Typed, Check, Outside
  <2>2. CASE Goto(c, "gated") /\ UNCHANGED <<status, guard, given, clone, refused, patched, raced>>
    BY <1>8, <2>1, <2>2 DEF Typed, AtRest, Check, Goto, Stages
  <2>3. CASE Ended(c, "conflict")
    BY <1>8, <2>1, <2>3, NoPolicyTypes DEF Typed, AtRest, Check, Ended, Goto, Stages
  <2> QED
    BY <1>8, <2>2, <2>3 DEF Check
<1>9. ASSUME NEW c \in Cards, Open(c)
      PROVE  Typed' /\ AtRest'
  BY <1>9, NoPolicyTypes DEF Typed, AtRest, branch, Open, Ended, Goto, Stages
<1>10. ASSUME NEW c \in Cards, Die(c)
      PROVE  Typed' /\ AtRest'
  BY <1>10, NoPolicyTypes DEF Typed, AtRest, branch, Die, Ended, Goto, Stages
<1>11. ASSUME NEW c \in Cards, NEW p \in Paths, Approve(c, p)
      PROVE  Typed' /\ AtRest'
  <2>1. /\ lease' \in [Cards -> SUBSET Leasable]
        /\ approving' \in SUBSET Answers
    BY <1>11 DEF Approve, Typed, Leasable, Answers
  <2> QED
    BY <1>11, <2>1, SpentTypes DEF Typed, AtRest, branch, Approve, Change, Rewritten
<1>12. ASSUME NEW c \in Cards, NEW g \in Globs, Patch(c, g)
      PROVE  Typed' /\ AtRest'
  BY <1>12, SpentTypes DEF Typed, AtRest, branch, Patch, Change, Rewritten, Leasable
<1>13. ASSUME NEW c \in Cards, Accept(c)
      PROVE  Typed' /\ AtRest'
  BY <1>13 DEF Typed, AtRest, branch, past, Accept
<1>14. ASSUME NEW p \in Paths, Forget(p)
      PROVE  Typed' /\ AtRest'
  BY <1>14 DEF Typed, AtRest, branch, past, Forget
<1>15. ASSUME Crash
      PROVE  Typed' /\ AtRest'
  BY <1>15, NoPolicyTypes, SpentTypes DEF Typed, AtRest, branch, past, Crash, Change, Stages
<1>16. ASSUME SetMode
      PROVE  Typed' /\ AtRest'
  BY <1>16, SpentTypes DEF Typed, AtRest, branch, past, SetMode, Change
<1>17. ASSUME Remember
      PROVE  Typed' /\ AtRest'
  BY <1>17 DEF Typed, AtRest, branch, past, Remember, Answers
<1>18. CASE UNCHANGED vars
  BY <1>18 DEF Typed, AtRest, vars, branch, past
<1>19. ASSUME NEW c \in Cards, Look(c)
      PROVE  Typed' /\ AtRest'
  BY <1>19 DEF Typed, AtRest, branch, past, Look, MayStart, Goto, Startable, Stages
<1>20. ASSUME NEW c \in Cards, SkipWorker(c)
      PROVE  Typed' /\ AtRest'
  BY <1>20 DEF Typed, AtRest, branch, past, SkipWorker, Goto, Stages
<1>21. ASSUME NEW c \in Cards, Refuse(c)
      PROVE  Typed' /\ AtRest'
  BY <1>21 DEF Typed, AtRest, branch, Refuse, Goto, Stages, Resumed
<1>22. ASSUME NEW c \in Cards, Resume(c)
      PROVE  Typed' /\ AtRest'
  <2>1. approving' \in SUBSET Answers
    BY <1>22 DEF Resume, Typed, Answers
  <2> QED
    BY <1>22, <2>1 DEF Typed, AtRest, branch, past, Resume, Goto, Stages
<1> QED
  BY <1>1, <1>2, <1>3, <1>4, <1>5, <1>6, <1>7, <1>8, <1>9, <1>10, <1>11, <1>12, <1>13, <1>14,
     <1>15, <1>16, <1>17, <1>18, <1>19, <1>20, <1>21, <1>22 DEF Next

-----------------------------------------------------------------------------
(* checks *)

\* Each step keeps who has a run, and when a check has passed.
LEMMA FollowsStep ==
  ASSUME Typed, AtRest, StatusFollows, PassedFollows, [Next]_vars
  PROVE  StatusFollows' /\ PassedFollows'
<1> USE DEF StatusFollows, PassedFollows, Guarded, Live, Opened, Startable
<1>1. ASSUME NEW c \in Cards, Start(c)
      PROVE  StatusFollows' /\ PassedFollows'
  BY <1>1 DEF Typed, AtRest, branch, Start, Goto
<1>2. ASSUME NEW c \in Cards, Compile(c)
      PROVE  StatusFollows' /\ PassedFollows'
  BY <1>2 DEF Typed, AtRest, branch, past, Compile, Goto
<1>3. ASSUME NEW c \in Cards, Turn(c)
      PROVE  StatusFollows' /\ PassedFollows'
  BY <1>3 DEF Typed, AtRest, branch, past, Turn, Goto
<1>4. ASSUME NEW c \in Cards, NEW p \in Paths, Write(c, p)
      PROVE  StatusFollows' /\ PassedFollows'
  BY <1>4 DEF Typed, AtRest, branch, past, Write, WorkerActs
<1>5. ASSUME NEW c \in Cards, NEW p \in Paths, RefuseEdit(c, p)
      PROVE  StatusFollows' /\ PassedFollows'
  BY <1>5 DEF Typed, AtRest, branch, past, RefuseEdit, WorkerActs
<1>6. ASSUME NEW c \in Cards, NEW p \in Paths, PutBack(c, p)
      PROVE  StatusFollows' /\ PassedFollows'
  BY <1>6 DEF Typed, AtRest, branch, past, PutBack, WorkerActs
<1>7. ASSUME NEW c \in Cards, FetchBack(c)
      PROVE  StatusFollows' /\ PassedFollows'
  BY <1>7 DEF Typed, AtRest, branch, past, FetchBack, Goto
<1>8. ASSUME NEW c \in Cards, Check(c)
      PROVE  StatusFollows' /\ PassedFollows'
  <2>1. /\ passed' = [passed EXCEPT ![c] = Outside(c) = {}]
        /\ live[c] = "fetched"
    BY <1>8 DEF Check
  <2>2. CASE Outside(c) = {} /\ Goto(c, "gated") /\ UNCHANGED status
    BY <2>1, <2>2 DEF Typed, AtRest, Goto
  <2>3. CASE Ended(c, "conflict")
    BY <2>1, <2>3 DEF Typed, AtRest, Ended, Goto
  <2> QED
    BY <1>8, <2>2, <2>3 DEF Check
<1>9. ASSUME NEW c \in Cards, Open(c)
      PROVE  StatusFollows' /\ PassedFollows'
  BY <1>9 DEF Typed, AtRest, branch, Open, Ended, Goto
<1>10. ASSUME NEW c \in Cards, Die(c)
      PROVE  StatusFollows' /\ PassedFollows'
  BY <1>10 DEF Typed, AtRest, branch, Die, Ended, Goto
<1>11. ASSUME NEW c \in Cards, NEW p \in Paths, Approve(c, p)
      PROVE  StatusFollows' /\ PassedFollows'
  BY <1>11 DEF Typed, AtRest, branch, Approve, Change
<1>12. ASSUME NEW c \in Cards, NEW g \in Globs, Patch(c, g)
      PROVE  StatusFollows' /\ PassedFollows'
  BY <1>12 DEF Typed, AtRest, branch, Patch, Change
<1>13. ASSUME NEW c \in Cards, Accept(c)
      PROVE  StatusFollows' /\ PassedFollows'
  BY <1>13 DEF Typed, AtRest, branch, past, Accept
<1>14. ASSUME NEW p \in Paths, Forget(p)
      PROVE  StatusFollows' /\ PassedFollows'
  BY <1>14 DEF Typed, AtRest, branch, past, Forget
<1>15. ASSUME Crash
      PROVE  StatusFollows' /\ PassedFollows'
  BY <1>15 DEF Typed, AtRest, branch, Crash, Change
<1>16. ASSUME SetMode
      PROVE  StatusFollows' /\ PassedFollows'
  BY <1>16 DEF Typed, AtRest, branch, past, SetMode, Change
<1>17. ASSUME Remember
      PROVE  StatusFollows' /\ PassedFollows'
  BY <1>17 DEF Typed, AtRest, branch, past, Remember
<1>18. CASE UNCHANGED vars
  BY <1>18 DEF vars, branch, past
<1>19. ASSUME NEW c \in Cards, Look(c)
      PROVE  StatusFollows' /\ PassedFollows'
  BY <1>19 DEF Typed, AtRest, branch, past, Look, MayStart, Goto
<1>20. ASSUME NEW c \in Cards, SkipWorker(c)
      PROVE  StatusFollows' /\ PassedFollows'
  BY <1>20 DEF Typed, AtRest, branch, past, SkipWorker, Goto
<1>21. ASSUME NEW c \in Cards, Refuse(c)
      PROVE  StatusFollows' /\ PassedFollows'
  BY <1>21 DEF Typed, AtRest, branch, Refuse, Goto
<1>22. ASSUME NEW c \in Cards, Resume(c)
      PROVE  StatusFollows' /\ PassedFollows'
  BY <1>22 DEF Typed, AtRest, branch, past, Resume, Goto
<1> QED
  BY <1>1, <1>2, <1>3, <1>4, <1>5, <1>6, <1>7, <1>8, <1>9, <1>10, <1>11, <1>12, <1>13, <1>14,
     <1>15, <1>16, <1>17, <1>18, <1>19, <1>20, <1>21, <1>22 DEF Next

\* Each step keeps what was changed before a check begins judged and named.
LEMMA CheckedStep ==
  ASSUME CheckInv, [Next]_vars
  PROVE  CheckedIsJudged' /\ CheckedIsNamed'
<1> USE DEF CheckedIsJudged, CheckedIsNamed
<1>0. /\ Typed /\ AtRest /\ StatusFollows /\ PassedFollows
      /\ CheckedIsJudged /\ CheckedIsNamed
  BY DEF CheckInv
<1>1. ASSUME NEW c \in Cards, Turn(c)
      PROVE  CheckedIsJudged' /\ CheckedIsNamed'
  BY <1>0, <1>1 DEF Typed, Turn, BaseMoves, branch, past
<1>2. ASSUME NEW c \in Cards, FetchBack(c)
      PROVE  CheckedIsJudged' /\ CheckedIsNamed'
  <2>1. ~passed[c]
    BY <1>0, <1>2 DEF FetchBack, PassedFollows
  <2>2. /\ since' = [since EXCEPT ![c] = clone[c]]
        /\ UNCHANGED <<before, passed, judged, named>>
    BY <1>2 DEF FetchBack, past
  <2> QED
    BY <1>0, <2>1, <2>2 DEF Typed
<1>3. ASSUME NEW c \in Cards, Check(c)
      PROVE  CheckedIsJudged' /\ CheckedIsNamed'
  <2>1. /\ passed' = [passed EXCEPT ![c] = Outside(c) = {}]
        /\ judged' = [judged EXCEPT ![c] = @ \cup (since[c] \ Outside(c))]
        /\ named' = [named EXCEPT ![c] = @ \cup (since[c] \cap (Own(given[c]) \cup Own(Fresh(c))))]
        /\ UNCHANGED <<since, before>>
    BY <1>3 DEF Check
  <2>2. given[c] \in PolicyState /\ given[c].remembered \in SUBSET Paths
    BY <1>0 DEF Typed, PolicyState
  <2>3. Permitted(Fresh(c)) \cap Allowed(Protected) \subseteq Own(Fresh(c))
    BY <1>0, <2>2, PolicyTypes, ProtectedIsOwn DEF Fresh
  <2>4. Outside(c) = {} => since[c] \subseteq Own(given[c]) \cup Permitted(Fresh(c))
    BY DEF Outside
  <2>5. CheckedIsJudged'
    BY <1>0, <2>1 DEF Typed
  <2>6. Outside(c) = {} => since[c] \cap Allowed(Protected)
                             \subseteq since[c] \cap (Own(given[c]) \cup Own(Fresh(c)))
    BY <2>3, <2>4
  <2>7. CheckedIsNamed'
    BY <1>0, <2>1, <2>6 DEF Typed
  <2> QED
    BY <2>5, <2>7
<1>4. CASE UNCHANGED <<since, before, passed, judged, named>>
  BY <1>0, <1>4
<1>5. ASSUME NEW c \in Cards
      PROVE  /\ Look(c) \/ Resume(c) \/ Start(c) \/ Refuse(c) =>
                  UNCHANGED <<since, before, passed, judged, named>>
             /\ SkipWorker(c) => UNCHANGED <<since, before, passed, judged, named>>
             /\ Compile(c) => UNCHANGED <<since, before, passed, judged, named>>
             /\ Open(c) => UNCHANGED <<since, before, passed, judged, named>>
             /\ Die(c) => UNCHANGED <<since, before, passed, judged, named>>
             /\ Accept(c) => UNCHANGED <<since, before, passed, judged, named>>
             /\ \A g \in Globs : Patch(c, g) => UNCHANGED <<since, before, passed, judged, named>>
             /\ \A p \in Paths :
                  Write(c, p) \/ RefuseEdit(c, p) \/ PutBack(c, p) \/ Approve(c, p) =>
                    UNCHANGED <<since, before, passed, judged, named>>
  BY DEF Look, Resume, Start, Refuse, SkipWorker, Compile, Open, Die, Accept, Patch, Write,
         RefuseEdit, PutBack, Approve, WorkerActs, branch, past
<1>6. Crash \/ SetMode \/ Remember \/ (\E p \in Paths : Forget(p)) \/ UNCHANGED vars =>
        UNCHANGED <<since, before, passed, judged, named>>
  BY DEF Crash, SetMode, Remember, Forget, vars, branch, past
<1> QED
  BY <1>1, <1>2, <1>3, <1>4, <1>5, <1>6 DEF Next

-----------------------------------------------------------------------------
(* runs going on together *)

\* Rows in which no two globs are found to overlap have no path in common, if a path in common
\* always makes two globs overlap.
LEMMA NoConflictNoSharing ==
  ASSUME OverlapIsSeen, NEW gs \in SUBSET Leasable, NEW hs \in SUBSET Leasable,
         ~LeasesConflict(gs, hs)
  PROVE  Allowed(gs) \cap Allowed(hs) = {}
<1> SUFFICES ASSUME NEW p \in Allowed(gs) \cap Allowed(hs)
             PROVE  FALSE
  OBVIOUS
<1>1. PICK g \in gs, h \in hs : p \in Covers[g] /\ p \in Covers[h]
  BY DEF Allowed
<1>2. <<g, h>> \in Overlaps
  BY <1>1 DEF OverlapIsSeen
<1> QED
  BY <1>2 DEF LeasesConflict

\* The end of a run leaves the others as they are.
LEMMA EndedLeaves ==
  ASSUME Typed, HoldsItsRows, RowsAreApart, NEW c \in Cards, NEW to, Ended(c, to), UNCHANGED lease
  PROVE  HoldsItsRows' /\ RowsAreApart'
<1>1. /\ Live' = Live \ {c} /\ Looked' = Looked \ {c} /\ Guarded' = Guarded \ {c}
      /\ patched' = patched \ {c}
  BY DEF Ended, Goto, Typed, Live, Guarded, Looked
<1>2. \A d \in Cards \ {c} : guard'[d] = guard[d] /\ raced'[d] = raced[d] \ {c}
  BY DEF Ended, Typed
<1> QED
  BY <1>1, <1>2 DEF HoldsItsRows, RowsAreApart, Live, Guarded, Allowed, Looked

\* A look at the runs going on takes the card up when none of them may touch its rows.
LEMMA LookKeepsApart ==
  ASSUME OverlapIsSeen, Typed, AtRest, HoldsItsRows, RowsAreApart, NEW c \in Cards,
         live[c] = "no", ~ConflictingRun(c, lease[c]), live' = [live EXCEPT ![c] = "checked"],
         UNCHANGED <<lease, guard, patched, raced>>
  PROVE  HoldsItsRows' /\ RowsAreApart'
<1>1. Live' = Live /\ Looked' = Looked \cup {c} /\ Guarded' = Guarded
  BY DEF Typed, Live, Looked, Guarded
<1>2. \A d \in Live \ {c} : Allowed(lease[c]) \cap Allowed(lease[d]) = {}
  BY NoConflictNoSharing DEF Typed, ConflictingRun, Live
<1>3. RowsAreApart'
  <2> SUFFICES ASSUME NEW x \in (Looked \ patched)', NEW y \in (Live \ patched)', x # y,
                      x \notin raced[y], y \notin raced[x]
               PROVE  Allowed(lease[x]) \cap Allowed(lease[y]) = {}
    BY DEF RowsAreApart, Allowed
  <2> QED
    BY <1>1, <1>2 DEF RowsAreApart
<1>4. HoldsItsRows'
  BY <1>1 DEF HoldsItsRows
<1> QED
  BY <1>3, <1>4

\* Each step keeps the runs whose rows nobody rewrote apart.
LEMMA RowsStep ==
  ASSUME OverlapIsSeen, Typed, AtRest, HoldsItsRows, RowsAreApart, [Next]_vars
  PROVE  HoldsItsRows' /\ RowsAreApart'
<1> USE DEF HoldsItsRows, RowsAreApart
<1>1. ASSUME NEW c \in Cards, Start(c)
      PROVE  HoldsItsRows' /\ RowsAreApart'
  <2>1. /\ live' = [live EXCEPT ![c] = "starting"] /\ live[c] = "checked"
        /\ UNCHANGED <<lease, guard, patched>>
        /\ raced' = [d \in Cards |->
                       IF live[d] = "checked" /\ d # c THEN raced[d] \cup {c} ELSE raced[d]]
    BY <1>1 DEF Start, Goto
  <2>2. Live' = Live \cup {c} /\ Looked' = Looked /\ Guarded' = Guarded /\ c \in Looked
    BY <2>1 DEF Typed, Live, Looked, Guarded
  <2>3. \A d \in Cards : raced[d] \subseteq raced'[d]
    BY <2>1 DEF Typed
  <2>4. \A d \in Cards \ {c} : live[d] = "checked" => c \in raced'[d]
    BY <2>1
  <2>5. RowsAreApart'
    <3> SUFFICES ASSUME NEW x \in Looked' \ patched', NEW y \in Live' \ patched', x # y,
                        x \notin raced'[y], y \notin raced'[x]
                 PROVE  Allowed(lease[x]) \cap Allowed(lease[y]) = {}
      BY <2>1 DEF Allowed
    <3>1. /\ x \in Looked \ patched /\ y \notin patched /\ y \in Cards /\ x \in Cards
          /\ x \notin raced[y] /\ y \notin raced[x]
      BY <2>1, <2>2, <2>3 DEF Looked, Live
    <3>2. CASE y \in Live
      BY <3>1, <3>2
    <3>3. CASE y = c
      <4>1. x \in Live
        BY <2>4, <3>1, <3>3 DEF Looked, Live
      <4> QED
        BY <2>1, <2>2, <3>1, <3>3, <4>1
    <3> QED
      BY <2>2, <3>2, <3>3
  <2>6. HoldsItsRows'
    BY <2>1, <2>2
  <2> QED
    BY <2>5, <2>6
<1>2. ASSUME NEW c \in Cards, \/ \E p \in Paths : Approve(c, p)
                           \/ \E g \in Globs : Patch(c, g)
      PROVE  HoldsItsRows' /\ RowsAreApart'
  <2>1. /\ UNCHANGED <<live, guard, raced>>
        /\ patched' = (IF live[c] = "no" THEN patched ELSE patched \cup {c})
        /\ \E rows : lease' = [lease EXCEPT ![c] = rows]
    BY <1>2 DEF Approve, Patch, Rewritten
  <2>2. /\ Live' = Live /\ Looked' = Looked /\ Guarded' = Guarded /\ patched \subseteq patched'
        /\ Live \subseteq Looked /\ Guarded \subseteq Looked
    BY <2>1 DEF Live, Looked, Guarded
  <2>3. \A d \in Looked \ patched' : d \notin patched /\ lease'[d] = lease[d]
    BY <2>1 DEF Typed, Looked
  <2> QED
    BY <2>1, <2>2, <2>3 DEF Allowed
<1>3. ASSUME NEW c \in Cards, Look(c) \/ Resume(c)
      PROVE  HoldsItsRows' /\ RowsAreApart'
  <2>1. /\ live[c] = "no" /\ ~ConflictingRun(c, lease[c]) /\ live' = [live EXCEPT ![c] = "checked"]
        /\ UNCHANGED <<lease, guard, patched, raced>>
    BY <1>3 DEF Look, Resume, MayStart, Goto, past
  <2> QED
    BY <2>1, LookKeepsApart
<1>4. ASSUME NEW c \in Cards, Compile(c) \/ Turn(c)
      PROVE  HoldsItsRows' /\ RowsAreApart'
  <2>1. /\ Live' = Live /\ Looked' = Looked
        /\ Guarded \subseteq Guarded' /\ Guarded' \subseteq Guarded \cup {c}
        /\ UNCHANGED <<lease, patched, raced>>
        /\ Turn(c) => c \in Guarded
    BY <1>4 DEF Compile, Turn, Goto, past, Typed, Live, Looked, Guarded
  <2>2. /\ \A d \in Cards \ {c} : guard'[d] = guard[d]
        /\ guard'[c] = guard[c] \/ guard'[c].globs = lease[c]
        /\ Compile(c) => guard'[c].globs = lease[c]
    BY <1>4, PolicyTypes DEF Compile, Turn, Typed
  <2>3. HoldsItsRows'
    BY <1>4, <2>1, <2>2 DEF Guarded, Live
  <2>4. RowsAreApart'
    BY <2>1 DEF Allowed
  <2> QED
    BY <2>3, <2>4
<1>5. ASSUME NEW c \in Cards, FetchBack(c) \/ Check(c) \/ SkipWorker(c)
      PROVE  HoldsItsRows' /\ RowsAreApart'
  <2>1. CASE /\ UNCHANGED <<lease, guard, patched, raced>>
             /\ live[c] \notin {"no", "checked", "starting"}
             /\ \E stage \in Stages \ {"no", "checked", "starting"} :
                  live' = [live EXCEPT ![c] = stage]
    <3>1. Live' = Live /\ Looked' = Looked /\ Guarded' = Guarded
      BY <2>1 DEF Typed, Stages, Live, Looked, Guarded
    <3> QED
      BY <2>1, <3>1 DEF Allowed
  <2>2. CASE Ended(c, "conflict") /\ UNCHANGED lease
    BY <2>2, EndedLeaves
  <2> QED
    BY <1>5, <2>1, <2>2 DEF FetchBack, Check, SkipWorker, Goto, past, Stages
<1>6. ASSUME NEW c \in Cards, Open(c) \/ Die(c)
      PROVE  HoldsItsRows' /\ RowsAreApart'
  <2>1. UNCHANGED lease /\ \E to : Ended(c, to)
    BY <1>6 DEF Open, Die
  <2> QED
    BY <2>1, EndedLeaves
<1>7. CASE Crash
  BY <1>7 DEF Crash, Allowed, Typed, Live, Looked, Guarded
<1>8. CASE UNCHANGED <<lease, live, guard, patched, raced>>
  BY <1>8 DEF Allowed, Live, Looked, Guarded
<1>9. ASSUME NEW c \in Cards
      PROVE  /\ Accept(c) => UNCHANGED <<lease, live, guard, patched, raced>>
             /\ \A p \in Paths : Write(c, p) \/ RefuseEdit(c, p) \/ PutBack(c, p) =>
                                 UNCHANGED <<lease, live, guard, patched, raced>>
  BY DEF Accept, Write, RefuseEdit, PutBack, WorkerActs, past
<1>10. SetMode \/ Remember \/ (\E p \in Paths : Forget(p)) \/ UNCHANGED vars =>
         UNCHANGED <<lease, live, guard, patched, raced>>
  BY DEF SetMode, Remember, Forget, vars, past
<1>11. ASSUME NEW c \in Cards, Refuse(c)
      PROVE  HoldsItsRows' /\ RowsAreApart'
  <2>1. CASE UNCHANGED <<lease, live, guard, patched, raced>>
    BY <1>8, <2>1
  <2>2. CASE /\ live[c] = "checked" /\ live' = [live EXCEPT ![c] = "no"]
             /\ patched' = patched \ {c} /\ raced' = [raced EXCEPT ![c] = {}]
             /\ UNCHANGED <<lease, guard>>
    <3>1. Live' = Live /\ Looked' = Looked \ {c} /\ Guarded' = Guarded /\ c \notin Live
      BY <2>2 DEF Typed, Live, Looked, Guarded
    <3>2. \A d \in Cards \ {c} : raced'[d] = raced[d]
      BY <2>2 DEF Typed
    <3>3. Guarded \subseteq Live /\ Live \subseteq Cards /\ Looked \subseteq Cards
      BY DEF Guarded, Live, Looked
    <3> QED
      BY <2>2, <3>1, <3>2, <3>3 DEF Allowed
  <2> QED
    BY <1>11, <2>1, <2>2 DEF Refuse, Goto
<1> QED
  BY <1>1, <1>2, <1>3, <1>4, <1>5, <1>6, <1>7, <1>8, <1>9, <1>10, <1>11 DEF Next

-----------------------------------------------------------------------------
(* theorems *)

\* The invariant of the checks holds at first,
LEMMA CheckInit == Init => CheckInv
<1> SUFFICES ASSUME Init
             PROVE  CheckInv
  OBVIOUS
<1>1. spent \in Spent
  BY LeasesConstants DEF LeasesConstants, Init, Spent
<1>2. Typed /\ AtRest
  BY <1>1, NoPolicyTypes DEF Init, Typed, AtRest, Leasable, Stages
<1>3. StatusFollows /\ PassedFollows
  BY DEF Init, StatusFollows, PassedFollows, Startable, Guarded, Live, Opened
<1>4. CheckedIsJudged /\ CheckedIsNamed
  BY DEF Init, CheckedIsJudged, CheckedIsNamed
<1> QED
  BY <1>2, <1>3, <1>4 DEF CheckInv

\* and always.
LEMMA CheckInvariant == Spec => []CheckInv
<1>1. CheckInv /\ [Next]_vars => CheckInv'
  BY TypesStep, FollowsStep, CheckedStep DEF CheckInv
<1> QED
  BY CheckInit, <1>1, PTL DEF Spec

\* The variables keep their types.
THEOREM TypeCorrect == Spec => []TypeOK
<1>1. CheckInv => TypeOK
  BY TypesOfModel DEF CheckInv
<1> QED
  BY CheckInvariant, <1>1, PTL

\* Whatever was committed, in however many runs and rows, is in an opened branch only if a check
\* let it by: the check of a run that was refused, that died or whose board died is taken up by
\* the next one where the last that passed had ended.
THEOREM OpenedBranchesAreJudged == Spec => []OpenedIsJudged
<1>1. CheckInv => OpenedIsJudged
  BY DEF CheckInv, OpenedIsJudged, Tree, PassedFollows, CheckedIsJudged, Opened
<1> QED
  BY CheckInvariant, <1>1, PTL

\* What is protected is in an opened branch only if its card's own globs or an approval named it,
\* however often the mode was switched: no soft card expands into it.
THEOREM ProtectedPathsAreNamed == Spec => []ProtectedIsNamed
<1>1. CheckInv => ProtectedIsNamed
  BY DEF CheckInv, ProtectedIsNamed, Tree, PassedFollows, CheckedIsNamed, Opened
<1> QED
  BY CheckInvariant, <1>1, PTL

\* Where globs that share a path of the repo are always found to overlap, no path is in the rows
\* that two runs going on together were given, unless rows were set under one of them or one began
\* between the other's look at the runs going on and its start.  Globs with two stars in one name
\* are not always found to.
THEOREM RunsShareNoPath ==
  ASSUME OverlapIsSeen
  PROVE  Spec => []NoSharedEdits
<1> DEFINE Inv == CheckInv /\ HoldsItsRows /\ RowsAreApart
<1>1. Init => Inv
  <2>1. Init => HoldsItsRows /\ RowsAreApart
    BY DEF Init, HoldsItsRows, RowsAreApart, Guarded, Live, Looked
  <2> QED
    BY <2>1, CheckInit
<1>2. Inv /\ [Next]_vars => Inv'
  BY TypesStep, FollowsStep, CheckedStep, RowsStep DEF CheckInv
<1>3. Inv => NoSharedEdits
  BY DEF NoSharedEdits, HoldsItsRows, RowsAreApart, Guarded, Looked, Live
<1> QED
  BY <1>1, <1>2, <1>3, PTL DEF Spec

\* What a check lets by, and it is the only step by which a check passes.
LEMMA CheckPasses ==
  ASSUME CheckInv, [Next]_vars, NEW c \in Cards, passed'[c], ~passed[c]
  PROVE  Check(c) /\ Outside(c) = {}
<1>0. Typed
  BY DEF CheckInv
<1>1. ASSUME NEW d \in Cards, Turn(d)
      PROVE  FALSE
  BY <1>0, <1>1 DEF Turn, Typed
<1>2. ASSUME NEW d \in Cards, Check(d)
      PROVE  Check(c) /\ Outside(c) = {}
  BY <1>0, <1>2 DEF Check, Typed
<1>3. passed' # passed
  OBVIOUS
<1>4. ASSUME NEW d \in Cards
      PROVE  /\ ~Start(d) /\ ~Compile(d) /\ ~FetchBack(d) /\ ~Open(d) /\ ~Die(d) /\ ~Accept(d)
             /\ ~Look(d) /\ ~Resume(d) /\ ~Refuse(d) /\ ~SkipWorker(d)
             /\ \A g \in Globs : ~Patch(d, g)
             /\ \A p \in Paths : /\ ~Write(d, p) /\ ~RefuseEdit(d, p) /\ ~PutBack(d, p)
                                 /\ ~Approve(d, p)
  BY <1>3 DEF Look, Resume, Start, Refuse, SkipWorker, Compile, FetchBack, Open, Die, Accept,
              Patch, Write, RefuseEdit, PutBack, Approve, WorkerActs, branch
<1>5. ~Crash /\ ~SetMode /\ ~Remember /\ (\A p \in Paths : ~Forget(p)) /\ ~UNCHANGED vars
  BY <1>3 DEF Crash, SetMode, Remember, Forget, vars, branch
<1> QED
  BY <1>1, <1>2, <1>4, <1>5 DEF Next

\* The check reads what the others hold when it is made: a soft card's expansion is never let by
\* into the globs of a card that is active by then, however late that one began.
THEOREM ExpansionSparesHeld == Spec => HeldIsSpared
<1>1. ASSUME CheckInv, [Next]_vars, NEW c \in Cards, passed'[c], ~passed[c],
             NEW d \in Cards \ {c}, Active(d)
      PROVE  since[c] \cap Allowed(lease[d]) \subseteq named'[c]
  <2>1. Typed
    BY <1>1 DEF CheckInv
  <2>2. Check(c) /\ Outside(c) = {}
    BY <1>1, CheckPasses
  <2>3. named'[c] = named[c] \cup (since[c] \cap (Own(given[c]) \cup Own(Fresh(c))))
    BY <2>1, <2>2 DEF Check, Typed
  <2>4. since[c] \subseteq Own(given[c]) \cup Permitted(Fresh(c))
    BY <2>2 DEF Outside
  <2>5. /\ given[c].remembered \in SUBSET Paths /\ Fresh(c) \in PolicyState
        /\ Fresh(c).mode = mode
    BY <2>1, PolicyTypes DEF Typed, PolicyState, Fresh
  <2>6. CASE mode = "soft"
    <3>1. lease[d] \subseteq Fresh(c).held
      BY <1>1, <2>6 DEF Fresh, Policy
    <3>2. /\ lease[d] \in SUBSET (Protected \cup Fresh(c).held)
          /\ Protected \cup Fresh(c).held \in SUBSET Leasable
      BY <2>5, <3>1, LeasesConstants DEF LeasesConstants, Leasable, PolicyState
    <3>3. Allowed(lease[d]) \subseteq Fenced(Fresh(c))
      BY <3>2, AllowedTypes DEF Fenced
    <3> QED
      BY <2>3, <2>4, <3>3 DEF Permitted
  <2>7. CASE mode # "soft"
    BY <2>3, <2>4, <2>5, <2>7 DEF Permitted
  <2> QED
    BY <2>6, <2>7
<1>2. CheckInv /\ [Next]_vars =>
        [\A c \in Cards : passed'[c] /\ ~passed[c] =>
           \A d \in Cards \ {c} : Active(d) =>
             since[c] \cap Allowed(lease[d]) \subseteq named'[c]]_vars
  BY <1>1
<1> QED
  BY CheckInvariant, <1>2, PTL DEF Spec, HeldIsSpared
=============================================================================
