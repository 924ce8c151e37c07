------------------------- MODULE RebaseGuard_proofs -------------------------
(***************************************************************************)
(* That the branch of a card is safe in the hands of the board, however    *)
(* many commits land on the base, whoever pushes to it, whatever fails and *)
(* whenever the board dies: what a worker delivered and what others pushed *)
(* is lost only where git could not say what a branch held.  And that, as  *)
(* long as no push is cut short, a run is refused only where somebody else *)
(* pushed or a rejection left its attempt, and a waiting pull request      *)
(* shows the branch but where what was to push it said that it could not.  *)
(***************************************************************************)
EXTENDS RebaseGuard, TLAPS

USE BranchConstants DEF BranchConstants

\* A guard's state
GuardState == [at : {"idle", "ask", "replay", "push"}, base : 0..MaxMoves,
               old : Tips \cup {None}, remote : Tips \cup {None}, new : Tips \cup {None}]

Active(g) == guard[g].at # "idle"
Foreigners(t) == Contents(t) \cap Strangers

\* the branch exists wherever it is worked on
HasBranch ==
  /\ run # "idle" \/ card = "waiting" => branch # None
  /\ \A g \in Guards : Active(g) => guard[g].old # None

\* what a guard moves the branch to and pushes: the commits it read, or the base alone where git
\* could not count them
Moving(s, m) ==
  \/ s.new = Replay(s.old, s.base)
  \/ s.new = AsOf(s.base) /\ Contents(s.old) \subseteq m

\* a guard is in its run or in a sweep, it pushes over nothing that its branch did not hold, and
\* it is put away where it ends
GuardsInPlace ==
  /\ Active("run") => run = "guarded"
  /\ \A g \in Guards : /\ IsAncestor(guard[g].remote, guard[g].old)
                       /\ ~Active(g) => guard[g] = NoGuard
                       /\ guard[g].at = "push" => Moving(guard[g], missed)

\* half way through a reset there is no run, and what the branch holds is saved
ResetIsSafe == answering # -1 => run = "idle" /\ Contents(branch) \subseteq Saved \cup missed

\* what others wrote was pushed by them
PushedByOthers ==
  /\ Foreigners(branch) \subseteq pushed /\ Foreigners(origin) \subseteq pushed
  /\ \A g \in Guards : Foreigners(guard[g].old) \subseteq pushed

\* The inductive invariant of the branch
BranchInv ==
  /\ TypeOK /\ guard \in [Guards -> GuardState]
  /\ HasBranch /\ GuardsInPlace /\ ResetIsSafe /\ PushedByOthers /\ StrangersKept

\* run, sweep and landing take turns
TakeTurns ==
  /\ Active("sweep") => run = "idle" /\ card = "waiting" /\ ~landing
  /\ landing => run = "idle" /\ card = "waiting"
  /\ run \notin {"idle", "starting"} =>
       card = "doing" \/ (card = "waiting" /\ run \in {"checking", "opening"})
  /\ card = "outdated" => run = "idle"
  /\ answering # -1 => card = "outdated" /\ branch \in backups \cup {None}

\* somebody pushed since the guard read the branch
Moved(g) == ~(Foreigners(origin) \subseteq Contents(guard[g].old))

\* where each guard stands: the branch is the one it read, or what it moved it to, and origin's copy
\* the one it read, unless somebody pushed meanwhile
GuardFollows(g) ==
  LET s == guard[g] IN
  /\ s.at \in {"ask", "replay"} => branch = s.old \/ Moved(g)
  /\ s.at = "replay" => \/ s.remote = origin \/ Moved(g)
                        \/ s.remote = None /\ Superseded(origin)
  /\ s.at = "push" =>
       /\ s.remote # None
       /\ \/ origin = s.remote /\ branch = s.new
          \/ origin = s.remote /\ IsAncestor(s.new, branch) /\ IsAncestor(origin, branch)
             /\ pushed # {}
          \/ Moved(g) /\ (StrangersAhead \/ IsAncestor(origin, branch))

\* between pushes origin's copy is behind the branch, from before a reset or a rejection, or
\* somebody pushed to it
Behind == \/ origin = None \/ IsAncestor(origin, branch) \/ Superseded(origin) \/ StrangersAhead
          \/ RejectedStays
OriginFollows == (\A g \in Guards : guard[g].at # "push") => Behind

\* what a waiting pull request shows is the branch, but for the push that is still to be made
Shows == card = "waiting" /\ ~unpushed /\ ~landing /\ run \notin {"checking", "opening"}
WaitingFollows ==
  Shows /\ pushed = {} =>
    /\ guard["sweep"].at # "push" => origin = branch
    /\ guard["sweep"].at \in {"replay", "push"} => guard["sweep"].remote = guard["sweep"].old

\* The inductive invariant of what is on origin, as long as no push is cut short
OriginInv == ~cut => /\ TakeTurns /\ (\A g \in Guards : GuardFollows(g))
                     /\ OriginFollows /\ WaitingFollows

-----------------------------------------------------------------------------
(* Tips *)

\* Numbers of commits on the base
LEMMA Bases == \A n \in 0..MaxMoves : n \in Int /\ n >= 0
OBVIOUS

\* What is in a tip
LEMMA TipFields ==
  /\ None.base = -1 /\ None.own = {}
  /\ \A n : AsOf(n).base = n /\ AsOf(n).own = {}
  /\ \A t \in Tips : t.base \in 0..MaxMoves /\ t.own \in SUBSET Commits /\ t # None
  /\ \A t, n : Replay(t, n).base = n /\ Replay(t, n).own = Contents(t) \X {n}
  /\ \A t \in Tips : \A c : /\ Committed(t, c).base = t.base
                        /\ Committed(t, c).own = t.own \cup {<<c, t.base>>}
  /\ \A t \in Tips : \A n : /\ Merged(t, n).base = IF n > t.base THEN n ELSE t.base
                        /\ Merged(t, n).own = t.own
<1>1. \A t \in Tips : t # None
  BY DEF Tips, None
<1> QED
  BY <1>1 DEF None, AsOf, Tips, Replay, Committed, Merged

\* What a replay, a commit and a fresh branch hold
LEMMA ContentsOf ==
  /\ Contents(None) = {} /\ \A n : Contents(AsOf(n)) = {}
  /\ \A t, n : Contents(Replay(t, n)) = Contents(t)
  /\ \A t \in Tips : \A c : Contents(Committed(t, c)) = Contents(t) \cup {c}
  /\ \A t \in Tips : \A n : Contents(Merged(t, n)) = Contents(t)
  /\ \A t, u : IsAncestor(t, u) => Contents(t) \subseteq Contents(u)
<1>1. Contents(None) = {} /\ \A n : Contents(AsOf(n)) = {}
  BY TipFields DEF Contents
<1>2. ASSUME NEW t, NEW n
      PROVE  Contents(Replay(t, n)) = Contents(t)
  <2>1. Contents(Replay(t, n)) = {c[1] : c \in Contents(t) \X {n}}
    BY TipFields DEF Contents
  <2>2. \A x \in Contents(t) : <<x, n>> \in Contents(t) \X {n} /\ <<x, n>>[1] = x
    OBVIOUS
  <2>3. \A c \in Contents(t) \X {n} : c[1] \in Contents(t)
    OBVIOUS
  <2> HIDE DEF Contents
  <2> QED
    BY <2>1, <2>2, <2>3
<1>3. ASSUME NEW t \in Tips, NEW c
      PROVE  Contents(Committed(t, c)) = Contents(t) \cup {c}
  <2>1. Contents(Committed(t, c)) = {x[1] : x \in t.own \cup {<<c, t.base>>}}
    BY TipFields DEF Contents
  <2>2. <<c, t.base>>[1] = c
    OBVIOUS
  <2> QED
    BY <2>1, <2>2 DEF Contents
<1>4. ASSUME NEW t, NEW u, IsAncestor(t, u)
      PROVE  Contents(t) \subseteq Contents(u)
  BY <1>4 DEF Contents, IsAncestor
<1>5. \A t \in Tips : \A n : Contents(Merged(t, n)) = Contents(t)
  BY TipFields DEF Contents
<1> QED
  BY <1>1, <1>2, <1>3, <1>4, <1>5

\* The tips that can be: what they hold was written by workers and by others
LEMMA TipTypes ==
  /\ \A t \in Tips \cup {None} : Contents(t) \subseteq Workers \cup Strangers
  /\ \A n \in 0..MaxMoves : AsOf(n) \in Tips
  /\ \A t \in Tips \cup {None}, n \in 0..MaxMoves : Replay(t, n) \in Tips
  /\ \A t \in Tips, c \in Workers \cup Strangers : Committed(t, c) \in Tips
  /\ \A t \in Tips, n \in 0..MaxMoves : Merged(t, n) \in Tips
  /\ \A t, u \in Tips : [base |-> IF u.base > t.base THEN u.base ELSE t.base,
                         own |-> t.own \cup u.own] \in Tips
<1>1. ASSUME NEW t \in Tips \cup {None}
      PROVE  Contents(t) \subseteq Workers \cup Strangers
  <2>1. CASE t \in Tips
    <3>1. \A c \in t.own : c[1] \in Workers \cup Strangers
      BY <2>1, TipFields DEF Commits
    <3> QED
      BY <3>1 DEF Contents
  <2>2. CASE t = None
    BY <2>2, ContentsOf
  <2> QED
    BY <2>1, <2>2
<1>2. \A n \in 0..MaxMoves : AsOf(n) \in Tips
  BY DEF AsOf, Tips
<1>3. ASSUME NEW t \in Tips \cup {None}, NEW n \in 0..MaxMoves
      PROVE  Replay(t, n) \in Tips
  <2>1. Contents(t) \X {n} \in SUBSET Commits
    BY <1>1 DEF Commits
  <2> QED
    BY <2>1 DEF Replay, Tips
<1>4. ASSUME NEW t \in Tips, NEW c \in Workers \cup Strangers
      PROVE  Committed(t, c) \in Tips
  <2>1. <<c, t.base>> \in Commits /\ t.own \cup {<<c, t.base>>} \in SUBSET Commits
    BY TipFields DEF Commits
  <2> QED
    BY <2>1 DEF Committed, Tips
<1>5. ASSUME NEW t \in Tips, NEW u \in Tips
      PROVE  [base |-> IF u.base > t.base THEN u.base ELSE t.base,
               own |-> t.own \cup u.own] \in Tips
  <2>1. /\ (IF u.base > t.base THEN u.base ELSE t.base) \in 0..MaxMoves
        /\ t.own \cup u.own \in SUBSET Commits
    BY TipFields
  <2> QED
    BY <2>1 DEF Tips
<1>6. ASSUME NEW t \in Tips, NEW n \in 0..MaxMoves
      PROVE  Merged(t, n) \in Tips
  BY DEF Merged, Tips
<1> QED
  BY <1>1, <1>2, <1>3, <1>4, <1>5, <1>6

\* The order of tips
LEMMA Ancestors ==
  /\ \A t \in Tips \cup {None} : IsAncestor(t, t) /\ IsAncestor(None, t)
  /\ \A t \in Tips : ~IsAncestor(t, None)
  /\ \A n \in 0..MaxMoves : ~IsAncestor(AsOf(n), None)
  /\ \A t, u, v \in Tips \cup {None} : IsAncestor(t, u) /\ IsAncestor(u, v) => IsAncestor(t, v)
  /\ \A t \in Tips : \A c : IsAncestor(t, Committed(t, c))
  /\ \A t \in Tips, n \in 0..MaxMoves : IsAncestor(t, Merged(t, n))
  /\ \A t, u \in Tips : LET both == [base |-> IF u.base > t.base THEN u.base ELSE t.base,
                                   own |-> t.own \cup u.own] IN
       IsAncestor(t, both) /\ IsAncestor(u, both)
<1>1. \A t \in Tips \cup {None} : t.base \in Int /\ t.base >= -1
  BY TipFields
<1>2. \A t \in Tips \cup {None} : IsAncestor(t, t) /\ IsAncestor(None, t)
  BY <1>1, TipFields DEF IsAncestor
<1>3. \A t \in Tips : ~IsAncestor(t, None)
  BY TipFields DEF IsAncestor
<1>4. \A n \in 0..MaxMoves : ~IsAncestor(AsOf(n), None)
  BY TipFields DEF IsAncestor
<1>5. \A t, u, v \in Tips \cup {None} : IsAncestor(t, u) /\ IsAncestor(u, v) => IsAncestor(t, v)
  BY <1>1 DEF IsAncestor
<1>6. \A t \in Tips : \A c : IsAncestor(t, Committed(t, c))
  BY <1>1, TipFields DEF IsAncestor
<1>7. \A t, u \in Tips : LET both == [base |-> IF u.base > t.base THEN u.base ELSE t.base,
                                    own |-> t.own \cup u.own] IN
        IsAncestor(t, both) /\ IsAncestor(u, both)
  BY <1>1 DEF IsAncestor
<1>8. \A t \in Tips, n \in 0..MaxMoves : IsAncestor(t, Merged(t, n))
  BY <1>1, TipFields DEF IsAncestor
<1> QED
  BY <1>2, <1>3, <1>4, <1>5, <1>6, <1>7, <1>8

\* What a guard becomes where it is about to push
Pushing(g, tip) == guard' = [guard EXCEPT ![g].at = "push", ![g].new = tip]

\* What a guard becomes where it starts, goes on and ends
LEMMA GuardBecomes ==
  ASSUME guard \in [Guards -> GuardState], NEW g \in Guards
  PROVE  /\ NoGuard \in GuardState /\ NoGuard.at = "idle"
         /\ NoGuard.old = None /\ NoGuard.remote = None
         /\ Finish(g) => /\ guard' \in [Guards -> GuardState] /\ guard'[g] = NoGuard
                         /\ \A h \in Guards \ {g} : guard'[h] = guard[h]
         /\ \A tip \in Tips : Pushing(g, tip) =>
              /\ guard' \in [Guards -> GuardState] /\ guard'[g].at = "push"
              /\ guard'[g].base = guard[g].base /\ guard'[g].old = guard[g].old
              /\ guard'[g].remote = guard[g].remote /\ guard'[g].new = tip
              /\ \A h \in Guards \ {g} : guard'[h] = guard[h]
         /\ guard[g].at \in {"idle", "ask", "replay", "push"} /\ guard[g].base \in 0..MaxMoves
         /\ guard[g].old \in Tips \cup {None} /\ guard[g].remote \in Tips \cup {None}
         /\ guard[g].new \in Tips \cup {None}
<1>1. NoGuard \in GuardState /\ NoGuard.at = "idle" /\ NoGuard.old = None /\ NoGuard.remote = None
  BY DEF NoGuard, GuardState
<1>2. ASSUME NEW s \in GuardState, NEW tip \in Tips
      PROVE  LET u == [s EXCEPT !.at = "push", !.new = tip] IN
             /\ u \in GuardState /\ u.at = "push" /\ u.new = tip
             /\ u.base = s.base /\ u.old = s.old /\ u.remote = s.remote
  BY DEF GuardState
<1>3. \A s \in GuardState : /\ s.at \in {"idle", "ask", "replay", "push"} /\ s.base \in 0..MaxMoves
                            /\ s.old \in Tips \cup {None} /\ s.remote \in Tips \cup {None}
                            /\ s.new \in Tips \cup {None}
  BY DEF GuardState
<1>4. Finish(g) => /\ guard' \in [Guards -> GuardState] /\ guard'[g] = NoGuard
                   /\ \A h \in Guards \ {g} : guard'[h] = guard[h]
  BY <1>1 DEF Finish
<1>5. ASSUME NEW tip \in Tips, Pushing(g, tip)
      PROVE  /\ guard' \in [Guards -> GuardState] /\ guard'[g].at = "push"
             /\ guard'[g].base = guard[g].base /\ guard'[g].old = guard[g].old
             /\ guard'[g].remote = guard[g].remote /\ guard'[g].new = tip
             /\ \A h \in Guards \ {g} : guard'[h] = guard[h]
  <2>1. guard[g] \in GuardState
    OBVIOUS
  <2>2. guard' = [guard EXCEPT ![g] = [guard[g] EXCEPT !.at = "push", !.new = tip]]
    BY <1>5 DEF Pushing
  <2>3. [guard[g] EXCEPT !.at = "push", !.new = tip] \in GuardState
    BY <1>2, <2>1
  <2>4. /\ guard'[g] = [guard[g] EXCEPT !.at = "push", !.new = tip]
        /\ guard' \in [Guards -> GuardState]
    BY <2>2, <2>3
  <2> QED
    BY <1>2, <2>1, <2>2, <2>4
<1> QED
  BY <1>1, <1>3, <1>4, <1>5

\* What a guard does, to itself and to the run
LEMMA ReadDoes ==
  ASSUME BranchInv, NEW g \in Guards, Read(g), guard[g] = NoGuard
  PROVE  \/ guard' = guard /\ run' \in {run, "ready"} /\ (g = "sweep" => run' = run)
            /\ IsAncestor(AsOf(base), branch)
         \/ /\ guard' \in [Guards -> GuardState] /\ run' = run
            /\ guard'[g].at = "ask" /\ guard'[g].base = base /\ guard'[g].old = branch
            /\ guard'[g].remote = None
            /\ \A h \in Guards \ {g} : guard'[h] = guard[h]
<1>1. [at |-> "ask", base |-> base, old |-> branch, remote |-> None, new |-> None] \in GuardState
  BY DEF BranchInv, TypeOK, GuardState
<1> QED
  BY <1>1 DEF Read, RunGoesOn, BranchInv

\* The branch moves, or nothing does; what it moves to is the commits it held, or they are missed
LEMMA MovesTo ==
  ASSUME BranchInv, NEW g \in Guards, MoveBranch(g) \/ Miscounts(g)
  PROVE  \E tip \in Tips :
           /\ Moves(g, tip) /\ missed \subseteq missed' /\ missed' \subseteq Workers \cup Strangers
           /\ UNCHANGED <<diffs, rejected, pushed, cut, runs>>
           /\ guard[g].at = "replay" /\ guard[g].old \in Tips
           /\ Contents(tip) \subseteq Contents(guard[g].old)
           /\ Contents(guard[g].old) \subseteq Contents(tip) \cup missed'
           /\ \/ tip = Replay(guard[g].old, guard[g].base)
              \/ tip = AsOf(guard[g].base) /\ Contents(guard[g].old) \subseteq missed'
<1>0. /\ guard \in [Guards -> GuardState] /\ missed \subseteq Workers \cup Strangers
      /\ guard[g].at = "replay" => guard[g].old # None
  BY DEF BranchInv, TypeOK, HasBranch, Active
<1>1. guard[g].base \in 0..MaxMoves /\ guard[g].old \in Tips \cup {None}
  BY <1>0, GuardBecomes
<1>2. guard[g].at = "replay"
  BY DEF MoveBranch, Miscounts, Moves
<1>3. guard[g].old \in Tips
  BY <1>0, <1>1, <1>2
<1>4. CASE MoveBranch(g)
  <2>1. Replay(guard[g].old, guard[g].base) \in Tips
    BY <1>1, TipTypes
  <2>2. Contents(Replay(guard[g].old, guard[g].base)) = Contents(guard[g].old)
    BY ContentsOf
  <2> QED
    BY <1>0, <1>2, <1>3, <1>4, <2>1, <2>2 DEF MoveBranch, past, kept
<1>5. CASE Miscounts(g)
  <2>1. AsOf(guard[g].base) \in Tips /\ Contents(AsOf(guard[g].base)) = {}
    BY <1>1, TipTypes, ContentsOf
  <2>2. Contents(guard[g].old) \subseteq Workers \cup Strangers
    BY <1>1, TipTypes
  <2> QED
    BY <1>0, <1>2, <1>3, <1>5, <2>1, <2>2 DEF Miscounts
<1> QED
  BY <1>4, <1>5

\* A branch that moves back is the one the guard read, or stays
LEMMA Pushed ==
  ASSUME BranchInv, NEW g \in Guards, PushBranch(g)
  PROVE  /\ guard[g].at = "push" /\ Finish(g) /\ guard[g].old \in Tips
         /\ UNCHANGED <<backups, base, card, from, answering, kept, pushed, runs, pr, landing>>
         /\ \/ branch' = branch
            \/ branch = guard[g].new /\ branch' = guard[g].old
         /\ \/ origin' = origin
            \/ origin = guard[g].remote /\ origin' = guard[g].new
         /\ run' \in {run, "ready", "idle"}
         /\ tracking' \in {tracking, origin'} /\ cut' \in BOOLEAN /\ unpushed' \in BOOLEAN
         /\ Contents(guard[g].remote) \subseteq Contents(guard[g].old)
         /\ Moving(guard[g], missed)
         /\ Contents(guard[g].new) \subseteq Contents(guard[g].old)
         /\ Contents(guard[g].old) \subseteq Contents(guard[g].new) \cup missed
<1>0. /\ guard \in [Guards -> GuardState] /\ HasBranch /\ GuardsInPlace
      /\ cut \in BOOLEAN /\ unpushed \in BOOLEAN
  BY DEF BranchInv, TypeOK
<1>1. guard[g].at = "push" /\ guard[g].old \in Tips /\ Moving(guard[g], missed)
  BY <1>0, GuardBecomes DEF PushBranch, HasBranch, Active, GuardsInPlace
<1>2. /\ Contents(guard[g].remote) \subseteq Contents(guard[g].old)
      /\ Contents(guard[g].new) \subseteq Contents(guard[g].old)
      /\ Contents(guard[g].old) \subseteq Contents(guard[g].new) \cup missed
  BY <1>0, <1>1, ContentsOf DEF GuardsInPlace, Moving
<1> QED
  BY <1>0, <1>1, <1>2 DEF PushBranch, Refused, Restored, StillAt, Lease, RunGoesOn, RunEnds

-----------------------------------------------------------------------------
(* The types *)

\* Every step keeps the state well formed
LEMMA StepTypes ==
  ASSUME BranchInv, [Next]_vars
  PROVE  TypeOK' /\ guard' \in [Guards -> GuardState]
<1>0. /\ TypeOK /\ guard \in [Guards -> GuardState] /\ HasBranch /\ GuardsInPlace
      /\ branch \in Tips \cup {None} /\ origin \in Tips \cup {None}
      /\ tracking \in Tips \cup {None} /\ from \in Tips \cup {None} /\ backups \subseteq Tips
      /\ base \in 0..MaxMoves /\ pushed \subseteq Strangers /\ runs \in 0..MaxRuns
      /\ diffs \subseteq Workers \cup Strangers /\ missed \subseteq Workers \cup Strangers
      /\ rejected \subseteq Tips
      /\ cut \in BOOLEAN /\ pr \in BOOLEAN /\ landing \in BOOLEAN /\ unpushed \in BOOLEAN
      /\ card \in Statuses /\ run \in Stages /\ answering \in 0..MaxMoves \cup {-1}
  BY DEF BranchInv, TypeOK
<1>1. /\ Guards = {"run", "sweep"} /\ "run" \in Guards /\ "sweep" \in Guards
      /\ {"idle", "starting", "guarded", "ready", "working", "delivering", "synced", "checking",
          "opening"} = Stages
      /\ {"todo", "doing", "waiting", "outdated", "rejected", "accepted"} = Statuses
  BY DEF Guards, Stages, Statuses
<1>2. ASSUME guard' \in [Guards -> GuardState],
             branch' \in Tips \cup {None}, origin' \in Tips \cup {None},
             tracking' \in Tips \cup {None}, from' \in Tips \cup {None}, backups' \subseteq Tips,
             base' \in 0..MaxMoves, pushed' \subseteq Strangers, runs' \in 0..MaxRuns,
             diffs' \subseteq Workers \cup Strangers, missed' \subseteq Workers \cup Strangers,
             rejected' \subseteq Tips,
             cut' \in BOOLEAN, pr' \in BOOLEAN, landing' \in BOOLEAN, unpushed' \in BOOLEAN,
             card' \in Statuses, run' \in Stages, answering' \in 0..MaxMoves \cup {-1}
      PROVE  TypeOK' /\ guard' \in [Guards -> GuardState]
  <2>1. \A g \in Guards : guard'[g].at \in {"idle", "ask", "replay", "push"}
    BY <1>2 DEF GuardState
  <2> QED
    BY <1>2, <2>1 DEF TypeOK
<1>3. ASSUME NEW g \in Guards, Guard(g)
      PROVE  TypeOK' /\ guard' \in [Guards -> GuardState]
  <2>1. CASE Skip(g)
    BY <1>0, <1>1, <1>2, <2>1, GuardBecomes DEF Skip, RunGoesOn, git, past, kept, requests
  <2>2. CASE AskOrigin(g)
    <3>1. CASE origin = None \/ IsAncestor(origin, guard[g].old) \/ Superseded(origin)
      <4>1. guard[g] \in GuardState
        BY <1>0
      <4>2. \A s \in GuardState, r \in Tips \cup {None} :
              [s EXCEPT !.at = "replay", !.remote = r] \in GuardState
        BY DEF GuardState
      <4>3. guard' = [guard EXCEPT ![g] = [guard[g] EXCEPT !.at = "replay",
                        !.remote = IF IsAncestor(origin, guard[g].old) THEN origin ELSE None]]
        BY <1>0, <2>2, <3>1 DEF AskOrigin
      <4>4. guard' \in [Guards -> GuardState]
        BY <1>0, <4>1, <4>2, <4>3
      <4> QED
        BY <1>0, <1>2, <2>2, <3>1, <4>4 DEF AskOrigin, past, kept, requests
    <3>2. CASE ~(origin = None \/ IsAncestor(origin, guard[g].old) \/ Superseded(origin))
      BY <1>0, <1>1, <1>2, <2>2, <3>2, GuardBecomes
         DEF AskOrigin, RunGoesOn, past, kept, requests
    <3> QED
      BY <3>1, <3>2
  <2>3. CASE Conflicts(g)
    BY <1>0, <1>1, <1>2, <2>3, GuardBecomes DEF Conflicts, RunEnds, git, past, kept, requests
  <2>4. CASE MoveBranch(g) \/ Miscounts(g)
    <3>1. PICK tip \in Tips :
            /\ Moves(g, tip) /\ missed' \subseteq Workers \cup Strangers
            /\ UNCHANGED <<diffs, rejected, pushed, cut, runs>>
      BY <2>4, MovesTo
    <3>2. branch' \in Tips \cup {None} /\ (Finish(g) \/ Pushing(g, tip)) /\ run' \in {run, "ready"}
      BY <1>0, <3>1 DEF Moves, RunGoesOn, Pushing
    <3>3. guard' \in [Guards -> GuardState]
      BY <1>0, <3>2, GuardBecomes
    <3> QED
      BY <1>0, <1>1, <1>2, <3>1, <3>2, <3>3 DEF Moves, requests
  <2>5. CASE PushBranch(g)
    <3>1. guard' \in [Guards -> GuardState] /\ guard[g].new \in Tips \cup {None}
      BY <1>0, <2>5, Pushed, GuardBecomes
    <3>2. /\ branch' \in Tips \cup {None} /\ origin' \in Tips \cup {None}
          /\ tracking' \in Tips \cup {None} /\ cut' \in BOOLEAN /\ unpushed' \in BOOLEAN
          /\ run' \in {run, "ready", "idle"}
      BY <1>0, <2>5, <3>1, Pushed
    <3>3. UNCHANGED <<backups, base, card, from, answering, kept, pushed, runs, pr, landing>>
      BY <2>5, Pushed
    <3> QED
      BY <1>0, <1>1, <1>2, <3>1, <3>2, <3>3 DEF kept
  <2> QED
    BY <1>3, <2>1, <2>2, <2>3, <2>4, <2>5 DEF Guard
<1>4. CASE Run
  <2>1. CASE Start
    <3>1. branch' \in Tips \cup {None} /\ run' \in {"ready", "starting"} /\ card' \in {card,
            "doing"}
      BY <1>0, <2>1, TipTypes DEF Start
    <3>2. runs' \in 0..MaxRuns /\ cut' \in BOOLEAN
      BY <1>0, <2>1 DEF Start
    <3> QED
      BY <1>0, <1>1, <1>2, <2>1, <3>1, <3>2 DEF Start, kept, requests
  <2>2. CASE RefuseDiverged \/ Prepare
    BY <1>0, <1>1, <1>2, <2>2 DEF RefuseDiverged, Prepare, past, kept, requests
  <2>3. CASE RunReads
    BY <1>0, <1>1, <1>2, <2>3, ReadDoes DEF RunReads, git, past, kept, requests
  <2>4. CASE Launch \/ GiveUp
    BY <1>0, <1>1, <1>2, <2>4 DEF Launch, GiveUp, git, past, kept, requests
  <2>5. CASE FetchBack
    <3>1. branch' \in Tips \cup {None}
      <4>1. branch \in Tips
        BY <1>0, <2>5 DEF FetchBack, HasBranch
      <4> QED
        BY <1>0, <2>5, <4>1, TipTypes DEF FetchBack
    <3>2. run' \in {"delivering", "idle"}
      BY <2>5 DEF FetchBack
    <3> QED
      BY <1>0, <1>1, <1>2, <2>5, <3>1, <3>2 DEF FetchBack, past, kept, requests
  <2>6. CASE HandOver
    <3>1. branch' \in Tips
      BY <1>0, <2>6, TipTypes DEF HandOver, HasBranch
    <3> QED
      BY <1>0, <1>1, <1>2, <2>6, <3>1 DEF HandOver, past, kept, requests
  <2>7. CASE CardChecks
    BY <1>0, <1>1, <1>2, <2>7 DEF CardChecks, git, past, kept, requests
  <2>8. CASE PushOver
    BY <1>0, <1>1, <1>2, <2>8 DEF PushOver, past, kept, requests
  <2>9. CASE Open
    <3>1. /\ origin' \in Tips \cup {None} /\ tracking' \in Tips \cup {None}
          /\ card' \in Statuses /\ pr' \in BOOLEAN /\ unpushed' \in BOOLEAN /\ run' \in Stages
      BY <1>0, <1>1, <2>9 DEF Open, Pushes
    <3> QED
      BY <1>0, <1>1, <1>2, <2>9, <3>1 DEF Open, past, kept
  <2> QED
    BY <1>4, <2>1, <2>2, <2>3, <2>4, <2>5, <2>6, <2>7, <2>8, <2>9 DEF Run
<1>5. CASE SweepReads
  <2>1. cut' \in BOOLEAN
    BY <1>0, <1>5 DEF SweepReads
  <2> QED
    BY <1>0, <1>1, <1>2, <1>5, <2>1, ReadDoes
       DEF SweepReads, Waits, git, kept, requests
<1>6. CASE Land
  <2>1. CASE LandSync
    <3>1. branch' \in Tips /\ cut' \in BOOLEAN
      BY <1>0, <2>1, TipTypes DEF LandSync, Waits, HasBranch
    <3> QED
      BY <1>0, <1>2, <2>1, <3>1 DEF LandSync, kept
  <2>2. CASE LandPush
    <3>1. origin' \in Tips \cup {None} /\ tracking' \in Tips \cup {None} /\ card' \in Statuses
      BY <1>0, <1>1, <2>2 DEF LandPush, Pushes
    <3> QED
      BY <1>0, <1>2, <2>2, <3>1 DEF LandPush, past, kept
  <2>3. CASE LandStops
    <3>1. card' \in Statuses /\ unpushed' \in BOOLEAN
      BY <1>0, <1>1, <2>3 DEF LandStops
    <3> QED
      BY <1>0, <1>2, <2>3, <3>1 DEF LandStops, git, past, kept
  <2> QED
    BY <1>6, <2>1, <2>2, <2>3 DEF Land
<1>7. CASE Operator
  <2>1. CASE Reject
    <3>1. Contents(branch) \subseteq Workers \cup Strangers
      BY <1>0, TipTypes
    <3>2. /\ branch' \in Tips \cup {None} /\ rejected' \subseteq Tips /\ cut' \in BOOLEAN
          /\ diffs' \subseteq Workers \cup Strangers /\ missed' \subseteq Workers \cup Strangers
          /\ card' \in Statuses
      BY <1>0, <1>1, <2>1, <3>1 DEF Reject
    <3> QED
      BY <1>0, <1>2, <2>1, <3>2 DEF Reject, requests
  <2>2. CASE Answer
    BY <1>0, <1>2, <2>2 DEF Answer, Kept, past, kept, requests
  <2>3. CASE Reset
    <3>1. AsOf(answering) \in Tips
      BY <1>0, <2>3, TipTypes DEF Reset
    <3> QED
      BY <1>0, <1>1, <1>2, <2>3, <3>1 DEF Reset, past, kept, requests
  <2>4. CASE ResetRefused
    BY <1>0, <1>2, <2>4 DEF ResetRefused, git, past, kept, requests
  <2>5. CASE TakeOver
    <3>1. origin # None /\ branch \in Tips
      BY <1>0, <2>5, ContentsOf DEF TakeOver, StrangersAhead
    <3>2. branch' \in Tips
      BY <1>0, <2>5, <3>1, TipTypes DEF TakeOver
    <3> QED
      BY <1>0, <1>2, <2>5, <3>2 DEF TakeOver, past, kept, requests
  <2> QED
    BY <1>7, <2>1, <2>2, <2>3, <2>4, <2>5 DEF Operator
<1>8. CASE Others
  <2>1. CASE StrangerPush
    <3>1. origin' \in Tips /\ pushed' \subseteq Strangers
      BY <1>0, <2>1, TipTypes DEF StrangerPush
    <3> QED
      BY <1>0, <1>2, <2>1, <3>1 DEF StrangerPush, kept, requests
  <2>2. CASE MoveBase
    BY <1>0, <1>2, <2>2 DEF MoveBase, git, past, kept, requests
  <2>3. CASE Crash
    <3>1. guard' \in [Guards -> GuardState]
      BY <1>0, <1>1, <2>3, GuardBecomes DEF Crash
    <3>2. cut' \in BOOLEAN /\ unpushed' \in BOOLEAN
      BY <1>0, <2>3 DEF Crash
    <3> QED
      BY <1>0, <1>1, <1>2, <2>3, <3>1, <3>2 DEF Crash, git, kept
  <2> QED
    BY <1>8, <2>1, <2>2, <2>3 DEF Others
<1>9. CASE UNCHANGED vars
  BY <1>0, <1>2, <1>9 DEF vars, git, past, kept, requests
<1> QED
  BY <1>3, <1>4, <1>5, <1>6, <1>7, <1>8, <1>9 DEF Next

-----------------------------------------------------------------------------
(* Nothing is lost *)

\* How a step changes what the branch, its backups, the diffs and origin hold: what is in the
\* branch stays, is saved or is missed, and origin's copy gives way only to one that holds as much,
\* or was saved
LEMMA StepHolds ==
  ASSUME BranchInv, [Next]_vars
  PROVE  /\ backups \subseteq backups' /\ pushed \subseteq pushed'
         /\ diffs \subseteq diffs' /\ missed \subseteq missed' /\ rejected \subseteq rejected'
         /\ Contents(branch) \subseteq Contents(branch') \cup Saved' \cup diffs' \cup missed'
         /\ Contents(origin) \subseteq Contents(origin') \cup Saved' \cup missed'
         /\ Foreigners(branch') \subseteq pushed' /\ Foreigners(origin') \subseteq pushed'
         /\ pushed' \subseteq pushed \cup Contents(origin')
         /\ answering # -1 => Contents(branch') \subseteq Saved' \cup missed'
<1>0. /\ TypeOK /\ guard \in [Guards -> GuardState] /\ HasBranch /\ GuardsInPlace
      /\ ResetIsSafe /\ PushedByOthers
      /\ branch \in Tips \cup {None} /\ origin \in Tips \cup {None} /\ backups \subseteq Tips
      /\ base \in 0..MaxMoves /\ pushed \subseteq Strangers
      /\ answering \in 0..MaxMoves \cup {-1}
      /\ Foreigners(branch) \subseteq pushed /\ Foreigners(origin) \subseteq pushed
  BY DEF BranchInv, TypeOK, PushedByOthers, Foreigners
<1> DEFINE Kept_ ==
         /\ backups \subseteq backups' /\ pushed \subseteq pushed'
         /\ diffs \subseteq diffs' /\ missed \subseteq missed' /\ rejected \subseteq rejected'
         /\ Contents(branch) \subseteq Contents(branch') \cup Saved' \cup diffs' \cup missed'
         /\ Contents(origin) \subseteq Contents(origin') \cup Saved' \cup missed'
         /\ Foreigners(branch') \subseteq pushed' /\ Foreigners(origin') \subseteq pushed'
         /\ pushed' \subseteq pushed \cup Contents(origin')
         /\ answering # -1 => Contents(branch') \subseteq Saved' \cup missed'
<1>s. backups \subseteq backups' => Saved \subseteq Saved'
  BY DEF Saved
\* the branch and origin's copy stay
<1>1. ASSUME UNCHANGED <<branch, origin, pushed, kept>>, backups \subseteq backups'
      PROVE  Kept_
  BY <1>0, <1>1, <1>s DEF ResetIsSafe, kept
\* the branch moves, to as much or with what is lost of it missed
<1>2. ASSUME UNCHANGED <<origin, pushed, backups, diffs, rejected>>, missed \subseteq missed',
             Contents(branch') \subseteq Contents(branch),
             Contents(branch) \subseteq Contents(branch') \cup missed'
      PROVE  Kept_
  BY <1>0, <1>2, <1>s DEF Foreigners, ResetIsSafe
\* the branch is pushed
<1>3. ASSUME UNCHANGED <<branch, pushed, backups, kept>>, origin' = branch,
             IsAncestor(origin, branch) \/ Superseded(origin) \/ origin = None
      PROVE  Kept_
  <2>1. Contents(origin) \subseteq Contents(origin') \cup Saved
    BY <1>3, ContentsOf DEF Superseded, Saved
  <2> QED
    BY <1>0, <1>3, <1>s, <2>1 DEF ResetIsSafe, kept
<1>4. ASSUME NEW g \in Guards, Guard(g)
      PROVE  Kept_
  <2>1. CASE Skip(g) \/ AskOrigin(g) \/ Conflicts(g)
    BY <1>1, <2>1 DEF Skip, AskOrigin, Conflicts, git, past
  <2>2. CASE MoveBranch(g) \/ Miscounts(g)
    <3>1. PICK tip \in Tips :
            /\ Moves(g, tip) /\ missed \subseteq missed'
            /\ UNCHANGED <<diffs, rejected, pushed, cut, runs>>
            /\ Contents(tip) \subseteq Contents(guard[g].old)
            /\ Contents(guard[g].old) \subseteq Contents(tip) \cup missed'
      BY <2>2, MovesTo
    <3>2. UNCHANGED <<origin, backups>>
      BY <3>1 DEF Moves
    <3>3. branch' = branch \/ (branch = guard[g].old /\ branch' = tip)
      BY <3>1 DEF Moves, StillAt
    <3> QED
      BY <1>2, <3>1, <3>2, <3>3
  <2>3. CASE PushBranch(g)
    <3>1. /\ UNCHANGED <<backups, kept, pushed, answering>>
          /\ branch' = branch \/ (branch = guard[g].new /\ branch' = guard[g].old)
          /\ origin' = origin \/ (origin = guard[g].remote /\ origin' = guard[g].new)
          /\ Contents(guard[g].remote) \subseteq Contents(guard[g].old)
          /\ Contents(guard[g].new) \subseteq Contents(guard[g].old)
          /\ Contents(guard[g].old) \subseteq Contents(guard[g].new) \cup missed
      BY <2>3, Pushed
    <3>2. Foreigners(guard[g].old) \subseteq pushed /\ Foreigners(guard[g].new) \subseteq pushed
      BY <1>0, <3>1 DEF PushedByOthers, Foreigners
    <3>3. /\ Contents(branch) \subseteq Contents(branch')
          /\ Contents(branch') \subseteq Contents(branch) \cup missed
          /\ Contents(origin) \subseteq Contents(origin') \cup missed
          /\ Foreigners(branch') \subseteq pushed /\ Foreigners(origin') \subseteq pushed
      BY <1>0, <3>1, <3>2
    <3>4. answering # -1 => Contents(branch') \subseteq Saved \cup missed
      BY <1>0, <3>3 DEF ResetIsSafe
    <3> QED
      BY <1>s, <3>1, <3>3, <3>4 DEF kept
  <2> QED
    BY <1>4, <2>1, <2>2, <2>3 DEF Guard
<1>5. CASE Start
  <2>1. CASE branch = None
    <3>1. Contents(branch) = {} /\ Contents(branch') = {}
      BY <1>0, <1>5, <2>1, ContentsOf DEF Start
    <3> QED
      BY <1>2, <1>5, <3>1 DEF Start, kept
  <2>2. CASE branch # None
    BY <1>1, <1>5, <2>2 DEF Start
  <2> QED
    BY <2>1, <2>2
<1>6. CASE RefuseDiverged \/ Prepare \/ RunReads \/ Launch \/ GiveUp \/ CardChecks \/ SweepReads
           \/ LandStops
  BY <1>1, <1>6 DEF RefuseDiverged, Prepare, RunReads, Launch, GiveUp, CardChecks, SweepReads,
     LandStops, git, past
<1>7. CASE FetchBack
  <2>0. /\ answering = -1 /\ branch \in Tips /\ UNCHANGED <<origin, backups, pushed, kept>>
    BY <1>0, <1>7 DEF FetchBack, ResetIsSafe, HasBranch, past
  <2>1. CASE branch = from
    <3>1. PICK w \in Workers : branch' = Committed(branch, w)
      BY <1>7, <2>1 DEF FetchBack
    <3>2. Contents(branch') = Contents(branch) \cup {w}
      BY <2>0, <3>1, ContentsOf
    <3>3. Foreigners(branch') \subseteq pushed
      BY <1>0, <3>2 DEF Foreigners
    <3> QED
      BY <1>0, <1>s, <2>0, <3>2, <3>3 DEF kept
  <2>2. CASE branch # from
    BY <1>1, <1>7, <2>2 DEF FetchBack, past
  <2> QED
    BY <2>1, <2>2
<1>8. CASE HandOver \/ LandSync
  <2>1. branch \in Tips /\ UNCHANGED <<origin, backups, pushed, kept>>
    BY <1>0, <1>8 DEF HandOver, LandSync, Waits, HasBranch, past
  <2>2. Contents(branch') = Contents(branch)
    BY <1>8, <2>1, ContentsOf DEF HandOver, LandSync
  <2> QED
    BY <1>2, <2>1, <2>2 DEF kept
<1>9. CASE PushOver
  BY <1>1, <1>3, <1>9 DEF PushOver, past
<1>10. CASE Open \/ LandPush
  BY <1>1, <1>3, <1>10 DEF Open, LandPush, Pushes, past
<1>11. CASE Answer \/ ResetRefused \/ MoveBase \/ Crash \/ UNCHANGED vars
  BY <1>0, <1>1, <1>11 DEF Answer, Kept, ResetRefused, MoveBase, Crash, vars, git, past
<1>12. CASE Reset
  <2>1. answering # -1 /\ branch' = AsOf(answering) /\ UNCHANGED <<origin, backups, pushed, kept>>
    BY <1>12 DEF Reset, past
  <2>2. Contents(branch') = {} /\ Contents(branch) \subseteq Saved \cup missed
    BY <1>0, <2>1, ContentsOf DEF ResetIsSafe
  <2> QED
    BY <1>0, <1>s, <2>1, <2>2 DEF Foreigners, kept
<1>13. CASE Reject
  <2>1. /\ UNCHANGED <<origin, backups, pushed, answering>> /\ branch' \in {branch, None}
        /\ answering = -1 /\ rejected \subseteq rejected'
        /\ diffs \subseteq diffs' /\ missed \subseteq missed'
        /\ Contents(branch) \subseteq diffs' \cup missed'
    BY <1>13 DEF Reject, Between
  <2> QED
    BY <1>0, <1>s, <2>1, ContentsOf DEF Foreigners
<1>14. CASE TakeOver
  <2>0. /\ answering = -1 /\ branch \in Tips /\ origin \in Tips
        /\ UNCHANGED <<origin, backups, pushed, kept>>
    BY <1>0, <1>14, ContentsOf DEF TakeOver, StrangersAhead, past
  <2>1. branch'.own = branch.own \cup origin.own
    BY <1>14, <2>0 DEF TakeOver
  <2>2. Contents(branch') = Contents(branch) \cup Contents(origin)
    BY <2>1 DEF Contents
  <2>3. Foreigners(branch') \subseteq pushed
    BY <1>0, <2>2 DEF Foreigners
  <2> QED
    BY <1>0, <1>s, <2>0, <2>2, <2>3 DEF kept
<1>15. CASE StrangerPush
  <2>1. PICK x \in Strangers \ pushed : origin' = Committed(origin, x) /\ pushed' = pushed \cup {x}
    BY <1>15 DEF StrangerPush
  <2>2. origin \in Tips /\ UNCHANGED <<branch, backups, answering, kept>>
    BY <1>0, <1>15 DEF StrangerPush
  <2>3. Contents(origin') = Contents(origin) \cup {x}
    BY <2>1, <2>2, ContentsOf
  <2> QED
    BY <1>0, <1>s, <2>1, <2>2, <2>3 DEF Foreigners, ResetIsSafe, kept
<1> QED
  BY <1>4, <1>5, <1>6, <1>7, <1>8, <1>9, <1>10, <1>11, <1>12, <1>13, <1>14, <1>15
     DEF Next, Run, Land, Operator, Others

-----------------------------------------------------------------------------
(* The rest of the invariant *)

\* Where each guard goes in a step
LEMMA GuardStep ==
  ASSUME BranchInv, [Next]_vars, NEW g \in Guards
  PROVE  \/ guard'[g] = guard[g]
         \/ guard'[g] = NoGuard
         \/ /\ guard[g] = NoGuard /\ guard'[g].at = "ask" /\ guard'[g].base = base
            /\ guard'[g].old = branch /\ guard'[g].remote = None /\ branch # None
            /\ UNCHANGED git
            /\ g = "run" => run = "guarded" /\ run' = run
         \/ /\ guard[g].at = "ask" /\ guard'[g].at = "replay" /\ guard'[g].base = guard[g].base
            /\ guard'[g].old = guard[g].old
            /\ guard'[g].remote \in {None, origin} /\ IsAncestor(guard'[g].remote, guard[g].old)
            /\ AskOrigin(g) /\ run' = run
         \/ /\ guard[g].at = "replay" /\ guard'[g].at = "push" /\ guard'[g].base = guard[g].base
            /\ guard'[g].old = guard[g].old /\ guard'[g].remote = guard[g].remote
            /\ Moving(guard'[g], missed') /\ run' = run
<1>0. /\ TypeOK /\ guard \in [Guards -> GuardState] /\ HasBranch /\ GuardsInPlace
      /\ origin \in Tips \cup {None} /\ base \in 0..MaxMoves
      /\ "run" \in Guards /\ "sweep" \in Guards
  BY DEF BranchInv, TypeOK, Guards
<1>1. ASSUME NEW h \in Guards, Finish(h)
      PROVE  guard'[g] = guard[g] \/ guard'[g] = NoGuard
  BY <1>0, <1>1, GuardBecomes
<1>2. ASSUME NEW h \in Guards, h # g, Guard(h)
      PROVE  guard'[g] = guard[g]
  BY <1>0, <1>2, GuardBecomes DEF Guard, Skip, AskOrigin, Conflicts, MoveBranch, Miscounts, Moves,
       PushBranch, Finish
<1>3. CASE Guard(g)
  <2>1. CASE Skip(g) \/ Conflicts(g) \/ PushBranch(g)
    BY <1>1, <2>1 DEF Skip, Conflicts, PushBranch
  <2>2. CASE AskOrigin(g)
    <3>1. CASE origin = None \/ IsAncestor(origin, guard[g].old) \/ Superseded(origin)
      <4>1. guard' = [guard EXCEPT ![g] = [guard[g] EXCEPT !.at = "replay",
                        !.remote = IF IsAncestor(origin, guard[g].old) THEN origin ELSE None]]
        BY <1>0, <2>2, <3>1 DEF AskOrigin
      <4>2. \A s \in GuardState : \A r :
              LET u == [s EXCEPT !.at = "replay", !.remote = r] IN
              u.at = "replay" /\ u.base = s.base /\ u.old = s.old /\ u.remote = r
        BY DEF GuardState
      <4>3. IsAncestor(None, guard[g].old)
        BY <1>0, GuardBecomes, Ancestors
      <4>4. guard[g].at = "ask" /\ run' = run
        BY <2>2, <3>1 DEF AskOrigin
      <4>5. guard[g] \in GuardState
        BY <1>0
      <4>6. guard'[g] = [guard[g] EXCEPT !.at = "replay",
               !.remote = IF IsAncestor(origin, guard[g].old) THEN origin ELSE None]
        BY <1>0, <4>1
      <4> QED
        BY <2>2, <4>2, <4>3, <4>4, <4>5, <4>6
    <3>2. CASE ~(origin = None \/ IsAncestor(origin, guard[g].old) \/ Superseded(origin))
      BY <1>1, <2>2, <3>2 DEF AskOrigin
    <3> QED
      BY <3>1, <3>2
  <2>3. CASE MoveBranch(g) \/ Miscounts(g)
    <3>1. PICK tip \in Tips :
            /\ Moves(g, tip) /\ guard[g].at = "replay"
            /\ \/ tip = Replay(guard[g].old, guard[g].base)
               \/ tip = AsOf(guard[g].base) /\ Contents(guard[g].old) \subseteq missed'
      BY <2>3, MovesTo
    <3>2. Finish(g) \/ (Pushing(g, tip) /\ run' = run)
      BY <3>1 DEF Moves, Pushing
    <3>3. CASE Pushing(g, tip) /\ run' = run
      <4>1. /\ guard'[g].at = "push" /\ guard'[g].base = guard[g].base
            /\ guard'[g].old = guard[g].old /\ guard'[g].remote = guard[g].remote
            /\ guard'[g].new = tip
        BY <1>0, <3>3, GuardBecomes
      <4>2. Moving(guard'[g], missed')
        BY <3>1, <4>1 DEF Moving
      <4> QED
        BY <3>1, <3>3, <4>1, <4>2
    <3> QED
      BY <1>1, <3>2, <3>3
  <2> QED
    BY <1>3, <2>1, <2>2, <2>3 DEF Guard
<1>4. CASE RunReads
  <2>1. run = "guarded" /\ guard["run"] = NoGuard /\ Read("run") /\ UNCHANGED git /\ branch # None
    BY <1>0, <1>4 DEF RunReads, HasBranch
  <2> QED
    BY <1>0, <2>1, ReadDoes
<1>5. CASE SweepReads
  <2>1. guard["sweep"] = NoGuard /\ Read("sweep") /\ UNCHANGED git /\ branch # None
    BY <1>0, <1>5 DEF SweepReads, Waits, HasBranch
  <2> QED
    BY <1>0, <2>1, ReadDoes
<1>6. CASE Crash
  BY <1>0, <1>6 DEF Crash
<1>7. CASE ~(RunReads \/ SweepReads \/ Crash \/ \E h \in Guards : Guard(h))
  BY <1>7 DEF Next, Run, Land, Operator, Others, Start, RefuseDiverged, Prepare, Launch, FetchBack,
       GiveUp, HandOver, CardChecks, PushOver, Open, LandSync, LandPush, LandStops, Reject, Answer,
       Reset, ResetRefused, TakeOver, StrangerPush, MoveBase, vars
<1> QED
  BY <1>2, <1>3, <1>4, <1>5, <1>6, <1>7

\* Every step keeps the branch where it is worked on
LEMMA HasBranchStays ==
  ASSUME BranchInv, [Next]_vars
  PROVE  HasBranch'
<1>0. HasBranch /\ guard \in [Guards -> GuardState] /\ NoGuard.at = "idle" /\ "run" \in Guards
      /\ branch \in Tips \cup {None} /\ origin \in Tips \cup {None} /\ base \in 0..MaxMoves
      /\ answering \in 0..MaxMoves \cup {-1}
  BY DEF BranchInv, TypeOK, Guards, NoGuard
<1>1. \A g \in Guards : Active(g)' => guard'[g].old # None
  BY <1>0, GuardStep DEF HasBranch, Active
<1>2. run' # "idle" \/ card' = "waiting" => branch' # None
  <2>1. ASSUME NEW g \in Guards, Guard(g)
        PROVE  run' # "idle" \/ card' = "waiting" => branch' # None
    <3>1. CASE Skip(g) \/ AskOrigin(g) \/ Conflicts(g)
      <4>1. branch' = branch /\ card' \in {card, "outdated"} /\ (g = "sweep" => run' = run)
        BY <3>1 DEF Skip, AskOrigin, Conflicts, RunGoesOn, RunEnds, git
      <4>2. g = "run" => run # "idle"
        BY <1>0, <3>1 DEF Skip, AskOrigin, Conflicts, BranchInv, GuardsInPlace, Active
      <4> QED
        BY <1>0, <4>1, <4>2 DEF HasBranch, Guards
    <3>2. CASE MoveBranch(g) \/ Miscounts(g)
      <4>1. PICK tip \in Tips : Moves(g, tip) /\ guard[g].at = "replay"
        BY <3>2, MovesTo
      <4>2. branch' \in {branch, tip} /\ tip # None /\ card' = card /\ (g = "sweep" => run' = run)
        BY <4>1, TipFields DEF Moves, RunGoesOn
      <4>3. g = "run" => run # "idle"
        BY <4>1 DEF BranchInv, GuardsInPlace, Active, Guards
      <4> QED
        BY <1>0, <4>2, <4>3 DEF HasBranch, Guards
    <3>3. CASE PushBranch(g)
      <4>1. /\ branch' = branch \/ branch' = guard[g].old
            /\ guard[g].old \in Tips /\ guard[g].at = "push" /\ card' = card
        BY <3>3, Pushed
      <4>2. g = "sweep" => run' = run
        BY <3>3 DEF PushBranch, Refused, RunGoesOn, RunEnds
      <4>3. g = "run" => run # "idle"
        BY <4>1 DEF BranchInv, GuardsInPlace, Active, Guards
      <4> QED
        BY <1>0, <4>1, <4>2, <4>3, TipFields DEF HasBranch, Guards
    <3> QED
      BY <2>1, <3>1, <3>2, <3>3 DEF Guard
  <2>2. CASE Start
    <3>1. AsOf(base) # None
      BY <1>0, TipTypes, TipFields
    <3> QED
      BY <2>2, <3>1 DEF Start
  <2>3. CASE RefuseDiverged \/ Prepare \/ RunReads \/ Launch \/ GiveUp \/ CardChecks \/ PushOver
             \/ Open \/ SweepReads \/ LandPush \/ LandStops
    BY <1>0, <2>3 DEF HasBranch, RefuseDiverged, Prepare, RunReads, Read, RunGoesOn, Launch, GiveUp,
       CardChecks, PushOver, Open, SweepReads, LandPush, LandStops, git
  <2>4. CASE FetchBack \/ HandOver \/ LandSync
    <3>1. branch \in Tips
      BY <1>0, <2>4 DEF FetchBack, HandOver, LandSync, Waits, HasBranch
    <3>2. branch' \in Tips
      BY <1>0, <2>4, <3>1, TipTypes DEF FetchBack, HandOver, LandSync
    <3> QED
      BY <3>2, TipFields
  <2>5. CASE Reject \/ Answer \/ Reset \/ ResetRefused
    <3>1. run' = run /\ (branch' = branch \/ run = "idle") /\ card' \in {card, "rejected", "todo"}
          /\ (branch' = branch \/ card' # "waiting")
      BY <2>5 DEF Reject, Between, Answer, Reset, ResetRefused, git, BranchInv, ResetIsSafe
    <3> QED
      BY <1>0, <3>1 DEF HasBranch
  <2>6. CASE TakeOver
    <3>1. branch \in Tips /\ origin \in Tips
      BY <1>0, <2>6, ContentsOf DEF TakeOver, StrangersAhead
    <3>2. branch' \in Tips
      BY <2>6, <3>1, TipTypes DEF TakeOver
    <3> QED
      BY <3>2, TipFields
  <2>7. CASE Others \/ UNCHANGED vars
    BY <1>0, <2>7 DEF HasBranch, Others, StrangerPush, MoveBase, Crash, vars, git
  <2> QED
    BY <2>1, <2>2, <2>3, <2>4, <2>5, <2>6, <2>7 DEF Next, Run, Land, Operator
<1> QED
  BY <1>1, <1>2 DEF HasBranch

\* Every step keeps the guards in their places
LEMMA GuardsStay ==
  ASSUME BranchInv, [Next]_vars
  PROVE  GuardsInPlace'
<1>0. /\ HasBranch /\ GuardsInPlace /\ guard \in [Guards -> GuardState]
      /\ "run" \in Guards /\ run \in Stages
      /\ branch \in Tips \cup {None} /\ missed \subseteq missed'
  BY StepHolds DEF BranchInv, TypeOK, Guards
<1>1. ASSUME NEW g \in Guards
      PROVE  /\ IsAncestor(guard'[g].remote, guard'[g].old) /\ (~Active(g)' => guard'[g] = NoGuard)
             /\ guard'[g].at = "push" => Moving(guard'[g], missed')
  <2>1. CASE guard'[g] = guard[g]
    <3>1. Moving(guard[g], missed) => Moving(guard'[g], missed')
      BY <1>0, <2>1 DEF Moving
    <3> QED
      BY <1>0, <2>1, <3>1 DEF GuardsInPlace, Active
  <2>2. CASE guard'[g] # guard[g]
    BY <1>0, <2>2, GuardStep, GuardBecomes, Ancestors DEF GuardsInPlace, Active
  <2> QED
    BY <2>1, <2>2
<1>2. Active("run")' => run' = "guarded"
  <2>1. CASE ~Active("run")
    BY <1>0, <2>1, GuardStep, GuardBecomes DEF Active
  <2>2. CASE Active("run")
    <3>0. run = "guarded"
      BY <1>0, <2>2 DEF GuardsInPlace
    <3>1. CASE run' = run
      BY <3>0, <3>1
    <3>2. CASE Guard("run") /\ run' # run
      <4>1. Finish("run")
        BY <3>2 DEF Guard, Skip, AskOrigin, Conflicts, MoveBranch, Miscounts, Moves, PushBranch
      <4> QED
        BY <1>0, <4>1, GuardBecomes DEF Active
    <3>3. CASE Crash
      BY <1>0, <3>3, GuardBecomes DEF Crash, Active
    <3>4. CASE run' # run /\ ~Guard("run") /\ ~Crash
      <4>1. ~Guard("sweep")
        BY <3>4 DEF Guard, Skip, AskOrigin, Conflicts, MoveBranch, Miscounts, Moves, PushBranch,
           Refused, RunGoesOn, RunEnds
      <4>2. ~RunReads
        BY <1>0, <2>2, GuardBecomes DEF RunReads, Active
      <4>3. ~Run
        BY <3>0, <3>4, <4>2 DEF Run, Start, Between, RefuseDiverged, Prepare, Launch, FetchBack,
           GiveUp, HandOver, CardChecks, PushOver, Open
      <4>4. ~SweepReads /\ ~Land
        BY <3>4 DEF SweepReads, Read, RunGoesOn, Land, LandSync, LandPush, LandStops
      <4>5. ~Operator /\ ~Others /\ ~UNCHANGED vars
        BY <3>4 DEF Operator, Reject, Answer, Reset, ResetRefused, TakeOver, Others, StrangerPush,
           MoveBase, vars
      <4> QED
        BY <4>1, <3>4, <4>3, <4>4, <4>5 DEF Next, Guards
    <3> QED
      BY <3>1, <3>2, <3>3, <3>4
  <2> QED
    BY <2>1, <2>2
<1> QED
  BY <1>1, <1>2 DEF GuardsInPlace

\* Nothing but an answer begins a reset
LEMMA ResetBegins ==
  ASSUME [Next]_vars, answering' # -1
  PROVE  Answer \/ answering' = answering
BY DEF Next, Run, Land, Operator, Others, Guard, Skip, AskOrigin, Conflicts, MoveBranch, Miscounts,
   Moves, PushBranch, Start, RefuseDiverged, Prepare, RunReads, Launch, FetchBack, GiveUp, HandOver,
   CardChecks, PushOver, Open, SweepReads, LandSync, LandPush, LandStops, Reject, Reset,
   ResetRefused, TakeOver, StrangerPush, MoveBase, Crash, vars

\* Every step keeps a reset safe
LEMMA ResetStays ==
  ASSUME BranchInv, [Next]_vars
  PROVE  ResetIsSafe'
<1>0. /\ ResetIsSafe /\ GuardsInPlace
      /\ answering # -1 => Contents(branch') \subseteq Saved' \cup missed'
  BY StepHolds DEF BranchInv
<1>1. CASE Answer
  <2>1. branch' = branch /\ run' = "idle" /\ Contents(branch) \subseteq Saved'
    BY <1>1, ContentsOf DEF Answer, Kept, Saved
  <2> QED
    BY <2>1 DEF ResetIsSafe
<1>2. CASE answering' # -1 /\ ~Answer
  <2>1. answering # -1
    BY <1>2, ResetBegins
  <2>2. run = "idle" /\ Contents(branch') \subseteq Saved' \cup missed'
    BY <1>0, <2>1 DEF ResetIsSafe
  <2>3. ~Active("run")
    BY <1>0, <2>2 DEF GuardsInPlace
  <2>4. run' = "idle"
    <3>1. CASE Guard("run")
      BY <2>3, <3>1 DEF Guard, Skip, AskOrigin, Conflicts, MoveBranch, Miscounts, Moves, PushBranch,
         Active
    <3>2. CASE Guard("sweep")
      BY <2>2, <3>2 DEF Guard, Skip, AskOrigin, Conflicts, MoveBranch, Miscounts, Moves, PushBranch,
         Refused, RunGoesOn, RunEnds
    <3>3. CASE ~Guard("run") /\ ~Guard("sweep")
      BY <1>2, <2>1, <2>2, <3>3 DEF Next, Guards, Run, Land, Operator, Others, Start, Between,
           RefuseDiverged, Prepare, RunReads, Launch, FetchBack, GiveUp, HandOver, CardChecks,
           PushOver, Open, SweepReads, Read, RunGoesOn, LandSync, LandPush, LandStops, Reject,
           Reset, ResetRefused, TakeOver, StrangerPush, MoveBase, Crash, vars
    <3> QED
      BY <3>1, <3>2, <3>3
  <2> QED
    BY <2>2, <2>4 DEF ResetIsSafe
<1> QED
  BY <1>1, <1>2 DEF ResetIsSafe

\* Every step keeps the inductive invariant
LEMMA BranchKept ==
  ASSUME BranchInv, [Next]_vars
  PROVE  BranchInv'
<1>0. TypeOK' /\ guard' \in [Guards -> GuardState] /\ HasBranch' /\ GuardsInPlace' /\ ResetIsSafe'
  BY StepTypes, HasBranchStays, GuardsStay, ResetStays
<1>1. PushedByOthers'
  <2>1. ASSUME NEW g \in Guards
        PROVE  Foreigners(guard'[g].old) \subseteq pushed'
    BY <2>1, StepHolds, GuardStep, GuardBecomes, ContentsOf
       DEF BranchInv, PushedByOthers, Foreigners
  <2> QED
    BY <2>1, StepHolds DEF PushedByOthers
<1>2. StrangersKept'
  <2>1. /\ pushed' \subseteq pushed \cup Contents(origin')
        /\ pushed \subseteq Contents(origin) \cup Saved \cup missed
        /\ Contents(origin) \subseteq Contents(origin') \cup Saved' \cup missed'
        /\ Saved \subseteq Saved' /\ missed \subseteq missed'
    BY StepHolds DEF BranchInv, StrangersKept, Saved
  <2>2. pushed' \subseteq Contents(origin') \cup Saved' \cup missed'
    BY <2>1
  <2> QED
    BY <2>2 DEF StrangersKept
<1> QED
  BY <1>0, <1>1, <1>2 DEF BranchInv

\* The invariant holds at first
LEMMA BranchInit == Init => BranchInv
<1> SUFFICES ASSUME Init PROVE BranchInv
  OBVIOUS
<1>1. NoGuard \in GuardState /\ NoGuard.at = "idle" /\ NoGuard.old = None /\ NoGuard.remote = None
  BY DEF NoGuard, GuardState
<1>2. /\ Contents(None) = {} /\ None \in Tips \cup {None} /\ IsAncestor(None, None)
  BY ContentsOf, Ancestors
<1>3. guard \in [Guards -> GuardState] /\ \A g \in Guards : guard[g] = NoGuard
  BY <1>1 DEF Init
<1>4. TypeOK
  <2>1. 0 \in 0..MaxMoves /\ 0 \in 0..MaxRuns
    OBVIOUS
  <2>2. \A g \in Guards : guard[g].at \in {"idle", "ask", "replay", "push"}
    BY <1>1, <1>3
  <2> QED
    BY <2>1, <2>2 DEF Init, TypeOK, Stages, Statuses
<1>5. ~Active("run") /\ ~Active("sweep")
  BY <1>1, <1>3 DEF Active, Guards
<1> QED
  BY <1>1, <1>2, <1>3, <1>4, <1>5 DEF Init, BranchInv, HasBranch, GuardsInPlace, ResetIsSafe,
     PushedByOthers, Foreigners, StrangersKept, Active, Guards

\* The invariant holds throughout
LEMMA BranchAlways == Spec => []BranchInv
<1>1. BranchInv /\ [Next]_vars => BranchInv'
  BY BranchKept
<1> QED
  BY <1>1, BranchInit, PTL DEF Spec

\* The state stays well formed: every tip holds only what workers and others committed
\* (smortboard/review/rebase_guard.py, exec/backends.py)
THEOREM TypeCorrect == Spec => []TypeOK
<1>1. BranchInv => TypeOK
  BY DEF BranchInv
<1> QED
  BY <1>1, BranchAlways, PTL

\* What others pushed to a card's branch is never overwritten: neither by the guard's push under
\* its lease, nor by the push over a superseded copy, nor by a reset, whatever run, sweep, landing,
\* rejection, answer and crash come in between, but where git could not say what the branch held
\* (_force_push, push_over_superseded, reset_to_base)
THEOREM OthersAreKept == Spec => []StrangersKept
<1>1. BranchInv => StrangersKept
  BY DEF BranchInv
<1> QED
  BY <1>1, BranchAlways, PTL

\* What a worker delivered stays in the branch, in a backup or in a diff attached to the card,
\* whoever replays the branch, moves it back, resets it, rejects it or merges the base into it,
\* but where git could not say what the branch held (_move_branch, reset_to_base, reject_card,
\* _fetch_back)
THEOREM WorkIsKept == Spec => OwnWorkKept
<1>1. BranchInv /\ [Next]_vars => [\A w \in Workers : w \in Held => w \in Held' \cup missed']_vars
  <2> SUFFICES ASSUME BranchInv, [Next]_vars, NEW w \in Workers, w \in Held
               PROVE  w \in Held' \cup missed'
    OBVIOUS
  <2>1. /\ backups \subseteq backups' /\ diffs \subseteq diffs'
        /\ Contents(branch) \subseteq Contents(branch') \cup Saved' \cup diffs' \cup missed'
    BY StepHolds
  <2>2. Saved \subseteq Saved'
    BY <2>1 DEF Saved
  <2> QED
    BY <2>1, <2>2 DEF Held
<1> QED
  BY <1>1, BranchAlways, PTL DEF Spec, OwnWorkKept

-----------------------------------------------------------------------------
(* What is on origin, as long as no push is cut short *)

\* A push that was cut short, or an overlap, is remembered
LEMMA CutStays ==
  ASSUME [Next]_vars, cut, BranchInv
  PROVE  cut'
BY DEF BranchInv, TypeOK, Next, Run, Land, Operator, Others, Guard, Skip, AskOrigin, Conflicts,
   MoveBranch, Miscounts, Moves, PushBranch, Refused, Start, RefuseDiverged, Prepare, RunReads,
   Launch, FetchBack, GiveUp, HandOver, CardChecks, PushOver, Open, SweepReads, LandSync, LandPush,
   LandStops, Reject, Answer, Reset, ResetRefused, TakeOver, StrangerPush, MoveBase, Crash, vars,
   past

\* Run, sweep and landing keep taking turns
LEMMA TurnsStay ==
  ASSUME BranchInv, TakeTurns, ~cut, [Next]_vars, ~cut'
  PROVE  TakeTurns'
<1>0. /\ guard \in [Guards -> GuardState] /\ "run" \in Guards /\ "sweep" \in Guards
      /\ GuardsInPlace /\ GuardsInPlace' /\ ResetIsSafe
      /\ ~Active("sweep") => guard["sweep"] = NoGuard
      /\ NoGuard.at = "idle" /\ landing \in BOOLEAN
      /\ backups \subseteq backups'
  BY BranchKept, StepHolds DEF BranchInv, TypeOK, Guards, GuardsInPlace, NoGuard
<1>1. CASE Active("sweep") \/ landing
  <2>0. run = "idle" /\ card = "waiting" /\ answering = -1 /\ ~Active("run")
        /\ ~Guard("run") /\ ~Run /\ ~SweepReads /\ ~Reject
    <3>1. run = "idle" /\ card = "waiting" /\ answering = -1
      BY <1>1 DEF TakeTurns
    <3>2. ~Active("run") /\ ~Guard("run")
      BY <1>0, <3>1 DEF GuardsInPlace, Active, Guard, Skip, AskOrigin, Conflicts, MoveBranch,
         Miscounts, Moves, PushBranch
    <3>3. ~Alone
      BY <1>0, <1>1 DEF Alone, Active
    <3>4. ~Run
      BY <3>1, <3>3 DEF Run, Start, RefuseDiverged, Prepare, RunReads, Launch, FetchBack, GiveUp,
         HandOver, CardChecks, PushOver, Open
    <3>5. ~Reject
      BY <3>3 DEF Reject
    <3>6. ~SweepReads
      BY <1>0, <1>1 DEF SweepReads, Waits, Active
    <3> QED
      BY <3>1, <3>2, <3>4, <3>5, <3>6
  <2>1. CASE Guard("sweep")
    <3>1. Active("sweep") /\ ~landing /\ guard'["sweep"].at \in {"idle", "ask", "replay", "push"}
      BY <1>0, <2>1, BranchKept, GuardBecomes DEF Guard, Skip, AskOrigin, Conflicts, MoveBranch,
         Miscounts, Moves, PushBranch, Active, TakeTurns, BranchInv, TypeOK
    <3>2. CASE Conflicts("sweep")
      <4>1. /\ run' = "idle" /\ card' = "outdated" /\ answering' = -1
            /\ guard'["sweep"] = NoGuard /\ ~landing'
        BY <1>0, <2>0, <3>1, <3>2, GuardBecomes DEF Conflicts, RunEnds, requests
      <4> QED
        BY <1>0, <4>1 DEF TakeTurns, Active
    <3>3. CASE ~Conflicts("sweep")
      <4>1. run' = "idle" /\ card' = "waiting" /\ answering' = -1 /\ ~landing'
        BY <2>0, <2>1, <3>1, <3>3 DEF Guard, Skip, AskOrigin, MoveBranch, Miscounts, Moves,
           PushBranch, Refused, RunGoesOn, RunEnds, requests
      <4> QED
        BY <4>1 DEF TakeTurns
    <3> QED
      BY <3>2, <3>3
  <2>2. CASE Land
    <3>1. ~Active("sweep")
      BY <1>0, <1>1, <2>2 DEF Land, LandSync, LandPush, LandStops, Waits, TakeTurns, Active
    <3>2. run' = "idle" /\ answering' = -1 /\ ~Active("sweep")'
      BY <2>0, <2>2, <3>1 DEF Land, LandSync, LandPush, LandStops, Active
    <3>3. card' \in {"waiting", "accepted", "doing"} /\ (landing' => card' = "waiting")
      BY <2>0, <2>2 DEF Land, LandSync, LandPush, LandStops, Waits
    <3> QED
      BY <3>2, <3>3 DEF TakeTurns
  <2>3. CASE Answer \/ Reset \/ ResetRefused
    BY <2>0, <2>3 DEF Answer, Reset, ResetRefused
  <2>4. CASE TakeOver \/ StrangerPush \/ MoveBase \/ UNCHANGED vars
    BY <2>0, <2>4 DEF TakeOver, StrangerPush, MoveBase, vars, requests, TakeTurns, Active
  <2>5. CASE Crash
    <3>1. run' = "idle" /\ card' = "waiting" /\ answering' = -1 /\ ~landing'
      BY <2>0, <2>5 DEF Crash
    <3> QED
      BY <3>1 DEF TakeTurns
  <2> QED
    BY <2>0, <2>1, <2>2, <2>3, <2>4, <2>5 DEF Next, Guards, Operator, Others
<1>2. CASE ~Active("sweep") /\ ~landing
  <2>0. ~Guard("sweep")
    BY <1>2 DEF Guard, Skip, AskOrigin, Conflicts, MoveBranch, Miscounts, Moves, PushBranch, Active
  <2>1. CASE SweepReads
    <3>1. /\ run = "idle" /\ run' = run /\ card' = card /\ card = "waiting"
          /\ answering' = answering /\ answering = -1 /\ ~landing'
      BY <1>0, <1>2, <2>1 DEF SweepReads, Waits, Read, RunGoesOn, TakeTurns, requests
    <3> QED
      BY <3>1 DEF TakeTurns
  <2>2. CASE LandSync
    <3>1. /\ run = "idle" /\ run' = run /\ card' = card /\ card = "waiting"
          /\ answering' = answering /\ answering = -1 /\ guard' = guard
      BY <1>0, <2>2 DEF LandSync, Waits, TakeTurns
    <3> QED
      BY <1>2, <3>1 DEF TakeTurns, Active
  <2>3. CASE ~SweepReads /\ ~LandSync
    <3>0. ~Land
      BY <1>2, <2>3 DEF Land, LandPush, LandStops
    <3>1. ~Active("sweep")' /\ ~landing'
      <4>1. CASE Guard("run")
        <5>1. guard'["sweep"] = guard["sweep"]
          BY <1>0, <4>1, GuardBecomes DEF Guard, Skip, AskOrigin, Conflicts, MoveBranch, Miscounts,
             Moves, PushBranch, Finish
        <5>2. landing' = landing
          BY <4>1 DEF Guard, Skip, AskOrigin, Conflicts, MoveBranch, Miscounts,
             Moves, PushBranch, requests
        <5> QED
          BY <1>2, <5>1, <5>2 DEF Active
      <4>2. CASE RunReads
        <5>1. guard'["sweep"] = guard["sweep"] /\ landing' = landing
          BY <1>0, <4>2, ReadDoes DEF RunReads, requests
        <5> QED
          BY <1>2, <5>1 DEF Active
      <4>3. CASE Crash
        BY <1>0, <4>3 DEF Crash, Active
      <4>4. CASE ~Guard("run") /\ ~RunReads /\ ~Crash
        <5>1. guard' = guard /\ landing' = landing
          BY <2>0, <2>3, <3>0, <4>4 DEF Next, Guards, Run, Operator, Others, Start, RefuseDiverged,
             Prepare, Launch, FetchBack, GiveUp, HandOver, CardChecks, PushOver, Open, Reject,
             Answer, Reset, ResetRefused, TakeOver, StrangerPush, MoveBase, vars, requests
        <5> QED
          BY <1>2, <5>1 DEF Active
      <4> QED
        BY <4>1, <4>2, <4>3, <4>4
    <3>2. /\ run' \notin {"idle", "starting"} =>
               card' = "doing" \/ (card' = "waiting" /\ run' \in {"checking", "opening"})
          /\ card' = "outdated" => run' = "idle"
      <4>1. CASE Guard("run")
        <5>1. run = "guarded" /\ card = "doing"
          BY <1>0, <4>1 DEF Guard, Skip, AskOrigin, Conflicts, MoveBranch, Miscounts, Moves,
             PushBranch, Active, GuardsInPlace, TakeTurns
        <5>2. /\ run' \in {"guarded", "ready", "idle"}
              /\ card' = "doing" \/ (card' = "outdated" /\ run' = "idle")
          BY <4>1, <5>1 DEF Guard, Skip, AskOrigin, Conflicts, MoveBranch, Miscounts, Moves,
             PushBranch, Refused, RunGoesOn, RunEnds
        <5> QED
          BY <5>2
      <4>2. CASE ~Guard("run")
        <5>1. CASE Start \/ RefuseDiverged \/ Prepare
          BY <5>1 DEF Start, RefuseDiverged, Prepare, TakeTurns
        <5>2. CASE RunReads \/ Launch \/ FetchBack \/ GiveUp \/ HandOver \/ CardChecks
          <6>1. run \notin {"idle", "starting", "checking", "opening"} /\ card = "doing"
            BY <5>2 DEF RunReads, Launch, FetchBack, GiveUp, HandOver, CardChecks, TakeTurns
          <6>2. card' = card \/ (card' = "waiting" /\ run' = "checking")
            BY <5>2 DEF RunReads, Launch, FetchBack, GiveUp, HandOver, CardChecks
          <6> QED
            BY <6>1, <6>2
        <5>3. CASE PushOver \/ Open
          <6>1. run \in {"checking", "opening"} /\ card \in {"doing", "waiting"}
            BY <5>3 DEF PushOver, Open, TakeTurns
          <6>2. run' \in {"opening", "idle"} /\ card' \in {card, "waiting"}
            BY <5>3 DEF PushOver, Open
          <6> QED
            BY <6>1, <6>2
        <5>4. CASE Operator
          <6>1. run' = run /\ run = "idle"
            BY <1>0, <5>4 DEF Operator, Reject, Between, Answer, Reset, ResetRefused, TakeOver,
               ResetIsSafe
          <6> QED
            BY <6>1
        <5>5. CASE Others \/ UNCHANGED vars
          BY <5>5 DEF Others, StrangerPush, MoveBase, Crash, vars, TakeTurns
        <5> QED
          BY <2>0, <2>3, <3>0, <4>2, <5>1, <5>2, <5>3, <5>4, <5>5 DEF Next, Guards, Run
      <4> QED
        BY <4>1, <4>2
    <3>3. answering' # -1 => card' = "outdated" /\ branch' \in backups' \cup {None}
      <4>1. CASE Answer
        BY <4>1 DEF Answer, Kept
      <4>2. CASE answering' # -1 /\ ~Answer
        <5>1. answering # -1 /\ answering' = answering
          BY <4>2, ResetBegins
        <5>2. branch \in backups \cup {None} /\ run = "idle" /\ card = "outdated"
          BY <5>1 DEF TakeTurns, BranchInv, ResetIsSafe
        <5>3. ~Guard("run") /\ ~Run
          <6>1. ~Guard("run")
            BY <1>0, <5>2 DEF Guard, Skip, AskOrigin, Conflicts, MoveBranch, Miscounts, Moves,
               PushBranch, Active, GuardsInPlace
          <6>2. ~Run
            BY <5>2 DEF Run, Start, RefuseDiverged, Prepare, RunReads, Launch, FetchBack, GiveUp,
               HandOver, CardChecks, PushOver, Open
          <6> QED
            BY <6>1, <6>2
        <5>4. branch' = branch /\ card' = card
          BY <2>0, <2>3, <3>0, <4>2, <5>1, <5>2, <5>3 DEF Next, Guards, Operator, Others, Reject,
             Between, Answer, Reset, ResetRefused, TakeOver, StrangerPush, MoveBase, Crash, vars,
             git
        <5> QED
          BY <1>0, <5>2, <5>4
      <4> QED
        BY <4>1, <4>2
    <3> QED
      BY <3>1, <3>2, <3>3 DEF TakeTurns
  <2> QED
    BY <2>1, <2>2, <2>3
<1> QED
  BY <1>0, <1>1, <1>2

\* Between two of its states a guard's branch and origin's copy follow from each other, and so does
\* what a waiting pull request shows
LEMMA FollowsStay ==
  ASSUME BranchInv, OriginInv, ~cut, [Next]_vars, ~cut'
  PROVE  (\A g \in Guards : GuardFollows(g)') /\ OriginFollows' /\ WaitingFollows'
<1>0. /\ guard \in [Guards -> GuardState] /\ guard' \in [Guards -> GuardState]
      /\ "run" \in Guards /\ "sweep" \in Guards /\ Guards = {"run", "sweep"}
      /\ HasBranch /\ GuardsInPlace /\ ResetIsSafe /\ PushedByOthers /\ TakeTurns /\ TakeTurns'
      /\ OriginFollows /\ WaitingFollows /\ \A g \in Guards : GuardFollows(g)
      /\ branch \in Tips \cup {None} /\ origin \in Tips \cup {None} /\ backups \subseteq Tips
      /\ rejected \subseteq Tips /\ base \in 0..MaxMoves /\ pushed \subseteq Strangers
      /\ answering \in 0..MaxMoves \cup {-1} /\ landing \in BOOLEAN /\ unpushed \in BOOLEAN
      /\ backups \subseteq backups' /\ rejected \subseteq rejected'
      /\ NoGuard.at = "idle"
  BY TurnsStay, StepTypes, StepHolds DEF BranchInv, OriginInv, TypeOK, Guards, NoGuard
<1> DEFINE Goal == (\A g \in Guards : GuardFollows(g)') /\ OriginFollows' /\ WaitingFollows'
<1>1. /\ UNCHANGED origin /\ Superseded(origin) => Superseded(origin)'
      /\ UNCHANGED origin /\ RejectedStays => RejectedStays'
      /\ ~(Active("run") /\ Active("sweep"))
  BY <1>0 DEF Superseded, RejectedStays, GuardsInPlace, TakeTurns
\* where no run is past its guard and no sweep is on, no guard is
<1>i. ASSUME run # "guarded", run # "idle" \/ guard["sweep"] = NoGuard
      PROVE  \A g \in Guards : guard[g].at = "idle"
  BY <1>0, <1>i DEF GuardsInPlace, TakeTurns, Active
\* nothing but the run, the card and the backups changes
<1>2. ASSUME UNCHANGED <<branch, origin, guard, pushed>>, Shows' => Shows
      PROVE  Goal
  <2>1. (Superseded(origin) => Superseded(origin)') /\ (RejectedStays => RejectedStays')
    BY <1>1, <1>2
  <2>2. ASSUME NEW g \in Guards
        PROVE  GuardFollows(g)'
    <3>1. GuardFollows(g)
      BY <1>0
    <3>2. /\ Active(g)' <=> Active(g)
          /\ Moved(g)' <=> Moved(g)
          /\ StrangersAhead' <=> StrangersAhead
      BY <1>2 DEF Active, Moved, StrangersAhead
    <3> QED
      BY <1>2, <2>1, <3>1, <3>2 DEF GuardFollows
  <2>3. OriginFollows'
    BY <1>0, <1>2, <2>1 DEF OriginFollows, Behind, StrangersAhead
  <2>4. WaitingFollows'
    BY <1>0, <1>2 DEF WaitingFollows
  <2> QED
    BY <2>2, <2>3, <2>4
\* no guard is active
<1>3. ASSUME \A g \in Guards : guard'[g].at = "idle", Behind',
             Shows' /\ pushed' = {} => origin' = branch'
      PROVE  Goal
  BY <1>0, <1>3 DEF GuardFollows, Active, OriginFollows, WaitingFollows
\* the branch grows by nobody else's commits
<1>4. ASSUME branch \in Tips, branch' \in Tips, UNCHANGED origin, IsAncestor(branch, branch'),
             Foreigners(branch') \subseteq Contents(branch), Behind
      PROVE  Behind'
  <2>1. IsAncestor(origin, branch) => IsAncestor(origin', branch')
    BY <1>0, <1>4, Ancestors
  <2>2. StrangersAhead => StrangersAhead'
    BY <1>4 DEF StrangersAhead, Foreigners
  <2> QED
    BY <1>1, <1>4, <2>1, <2>2 DEF Behind
\* a guard starts, with the branch as it is
<1>5. CASE RunReads \/ SweepReads
  <2>1. UNCHANGED <<branch, origin, backups, pushed, card, unpushed, landing>>
    BY <1>5 DEF RunReads, SweepReads, git, past, requests
  <2>2. PICK g \in Guards : /\ Read(g) /\ guard[g] = NoGuard
                            /\ run' \in {run, "ready"} /\ (run' = run \/ run = "guarded")
    BY <1>0, <1>5 DEF RunReads, SweepReads, Waits, Read, RunGoesOn
  <2>s. Shows' => Shows
    BY <2>1, <2>2 DEF Shows
  <2>3. CASE guard' = guard
    BY <1>2, <2>1, <2>3, <2>s
  <2>4. CASE guard' # guard
    <3>1. /\ guard'[g].at = "ask" /\ guard'[g].old = branch
          /\ \A h \in Guards \ {g} : guard'[h] = guard[h]
          /\ guard[g].at = "idle"
      BY <2>2, <2>4, ReadDoes, GuardBecomes, <1>0
    <3>2. GuardFollows(g)'
      BY <2>1, <3>1 DEF GuardFollows, Active
    <3>3. ASSUME NEW h \in Guards \ {g}
          PROVE  GuardFollows(h)'
      <4>1. GuardFollows(h) /\ guard'[h] = guard[h]
        BY <1>0, <3>1
      <4>2. /\ Active(h)' <=> Active(h)
            /\ Moved(h)' <=> Moved(h)
            /\ StrangersAhead' <=> StrangersAhead
        BY <2>1, <4>1 DEF Active, Moved, StrangersAhead
      <4> QED
        BY <1>1, <2>1, <4>1, <4>2 DEF GuardFollows
    <3>4. OriginFollows'
      <4>1. (\A h \in Guards : guard'[h].at # "push") => \A h \in Guards : guard[h].at # "push"
        BY <3>1
      <4> QED
        BY <1>0, <1>1, <2>1, <4>1 DEF OriginFollows, Behind, StrangersAhead
    <3>5. WaitingFollows'
      BY <1>0, <2>1, <2>s, <3>1 DEF WaitingFollows
    <3> QED
      BY <3>2, <3>3, <3>4, <3>5
  <2> QED
    BY <2>3, <2>4
<1>6. CASE Start
  <2>1. CASE branch # None
    <3>1. Shows' => Shows
      BY <1>6, <2>1 DEF Start, Between, Shows, requests
    <3> QED
      BY <1>2, <1>6, <2>1, <3>1 DEF Start
  <2>2. CASE branch = None
    <3>1. /\ \A g \in Guards : guard[g].at = "idle"
          /\ guard' = guard /\ origin' = origin /\ card' = "doing" /\ branch' = AsOf(base)
      BY <1>6, <1>i, <2>2 DEF Start, Between, Alone
    <3>2. Behind
      BY <1>0, <3>1 DEF OriginFollows
    <3>3. IsAncestor(origin, None) => origin = None
      BY <1>0, Ancestors
    <3>4. StrangersAhead => StrangersAhead'
      BY <2>2, <3>1, ContentsOf DEF StrangersAhead
    <3>5. Behind'
      BY <1>1, <2>2, <3>1, <3>2, <3>3, <3>4 DEF Behind
    <3> QED
      BY <1>3, <3>1, <3>5 DEF Shows
  <2> QED
    BY <2>1, <2>2
<1>7. CASE RefuseDiverged \/ Prepare \/ Launch \/ GiveUp \/ CardChecks
  <2>1. Shows' => Shows
    BY <1>7 DEF RefuseDiverged, Prepare, Launch, GiveUp, CardChecks, Shows, requests
  <2> QED
    BY <1>2, <1>7, <2>1 DEF RefuseDiverged, Prepare, Launch, GiveUp, CardChecks, git, past
<1>8. CASE FetchBack
  <2>0. /\ branch \in Tips /\ \A g \in Guards : guard[g].at = "idle"
        /\ card = "doing" /\ UNCHANGED <<origin, guard, card, pushed>>
    BY <1>0, <1>8, <1>i DEF FetchBack, HasBranch, TakeTurns, past
  <2>1. CASE branch # from
    <3>1. UNCHANGED branch /\ ~Shows'
      BY <1>8, <2>0, <2>1 DEF FetchBack, Shows
    <3> QED
      BY <1>2, <2>0, <3>1
  <2>2. CASE branch = from
    <3>1. PICK w \in Workers : branch' = Committed(branch, w)
      BY <1>8, <2>2 DEF FetchBack
    <3>2. /\ Contents(branch') = Contents(branch) \cup {w} /\ IsAncestor(branch, branch')
          /\ branch' \in Tips
      BY <2>0, <3>1, ContentsOf, Ancestors, TipTypes
    <3>3. Foreigners(branch') \subseteq Contents(branch)
      BY <3>2 DEF Foreigners
    <3>4. Behind'
      BY <1>0, <1>4, <2>0, <3>2, <3>3 DEF OriginFollows
    <3> QED
      BY <1>3, <2>0, <3>4 DEF Shows
  <2> QED
    BY <2>1, <2>2
\* the base is merged in
<1>9. CASE HandOver \/ LandSync
  <2>0. /\ branch \in Tips /\ \A g \in Guards : guard[g].at = "idle"
        /\ UNCHANGED <<origin, guard, pushed>> /\ ~Shows'
    <3>1. CASE HandOver
      BY <1>0, <1>i, <3>1 DEF HandOver, HasBranch, TakeTurns, past, Shows
    <3>2. CASE LandSync
      BY <1>0, <1>i, <3>2 DEF LandSync, Waits, HasBranch, Shows
    <3> QED
      BY <1>9, <3>1, <3>2
  <2>1. branch' = Merged(branch, base) \/ branch' = branch
    BY <1>9 DEF HandOver, LandSync
  <2>2. /\ branch' \in Tips /\ Contents(branch') = Contents(branch) /\ IsAncestor(branch, branch')
    BY <1>0, <2>0, <2>1, ContentsOf, Ancestors, TipTypes
  <2>3. Behind'
    BY <1>0, <1>4, <2>0, <2>2 DEF OriginFollows, Foreigners
  <2> QED
    BY <1>3, <2>0, <2>3
\* the branch is pushed, or not
<1>10. CASE PushOver \/ Open \/ LandPush \/ LandStops
  <2>0. \A g \in Guards : guard[g].at = "idle"
    <3>1. CASE PushOver \/ Open
      BY <1>i, <3>1 DEF PushOver, Open
    <3>2. CASE LandPush \/ LandStops
      <4>1. run = "idle" /\ ~Active("sweep")
        BY <1>0, <3>2 DEF LandPush, LandStops, TakeTurns
      <4> QED
        BY <1>0, <1>i, <4>1 DEF GuardsInPlace
    <3> QED
      BY <1>10, <3>1, <3>2
  <2>1. /\ UNCHANGED <<branch, guard>> /\ (origin' = origin \/ origin' = branch)
        /\ Shows' => origin' = branch'
    <3>1. CASE PushOver
      BY <3>1 DEF PushOver, Shows
    <3>2. CASE Open
      BY <3>2 DEF Open, Pushes, Shows
    <3>3. CASE LandPush
      BY <3>3 DEF LandPush, Pushes
    <3>4. CASE LandStops
      BY <3>4 DEF LandStops, git, Shows
    <3> QED
      BY <1>10, <3>1, <3>2, <3>3, <3>4
  <2>2. Behind
    BY <1>0, <2>0 DEF OriginFollows
  <2>3. CASE origin' = origin
    <3>1. Behind'
      BY <1>1, <2>1, <2>2, <2>3 DEF Behind, StrangersAhead
    <3> QED
      BY <1>3, <2>0, <2>1, <3>1
  <2>4. CASE origin' = branch
    <3>1. Behind'
      BY <1>0, <2>1, <2>4, Ancestors DEF Behind
    <3> QED
      BY <1>3, <2>0, <2>1, <3>1
  <2> QED
    BY <2>1, <2>3, <2>4
<1>11. CASE Answer \/ ResetRefused \/ MoveBase \/ UNCHANGED vars
  <2>1. Shows' => Shows
    BY <1>11 DEF Answer, ResetRefused, MoveBase, vars, requests, Shows
  <2> QED
    BY <1>2, <1>11, <2>1 DEF Answer, ResetRefused, MoveBase, vars, git, past
<1>12. CASE Reset
  <2>1. /\ answering # -1 /\ branch' = AsOf(answering) /\ card' = "todo"
        /\ UNCHANGED <<origin, backups, guard>>
    BY <1>12 DEF Reset
  <2>2. /\ branch \in backups \cup {None} /\ run = "idle" /\ ~Active("sweep")
        /\ \A g \in Guards : guard[g].at = "idle"
    BY <1>0, <2>1 DEF TakeTurns, ResetIsSafe, GuardsInPlace, Active
  <2>3. Behind
    BY <1>0, <2>2 DEF OriginFollows
  <2>4. StrangersAhead => StrangersAhead'
    <3>1. Contents(branch') = {}
      BY <2>1, ContentsOf
    <3> QED
      BY <2>1, <3>1 DEF StrangersAhead
  <2>5. IsAncestor(origin, branch) => Superseded(origin) \/ origin = None
    BY <1>0, <2>2, Ancestors DEF Superseded
  <2>6. Behind'
    BY <1>1, <2>1, <2>3, <2>4, <2>5 DEF Behind
  <2> QED
    BY <1>3, <2>1, <2>2, <2>6 DEF Shows
<1>13. CASE Reject
  <2>1. /\ \A g \in Guards : guard[g].at = "idle"
        /\ UNCHANGED <<origin, guard>> /\ card' = "rejected"
        /\ branch' = branch \/ rejected' = rejected \cup ({origin} \ {None})
    BY <1>13, <1>i DEF Reject, Between, Alone
  <2>2. Behind
    BY <1>0, <2>1 DEF OriginFollows
  <2>3. Behind'
    <3>1. CASE branch' = branch
      BY <1>1, <2>1, <2>2, <3>1 DEF Behind, StrangersAhead
    <3>2. CASE rejected' = rejected \cup ({origin} \ {None})
      BY <1>0, <2>1, <3>2, Ancestors DEF Behind, RejectedStays
    <3> QED
      BY <2>1, <3>1, <3>2
  <2> QED
    BY <1>3, <2>1, <2>3 DEF Shows
<1>14. CASE TakeOver
  <2>1. /\ UNCHANGED <<origin, backups, guard, pushed>> /\ StrangersAhead
        /\ branch' = [base |-> IF origin.base > branch.base THEN origin.base ELSE branch.base,
                      own |-> branch.own \cup origin.own]
    BY <1>14 DEF TakeOver, past
  <2>2. origin \in Tips /\ branch \in Tips
    BY <1>0, <1>14, ContentsOf DEF TakeOver, StrangersAhead
  <2>3. IsAncestor(origin, branch') /\ IsAncestor(branch, branch')
    BY <2>1, <2>2, Ancestors
  <2>4. pushed # {}
    BY <1>0, <2>1 DEF PushedByOthers, Foreigners, StrangersAhead
  <2>5. ASSUME NEW g \in Guards
        PROVE  GuardFollows(g)'
    <3>1. /\ GuardFollows(g) /\ guard'[g] = guard[g]
          /\ Moved(g)' <=> Moved(g)
      BY <1>0, <2>1 DEF Moved
    <3>2. guard[g].at \in {"ask", "replay"} => Moved(g)
      BY <2>1, <3>1 DEF GuardFollows, StrangersAhead, Moved, Foreigners
    <3>3. guard[g].at = "push" => guard[g].new \in Tips \cup {None}
      BY <1>0, GuardBecomes
    <3>4. ASSUME guard[g].at = "push"
          PROVE  \/ /\ origin' = guard'[g].remote /\ IsAncestor(guard'[g].new, branch')
                    /\ IsAncestor(origin', branch') /\ pushed' # {}
                 \/ Moved(g)' /\ IsAncestor(origin', branch')
      <4>1. branch' \in Tips
        BY <2>1, <2>2, TipTypes
      <4>2. IsAncestor(guard[g].new, branch) \/ branch = guard[g].new
              => IsAncestor(guard[g].new, branch')
        BY <1>0, <2>3, <3>3, <3>4, <4>1, Ancestors
      <4> QED
        BY <2>1, <2>3, <2>4, <3>1, <3>4, <4>2 DEF GuardFollows
    <3> QED
      BY <2>1, <3>1, <3>2, <3>4 DEF GuardFollows
  <2> QED
    BY <2>1, <2>3, <2>4, <2>5 DEF OriginFollows, Behind, WaitingFollows
<1>15. CASE StrangerPush
  <2>1. PICK x \in Strangers \ pushed : origin' = Committed(origin, x) /\ pushed' = pushed \cup {x}
    BY <1>15 DEF StrangerPush
  <2>2. UNCHANGED <<branch, backups, guard>> /\ origin \in Tips
    BY <1>0, <1>15 DEF StrangerPush
  <2>3. x \in Contents(origin') /\ x \notin Contents(branch)
    BY <1>0, <2>1, <2>2, ContentsOf DEF PushedByOthers, Foreigners
  <2>4. StrangersAhead'
    BY <2>2, <2>3 DEF StrangersAhead
  <2>5. ASSUME NEW g \in Guards
        PROVE  GuardFollows(g)'
    <3>1. GuardFollows(g) /\ guard'[g] = guard[g]
      BY <1>0, <2>2
    <3>2. Moved(g)'
      BY <1>0, <2>1, <2>3, <3>1 DEF PushedByOthers, Foreigners, Moved
    <3> QED
      BY <2>2, <2>4, <3>1, <3>2 DEF GuardFollows
  <2> QED
    BY <2>1, <2>4, <2>5 DEF OriginFollows, Behind, WaitingFollows
<1>16. CASE Crash
  <2>1. /\ UNCHANGED <<branch, origin, backups, pushed, card>>
        /\ \A g \in Guards : guard'[g].at = "idle" /\ guard[g].at # "push"
    BY <1>0, <1>16 DEF Crash, git
  <2>2. Behind'
    BY <1>0, <1>1, <2>1 DEF OriginFollows, Behind, StrangersAhead
  <2>3. ASSUME Shows', pushed' = {}
        PROVE  origin' = branch'
    <3>1. CASE landing \/ run \in {"checking", "opening"}
      BY <1>16, <2>1, <2>3, <3>1 DEF Crash, Shows
    <3>2. CASE ~(landing \/ run \in {"checking", "opening"})
      <4>1. Shows
        BY <1>16, <2>1, <2>3, <3>2 DEF Crash, Shows
      <4> QED
        BY <1>0, <2>1, <2>3, <4>1 DEF WaitingFollows
    <3> QED
      BY <3>1, <3>2
  <2> QED
    BY <1>3, <2>1, <2>2, <2>3
\* a guard goes on, alone
<1>17. ASSUME NEW g \in Guards, Guard(g)
       PROVE  Goal
  <2>0. /\ Active(g) /\ GuardFollows(g) /\ guard[g].old \in Tips
        /\ guard[g].remote \in Tips \cup {None}
        /\ IsAncestor(guard[g].remote, guard[g].old)
        /\ Contents(guard[g].remote) \subseteq Contents(guard[g].old)
    <3>1. Active(g)
      BY <1>17 DEF Guard, Skip, AskOrigin, Conflicts, MoveBranch, Miscounts, Moves, PushBranch,
         Active
    <3>2. /\ guard[g].old \in Tips /\ guard[g].remote \in Tips \cup {None}
          /\ IsAncestor(guard[g].remote, guard[g].old)
      BY <1>0, <3>1, GuardBecomes DEF HasBranch, GuardsInPlace
    <3> QED
      BY <1>0, <3>1, <3>2, ContentsOf
  <2>1. \A h \in Guards \ {g} : guard[h].at = "idle" /\ (Shows => g = "sweep")
    BY <1>0, <1>1, <2>0 DEF Active, TakeTurns, GuardsInPlace, Shows
  <2>2. UNCHANGED <<pushed, backups, landing>>
    BY <1>17 DEF Guard, Skip, AskOrigin, Conflicts, MoveBranch, Miscounts, Moves, PushBranch, past,
       git, requests
  <2>3. g = "run" => ~Shows'
    <3>1. g = "run" => run = "guarded" /\ card = "doing"
      BY <1>0, <2>0 DEF GuardsInPlace, TakeTurns
    <3>2. card' \in {card, "outdated"}
      BY <1>17 DEF Guard, Skip, AskOrigin, Conflicts, MoveBranch, Miscounts, Moves, PushBranch
    <3> QED
      BY <3>1, <3>2 DEF Shows
  <2>4. g = "sweep" => run' = "idle" /\ run = "idle" /\ card = "waiting" /\ ~landing
    <3>1. g = "sweep" => run = "idle" /\ card = "waiting" /\ ~landing
      BY <1>0, <2>0 DEF TakeTurns
    <3> QED
      BY <1>17, <3>1 DEF Guard, Skip, AskOrigin, Conflicts, MoveBranch, Miscounts, Moves,
         PushBranch, Refused, RunGoesOn, RunEnds
  <2>5. unpushed' = unpushed /\ Shows' => Shows /\ g = "sweep"
    BY <1>0, <2>3, <2>4 DEF Shows
  <2>6. Finish(g) => \A h \in Guards : guard'[h].at = "idle"
    BY <1>0, <2>1, GuardBecomes
  <2>7. pushed = {} => ~Moved(g)
    BY <1>0 DEF PushedByOthers, Moved
  <2>8. guard[g].at # "push" => Behind
    BY <1>0, <2>1 DEF OriginFollows
  <2>f. ASSUME Finish(g), UNCHANGED <<branch, origin, unpushed>>, guard[g].at # "push"
        PROVE  Goal
    <3>1. Behind'
      BY <1>1, <2>8, <2>f DEF Behind, StrangersAhead
    <3>2. Shows' /\ pushed' = {} => origin' = branch'
      BY <1>0, <2>2, <2>5, <2>f DEF WaitingFollows
    <3> QED
      BY <1>3, <2>6, <2>f, <3>1, <3>2
  <2>g. ASSUME \A h \in Guards \ {g} : guard'[h] = guard[h], GuardFollows(g)', OriginFollows',
               WaitingFollows'
        PROVE  Goal
    BY <2>1, <2>g DEF GuardFollows
  <2>9. CASE Skip(g) \/ Conflicts(g)
    BY <2>9, <2>f DEF Skip, Conflicts, git, requests
  <2>10. CASE AskOrigin(g)
    <3>0. UNCHANGED <<branch, origin, unpushed, card>> /\ guard[g].at = "ask"
      BY <2>10 DEF AskOrigin, requests
    <3>1. CASE Finish(g)
      BY <2>f, <3>0, <3>1
    <3>2. CASE ~Finish(g)
      <4>1. /\ origin = None \/ IsAncestor(origin, guard[g].old) \/ Superseded(origin)
            /\ guard' = [guard EXCEPT ![g] = [guard[g] EXCEPT !.at = "replay",
                          !.remote = IF IsAncestor(origin, guard[g].old) THEN origin ELSE None]]
        BY <1>0, <2>10, <3>2 DEF AskOrigin
      <4>2. \A u \in GuardState : \A r :
              /\ [u EXCEPT !.at = "replay", !.remote = r].at = "replay"
              /\ [u EXCEPT !.at = "replay", !.remote = r].old = u.old
              /\ [u EXCEPT !.at = "replay", !.remote = r].remote = r
        BY DEF GuardState
      <4>3. /\ guard'[g].at = "replay" /\ guard'[g].old = guard[g].old
            /\ guard'[g].remote = IF IsAncestor(origin, guard[g].old) THEN origin ELSE None
            /\ \A h \in Guards \ {g} : guard'[h] = guard[h]
        <5>1. guard[g] \in GuardState
          BY <1>0
        <5>2. /\ guard'[g] = [guard[g] EXCEPT !.at = "replay",
                    !.remote = IF IsAncestor(origin, guard[g].old) THEN origin ELSE None]
              /\ \A h \in Guards \ {g} : guard'[h] = guard[h]
          BY <1>0, <4>1
        <5> QED
          BY <4>2, <5>1, <5>2
      <4>4. branch = guard[g].old \/ Moved(g)
        BY <2>0, <3>0 DEF GuardFollows
      <4>5. guard'[g].remote = origin \/ (guard'[g].remote = None /\ Superseded(origin))
        <5>1. IsAncestor(None, guard[g].old)
          BY <2>0, Ancestors
        <5> QED
          BY <4>1, <4>3, <5>1
      <4>6. Moved(g)' <=> Moved(g)
        BY <3>0, <4>3 DEF Moved
      <4>7. GuardFollows(g)'
        BY <1>1, <2>0, <3>0, <4>3, <4>4, <4>5, <4>6 DEF GuardFollows
      <4>8. OriginFollows'
        BY <1>1, <2>8, <3>0 DEF OriginFollows, Behind, StrangersAhead
      <4>9. WaitingFollows'
        <5>1. SUFFICES ASSUME Shows', pushed' = {}
                       PROVE  origin' = branch' /\ guard'[g].remote = guard'[g].old /\ g = "sweep"
          BY DEF WaitingFollows
        <5>2. origin = branch /\ branch = guard[g].old /\ g = "sweep"
          BY <1>0, <2>2, <2>5, <2>7, <3>0, <4>4, <5>1 DEF WaitingFollows
        <5>3. IsAncestor(origin, guard[g].old)
          BY <2>0, <5>2, Ancestors
        <5> QED
          BY <3>0, <4>3, <5>2, <5>3
      <4> QED
        BY <2>g, <4>3, <4>7, <4>8, <4>9
    <3> QED
      BY <3>1, <3>2
  <2>11. CASE MoveBranch(g) \/ Miscounts(g)
    <3>0. PICK tip \in Tips :
            /\ Moves(g, tip) /\ guard[g].at = "replay"
            /\ Contents(tip) \subseteq Contents(guard[g].old)
      BY <2>11, MovesTo
    <3>1. UNCHANGED <<origin, unpushed, card>>
      BY <3>0 DEF Moves, requests
    <3>2. CASE branch # guard[g].old
      BY <2>f, <3>0, <3>1, <3>2 DEF Moves, StillAt
    <3>3. CASE branch = guard[g].old
      <4>1. branch' = tip
        BY <3>0, <3>3 DEF Moves, StillAt
      <4>2. Moved(g) => StrangersAhead'
        BY <3>0, <3>1, <4>1 DEF Moved, Foreigners, StrangersAhead
      <4>3. \/ guard[g].remote = origin \/ Moved(g)
            \/ guard[g].remote = None /\ Superseded(origin)
        BY <2>0, <3>0 DEF GuardFollows
      <4>4. Shows' /\ pushed = {} => guard[g].remote = guard[g].old
        BY <1>0, <2>5, <3>0, <3>1 DEF WaitingFollows
      <4>5. CASE guard[g].remote = None
        <5>1. Finish(g)
          BY <3>0, <3>3, <4>5 DEF Moves, StillAt
        <5>2. Behind'
          BY <1>1, <3>1, <4>2, <4>3, <4>5 DEF Behind
        <5>3. ~(Shows' /\ pushed' = {})
          BY <2>0, <2>2, <4>4, <4>5, TipFields
        <5> QED
          BY <1>3, <2>6, <5>1, <5>2, <5>3
      <4>6. CASE guard[g].remote # None
        <5>1. /\ guard'[g].at = "push"
              /\ guard'[g].old = guard[g].old /\ guard'[g].remote = guard[g].remote
              /\ guard'[g].new = tip
              /\ \A h \in Guards \ {g} : guard'[h] = guard[h]
          BY <1>0, <3>0, <3>3, <4>6, GuardBecomes DEF Moves, StillAt, Pushing
        <5>2. Moved(g)' <=> Moved(g)
          BY <3>1, <5>1 DEF Moved
        <5>3. GuardFollows(g)'
          BY <3>1, <4>1, <4>2, <4>3, <4>6, <5>1, <5>2 DEF GuardFollows
        <5>4. OriginFollows'
          BY <5>1 DEF OriginFollows
        <5>5. WaitingFollows'
          BY <2>2, <2>3, <4>4, <5>1 DEF WaitingFollows, Guards
        <5> QED
          BY <2>g, <5>1, <5>3, <5>4, <5>5
      <4> QED
        BY <4>5, <4>6
    <3> QED
      BY <3>2, <3>3
  <2>12. CASE PushBranch(g)
    <3>0. guard[g].at = "push" /\ Finish(g) /\ guard[g].new \in Tips \cup {None}
      BY <1>0, <2>12, GuardBecomes DEF PushBranch
    <3>1. \/ origin = guard[g].remote /\ branch = guard[g].new
          \/ /\ origin = guard[g].remote /\ IsAncestor(guard[g].new, branch)
             /\ IsAncestor(origin, branch) /\ pushed # {}
          \/ Moved(g) /\ (StrangersAhead \/ IsAncestor(origin, branch))
      BY <2>0, <3>0 DEF GuardFollows
    <3>2. CASE Lease(guard[g].remote) /\ UNCHANGED branch /\ origin' = guard[g].new
               /\ unpushed' = (origin' # branch)
      <4>1. origin = guard[g].remote
        BY <3>2 DEF Lease
      <4>2. ~Moved(g)
        BY <2>0, <4>1 DEF Moved, Foreigners
      <4>3. IsAncestor(origin', branch')
        BY <3>0, <3>1, <3>2, <4>2, Ancestors
      <4>4. Shows' => origin' = branch'
        BY <3>2 DEF Shows
      <4> QED
        BY <1>3, <2>6, <3>0, <4>3, <4>4 DEF Behind
    <3>3. CASE branch' = Restored(guard[g]) /\ UNCHANGED <<origin, unpushed>>
      <4>1. CASE branch = guard[g].new
        <5>1. branch' = guard[g].old
          BY <3>3, <4>1 DEF Restored, StillAt
        <5>2. CASE Moved(g)
          <6>1. StrangersAhead'
            BY <3>3, <5>1, <5>2 DEF StrangersAhead, Moved, Foreigners
          <6> QED
            BY <1>3, <2>2, <2>6, <2>7, <3>0, <5>2, <6>1 DEF Behind
        <5>3. CASE ~Moved(g)
          <6>1. IsAncestor(origin', branch')
            BY <2>0, <3>1, <3>3, <5>1, <5>3
          <6>2. Shows' /\ pushed' = {} => origin' = branch'
            BY <1>0, <2>2, <2>5, <3>0, <3>1, <3>3, <5>1, <5>3 DEF WaitingFollows
          <6> QED
            BY <1>3, <2>6, <3>0, <6>1, <6>2 DEF Behind
        <5> QED
          BY <5>2, <5>3
      <4>2. CASE branch # guard[g].new
        <5>1. branch' = branch /\ (StrangersAhead \/ IsAncestor(origin, branch)) /\ pushed # {}
          BY <2>7, <3>1, <3>3, <4>2 DEF Restored, StillAt
        <5>2. StrangersAhead => StrangersAhead'
          BY <3>3, <5>1 DEF StrangersAhead
        <5> QED
          BY <1>3, <2>2, <2>6, <3>0, <3>3, <5>1, <5>2 DEF Behind
      <4> QED
        BY <4>1, <4>2
    <3> QED
      BY <2>12, <3>2, <3>3 DEF PushBranch, Refused
  <2> QED
    BY <1>17, <2>9, <2>10, <2>11, <2>12 DEF Guard
<1> QED
  BY <1>5, <1>6, <1>7, <1>8, <1>9, <1>10, <1>11, <1>12, <1>13, <1>14, <1>15, <1>16, <1>17
     DEF Next, Run, Land, Operator, Others

\* Every step keeps that
LEMMA OriginKept ==
  ASSUME BranchInv, OriginInv, [Next]_vars
  PROVE  OriginInv'
<1> SUFFICES ASSUME ~cut'
             PROVE  /\ TakeTurns' /\ (\A g \in Guards : GuardFollows(g)')
                    /\ OriginFollows' /\ WaitingFollows'
  BY DEF OriginInv
<1>1. ~cut
  BY CutStays
<1> QED
  BY <1>1, TurnsStay, FollowsStay DEF OriginInv

\* It holds throughout
LEMMA OriginAlways == Spec => [](BranchInv /\ OriginInv)
<1>1. Init => OriginInv
  <2> SUFFICES ASSUME Init PROVE OriginInv
    OBVIOUS
  <2>1. NoGuard.at = "idle" /\ \A g \in Guards : guard[g] = NoGuard
    BY DEF NoGuard, Init
  <2> QED
    BY <2>1 DEF Init, OriginInv, TakeTurns, GuardFollows, OriginFollows, Behind, WaitingFollows,
       Shows, Active, Guards
<1>2. BranchInv /\ OriginInv /\ [Next]_vars => BranchInv' /\ OriginInv'
  BY BranchKept, OriginKept
<1> QED
  BY <1>1, <1>2, BranchInit, PTL DEF Spec

\* As long as every push that follows a moved branch is seen through or undone, and run, sweep,
\* landing and rejection take turns, a run is refused only where somebody else pushed, or where a
\* rejection left its attempt on origin: the board never takes its own replay, reset, restored or
\* merged branch for a stranger's (branch_diverged_from_origin)
THEOREM RefusalsAreForStrangers == Spec => RefusedForStrangers
<1>1. BranchInv /\ OriginInv /\ [Next]_vars =>
        [RefuseDiverged /\ ~cut => StrangersAhead \/ RejectedStays]_vars
  <2> SUFFICES ASSUME BranchInv, OriginInv, RefuseDiverged, ~cut
               PROVE  StrangersAhead \/ RejectedStays
    OBVIOUS
  <2>1. run = "starting" /\ origin # None /\ ~IsAncestor(origin, branch) /\ ~Superseded(origin)
    BY DEF RefuseDiverged, Foreign, Diverged
  <2>2. \A g \in Guards : guard[g].at # "push"
    BY <2>1 DEF OriginInv, BranchInv, TakeTurns, GuardsInPlace, Active, Guards
  <2> QED
    BY <2>1, <2>2 DEF OriginInv, OriginFollows, Behind
<1> QED
  BY <1>1, OriginAlways, PTL DEF Spec, RefusedForStrangers

\* Under the same condition a waiting pull request shows the branch the board has, whatever lands
\* on the base, conflicts or fails, until somebody else pushes to it or a push of what the branch
\* holds is reported as not made (rebase_onto_base, _force_push, open_merge_request, land_card)
THEOREM PullRequestsFollow == Spec => []PullRequestFollows
<1>1. BranchInv /\ OriginInv => PullRequestFollows
  <2> SUFFICES ASSUME BranchInv, OriginInv, card = "waiting", Quiet, pushed = {}, ~cut, ~unpushed
               PROVE  origin = branch
    BY DEF PullRequestFollows
  <2>1. guard["sweep"].at = "idle" /\ Shows
    BY DEF Quiet, Guards, NoGuard, Shows
  <2> QED
    BY <2>1 DEF OriginInv, WaitingFollows
<1> QED
  BY <1>1, OriginAlways, PTL
=============================================================================
