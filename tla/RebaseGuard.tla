----------------------------- MODULE RebaseGuard -----------------------------
(***************************************************************************)
(* The branch of one card: here, on origin, and on the refs a reset keeps. *)
(* Its own commits are replayed onto a base that moved, by the run at its  *)
(* start and by the sweep of waiting pull requests (rebase_onto_base in    *)
(* smortboard/review/rebase_guard.py); an answer to an outdated card       *)
(* starts it over (reset_to_base); the worker's commits are fetched back   *)
(* into it (exec/backends.py), the base is merged into it once more where  *)
(* it is handed over and where it lands (lifecycle.py, land_card.py), and  *)
(* it is pushed under its pull request (merge_request.py); a rejection     *)
(* deletes it (decide.py).  Meanwhile other people push to it on origin.   *)
(*                                                                         *)
(* A tip is how much of the base it holds and which commits on top, each   *)
(* with the base it was written or replayed on: a replayed commit is       *)
(* another commit with the same content.  One tip is an ancestor of        *)
(* another when it holds no more.                                          *)
(***************************************************************************)
EXTENDS Integers, FiniteSets

CONSTANTS
  Workers, Strangers,    \* the contents that agents and other people commit
  Happens,        \* what else may happen, see Happening
  MaxMoves,       \* bound: commits that land on the base
  MaxRuns         \* bound: runs

\* stranger: others push to the card's branch; conflict: a replay may conflict; skip: git may
\* fail anywhere it can, but where it says what a branch holds; unread: also there; sweep: the
\* sweep, a landing or a rejection overlaps a run; timeout: a push takes place and its answer is
\* late; crash: the board process dies; reject: the card is rejected
Happening == {"stranger", "conflict", "skip", "unread", "sweep", "timeout", "crash", "reject"}

ASSUME BranchConstants ==
  /\ IsFiniteSet(Workers) /\ IsFiniteSet(Strangers) /\ Workers \cap Strangers = {}
  /\ Happens \subseteq Happening /\ MaxMoves \in Nat /\ MaxRuns \in Nat

VARIABLES
  branch,         \* the local branch, or None
  origin,         \* origin's copy, or None
  tracking,       \* the tracking ref of it
  backups,        \* refs/smortboard/outdated/<card>
  diffs,          \* what the diffs attached to the card hold
  base,           \* origin's base
  card,           \* "todo", "doing" (or blocked), "waiting" (checking with a pull request), ...
  pr,             \* a pull request's url is on record
  run,            \* how far the run is
  from,           \* the tip its worker's clone was made at
  guard,          \* one guard in the run, one in the sweep
  answering,      \* the answer that is half way through reset_to_base
  landing,        \* land_card has merged the base in and has not pushed yet
  pushed,         \* history: what others have pushed
  missed,         \* history: what was in a branch where git could not say what it held
  rejected,       \* history: what rejections left on origin
  unpushed,       \* history: what was to push the branch ended first, and origin's copy differs
  cut,            \* history: a branch was replayed and its push cut short or not undone, or
                  \* two of run, sweep, landing and rejection were at the branch together
  runs            \* bound

git == <<branch, origin, tracking, backups>>
kept == <<diffs, missed, rejected>>
past == <<kept, pushed, cut, runs>>
requests == <<pr, landing, unpushed>>
vars == <<git, base, card, run, from, guard, answering, past, requests>>

Commits == (Workers \cup Strangers) \X (0..MaxMoves)
Tips == [base : 0..MaxMoves, own : SUBSET Commits]
None == [base |-> -1, own |-> {}]
AsOf(n) == [base |-> n, own |-> {}]
IsAncestor(older, newer) == older.base <= newer.base /\ older.own \subseteq newer.own
Superseded(tip) == \E b \in backups : IsAncestor(tip, b)
Contents(tip) == {c[1] : c \in tip.own}
Committed(tip, c) == [tip EXCEPT !.own = @ \cup {<<c, tip.base>>}]
Replay(tip, n) == [base |-> n, own |-> Contents(tip) \X {n}]
Merged(tip, n) == [tip EXCEPT !.base = IF n > tip.base THEN n ELSE tip.base]

Guards == {"run", "sweep"}
NoGuard == [at |-> "idle", base |-> 0, old |-> None, remote |-> None, new |-> None]
Stages == {"idle", "starting", "guarded", "ready", "working", "delivering", "synced", "checking",
           "opening"}
Statuses == {"todo", "doing", "waiting", "outdated", "rejected", "accepted"}

TypeOK ==
  /\ {branch, origin, tracking, from} \subseteq Tips \cup {None}
  /\ backups \subseteq Tips
  /\ base \in 0..MaxMoves /\ pushed \subseteq Strangers /\ runs \in 0..MaxRuns
  /\ {diffs, missed} \subseteq SUBSET (Workers \cup Strangers) /\ rejected \subseteq Tips
  /\ {cut, pr, landing, unpushed} \subseteq BOOLEAN
  /\ card \in Statuses /\ run \in Stages
  /\ \A g \in Guards : guard[g].at \in {"idle", "ask", "replay", "push"}
  /\ answering \in 0..MaxMoves \cup {-1}

Init ==
  /\ branch = None /\ origin = None /\ tracking = None /\ backups = {}
  /\ base = 0 /\ card = "todo" /\ run = "idle" /\ from = None
  /\ guard = [g \in Guards |-> NoGuard]
  /\ answering = -1 /\ pushed = {} /\ cut = FALSE /\ runs = 0
  /\ diffs = {} /\ missed = {} /\ rejected = {}
  /\ pr = FALSE /\ landing = FALSE /\ unpushed = FALSE

-----------------------------------------------------------------------------
(* rebase_onto_base *)

Finish(g) == guard' = [guard EXCEPT ![g] = NoGuard]
\* a run goes on whatever its guard found, unless the card is outdated or its push was refused
RunGoesOn(g) == run' = IF g = "run" THEN "ready" ELSE run
RunEnds(g) == run' = IF g = "run" THEN "idle" ELSE run

Read(g) ==
  IF IsAncestor(AsOf(base), branch) THEN UNCHANGED guard /\ RunGoesOn(g)
  ELSE /\ guard' = [guard EXCEPT ![g] = [at |-> "ask", base |-> base, old |-> branch,
                                         remote |-> None, new |-> None]]
       /\ UNCHANGED run

\* _skip: git failed, the worktree has uncommitted changes, ...
Skip(g) ==
  /\ "skip" \in Happens /\ guard[g].at \in {"ask", "replay"}
  /\ Finish(g) /\ RunGoesOn(g)
  /\ UNCHANGED <<git, base, card, from, answering, past, requests>>

\* _remote_tip, and whether origin is to follow
AskOrigin(g) ==
  /\ guard[g].at = "ask" /\ tracking' = (IF origin = None THEN tracking ELSE origin)
  /\ LET mine == IsAncestor(origin, guard[g].old) IN
     IF origin = None \/ mine \/ Superseded(origin)
     THEN /\ guard' = [guard EXCEPT ![g].at = "replay",
                                    ![g].remote = IF mine THEN origin ELSE None]
          /\ UNCHANGED run
     ELSE Finish(g) /\ RunGoesOn(g)
  /\ UNCHANGED <<branch, origin, backups, base, card, from, answering, past, requests>>

Conflicts(g) ==
  /\ guard[g].at = "replay" /\ "conflict" \in Happens /\ guard[g].old.own # {}
  /\ Finish(g) /\ RunEnds(g)
  /\ card' = "outdated"                       \* _block in the run, flag_outdated in the sweep
  /\ UNCHANGED <<git, base, from, answering, past, requests>>

StillAt(tip) == branch = tip

\* _move_branch, to the card's commits replayed in a tree of their own (_replay)
Moves(g, tip) ==
  /\ guard[g].at = "replay"
  /\ IF StillAt(guard[g].old)
     THEN /\ branch' = tip
          /\ IF guard[g].remote = None THEN Finish(g) /\ RunGoesOn(g)
             ELSE guard' = [guard EXCEPT ![g].at = "push", ![g].new = tip] /\ UNCHANGED run
     ELSE UNCHANGED branch /\ Finish(g) /\ RunGoesOn(g)
  /\ UNCHANGED <<origin, tracking, backups, base, card, from, answering, requests>>

MoveBranch(g) == Moves(g, Replay(guard[g].old, guard[g].base)) /\ UNCHANGED past

\* _own_commits is 0 where git cannot count them, and the branch restarts at the base
Miscounts(g) ==
  /\ "unread" \in Happens /\ Moves(g, AsOf(guard[g].base))
  /\ missed' = missed \cup Contents(guard[g].old)
  /\ UNCHANGED <<diffs, rejected, pushed, cut, runs>>

\* mutants of Lease: a plain --force; of Restored: nothing goes back
NoLease(expected) == TRUE
NotRestored(s) == branch
Lease(expected) == origin = expected
Restored(s) == IF StillAt(s.new) THEN s.old ELSE branch

\* the lease refuses the push, or it fails: the branch moves back, unless that fails as well
Refused(g) ==
  /\ ~Lease(guard[g].remote) \/ "skip" \in Happens
  /\ \/ branch' = Restored(guard[g]) /\ UNCHANGED cut
     \/ "skip" \in Happens /\ UNCHANGED branch /\ cut' = TRUE
  /\ RunEnds(g) /\ UNCHANGED <<origin, tracking, unpushed>>

\* _force_push; a push that is refused, or not known to have taken place, is undone here
PushBranch(g) ==
  LET s == guard[g] IN
  /\ s.at = "push" /\ Finish(g)
  /\ \/ /\ Lease(s.remote)
        /\ origin' = s.new /\ tracking' = origin' /\ unpushed' = (origin' # branch)
        /\ RunGoesOn(g) /\ UNCHANGED <<branch, cut>>
     \/ Refused(g)
     \/ /\ "timeout" \in Happens /\ Lease(s.remote)
        /\ origin' = s.new /\ UNCHANGED <<tracking, unpushed>>
        /\ branch' = Restored(s) /\ RunEnds(g) /\ cut' = TRUE
  /\ UNCHANGED <<backups, base, card, from, answering, kept, pushed, runs, pr, landing>>

-----------------------------------------------------------------------------
(* A run *)

\* who else is at the branch
Alone == guard["sweep"] = NoGuard /\ ~landing
Between == run = "idle" /\ answering = -1 /\ ("sweep" \in Happens \/ Alone)

\* a card with no branch gets one, cut from the base, whatever origin still holds of it
Start ==
  /\ Between /\ card \notin {"outdated", "accepted"} /\ runs < MaxRuns
  /\ runs' = runs + 1 /\ cut' = (cut \/ ~Alone)
  /\ IF branch = None THEN branch' = AsOf(base) /\ run' = "ready" /\ card' = "doing"
     ELSE run' = "starting" /\ UNCHANGED <<branch, card>>
  /\ UNCHANGED <<origin, tracking, backups, base, from, guard, answering, kept, pushed, requests>>

\* branch_diverged_from_origin fetches; the fetch may fail, and then nothing is refused.
\* mutant of Foreign: the card's own history before its reset counts as somebody else's
Diverged == origin # None /\ ~IsAncestor(origin, branch)
Foreign == Diverged /\ ~Superseded(origin)

RefuseDiverged ==
  /\ run = "starting" /\ Foreign
  /\ run' = "idle" /\ tracking' = origin
  /\ UNCHANGED <<branch, origin, backups, base, card, from, guard, answering, past, requests>>

Prepare ==
  /\ run = "starting" /\ (~Foreign \/ "skip" \in Happens)
  /\ run' = "guarded" /\ card' = "doing"
  /\ tracking' = IF Foreign \/ origin = None THEN tracking ELSE origin
  /\ UNCHANGED <<branch, origin, backups, base, from, guard, answering, past, requests>>

RunReads ==
  /\ run = "guarded" /\ guard["run"] = NoGuard /\ Read("run")
  /\ UNCHANGED <<git, base, card, from, answering, past, requests>>

\* the worker's clone, _clone
Launch ==
  /\ run = "ready" /\ run' = "working" /\ from' = branch
  /\ UNCHANGED <<git, base, card, guard, answering, past, requests>>

\* _fetch_back: only onto the tip that was cloned; else the step raises
FetchBack ==
  /\ run = "working"
  /\ IF branch = from
     THEN \E w \in Workers :
            branch' = Committed(branch, w) /\ run' = "delivering"
     ELSE UNCHANGED branch /\ run' = "idle"
  /\ UNCHANGED <<origin, tracking, backups, base, card, from, guard, answering, past, requests>>

\* a worker, a gate or a reviewer ends the run, or the base that was merged in does: it
\* conflicts, or the tests no longer pass
GiveUp ==
  /\ run \in {"working", "delivering", "synced"} /\ run' = "idle"
  /\ UNCHANGED <<git, base, card, from, guard, answering, past, requests>>

\* _sync_and_retest before the card is handed over; a base that cannot be fetched is left alone
HandOver ==
  /\ run = "delivering" /\ run' = "synced"
  /\ branch' = Merged(branch, base) \/ ("skip" \in Happens /\ UNCHANGED branch)
  /\ UNCHANGED <<origin, tracking, backups, base, card, from, guard, answering, past, requests>>

\* the card is in checking before its commits are pushed
CardChecks ==
  /\ run = "synced" /\ run' = "checking" /\ card' = (IF pr THEN "waiting" ELSE card)
  /\ UNCHANGED <<git, base, from, guard, answering, past, requests>>

\* push_over_superseded: origin's copy from before a reset gives way, and nothing else
PushOver ==
  /\ run = "checking" /\ run' = "opening"
  /\ \/ /\ backups # {} /\ origin # None /\ ~IsAncestor(origin, branch) /\ Superseded(origin)
        /\ origin' = branch /\ tracking' = origin'
     \/ /\ ~(backups # {} /\ Diverged /\ Superseded(origin)) \/ "skip" \in Happens
        /\ tracking' = (IF backups # {} /\ origin # None THEN origin ELSE tracking)
        /\ UNCHANGED origin
  /\ UNCHANGED <<branch, backups, base, card, from, guard, answering, past, requests>>

\* a push that is never forced
Pushes ==
  /\ origin = None \/ IsAncestor(origin, branch)
  /\ origin' = branch /\ tracking' = origin'

\* open_merge_request: where gh fails after the push, no url is recorded
Open ==
  /\ run = "opening" /\ run' = "idle"
  /\ \/ Pushes /\ card' = "waiting" /\ pr' = TRUE
     \/ "skip" \in Happens /\ Pushes /\ UNCHANGED <<card, pr>>
     \/ /\ Diverged \/ "skip" \in Happens
        /\ UNCHANGED <<origin, tracking, card, pr>>
  /\ unpushed' = (origin' # branch)
  /\ UNCHANGED <<branch, backups, base, from, guard, answering, past, landing>>

-----------------------------------------------------------------------------
(* The sweep, landing, the operator, everybody else *)

\* integration_lock: the sweep and a landing take turns
Waits == card = "waiting" /\ guard["sweep"] = NoGuard /\ ("sweep" \in Happens \/ run = "idle")

SweepReads ==
  /\ Waits /\ ~landing /\ ~IsAncestor(AsOf(base), branch) /\ Read("sweep")
  /\ cut' = (cut \/ run # "idle")
  /\ UNCHANGED <<git, base, card, from, answering, kept, pushed, runs, requests>>

\* land_card, in the run that opened the pull request or for the operator: the base is merged in
\* and tested ...
LandSync ==
  /\ Waits /\ landing' = TRUE
  /\ branch' = Merged(branch, base) \/ ("skip" \in Happens /\ UNCHANGED branch)
  /\ cut' = (cut \/ run # "idle")
  /\ UNCHANGED <<origin, tracking, backups, base, card, run, from, guard, answering, kept, pushed,
                 runs, pr, unpushed>>

\* ... and integrate pushes, and merges the pull request if github lets it; else the card waits on
LandPush ==
  /\ landing /\ landing' = FALSE /\ branch # None /\ Pushes
  /\ card' \in {card, "accepted"} /\ unpushed' = FALSE
  /\ UNCHANGED <<branch, backups, base, run, from, guard, answering, past, pr>>

\* the merge conflicts, the tests fail or cannot run, the base moved, or the push fails: the card
\* is blocked or waits on
LandStops ==
  /\ landing /\ landing' = FALSE
  /\ card' \in {card, IF card = "waiting" THEN "doing" ELSE card} /\ unpushed' = (origin # branch)
  /\ UNCHANGED <<git, base, run, from, guard, answering, past, pr>>

\* reject_card: the attempt is kept as a diff, and the local branch is deleted unless cards are
\* stacked on it; origin's copy stays
Reject ==
  /\ "reject" \in Happens /\ Between /\ card \in {"doing", "waiting", "outdated"}
  /\ card' = "rejected" /\ cut' = (cut \/ ~Alone)
  /\ \/ diffs' = diffs \cup Contents(branch) /\ UNCHANGED missed
     \/ "unread" \in Happens /\ missed' = missed \cup Contents(branch) /\ UNCHANGED diffs
  /\ \/ UNCHANGED <<branch, rejected>>
     \/ branch' = None /\ rejected' = rejected \cup ({origin} \ {None})
  /\ UNCHANGED <<origin, tracking, backups, base, run, from, guard, answering, pushed, runs,
                 requests>>

\* mutant of Kept: the reset forgets the old tip
Dropped == backups
Kept == backups \cup ({branch} \ {None})

\* reset_to_base, up to the backup ref, then from there
Answer ==
  /\ card = "outdated" /\ run = "idle" /\ answering = -1
  /\ answering' = base /\ backups' = Kept
  /\ UNCHANGED <<branch, origin, tracking, base, card, run, from, guard, past, requests>>

Reset ==
  /\ answering # -1 /\ answering' = -1
  /\ branch' = AsOf(answering) /\ card' = "todo"
  /\ UNCHANGED <<origin, tracking, backups, base, run, from, guard, past, requests>>

ResetRefused ==
  /\ answering # -1 /\ "skip" \in Happens /\ answering' = -1
  /\ UNCHANGED <<git, base, card, run, from, guard, past, requests>>

\* somebody pushes a commit on top of what is on origin
StrangerPush ==
  /\ "stranger" \in Happens /\ origin # None
  /\ \E s \in Strangers \ pushed : origin' = Committed(origin, s) /\ pushed' = pushed \cup {s}
  /\ UNCHANGED <<branch, tracking, backups, base, card, run, from, guard, answering, kept, cut,
                 runs, requests>>

StrangersAhead == (Contents(origin) \cap Strangers) \ Contents(branch) # {}

\* what a refused run asks for: "fetch and rebase or reset the branch yourself"
TakeOver ==
  /\ run = "idle" /\ answering = -1 /\ branch # None /\ StrangersAhead
  /\ branch' = [base |-> IF origin.base > branch.base THEN origin.base ELSE branch.base,
                own |-> branch.own \cup origin.own]
  /\ tracking' = origin
  /\ UNCHANGED <<origin, backups, base, card, run, from, guard, answering, past, requests>>

MoveBase ==
  /\ base < MaxMoves /\ base' = base + 1
  /\ UNCHANGED <<git, card, run, from, guard, answering, past, requests>>

Crash ==
  /\ "crash" \in Happens
  /\ run # "idle" \/ answering # -1 \/ landing \/ guard # [g \in Guards |-> NoGuard]
  /\ run' = "idle" /\ guard' = [g \in Guards |-> NoGuard] /\ answering' = -1 /\ from' = None
  /\ landing' = FALSE /\ cut' = (cut \/ \E g \in Guards : guard[g].at = "push")
  /\ unpushed' = IF landing \/ run \in {"checking", "opening"} THEN origin # branch ELSE unpushed
  /\ UNCHANGED <<git, base, card, kept, pushed, runs, pr>>

-----------------------------------------------------------------------------

Guard(g) == \/ Skip(g) \/ AskOrigin(g) \/ Conflicts(g) \/ MoveBranch(g) \/ Miscounts(g)
            \/ PushBranch(g)
Run == \/ Start \/ RefuseDiverged \/ Prepare \/ RunReads \/ Launch \/ FetchBack \/ GiveUp
       \/ HandOver \/ CardChecks \/ PushOver \/ Open
Land == LandSync \/ LandPush \/ LandStops
Operator == Reject \/ Answer \/ Reset \/ ResetRefused \/ TakeOver
Others == StrangerPush \/ MoveBase \/ Crash

Next == Run \/ Land \/ SweepReads \/ (\E g \in Guards : Guard(g)) \/ Operator \/ Others
Spec == Init /\ [][Next]_vars

-----------------------------------------------------------------------------
(* Properties *)

Saved == UNION {Contents(t) : t \in backups}
Held == Contents(branch) \cup Saved \cup diffs

\* What a worker has delivered is never lost: once its commits are in the branch, their content
\* stays in the branch, in a backup or in a diff attached to the card, whoever rebases, resets,
\* rejects or moves it back (_move_branch, reset_to_base, reject_card), but where git could not
\* say what the branch held.
OwnWorkKept == [][\A w \in Workers : w \in Held => w \in Held' \cup missed']_vars

\* The same with no such exception: only "a branch with nothing of its own yet simply restarts at
\* the current base" (_rebase).
NothingIsLost == [][\A w \in Workers : w \in Held => w \in Held']_vars

\* "someone else's push is never overwritten": what others pushed to the card's branch stays on
\* origin, or in a backup once the branch they pushed to was reset (_force_push,
\* push_over_superseded, _push), with the same exception.
StrangersKept == pushed \subseteq Contents(origin) \cup Saved \cup missed

\* origin's copy still holds an attempt that was rejected: the next one is cut afresh
RejectedStays == \E t \in rejected : IsAncestor(t, origin)

\* A run is refused because "someone else pushed to this card's own branch" only when somebody
\* else did, or what a rejection left on origin is still there: the board mistakes no other push
\* of its own for a stranger's, as long as every push that follows a replayed branch is seen
\* through or undone, and run, sweep, landing and rejection do not meet at the branch.
RefusedForStrangers == [][RefuseDiverged /\ ~cut => StrangersAhead \/ RejectedStays]_vars

\* The same with no such condition, as branch_diverged_from_origin and the note of the refusal
\* have it.
OnlyStrangersAreRefused == [][RefuseDiverged => StrangersAhead]_vars

\* "the PR stays current": between runs, sweeps and landings, a waiting pull request shows the
\* branch the board has, unless somebody else wrote to it, a replay was cut short or two of them
\* met at the branch (see cut), or what was to push the branch last ended before it did.
Quiet == run = "idle" /\ guard = [g \in Guards |-> NoGuard] /\ answering = -1 /\ ~landing
PullRequestFollows ==
  card = "waiting" /\ Quiet /\ pushed = {} /\ ~cut /\ ~unpushed => origin = branch

\* The same without the last of these conditions, as rebase_guard.py has it.
PullRequestIsCurrent ==
  card = "waiting" /\ Quiet /\ pushed = {} /\ ~cut => origin = branch
=============================================================================
