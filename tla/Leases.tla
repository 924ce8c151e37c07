------------------------------- MODULE Leases -------------------------------
(***************************************************************************)
(* The path leases of the cards on one repo.  A lease is rows of globs.    *)
(* Before a start the globs of the card are held against those of the runs *)
(* going now (globs_may_overlap in smortboard/scheduler.py); at the start  *)
(* they are compiled into a hook that refuses an Edit outside them         *)
(* (exec/leases.py); and after the worker's turn what it has committed, by *)
(* whatever means, is checked against them again (exec/backends.py).  The  *)
(* rows change meanwhile: by the operator, and by an approval of what a    *)
(* card was refused (attention.py).                                        *)
(*                                                                         *)
(* A glob is a sequence of the tokens lease_glob_regex finds in it and a   *)
(* path a sequence of characters; "?" and "[...]" are left out.            *)
(***************************************************************************)
EXTENDS Integers, Sequences, FiniteSets

CONSTANTS
  Cards,
  Paths,          \* of the repo, paths are globs too
  Globs,          \* that people and mission control lease
  Protected,      \* PROTECTED_GLOBS
  Happens,        \* what else may happen, see Happening
  MaxWrites,      \* bound: paths the workers write
  MaxStarts,      \* bound: runs
  MaxChanges      \* bound: of patch, mode, approve and crash

\* patch: the operator sets leases; mode: he switches the board's mode; approve: he approves
\* paths, and may have them remembered; forget: he takes one back; die: a run ends early;
\* crash: the board process dies
Happening == {"patch", "mode", "approve", "forget", "die", "crash"}

ASSUME LeasesConstants ==
  /\ IsFiniteSet(Cards) /\ IsFiniteSet(Paths) /\ IsFiniteSet(Globs) /\ Protected \subseteq Globs
  /\ \A g \in Globs \cup Paths : g \in Seq(STRING) /\ Len(g) > 0
  /\ Happens \subseteq Happening /\ {MaxWrites, MaxStarts, MaxChanges} \subseteq Nat

VARIABLES
  lease,          \* card_leases: the globs of each card
  remembered,     \* repo_remembered_leases
  mode,           \* the board's lease mode
  status,
  live,           \* how far the run of each card is
  guard,          \* the policy compiled for it
  given,          \* the policy its turn began with
  clone,          \* paths its worker has changed in the clone
  since,          \* paths the branch changed since the commit a lease check starts at
  before,         \* paths it had changed by then
  passed,         \* the last lease event is a check that passed
  refused,        \* the hook refused an Edit of this run
  approving,      \* the approval being answered: its card and path, and how far it is
  patched,        \* history: cards whose rows were set under their run or its start
  raced,          \* history: the runs begun between the check of a card's start and that start
  named, judged,  \* history: paths of each card that its own globs covered, or any check let by
  spent           \* bounds

branch == <<since, before, passed>>
past == <<patched, raced, named, judged>>
vars == <<lease, remembered, mode, status, live, guard, given, clone, branch, refused,
          approving, past, spent>>

-----------------------------------------------------------------------------
(* globs *)

\* fnmatch, of one pattern of characters with stars
FnMatch(name, pattern) ==
  LET match[i \in 0..Len(pattern), j \in 0..Len(name)] ==
        IF i = 0 THEN j = 0
        ELSE IF pattern[i] = "*" THEN match[i - 1, j] \/ (j > 0 /\ match[i, j - 1])
        ELSE j > 0 /\ pattern[i] = name[j] /\ match[i - 1, j - 1]
  IN match[Len(pattern), Len(name)]

\* lease_glob_regex
Matches(glob, path) ==
  LET match[i \in 0..Len(glob), j \in 0..Len(path)] ==
        IF i = 0 THEN j = 0
        ELSE IF glob[i] = "**/"              \* any number of folders
          THEN \/ match[i - 1, j]
               \/ /\ j > 1 /\ path[j] = "/" /\ path[j - 1] # "/"
                  /\ \E k \in 0..(j - 2) :
                       /\ match[i, k]
                       /\ \A n \in (k + 1)..(j - 1) : path[n] # "/"
        ELSE IF glob[i] = "**" THEN match[i - 1, j] \/ (j > 0 /\ match[i, j - 1])
        ELSE IF glob[i] = "*"
          THEN match[i - 1, j] \/ (j > 0 /\ path[j] # "/" /\ match[i, j - 1])
        ELSE j > 0 /\ path[j] = glob[i] /\ match[i - 1, j - 1]
  IN match[Len(glob), Len(path)]

\* the glob as it is written, in segments
Written(glob) ==
  LET text[i \in 0..Len(glob)] ==
        IF i = 0 THEN <<>>
        ELSE text[i - 1] \o (CASE glob[i] = "**/" -> <<"*", "*", "/">>
                               [] glob[i] = "**" -> <<"*", "*">>
                               [] OTHER -> <<glob[i]>>)
  IN text[Len(glob)]
Segments(glob) ==
  LET text == Written(glob)
      segs[i \in 0..Len(text)] ==
        IF i = 0 THEN << <<>> >>
        ELSE LET s == segs[i - 1] IN
             IF text[i] = "/" THEN Append(s, <<>>)
             ELSE [s EXCEPT ![Len(s)] = Append(@, text[i])]
  IN segs[Len(text)]

AnyDepth == <<"*", "*">>
HasStar(seg) == \E i \in DOMAIN seg : seg[i] = "*"
SegmentMayMatch(a, b) == a = b \/ ((HasStar(a) \/ HasStar(b)) /\ (FnMatch(a, b) \/ FnMatch(b, a)))

\* globs_may_overlap: a "**" ends the comparison, and so does the end of one of them
MayOverlap(g, h) ==
  LET a == Segments(g)
      b == Segments(h)
      last == IF Len(a) < Len(b) THEN Len(a) ELSE Len(b)
      deep == {i \in 1..last : AnyDepth \in {a[i], b[i]}}
  IN \A i \in 1..last : (\A k \in 1..i : k \notin deep) => SegmentMayMatch(a[i], b[i])

\* worked out once for the globs of an instance
Leasable == Globs \cup Paths
Covers == [g \in Leasable |-> {p \in Paths : Matches(g, p)}]
\* mutant of Overlaps: only the same glob twice
SameGlob == {pair \in Leasable \X Leasable : pair[1] = pair[2]}
Overlaps == {pair \in Leasable \X Leasable : MayOverlap(pair[1], pair[2])}

LeasesConflict(gs, hs) == \E g \in gs, h \in hs : <<g, h>> \in Overlaps

-----------------------------------------------------------------------------
(* lease_allows, lease_policy, lease_permits *)

Allowed(globs) == UNION {Covers[g] : g \in globs}
Own(policy) == Allowed(policy.globs \cup policy.remembered)
\* mutant of Fenced: what is protected is free
FencedByCards(policy) == Allowed(policy.held)
Fenced(policy) == Allowed(Protected \cup policy.held)
Permitted(policy) ==
  IF policy.mode = "soft" THEN Own(policy) \cup (Paths \ Fenced(policy)) ELSE Own(policy)

Active(c) == status[c] \in {"doing", "checking"}
Policy(c, kept) ==
  [globs |-> lease[c], remembered |-> kept, mode |-> mode,
   held |-> IF mode = "soft" THEN UNION {lease[d] : d \in {x \in Cards \ {c} : Active(x)}}
            ELSE {}]
NoPolicy == [globs |-> {}, remembered |-> {}, mode |-> "strict", held |-> {}]

\* checked: a start has looked at the others and has not begun yet
Stages == {"no", "checked", "starting", "guarded", "working", "fetched", "gated"}
Live == {c \in Cards : live[c] \notin {"no", "checked"}}
Answers == [card : Cards, path : Paths, stage : {"widened", "looked", "started"}]
Tree(c) == since[c] \cup before[c]

TypeOK ==
  /\ lease \in [Cards -> SUBSET Leasable] /\ remembered \subseteq Paths
  /\ mode \in {"strict", "soft"}
  /\ status \in [Cards -> {"todo", "doing", "blocked", "conflict", "checking", "accepted"}]
  /\ live \in [Cards -> Stages]
  /\ \A c \in Cards : c \in Live \/ (guard[c] = NoPolicy /\ clone[c] = {})
  /\ \A c \in Cards : live[c] # "no" \/ (c \notin patched /\ raced[c] = {})
  /\ \A c \in Cards : status[c] = "doing" => c \in Live
  /\ \A f \in {clone, since, before, named, judged} : f \in [Cards -> SUBSET Paths]
  /\ passed \in [Cards -> BOOLEAN] /\ refused \in [Cards -> BOOLEAN]
  /\ approving \subseteq Answers /\ raced \in [Cards -> SUBSET Cards]
  /\ spent.writes <= MaxWrites /\ spent.starts <= MaxStarts /\ spent.changes <= MaxChanges

Init ==
  /\ lease \in [Cards -> {{g} : g \in Globs \ Protected}]
  /\ remembered = {} /\ mode \in {"strict", "soft"}
  /\ status = [c \in Cards |-> "todo"]
  /\ live = [c \in Cards |-> "no"]
  /\ guard = [c \in Cards |-> NoPolicy] /\ given = guard
  /\ clone = [c \in Cards |-> {}] /\ since = clone /\ before = clone
  /\ passed = [c \in Cards |-> TRUE] /\ refused = [c \in Cards |-> FALSE]
  /\ approving = {}
  /\ patched = {} /\ raced = [c \in Cards |-> {}] /\ named = clone /\ judged = clone
  /\ spent = [writes |-> 0, starts |-> 0, changes |-> 0]

Change(what) ==
  what \in Happens /\ spent.changes < MaxChanges /\ spent' = [spent EXCEPT !.changes = @ + 1]

-----------------------------------------------------------------------------
(* a run *)

ConflictingRun(c, rows) == \E d \in Live \ {c} : LeasesConflict(rows, lease[d])
Startable == {"todo", "blocked", "conflict"}
MayStart(c) == live[c] = "no" /\ status[c] \in Startable /\ spent.starts < MaxStarts
Goto(c, stage) == live' = [live EXCEPT ![c] = stage]

\* the lease rule, by a tick or by hand, against the rows of the runs going now
Look(c) ==
  /\ MayStart(c) /\ ~ConflictingRun(c, lease[c])
  /\ Goto(c, "checked")
  /\ UNCHANGED <<lease, remembered, mode, status, guard, given, clone, branch, refused, approving,
                 past, spent>>

Resumed(c) == {a \in approving : a.card = c /\ a.stage = "looked"}

\* runs.start, in a statement of its own after that: runs of others may have begun between
Start(c) ==
  /\ live[c] = "checked" /\ spent.starts < MaxStarts
  /\ Goto(c, "starting") /\ spent' = [spent EXCEPT !.starts = @ + 1]
  /\ raced' = [d \in Cards |-> IF live[d] = "checked" /\ d # c THEN raced[d] \cup {c} ELSE raced[d]]
  /\ IF Resumed(c) = {} THEN UNCHANGED <<status, approving>>
     ELSE /\ status' = [status EXCEPT ![c] = "blocked"]
          /\ approving' \in {{}, {[a EXCEPT !.stage = "started"] : a \in approving}}
  /\ UNCHANGED <<lease, remembered, mode, guard, given, clone, branch, refused, patched, named,
                 judged>>

\* whatever else refuses a start: the spend cap, or the card runs already
Refuse(c) ==
  /\ \/ live[c] = "checked" /\ Goto(c, "no") /\ approving' = approving \ Resumed(c)
        /\ patched' = patched \ {c} /\ raced' = [raced EXCEPT ![c] = {}]
     \/ /\ \E a \in approving : a.card = c /\ a.stage = "widened"
        /\ approving' = {} /\ UNCHANGED <<live, patched, raced>>
  /\ UNCHANGED <<lease, remembered, mode, status, guard, given, clone, branch, refused, named,
                 judged, spent>>

\* write_container_guards
Compile(c) ==
  /\ live[c] = "starting" /\ Goto(c, "guarded")
  /\ guard' = [guard EXCEPT ![c] = Policy(c, remembered)]
  /\ status' = [status EXCEPT ![c] = "doing"]
  /\ UNCHANGED <<lease, remembered, mode, given, clone, branch, refused, approving, past, spent>>

\* mutant of BaseMoves: a retry forgives what was never checked
Forgives(c) == TRUE
BaseMoves(c) == passed[c]

\* a worker's turn, the first or a fix: the rows are read again, and the check starts at the
\* head unless the last one is unfinished or failed.  A lab whose tools are not listed has its
\* guard compiled again.
Turn(c) ==
  /\ live[c] \in {"guarded", "gated"} /\ Goto(c, "working")
  /\ LET policy == Policy(c, remembered) IN
     /\ given' = [given EXCEPT ![c] = policy]
     /\ guard' \in {guard, [guard EXCEPT ![c] = policy]}
  /\ LET kept == IF BaseMoves(c) THEN {} ELSE since[c] IN
     /\ since' = [since EXCEPT ![c] = kept]
     /\ before' = [before EXCEPT ![c] = IF BaseMoves(c) THEN @ \cup since[c] ELSE @]
     /\ clone' = [clone EXCEPT ![c] = kept]
  /\ passed' = [passed EXCEPT ![c] = FALSE] /\ refused' = [refused EXCEPT ![c] = FALSE]
  /\ UNCHANGED <<lease, remembered, mode, status, approving, past, spent>>

WorkerActs(c) ==
  /\ live[c] = "working"
  /\ UNCHANGED <<lease, remembered, mode, status, live, guard, given, branch, approving, past>>

\* an Edit the hook lets by, or any write of a shell command
Write(c, p) ==
  /\ WorkerActs(c) /\ spent.writes < MaxWrites /\ spent' = [spent EXCEPT !.writes = @ + 1]
  /\ clone' = [clone EXCEPT ![c] = @ \cup {p}] /\ UNCHANGED refused
RefuseEdit(c, p) ==
  /\ WorkerActs(c) /\ p \notin Permitted(guard[c])
  /\ refused' = [refused EXCEPT ![c] = TRUE] /\ UNCHANGED <<clone, spent>>
PutBack(c, p) ==
  /\ WorkerActs(c) /\ p \in clone[c]
  /\ clone' = [clone EXCEPT ![c] = @ \ {p}] /\ UNCHANGED <<refused, spent>>

FetchBack(c) ==
  /\ live[c] = "working" /\ Goto(c, "fetched")
  /\ since' = [since EXCEPT ![c] = clone[c]]
  /\ UNCHANGED <<lease, remembered, mode, status, guard, given, clone, before, passed, refused,
                 approving, past, spent>>

Ended(c, to) ==
  /\ status' = [status EXCEPT ![c] = to] /\ Goto(c, "no")
  /\ guard' = [guard EXCEPT ![c] = NoPolicy] /\ given' = [given EXCEPT ![c] = NoPolicy]
  /\ clone' = [clone EXCEPT ![c] = {}] /\ refused' = [refused EXCEPT ![c] = FALSE]
  /\ patched' = patched \ {c}
  /\ raced' = [d \in Cards |-> IF d = c THEN {} ELSE raced[d] \ {c}]

\* mutant of Fresh: what the others held when the turn began
FreshByTurn(c) == given[c]
\* the policy of now, with the paths remembered when the turn began
Fresh(c) == Policy(c, given[c].remembered)
\* changed_paths_outside_lease, split_outside_lease: the turn's rows first, then that policy
Outside(c) == since[c] \ (Own(given[c]) \cup Permitted(Fresh(c)))

Check(c) ==
  /\ live[c] = "fetched"
  /\ LET outside == Outside(c)
         tree == since[c] \cup before[c]
     IN /\ passed' = [passed EXCEPT ![c] = outside = {}]
        /\ judged' = [judged EXCEPT ![c] = @ \cup (since[c] \ outside)]
        /\ named' = [named EXCEPT ![c] = @ \cup (since[c] \cap (Own(given[c]) \cup Own(Fresh(c))))]
        /\ IF outside # {} \/ (refused[c] /\ tree = {})
           THEN Ended(c, "conflict")
           ELSE /\ Goto(c, "gated")
                /\ UNCHANGED <<status, guard, given, clone, refused, patched, raced>>
  /\ UNCHANGED <<lease, remembered, mode, since, before, approving, spent>>

\* a run of a branch whose last turn ended clean begins at the gates
SkipWorker(c) ==
  /\ live[c] = "guarded" /\ passed[c] /\ Tree(c) # {} /\ Goto(c, "gated")
  /\ UNCHANGED <<lease, remembered, mode, status, guard, given, clone, branch, refused, approving,
                 past, spent>>

\* the gates passed: the pull request is open
Open(c) ==
  /\ live[c] = "gated" /\ Ended(c, "checking")
  /\ UNCHANGED <<lease, remembered, mode, branch, approving, named, judged, spent>>

\* any other end of a run
Die(c) ==
  /\ c \in Live /\ "die" \in Happens /\ spent' = spent
  /\ Ended(c, IF status[c] = "doing" THEN "blocked" ELSE status[c])
  /\ UNCHANGED <<lease, remembered, mode, branch, approving, named, judged>>

Crash ==
  /\ Change("crash") /\ \E c \in Cards : live[c] # "no"
  /\ status' = [c \in Cards |-> IF status[c] = "doing" THEN "blocked" ELSE status[c]]
  /\ live' = [c \in Cards |-> "no"] /\ clone' = [c \in Cards |-> {}]
  /\ guard' = [c \in Cards |-> NoPolicy] /\ given' = guard'
  /\ refused' = [c \in Cards |-> FALSE] /\ approving' = {}
  /\ patched' = {} /\ raced' = [c \in Cards |-> {}]
  /\ UNCHANGED <<lease, remembered, mode, branch, named, judged>>

-----------------------------------------------------------------------------
(* the operator *)

Rewritten(c) == IF live[c] = "no" THEN patched ELSE patched \cup {c}

\* set_leases, of any card
Patch(c, g) ==
  /\ approving = {} /\ Change("patch")
  /\ lease' = [lease EXCEPT ![c] = {g}]
  /\ patched' = Rewritten(c)
  /\ UNCHANGED <<remembered, mode, status, live, guard, given, clone, branch, refused,
                 approving, raced, named, judged>>

SetMode ==
  /\ approving = {} /\ Change("mode") /\ mode' \in {"strict", "soft"} \ {mode}
  /\ UNCHANGED <<lease, remembered, status, live, guard, given, clone, branch, refused,
                 approving, past>>

\* approve_lease: the rows stay widened when the card is not resumed
Approve(c, p) ==
  /\ approving = {} /\ status[c] = "conflict" /\ Change("approve")
  /\ lease' = [lease EXCEPT ![c] = @ \cup {p}]
  /\ patched' = Rewritten(c)
  /\ approving' = {[card |-> c, path |-> p, stage |-> "widened"]}
  /\ UNCHANGED <<remembered, mode, status, live, guard, given, clone, branch, refused, raced,
                 named, judged>>

\* answer_card, which looks at the runs going on by now
Resume(c) ==
  /\ \E a \in approving : a.card = c /\ a.stage = "widened"
  /\ status[c] = "conflict" /\ live[c] = "no" /\ ~ConflictingRun(c, lease[c])
  /\ Goto(c, "checked") /\ approving' = {[a EXCEPT !.stage = "looked"] : a \in approving}
  /\ UNCHANGED <<lease, remembered, mode, status, guard, given, clone, branch, refused, past,
                 spent>>

Remember ==
  /\ \E a \in approving : a.stage = "started" /\ remembered' = remembered \cup {a.path}
  /\ approving' = {}
  /\ UNCHANGED <<lease, mode, status, live, guard, given, clone, branch, refused, past, spent>>

Forget(p) ==
  /\ approving = {} /\ p \in remembered /\ "forget" \in Happens /\ remembered' = remembered \ {p}
  /\ UNCHANGED <<lease, mode, status, live, guard, given, clone, branch, refused, approving,
                 past, spent>>

Accept(c) ==
  /\ approving = {} /\ status[c] = "checking"
  /\ status' = [status EXCEPT ![c] = "accepted"]
  /\ UNCHANGED <<lease, remembered, mode, live, guard, given, clone, branch, refused,
                 approving, past, spent>>

Next ==
  \/ \E c \in Cards :
       \/ Look(c) \/ Resume(c) \/ Start(c) \/ Refuse(c) \/ Compile(c) \/ Turn(c)
       \/ FetchBack(c) \/ Check(c) \/ SkipWorker(c) \/ Open(c) \/ Die(c)
       \/ \E p \in Paths : Write(c, p) \/ RefuseEdit(c, p) \/ PutBack(c, p) \/ Approve(c, p)
       \/ \E g \in Globs : Patch(c, g)
       \/ Accept(c)
  \/ Crash \/ SetMode \/ Remember
  \/ \E p \in Paths : Forget(p)
Spec == Init /\ [][Next]_vars

-----------------------------------------------------------------------------
(* properties *)

Opened == {c \in Cards : status[c] \in {"checking", "accepted"}}
Guarded == {c \in Live : live[c] # "starting"}

\* No path is in the rows that two runs going on together were given, unless rows were set under a
\* run, or one of the two began while the other had looked and not begun: a start reads the rows
\* once, ends, crashes, approvals and starts of others go on meanwhile, and only what came between
\* that reading and its own start may be missed.  Two globs that share a path of the repo must have
\* been found to overlap for that.
NoSharedEdits ==
  \A c, d \in Guarded \ patched :
    c # d /\ c \notin raced[d] /\ d \notin raced[c] =>
      Allowed(guard[c].globs) \cap Allowed(guard[d].globs) = {}

\* Whatever was committed in however many runs, refused, retried, cut short by a crash or put
\* back: nothing is in an opened branch that no check has let by.
OpenedIsJudged == \A c \in Opened : Tree(c) \subseteq judged[c]

\* A protected path is in an opened branch only if some check found it among the globs that
\* were the card's own or remembered at that time, in both modes and across switches of them.
ProtectedIsNamed == \A c \in Opened : Tree(c) \cap Allowed(Protected) \subseteq named[c]

\* A check never lets a soft card's expansion into what another active card holds by then,
\* also when that card began long after this one had its hook compiled.
HeldIsSpared ==
  [][\A c \in Cards : passed'[c] /\ ~passed[c] =>
       \A d \in Cards \ {c} : Active(d) =>
         since[c] \cap Allowed(lease[d]) \subseteq named'[c]]_vars

\* globs_may_overlap's docstring: "True unless the two globs are PROVABLY disjoint".
OverlapIsSeen ==
  \A g, h \in Leasable : Covers[g] \cap Covers[h] # {} => <<g, h>> \in Overlaps

\* mergeable.py's module comment: leases "stop two running cards overlapping".
RunningNeverOverlap ==
  \A c, d \in Guarded :
    c # d => Allowed(guard[c].globs) \cap Allowed(guard[d].globs) = {}

\* The same of the starts alone: whoever checks a card's lease and starts it, no run given the same
\* path is going on, unless rows were set under a run.
StartsNeverOverlap ==
  \A c, d \in Guarded \ patched :
    c # d => Allowed(guard[c].globs) \cap Allowed(guard[d].globs) = {}
=============================================================================
