------------------------------- MODULE Attempt -------------------------------
(***************************************************************************)
(* The attempts of one card: run_card_lifecycle (smortboard/lifecycle.py)  *)
(* with the worker, the test gate and the reviewer it runs, the branch     *)
(* they work on, the part of the event log the next attempt reads          *)
(* (smortboard/briefing.py), and the RunRegistry that starts and stops the *)
(* attempts (smortboard/server/runs.py).                                   *)
(*                                                                         *)
(* A head of the branch is the newest commit a worker left on it and how   *)
(* much of the base it holds.  An attempt is cut where it waits: for git,  *)
(* for an agent, for the tests, for github.  Two threads are enough: a     *)
(* run, and the run before it that has yet to take its leave.              *)
(***************************************************************************)
EXTENDS Integers, Sequences, FiniteSets

CONSTANTS
  Threads,
  NoThread,
  MaxFixRounds,   \* MAX_FIX_ROUNDS
  Ends,           \* how else an agent or a step may end, see End
  Acts,           \* what the operator does, see Act
  Happens,        \* what else may happen, see Happening
  MaxAttempts,    \* bound: attempts
  MaxActs,        \* bound: operator actions
  MaxCommits,     \* bound: commits of the worker
  MaxMoves,       \* bound: commits somebody else lands on the base
  MaxCrashes      \* bound: restarts of the board process

End == {"refused", "capped", "outside", "failed", "broken"}
Act == {"stop", "note", "edit", "accept"}
\* handover: a run is started while the one before it still has its marks to clear;
\* sweep: the checking sweep rebases the branch meanwhile; locked: the database stays locked as a
\* run that raised, or that is over, is to be written up
Happening == {"handover", "sweep", "locked"}

ASSUME AttemptConstants ==
  /\ IsFiniteSet(Threads) /\ NoThread \notin Threads
  /\ MaxFixRounds \in Nat
  /\ Ends \subseteq End /\ Acts \subseteq Act /\ Happens \subseteq Happening
  /\ MaxAttempts \in Nat /\ MaxActs \in Nat /\ MaxCommits \in Nat /\ MaxMoves \in Nat
  /\ MaxCrashes \in Nat

VARIABLES
  (* the database and the repo: they survive a restart *)
  row,          \* the card's status, blocked_reason_code and review_flag
  log,          \* one record per attempt, of the events that later attempts read
  notes,        \* how many comments the operator wrote
  env,          \* which of two images or test commands the repo has
  head,         \* of the card's branch
  base,         \* origin's base: how many commits it has taken
  (* RunRegistry, in memory *)
  run,          \* the thread of each run
  current,      \* _runs: the thread of the card's newest run
  stopping,     \* _stopping
  handle,       \* _handles: the thread whose agent is known to it
  sweep,        \* the sweep: the head it found, while it rebases it
  (* history variables *)
  told,         \* how many notes the newest worker was told of
  left,         \* the head the newest worker left, if it finished cleanly and no reviewer has
                \* found fault with it since
  judged,       \* the newest verdict on each head
  (* bounds *)
  acts, commits, crashes

registry == <<run, current, stopping, handle>>
past == <<told, left, judged>>
bounds == <<acts, commits, crashes>>
vars == <<row, log, notes, env, head, base, registry, sweep, past, bounds>>

NoHead == [work |-> 0, base |-> -1]        \* no branch yet, or no head known
Heads == [work : 0..MaxCommits, base : 0..MaxMoves] \cup {NoHead}
Contains(h) == h.work > 0                  \* branch_has_commits

Reasons == {"none", "TESTS_FAILED", "REVIEW_REJECTED", "OUTDATED", "MERGE_CONFLICT",
            "CRASH", "OTHER"}
Before == {"registered", "prepared", "brief", "worker", "testing", "reading", "reviewer",
           "reviewed"}
Live == Before \cup {"opening", "synced", "pushing", "ended"}
Stages == Live \cup {"idle", "finished"}
NoFingerprint == [head |-> NoHead, base |-> -1, notes |-> -1, env |-> -1]
Unjudged == [h \in Heads |-> "none"]
NewAttempt == [fp |-> NoFingerprint, skipped |-> FALSE, reached |-> FALSE, last |-> NoHead,
               gate |-> "none", verdict |-> Unjudged, ended |-> "none"]

\* a run: how far it is, its agent process, what it read of the card and the repo at its start,
\* the head its agent works on, whether an earlier approval stands, its fix rounds, the head
\* its tests last passed on, whether a stop came in time, and what became of it
NoRun == [at |-> "idle", agent |-> "none", notes |-> 0, env |-> 0, from |-> NoHead,
          reuse |-> FALSE, fixes |-> 0, green |-> NoHead, asked |-> "no", result |-> "none"]

Verdicts == {"none", "approved", "rejected"}
Results == {"none", "refused", "blocked", "stopped", "opened"}
RunState ==
  [at : Stages, agent : {"none", "unknown", "running", "killed"}, notes : 0..MaxActs,
   env : {0, 1}, from : Heads, reuse : BOOLEAN, fixes : 0..MaxFixRounds, green : Heads,
   asked : {"no", "in time", "late"}, result : Results]
Fingerprint == [head : Heads, base : -1..MaxMoves, notes : -1..MaxActs, env : -1..1]
Record ==
  [fp : Fingerprint, skipped : BOOLEAN, reached : BOOLEAN, last : Heads,
   gate : {"none", "passed", "failed"}, verdict : [Heads -> Verdicts], ended : Results]

Row == [status : {"todo", "doing", "checking", "accepted"}, reason : Reasons, flag : BOOLEAN]

TypeOK ==
  /\ row \in Row
  /\ log \in Seq(Record)
  /\ notes \in 0..acts /\ env \in {0, 1} /\ head \in Heads /\ base \in 0..MaxMoves
  /\ run \in [Threads -> RunState]
  /\ \A t \in Threads : run[t].at \in {"worker", "reviewer"} <=> run[t].agent # "none"
  /\ current \in Threads \cup {NoThread} /\ handle \in Threads \cup {NoThread}
  /\ stopping \in BOOLEAN /\ sweep \in Heads
  /\ told \in 0..MaxActs /\ left \in Heads /\ judged \in [Heads -> Verdicts]
  /\ acts \in 0..MaxActs /\ commits \in 0..MaxCommits /\ crashes \in 0..MaxCrashes

Init ==
  /\ row = [status |-> "todo", reason |-> "none", flag |-> FALSE]
  /\ log = <<>> /\ notes = 0 /\ env = 0 /\ head = NoHead /\ base = 0
  /\ run = [t \in Threads |-> NoRun]
  /\ current = NoThread /\ stopping = FALSE /\ handle = NoThread /\ sweep = NoHead
  /\ told = 0 /\ left = NoHead /\ judged = Unjudged
  /\ acts = 0 /\ commits = 0 /\ crashes = 0

-----------------------------------------------------------------------------
(* The event log and what an attempt concludes from it *)

Now == Len(log)
Started(a) == a.fp # NoFingerprint
Latest(I) == CHOOSE i \in I : \A j \in I : j <= i

\* the attempt that reads the log is not a previous one
Previous == 1..(Now - 1)

\* repeats_failed_attempt: the newest attempt that had a worker, or skipped it on purpose
Repeats(fp) ==
  LET ran == {i \in Previous : log[i].reached \/ log[i].skipped}
      a == log[Latest(ran)] IN
  ran # {} /\ a.fp = fp /\ a.gate = "failed"

\* _verdict_for, the newest review that judged this head since attempt i
Verdict(i, h) ==
  LET with == {j \in Previous : j >= i /\ log[j].verdict[h] # "none"} IN
  IF with = {} THEN "none" ELSE log[Latest(with)].verdict[h]

Workers == {i \in Previous : log[i].reached}
Later(i) == {j \in Previous : j > i /\ Started(log[j])}

\* mutant of SameNotes: a note the worker never saw
NotesUnread(a, fp) == TRUE
SameNotes(a, fp) == a.fp.notes = fp.notes
LaterSkipped(i) == \A j \in Later(i) : log[j].skipped
LeftAt(a, fp) == a.last # NoHead /\ a.last = fp.head

\* a red gate needs another image or test command
GateMayPass(i, fp) ==
  LET a == log[IF Later(i) = {} THEN i ELSE Latest(Later(i))] IN
  a.gate = "failed" => a.fp.env # fp.env

\* resume_point: whether the worker may be skipped, and whether the reviewer too
MayResume(fp) ==
  /\ Workers # {}
  /\ LET i == Latest(Workers) IN
     /\ LeftAt(log[i], fp) /\ Started(log[i]) /\ SameNotes(log[i], fp)
     /\ LaterSkipped(i) /\ Verdict(i, fp.head) # "rejected" /\ GateMayPass(i, fp)
Approved(fp) == Verdict(Latest(Workers), fp.head) # "none"

-----------------------------------------------------------------------------
(* RunRegistry, on the request thread *)

LiveRun == current # NoThread /\ run[current].at \in Live
FreeThreads == {t \in Threads : run[t].at = "idle"}
CanStart == ~LiveRun /\ Now < MaxAttempts /\ ("handover" \in Happens \/ FreeThreads = Threads)

Register(t) == /\ run' = [run EXCEPT ![t].at = "registered"]
               /\ current' = t /\ UNCHANGED <<stopping, handle>>

Start(t) ==
  /\ CanStart /\ t \in FreeThreads /\ Register(t)
  /\ UNCHANGED <<row, log, notes, env, head, base, sweep, past, bounds>>

\* answer_card; reset_to_base starts an outdated card over at the base
Answer(t) ==
  /\ CanStart /\ t \in FreeThreads /\ Register(t)
  /\ row.reason # "none" /\ acts < MaxActs /\ acts' = acts + 1 /\ notes' = notes + 1
  /\ row' = [row EXCEPT !.reason = "none", !.flag = FALSE]
  /\ head' = IF row.reason = "OUTDATED" THEN [work |-> 0, base |-> base] ELSE head
  /\ UNCHANGED <<log, env, base, sweep, past, commits, crashes>>

\* mutants of the mark: a stop sets none; a run that ends leaves it
Unmarked == stopping
StillMarked == stopping
Marked == TRUE
Cleared == FALSE

\* stop: the mark, then the process the run is inside, as far as it is known
Stop ==
  /\ "stop" \in Acts /\ acts < MaxActs /\ acts' = acts + 1
  /\ LiveRun /\ stopping' = Marked
  /\ run' = [run EXCEPT ![current].asked = IF run[current].at \in Before THEN "in time"
                                           ELSE "late",
                        ![current].agent = IF handle = current /\ @ = "running"
                                           THEN "killed" ELSE @]
  /\ UNCHANGED <<row, log, notes, env, head, base, current, handle, sweep, past, commits,
                 crashes>>

-----------------------------------------------------------------------------
(* How a run ends *)

Apart == UNCHANGED <<notes, env, base, current, sweep, acts, crashes>>
EndsAs(t, result) == run' = [run EXCEPT ![t].at = "ended", ![t].agent = "none",
                                       ![t].result = result]
\* mutant of Refuse: the card keeps its row, and waits for nobody
RefuseSilently(t) == EndsAs(t, "refused") /\ UNCHANGED row
Refuse(t) == EndsAs(t, "refused") /\ row' = [row EXCEPT !.flag = TRUE]
Block(t, reason) == EndsAs(t, "blocked") /\ row' = [row EXCEPT !.reason = reason, !.flag = TRUE]
StopShort(t) == EndsAs(t, "stopped") /\ row' = [row EXCEPT !.flag = TRUE]

Goto(t, stage) == run' = [run EXCEPT ![t].at = stage, ![t].agent = "none"]
Keeps == UNCHANGED <<stopping, handle>>
Note(field, value) == log' = [log EXCEPT ![Now][field] = value]
Judge(h, v) ==
  /\ Note("verdict", [log[Now].verdict EXCEPT ![h] = v])
  /\ judged' = [judged EXCEPT ![h] = v]
  /\ left' = (IF v = "rejected" THEN NoHead ELSE left) /\ UNCHANGED told

\* any step may raise; a deliberate stop that broke a step is still a stop.  What cannot be
\* written of it is let go
Break(t) ==
  /\ "broken" \in Ends /\ run[t].at \in Live \ {"ended"}
  /\ \/ IF stopping THEN StopShort(t) ELSE Block(t, "CRASH")
     \/ /\ "locked" \in Happens /\ UNCHANGED row
        /\ EndsAs(t, IF stopping THEN "stopped" ELSE "blocked")
  /\ UNCHANGED <<log, head, past, commits>> /\ Keeps /\ Apart

-----------------------------------------------------------------------------
(* _run_attempt, one action from each wait to the next *)

\* an accepted card leaves no trace on the log; no repo, no lease, no runtime, no worktree do
Prepare(t) ==
  /\ run[t].at = "registered"
  /\ IF row.status = "accepted" THEN Refuse(t) /\ UNCHANGED log
     ELSE /\ log' = Append(log, NewAttempt)
          /\ \/ "refused" \in Ends /\ Refuse(t)
             \/ /\ row' = [status |-> "doing", reason |-> "none", flag |-> FALSE]
                /\ run' = [run EXCEPT ![t].at = "prepared", ![t].notes = notes,
                                      ![t].env = env]
  /\ UNCHANGED <<head, past, commits>> /\ Keeps /\ Apart

Behind == head.base < base

\* rebase_onto_base: a branch of no commits restarts at the base; it may also be skipped.
\* A card with no branch is cut from the base, as last fetched
Rebased == IF head = NoHead THEN [work : {0}, base : 0..base]
           ELSE {head} \cup {[head EXCEPT !.base = base]}

RebaseFails(t) ==
  /\ run[t].at = "prepared" /\ head # NoHead /\ Behind
  /\ \/ Contains(head) /\ Block(t, "OUTDATED")
     \/ "refused" \in Ends /\ Refuse(t)
  /\ UNCHANGED <<log, head, past, commits>> /\ Keeps /\ Apart

\* the fingerprint, and where it says to begin
SetOut(t) ==
  /\ run[t].at = "prepared"
  /\ \E h \in Rebased :
       LET fp == [head |-> h, base |-> base, notes |-> run[t].notes, env |-> run[t].env]
           reused == head # NoHead
           skip == reused /\ Contains(h) /\ MayResume(fp) IN
       /\ head' = h
       /\ IF reused /\ Repeats(fp) THEN Block(t, "TESTS_FAILED") /\ UNCHANGED log
          ELSE /\ log' = [log EXCEPT ![Now].fp = fp, ![Now].skipped = skip]
               /\ run' = [run EXCEPT ![t].at = IF skip THEN "testing" ELSE "brief",
                                     ![t].reuse = skip /\ Approved(fp)]
               /\ UNCHANGED row
  /\ UNCHANGED <<past, commits>> /\ Keeps /\ Apart

\* docker run of the worker, on a clone; its prompt has the notes read at the start
Work(t) ==
  /\ run[t].at = "brief"
  /\ run' = [run EXCEPT ![t].at = "worker", ![t].agent = "unknown", ![t].from = head]
  /\ told' = run[t].notes /\ left' = NoHead
  /\ UNCHANGED <<row, log, head, judged, commits>> /\ Keeps /\ Apart

\* on_process: from here on a stop reaches the process
Known(t) ==
  /\ run[t].agent = "unknown"
  /\ run' = [run EXCEPT ![t].agent = "running"]
  /\ handle' = t
  /\ UNCHANGED <<row, log, head, past, commits, stopping>> /\ Apart

\* _fetch_back takes what the worker committed, onto the head it began with: a fetch that is
\* no fast-forward raises (Break)
Fetched == {head} \cup
  {[work |-> w, base |-> head.base] : w \in {commits + 1} \cap 1..MaxCommits}

WorkerStopped(t) ==
  /\ run[t].at = "worker" /\ stopping /\ head = run[t].from
  /\ head' \in Fetched /\ commits' = IF head' = head THEN commits ELSE commits + 1
  /\ StopShort(t)
  /\ UNCHANGED <<log, past>> /\ Keeps /\ Apart

Summary(t, last) ==
  /\ log' = [log EXCEPT ![Now].reached = TRUE, ![Now].last = last]
  /\ left' = last /\ UNCHANGED <<told, judged>>

WorkerEnds(t) ==
  /\ run[t].at = "worker" /\ ~stopping /\ head = run[t].from
  /\ head' \in Fetched /\ commits' = IF head' = head THEN commits ELSE commits + 1
  /\ \/ /\ run[t].agent # "killed"
        /\ Summary(t, head')
        /\ IF Contains(head') THEN Goto(t, "testing") /\ UNCHANGED row ELSE Refuse(t)
     \/ /\ {"capped", "outside"} \cap Ends # {} /\ run[t].agent # "killed"
        /\ Contains(head') /\ Summary(t, NoHead)
        /\ Goto(t, "testing") /\ UNCHANGED row
     \/ /\ "failed" \in Ends \/ run[t].agent = "killed"
        /\ Block(t, IF run[t].agent = "killed" THEN "CRASH" ELSE "OTHER")
        /\ UNCHANGED <<log, past>>
     \/ /\ "refused" \in Ends /\ Refuse(t) /\ UNCHANGED <<log, past>>
  /\ Keeps /\ Apart

\* run_test_gate, on the repo row and the worktree as they are by then
GateRefuses(t) ==
  /\ run[t].at = "testing" /\ "refused" \in Ends /\ Refuse(t)
  /\ UNCHANGED <<log, head, past, commits>> /\ Keeps /\ Apart

TestGate(t) ==
  /\ run[t].at = "testing"
  /\ \E result \in {"passed", "failed"} :
       /\ Note("gate", result)
       /\ IF stopping THEN StopShort(t)
          ELSE IF result = "failed" THEN Block(t, "TESTS_FAILED")
          ELSE /\ run' = [run EXCEPT ![t].at = IF run[t].reuse THEN "reviewed" ELSE "reading",
                                     ![t].green = head]
               /\ UNCHANGED row
  /\ UNCHANGED <<head, past, commits>> /\ Keeps /\ Apart

Review(t) ==
  /\ run[t].at = "reading"
  /\ \/ /\ run' = [run EXCEPT ![t].at = "reviewer", ![t].agent = "unknown", ![t].from = head]
        /\ UNCHANGED row
     \/ "refused" \in Ends /\ Refuse(t)
  /\ UNCHANGED <<log, head, past, commits>> /\ Keeps /\ Apart

\* a reviewer that was stopped may have given its verdict first
ReviewerStopped(t) ==
  /\ run[t].at = "reviewer" /\ stopping /\ StopShort(t)
  /\ \/ \E v \in {"approved", "rejected"} : Judge(run[t].from, v)
     \/ UNCHANGED <<log, past>>
  /\ UNCHANGED <<head, commits>> /\ Keeps /\ Apart

ReviewerFails(t) ==
  /\ run[t].at = "reviewer" /\ ~stopping
  /\ \/ run[t].agent = "killed" /\ Block(t, "CRASH")
     \/ "failed" \in Ends /\ Block(t, "OTHER")
  /\ UNCHANGED <<log, head, past, commits>> /\ Keeps /\ Apart

Approves(t) ==
  /\ run[t].at = "reviewer" /\ ~stopping
  /\ Judge(run[t].from, "approved") /\ Goto(t, "reviewed")
  /\ UNCHANGED <<row, head, commits>> /\ Keeps /\ Apart

\* mutant of Counted: a fix round that is not counted
Uncounted(n) == n
Counted(n) == n + 1

\* on the fix route the findings go back to the worker, so often and no more
Rejects(t) ==
  /\ run[t].at = "reviewer" /\ ~stopping
  /\ \/ /\ run[t].fixes < MaxFixRounds
        /\ run' = [run EXCEPT ![t].at = "brief", ![t].agent = "none",
                              ![t].fixes = Counted(@)]
        /\ log' = [log EXCEPT ![Now].last = NoHead,
                              ![Now].verdict[run[t].from] = "rejected"]
        /\ judged' = [judged EXCEPT ![run[t].from] = "rejected"]
        /\ left' = NoHead /\ UNCHANGED <<row, told>>
     \/ Judge(run[t].from, "rejected") /\ Block(t, "REVIEW_REJECTED")
  /\ UNCHANGED <<head, commits>> /\ Keeps /\ Apart

\* mutant of LastCheck: no look at the mark between the gates and the pull request
NoLook == FALSE
Look == stopping

LastCheck(t) ==
  /\ run[t].at = "reviewed"
  /\ IF Look THEN StopShort(t) ELSE Goto(t, "opening") /\ UNCHANGED row
  /\ UNCHANGED <<log, head, past, commits>> /\ Keeps /\ Apart

\* mutant of NeedsRetest: a clean merge is taken for tested
NoRetest == FALSE
NeedsRetest == TRUE

\* merge_branch: the base goes into the branch, or the merge is aborted
Merged == [head EXCEPT !.base = base]
\* _sync_and_retest: a base that cannot be fetched is left alone
Sync(t) ==
  /\ run[t].at = "opening"
  /\ \/ /\ Goto(t, "synced") /\ UNCHANGED <<row, log, head>>
     \/ /\ Behind
        /\ \/ Block(t, "MERGE_CONFLICT") /\ UNCHANGED <<log, head>>
           \/ /\ head' = Merged
              /\ \/ "refused" \in Ends /\ NeedsRetest /\ Refuse(t) /\ UNCHANGED log
                 \/ NeedsRetest /\ Note("gate", "failed") /\ Block(t, "TESTS_FAILED")
                 \/ /\ IF NeedsRetest
                       THEN /\ Note("gate", "passed")
                            /\ run' = [run EXCEPT ![t].at = "synced", ![t].green = head']
                       ELSE Goto(t, "synced") /\ UNCHANGED log
                    /\ UNCHANGED row
  /\ UNCHANGED <<past, commits>> /\ Keeps /\ Apart

Checking(t) ==
  /\ run[t].at = "synced" /\ Goto(t, "pushing")
  /\ row' = [row EXCEPT !.status = "checking"]
  /\ UNCHANGED <<log, head, past, commits>> /\ Keeps /\ Apart

\* open_merge_request; landing from here on is LandingLock's
Open(t) ==
  /\ run[t].at = "pushing"
  /\ IF row.reason # "none" THEN EndsAs(t, "blocked") /\ UNCHANGED row
     ELSE \/ EndsAs(t, "opened") /\ row' = [row EXCEPT !.flag = TRUE]
          \/ "refused" \in Ends /\ Refuse(t)
  /\ UNCHANGED <<log, head, past, commits>> /\ Keeps /\ Apart

-----------------------------------------------------------------------------
(* RunRegistry._run, the finally block *)

\* run_ended is on the log before finished_at is set
Finish(t) ==
  /\ run[t].at = "ended" /\ Goto(t, "finished")
  /\ Note("ended", run[t].result) \/ ("locked" \in Happens /\ UNCHANGED log)
  /\ UNCHANGED <<row, head, past, commits>> /\ Keeps /\ Apart

\* both are dropped by card, whoever they belong to by now
Cleanup(t) ==
  /\ run[t].at = "finished" /\ run' = [run EXCEPT ![t] = NoRun]
  /\ stopping' = Cleared /\ handle' = NoThread
  /\ UNCHANGED <<row, log, head, past, commits>> /\ Apart

-----------------------------------------------------------------------------
(* What else happens *)

Act1(a) == a \in Acts /\ acts < MaxActs /\ acts' = acts + 1

WriteNote ==
  /\ Act1("note") /\ notes' = notes + 1
  /\ UNCHANGED <<row, log, env, head, base, registry, sweep, past, commits, crashes>>

\* the operator edits the test command, or the image is rebuilt
Edit ==
  /\ Act1("edit") /\ env' = 1 - env
  /\ UNCHANGED <<row, log, notes, head, base, registry, sweep, past, commits, crashes>>

Accept ==
  /\ Act1("accept") /\ row.status = "checking" /\ ~LiveRun
  /\ row' = [row EXCEPT !.status = "accepted"]
  /\ UNCHANGED <<log, notes, env, head, base, registry, sweep, past, commits, crashes>>

MoveBase ==
  /\ base < MaxMoves /\ base' = base + 1
  /\ UNCHANGED <<row, log, notes, env, head, registry, sweep, past, bounds>>

\* the sweep reads the row of a card whose pull request is open, and rebases its branch
\* seconds later
SweepReads ==
  /\ "sweep" \in Happens /\ sweep = NoHead
  /\ row.status = "checking" /\ row.reason = "none" /\ Behind
  /\ \E i \in 1..Now : log[i].ended = "opened"
  /\ sweep' = head
  /\ UNCHANGED <<row, log, notes, env, head, base, registry, past, bounds>>

\* _move_branch moves what is still where it was; flag_outdated blocks whatever the card does
SweepEnds ==
  /\ sweep # NoHead /\ sweep' = NoHead
  /\ \/ head' = (IF head = sweep THEN [head EXCEPT !.base = base] ELSE head) /\ UNCHANGED row
     \/ row' = [row EXCEPT !.reason = "OUTDATED", !.flag = TRUE] /\ UNCHANGED head
  /\ UNCHANGED <<log, notes, env, base, registry, past, bounds>>

\* the board process dies; the next one blocks the card it left mid-run
Orphaned == /\ row.status = "doing" /\ row.reason = "none" /\ ~row.flag
            /\ Now > 0 /\ log[Now].ended = "none"

Crash ==
  /\ crashes < MaxCrashes /\ crashes' = crashes + 1
  /\ run' = [t \in Threads |-> NoRun]
  /\ current' = NoThread /\ stopping' = FALSE /\ handle' = NoThread /\ sweep' = NoHead
  /\ row' = IF Orphaned THEN [row EXCEPT !.reason = "CRASH", !.flag = TRUE] ELSE row
  /\ UNCHANGED <<log, notes, env, head, base, past, acts, commits>>

-----------------------------------------------------------------------------
Step(t) ==
  \/ Prepare(t) \/ RebaseFails(t) \/ SetOut(t)
  \/ Work(t) \/ Known(t) \/ WorkerStopped(t) \/ WorkerEnds(t)
  \/ GateRefuses(t) \/ TestGate(t)
  \/ Review(t) \/ ReviewerStopped(t) \/ ReviewerFails(t) \/ Approves(t) \/ Rejects(t)
  \/ LastCheck(t) \/ Sync(t) \/ Checking(t) \/ Open(t)
  \/ Finish(t) \/ Cleanup(t)

Next ==
  \/ \E t \in Threads : Start(t) \/ Answer(t) \/ Step(t) \/ Break(t)
  \/ Stop \/ WriteNote \/ Edit \/ Accept \/ MoveBase \/ SweepReads \/ SweepEnds \/ Crash

Spec == Init /\ [][Next]_vars

\* agents end, at the latest at their time limit, and threads are scheduled
Fairness == \A t \in Threads : WF_vars(Step(t))
FairSpec == Spec /\ Fairness

-----------------------------------------------------------------------------
(* Safety *)

\* lifecycle.py, "a card reaches a pull request by passing two things that do not care what it
\* thinks": what is opened had its tests pass, in this attempt, on the very head it has, and
\* its newest commit was approved, be it on an older base
OpenedIsVetted ==
  [][\A t \in Threads : run[t].at = "pushing" /\ run'[t].result = "opened" =>
       /\ run[t].green = head
       /\ \E b \in 0..MaxMoves : judged[[work |-> head.work, base |-> b]] = "approved"]_vars

\* resume_point, "the worker is skipped only when": the newest worker was told of every note
\* there was when the attempt began, it finished by itself and left this very head, and no
\* reviewer has found anything in it since
SkipIsJustified ==
  [][\A t \in Threads : run[t].at = "prepared" /\ run'[t].at = "testing" =>
       told = run[t].notes /\ left = head']_vars

\* stop, "what actually stops the chain": a run that was stopped before its last look at the
\* mark opens nothing ...
StoppedOpensNothing ==
  \A t \in Threads : run[t].asked = "in time" => run[t].result # "opened"

\* ... and nobody else's run is stopped
StopsOnRequest == \A t \in Threads : run[t].result = "stopped" => run[t].asked # "no"

\* stop: a process that was killed on purpose is not taken for a crash
KilledIsNoCrash == \A t \in Threads : run[t].agent = "killed" => stopping

-----------------------------------------------------------------------------
(* What a run promises *)

StageOf(at) ==
  CASE at \in {"idle", "finished"} -> "off"
    [] at = "registered" -> "registered"
    [] at = "pushing" -> "opening"
    [] at = "ended" -> "ended"
    [] OTHER -> "working"

Promise == INSTANCE CardRun
  WITH stage <- IF current = NoThread THEN "off" ELSE StageOf(run[current].at)

\* the attempts in detail are the runs the scheduler reckons with: one at a time, checking only
\* after both gates, and never at an end with nobody called
KeepsPromise == Promise!Spec

-----------------------------------------------------------------------------
(* Liveness *)

\* every run ends, whatever its worker and its reviewer make of each other
RunEnds == \A t \in Threads : run[t].at = "registered" ~> run[t].at \in {"idle", "finished"}
=============================================================================
