------------------------------ MODULE Scheduler ------------------------------
(***************************************************************************)
(* The part of smortboard that decides when a card runs: one              *)
(* BoardScheduler per board (smortboard/scheduler.py) over the one         *)
(* RunRegistry they share (smortboard/server/runs.py), the card rows and   *)
(* event log they read, the operator's starts and stops, and a restart of  *)
(* the board process.                                                      *)
(*                                                                         *)
(* A thread of Threads is one RunState with the thread that runs it, from  *)
(* RunRegistry.start to the tick its on_finish callback ends with; of the  *)
(* threads that wait for a tick only their number is kept.  A tick of a    *)
(* board is cut where the code gives up its locks: the snapshot, one step  *)
(* per queued card, and the write-back.                                    *)
(***************************************************************************)
EXTENDS Integers, Sequences, FiniteSets

CONSTANTS
  Cards, Boards, Threads,
  BoardOf,           \* the board of each card
  Clash,             \* pairs of cards of one repo whose leases may overlap
  DependsOn,         \* the cards each card waits for (free-merge boards)
  Capped,            \* cards a spend cap refuses
  MaxParallel,       \* setting max_parallel: runs at once across the install
  BoardCap,          \* max_parallel of each board; >= |Cards| where unset
  ApiMaxRetries, RuntimeMaxRetries,
  Endings,           \* how a run may end, see Ending
  Acts,              \* what the operator does, see Act
  MaxPresses,        \* bound: operator actions
  MaxLimits,         \* bound: runs that end at a usage limit
  MaxRestarts        \* bound: restarts of the board process

Ending == {"landed", "opened", "refused", "OTHER", "MERGE_CONFLICT",
           "USAGE_LIMIT", "API_UNREACHABLE", "runtime"}
Act == {"start all", "stop", "run", "answer", "accept", "reject"}
\* OTHER stands for the reasons an answer clears and nothing retries
Reason == {"none", "OTHER", "MERGE_CONFLICT", "USAGE_LIMIT", "API_UNREACHABLE",
           "DEPENDENCY_REJECTED"}
Status == {"todo", "doing", "checking", "accepted", "rejected"}
NeverQueueable == {"accepted", "rejected"}
When == {"none", "future", "past"}

CardsOf(b) == {c \in Cards : BoardOf[c] = b}

ASSUME ConstantsOK ==
  /\ IsFiniteSet(Cards) /\ IsFiniteSet(Threads)
  /\ BoardOf \in [Cards -> Boards]
  /\ Clash \subseteq Cards \X Cards
  /\ \A c, d \in Cards : <<c, d>> \in Clash => <<d, c>> \in Clash
  /\ DependsOn \in [Cards -> SUBSET Cards]
  /\ Capped \subseteq Cards
  /\ MaxParallel \in Nat \ {0}
  /\ BoardCap \in [Boards -> Nat \ {0}]
  /\ ApiMaxRetries \in Nat /\ RuntimeMaxRetries \in Nat
  /\ Endings \subseteq Ending /\ Acts \subseteq Act
  /\ MaxPresses \in Nat /\ MaxLimits \in Nat /\ MaxRestarts \in Nat

VARIABLES
  (* the database: survives a restart *)
  card,        \* status, blocked_reason_code and review_flag of each card
  log,         \* what its events say: a start with no run_ended, retries used, the
               \* automatic resume used, when its newest retry and its limit are due
  (* RunRegistry, in memory *)
  run,         \* the threads: card, stage, who started it, how it ended
  (* BoardScheduler, in memory *)
  queue,       \* _queue of each board
  seated,      \* the cards in some board's _running
  retryOk,     \* the cards in some board's _retry_ok
  rtTries,     \* _runtime_attempts
  timer,       \* _card_retry_at: none, or whether it has come due
  pause,       \* _lab_paused_until of each board, likewise
  tick,        \* the tick in progress on each board and its snapshot
  todo,        \* what is left of its queue snapshot
  wantTick,    \* how many threads wait at _tick of each board
  (* the request thread *)
  http,        \* the request it is half way through, and the cards it has read
  (* bounds, and a history variable *)
  presses, limits, restarts,
  stopped      \* cards the last stop took out of the queue of their board

store == <<card, log>>
sched == <<queue, seated, retryOk, rtTries, timer, pause>>
ticks == <<tick, todo, wantTick>>
bounds == <<presses, limits, restarts>>
vars == <<store, run, sched, ticks, http, bounds, stopped>>

-----------------------------------------------------------------------------
(* Sequences and threads *)

Elems(q) == {q[i] : i \in DOMAIN q}
Without(q, S) ==
  LET kept[i \in 0..Len(q)] == IF i = 0 THEN <<>>
                               ELSE IF q[i] \in S THEN kept[i - 1] ELSE Append(kept[i - 1], q[i])
  IN kept[Len(q)]
Orderings(S) == {q \in [1..Cardinality(S) -> S] : Elems(q) = S}

LiveStages == {"registered", "working", "opening"}
TailStages == {"finished", "handling", "resuming"}
Idle == [card |-> "none", stage |-> "none", by |-> "none", result |-> "none"]
NoRequest == [act |-> "idle", on |-> "none", cards |-> {}]

Live == {t \in Threads : run[t].stage \in LiveStages}
ActiveCards == {run[t].card : t \in Live}
Running(c) == c \in ActiveCards
TickRuns(b) == {t \in Live : run[t].by = "tick" /\ BoardOf[run[t].card] = b}
FreeTick == [stage |-> "free", seats |-> {}, retryOk |-> {}, slots |-> 0,
             pending |-> {}, started |-> {}, drop |-> {}]

Row == [status : Status, reason : Reason, flag : BOOLEAN]
LogRow == [midRun : BOOLEAN, apiTries : Nat, resumed : BOOLEAN, retryAt : When, reset : When]
RunState == [card : Cards, stage : LiveStages \cup TailStages, by : {"tick", "hand"},
             result : Ending \cup {"none"}]
TickState == [stage : {"free", "held", "loop"}, seats : SUBSET Cards,
              retryOk : SUBSET Cards, slots : Int, pending : SUBSET Cards,
              started : SUBSET Cards, drop : SUBSET Cards]
HttpState == [act : Act \cup {"ticking"}, on : Cards \cup Boards, cards : SUBSET Cards]

\* the queue, todo and stopped hold cards of their board: see QueueIsASet
TypeOK ==
  /\ card \in [Cards -> Row] /\ log \in [Cards -> LogRow]
  /\ run \in [Threads -> RunState \cup {Idle}]
  /\ seated \subseteq Cards /\ retryOk \subseteq Cards
  /\ rtTries \in [Cards -> Nat]
  /\ timer \in [Cards -> When] /\ pause \in [Boards -> When]
  /\ tick \in [Boards -> TickState] /\ wantTick \in [Boards -> Nat]
  /\ http \in HttpState \cup {NoRequest}
  /\ presses \in Nat /\ limits \in Nat /\ restarts \in Nat

Init ==
  /\ card = [c \in Cards |-> [status |-> "todo", reason |-> "none", flag |-> FALSE]]
  /\ log = [c \in Cards |-> [midRun |-> FALSE, apiTries |-> 0, resumed |-> FALSE,
                             retryAt |-> "none", reset |-> "none"]]
  /\ run = [t \in Threads |-> Idle]
  /\ queue = [b \in Boards |-> <<>>]
  /\ seated = {} /\ retryOk = {}
  /\ timer = [c \in Cards |-> "none"]
  /\ rtTries = [c \in Cards |-> 0]
  /\ pause = [b \in Boards |-> "none"]
  /\ tick = [b \in Boards |-> FreeTick]
  /\ todo = [b \in Boards |-> <<>>]
  /\ wantTick = [b \in Boards |-> 0]
  /\ http = NoRequest
  /\ presses = 0 /\ limits = 0 /\ restarts = 0
  /\ stopped = [b \in Boards |-> {}]

-----------------------------------------------------------------------------
(* Rules that gate a start *)

Queueable(c) ==
  /\ card[c].status \notin NeverQueueable
  /\ card[c].status = "todo" \/ card[c].reason # "none"

DependencyWait(c) == \E d \in DependsOn[c] : card[d].status # "accepted"
LeaseWait(c, held) == \E d \in held : <<c, d>> \in Clash

\* conflicting_run: the lease rule of a start that never passes through a tick
ConflictingRun(c) == LeaseWait(c, ActiveCards \ {c})

\* the refusals of _handle_run, answer_card and fallback_run
MayStartByHand(c) == ~Running(c) /\ ~ConflictingRun(c) /\ c \notin Capped
Answerable(c) ==
  /\ card[c].status \notin NeverQueueable
  /\ card[c].reason \in {"OTHER", "MERGE_CONFLICT", "USAGE_LIMIT"}

-----------------------------------------------------------------------------
(* RunRegistry *)

\* RunRegistry.start: one run per card, so a second start changes nothing
TakeThread(c, by) ==
  \E t \in Threads :
    /\ run[t] = Idle
    /\ run' = [run EXCEPT ![t] = [card |-> c, stage |-> "registered",
                                  by |-> by, result |-> "none"]]
StartRun(c, by) == IF Running(c) THEN UNCHANGED run ELSE TakeThread(c, by)

\* BoardScheduler.prepare_run, the finish hook of a start no tick made
PrepareRun(c) ==
  IF Running(c) THEN UNCHANGED sched
  ELSE /\ queue' = [queue EXCEPT ![BoardOf[c]] = Without(@, {c})]
       /\ timer' = [timer EXCEPT ![c] = "none"]
       /\ retryOk' = retryOk \ {c}
       /\ UNCHANGED <<seated, rtTries, pause>>

Refuse(t, result) ==
  /\ card' = [card EXCEPT ![run[t].card].flag = TRUE]
  /\ run' = [run EXCEPT ![t].stage = "finished", ![t].result = result]

\* refused with no attempt on its log: it was accepted, or rests on rejected work
RefusedAtOnce(c) ==
  card[c].status = "accepted" \/ \E d \in DependsOn[c] : card[d].status = "rejected"

\* _run_attempt up to status doing; on the way it may be refused for its repo, its
\* lease, its worktree or its runtime
Begin(t) ==
  LET c == run[t].card
      started == [log EXCEPT ![c].reset = "none"] IN
  /\ run[t].stage = "registered"
  /\ \/ /\ RefusedAtOnce(c) /\ Refuse(t, "refused")
        /\ log' = [log EXCEPT ![c].midRun = FALSE]
     \/ /\ ~RefusedAtOnce(c)
        /\ \E result \in {"refused", "runtime"} \cap Endings : Refuse(t, result)
        /\ log' = [started EXCEPT ![c].midRun = FALSE]
     \/ /\ ~RefusedAtOnce(c)
        /\ card' = [card EXCEPT ![c] = [status |-> "doing", reason |-> "none",
                                        flag |-> FALSE]]
        /\ log' = [started EXCEPT ![c].midRun = TRUE]
        /\ run' = [run EXCEPT ![t].stage = "working"]
  /\ UNCHANGED <<sched, ticks, http, bounds, stopped>>

\* both gates passed: the card is checking before its pull request is open
Opening(t) ==
  /\ run[t].stage = "working"
  /\ {"opened", "landed"} \cap Endings # {}
  /\ card' = [card EXCEPT ![run[t].card].status = "checking"]
  /\ run' = [run EXCEPT ![t].stage = "opening"]
  /\ UNCHANGED <<log, sched, ticks, http, bounds, stopped>>

\* the card row a run leaves behind
Outcome(row, o) ==
  CASE o = "landed" -> [row EXCEPT !.status = "accepted"]
    [] o \in {"opened", "refused"} -> [row EXCEPT !.flag = TRUE]
    [] OTHER -> [row EXCEPT !.reason = o, !.flag = TRUE]

\* the run writes its outcome, then run_ended, then finished_at: it is off from here on,
\* its on_finish still to come.  A run may break, and is blocked as a CRASH, even before it
\* is doing; one that hit its limit may have read when it resets.
RunEnd(t, o) ==
  LET c == run[t].card IN
  /\ \/ run[t].stage = "registered" /\ o = "OTHER"
     \/ run[t].stage = "working" /\ o \notin {"landed", "opened", "runtime"}
     \/ run[t].stage = "opening"
        /\ o \in {"landed", "opened", "refused", "OTHER", "MERGE_CONFLICT"}
  /\ o = "USAGE_LIMIT" => limits < MaxLimits
  /\ card' = [card EXCEPT ![c] = Outcome(@, o)]
  /\ \E reset \in IF o = "USAGE_LIMIT" THEN {"none", "future"} ELSE {"none"} :
       log' = [log EXCEPT ![c].midRun = FALSE, ![c].reset = reset]
  /\ run' = [run EXCEPT ![t].stage = "finished", ![t].result = o]
  /\ limits' = IF o = "USAGE_LIMIT" THEN limits + 1 ELSE limits
  /\ UNCHANGED <<sched, ticks, http, presses, restarts, stopped>>

-----------------------------------------------------------------------------
(* on_finish, on the run's own thread *)

\* the seat is given up, then the block decides which handler goes on
GiveUpSeat(t) == seated' = seated \ {run[t].card}
Goto(t, stage) == run' = [run EXCEPT ![t].stage = stage] /\ UNCHANGED ticks

AskForTick(b) == wantTick' = [wantTick EXCEPT ![b] = @ + 1] /\ UNCHANGED <<tick, todo>>
Leave(t) == run' = [run EXCEPT ![t] = Idle] /\ UNCHANGED ticks
LeaveByTick(t) == run' = [run EXCEPT ![t] = Idle] /\ AskForTick(BoardOf[run[t].card])

FinishPlain(t) ==
  /\ run[t].stage = "finished"
  /\ run[t].result \in {"landed", "opened", "refused", "OTHER"}
  /\ GiveUpSeat(t) /\ LeaveByTick(t)
  /\ rtTries' = [rtTries EXCEPT ![run[t].card] = 0]
  /\ UNCHANGED <<store, queue, retryOk, timer, pause, http, bounds, stopped>>

\* _handle_usage_limit up to its last lock: profile_limited is on the log
FinishUsageLimit(t) ==
  /\ run[t].stage = "finished" /\ run[t].result = "USAGE_LIMIT"
  /\ GiveUpSeat(t) /\ Goto(t, "handling")
  /\ rtTries' = [rtTries EXCEPT ![run[t].card] = 0]
  /\ log' = [log EXCEPT ![run[t].card].reset = "future"]
  /\ UNCHANGED <<card, queue, retryOk, timer, pause, http, bounds, stopped>>

\* its last lock: parked behind the pause of the lab, or first in line on another profile
RejoinQueue(t) ==
  LET c == run[t].card
      b == BoardOf[c]
      new == IF c \in Elems(queue[b]) \cup seated THEN <<>> ELSE <<c>> IN
  /\ run[t].stage = "handling" /\ run[t].result = "USAGE_LIMIT"
  /\ \/ /\ queue' = [queue EXCEPT ![b] = @ \o new]
        /\ pause' = [pause EXCEPT ![b] = "future"]
     \/ /\ queue' = [queue EXCEPT ![b] = new \o @]
        /\ UNCHANGED pause
  /\ stopped' = [stopped EXCEPT ![b] = @ \ {c}]
  /\ LeaveByTick(t)
  /\ UNCHANGED <<store, seated, retryOk, rtTries, timer, http, bounds>>

\* _handle_api_unreachable: a spent card is left to the operator, and returns without a tick
FinishApiUnreachable(t) ==
  LET c == run[t].card IN
  /\ run[t].stage = "finished" /\ run[t].result = "API_UNREACHABLE"
  /\ GiveUpSeat(t)
  /\ rtTries' = [rtTries EXCEPT ![c] = 0]
  /\ IF log[c].apiTries < ApiMaxRetries
     THEN /\ log' = [log EXCEPT ![c].apiTries = @ + 1, ![c].retryAt = "future"]
          /\ Goto(t, "handling")
     ELSE Leave(t) /\ UNCHANGED log
  /\ UNCHANGED <<card, queue, retryOk, timer, pause, http, bounds, stopped>>

\* _handle_runtime_not_ready
FinishRuntime(t) ==
  LET c == run[t].card IN
  /\ run[t].stage = "finished" /\ run[t].result = "runtime"
  /\ GiveUpSeat(t)
  /\ IF rtTries[c] < RuntimeMaxRetries
     THEN Goto(t, "handling") /\ UNCHANGED rtTries
     ELSE LeaveByTick(t) /\ rtTries' = [rtTries EXCEPT ![c] = 0]
  /\ UNCHANGED <<store, queue, retryOk, timer, pause, http, bounds, stopped>>

SetTimer(t) ==
  LET c == run[t].card IN
  /\ run[t].stage = "handling" /\ run[t].result \in {"API_UNREACHABLE", "runtime"}
  /\ timer' = [timer EXCEPT ![c] = "future"]
  /\ IF run[t].result = "runtime"
     THEN /\ rtTries' = [rtTries EXCEPT ![c] = @ + 1]
          /\ retryOk' = retryOk \cup {c}
     ELSE UNCHANGED <<rtTries, retryOk>>
  /\ LeaveByTick(t)
  /\ UNCHANGED <<store, queue, seated, pause, http, bounds, stopped>>

\* _handle_merge_conflict: resumed once in the card's life, and a second conflict
\* returns without a tick; answer_card refuses while its lease is in use
FinishMergeConflict(t) ==
  LET c == run[t].card IN
  /\ run[t].stage = "finished" /\ run[t].result = "MERGE_CONFLICT"
  /\ GiveUpSeat(t)
  /\ rtTries' = [rtTries EXCEPT ![c] = 0]
  /\ IF log[c].resumed THEN Leave(t) /\ UNCHANGED log
     ELSE /\ log' = [log EXCEPT ![c].resumed = TRUE]
          /\ IF Answerable(c) /\ MayStartByHand(c) THEN Goto(t, "resuming") ELSE LeaveByTick(t)
  /\ UNCHANGED <<card, queue, retryOk, timer, pause, http, bounds, stopped>>

\* answer_card past its checks: the block is cleared, then the run is started
Resume(t) ==
  LET c == run[t].card
      left == [run EXCEPT ![t] = Idle] IN
  /\ run[t].stage = "resuming"
  /\ card' = [card EXCEPT ![c].reason = "none", ![c].flag = FALSE]
  /\ PrepareRun(c)
  /\ IF Running(c) THEN run' = left
     ELSE \E u \in Threads :
            /\ left[u] = Idle
            /\ run' = [left EXCEPT ![u] = [card |-> c, stage |-> "registered",
                                           by |-> "hand", result |-> "none"]]
  /\ AskForTick(BoardOf[c])
  /\ UNCHANGED <<log, http, bounds, stopped>>

-----------------------------------------------------------------------------
(* A tick of one board, under its _tick_lock *)

SmallerOf(m, n) == IF m < n THEN m ELSE n

\* the seats this tick may fill, from one reading of the registry and of _running
InstallSlots(b) == MaxParallel - Cardinality(Live)
Slots(b) == SmallerOf(InstallSlots(b), BoardCap[b] - Cardinality(seated \cap CardsOf(b)))

\* a thread that waits at _tick, or the one that already holds the lock, reads what
\* the tick goes by
TickBegin(b) ==
  /\ \/ /\ tick[b].stage = "free" /\ wantTick[b] > 0
        /\ wantTick' = [wantTick EXCEPT ![b] = @ - 1]
     \/ tick[b].stage = "held" /\ UNCHANGED wantTick
  /\ tick' = [tick EXCEPT ![b] =
       [stage |-> "loop", seats |-> seated \cap CardsOf(b),
        retryOk |-> retryOk \cap CardsOf(b), slots |-> Slots(b),
        pending |-> (seated \cap CardsOf(b)) \cup ActiveCards,
        started |-> {}, drop |-> {}]]
  /\ todo' = [todo EXCEPT ![b] = queue[b]]
  /\ UNCHANGED <<store, run, sched, http, bounds, stopped>>

\* the card whose turn it is in the loop over the queue snapshot
Next_(b, c) ==
  /\ tick[b].stage = "loop" /\ todo[b] # <<>> /\ c = Head(todo[b])
  /\ todo' = [todo EXCEPT ![b] = Tail(@)]

\* not this board's to start: already running, decided, or waiting on its operator
NotOurs(b, c) ==
  \/ c \in tick[b].seats
  \/ /\ ~Queueable(c)
     /\ c \notin tick[b].retryOk \/ card[c].status \in NeverQueueable

HeldBack(b, c) ==
  \/ pause[b] = "future"
  \/ DependencyWait(c)
  \/ LeaseWait(c, tick[b].pending)
  \/ c \in Capped
MustWait(b, c) == tick[b].slots <= 0 \/ HeldBack(b, c)

TickDrop(b, c) ==
  /\ Next_(b, c) /\ NotOurs(b, c)
  /\ tick' = [tick EXCEPT ![b].drop = @ \cup {c}]
  /\ UNCHANGED <<store, run, sched, wantTick, http, bounds, stopped>>

TickWait(b, c) ==
  /\ Next_(b, c) /\ ~NotOurs(b, c) /\ MustWait(b, c)
  /\ UNCHANGED <<store, run, sched, tick, wantTick, http, bounds, stopped>>

\* mutant of Grant: the rest of the tick goes by the leases of the snapshot
GrantBySnapshot(b, c) == tick' = [tick EXCEPT ![b].started = @ \cup {c}, ![b].slots = @ - 1]

\* a start takes its leases and its seat from the rest of the tick
Grant(b, c) ==
  tick' = [tick EXCEPT ![b].pending = @ \cup {c}, ![b].started = @ \cup {c},
                       ![b].slots = @ - 1]

TickStart(b, c) ==
  /\ Next_(b, c) /\ ~NotOurs(b, c) /\ ~MustWait(b, c)
  /\ StartRun(c, "tick") /\ Grant(b, c)
  /\ UNCHANGED <<store, sched, wantTick, http, bounds, stopped>>

SeatStarted(b) == seated' = seated \cup tick[b].started

\* the write-back filters the live queue, so what joined it meanwhile stays
TickWriteback(b) ==
  LET gone == tick[b].started \cup tick[b].drop IN
  /\ tick[b].stage = "loop" /\ todo[b] = <<>>
  /\ SeatStarted(b)
  /\ queue' = [queue EXCEPT ![b] = Without(@, gone)]
  /\ retryOk' = retryOk \ gone
  /\ tick' = [tick EXCEPT ![b] = FreeTick]
  /\ http' = IF http.act = "ticking" /\ http.on = b THEN NoRequest ELSE http
  /\ UNCHANGED <<store, run, rtTries, timer, pause, todo, wantTick, bounds, stopped>>

-----------------------------------------------------------------------------
(* Timers and the ticker thread *)

Lapse(when) == IF when = "future" THEN "past" ELSE when

\* time passes: a retry comes due, in the timer and in the event that announced it,
\* the limit a card hit resets, or the pause of a board is over
RetryComesDue(c) ==
  /\ "future" \in {timer[c], log[c].retryAt}
  /\ timer' = [timer EXCEPT ![c] = Lapse(@)]
  /\ log' = [log EXCEPT ![c].retryAt = Lapse(@)]
  /\ UNCHANGED <<card, run, queue, seated, retryOk, rtTries, pause, ticks, http,
                 bounds, stopped>>

LimitResets(c) ==
  /\ log[c].reset = "future"
  /\ log' = [log EXCEPT ![c].reset = "past"]
  /\ UNCHANGED <<card, run, sched, ticks, http, bounds, stopped>>

PauseLapses(b) ==
  /\ pause[b] = "future"
  /\ pause' = [pause EXCEPT ![b] = "past"]
  /\ UNCHANGED <<store, run, queue, seated, retryOk, rtTries, timer, ticks, http,
                 bounds, stopped>>

\* mutant of Fresh: a card already in the queue joins it again
NotSeated(b, S) == S \ seated

\* the cards of S that may join the queue of b: neither in it nor running
Fresh(b, S) == S \ (Elems(queue[b]) \cup seated)

Enqueue(b, S) ==
  /\ \E q \in Orderings(Fresh(b, S)) : queue' = [queue EXCEPT ![b] = @ \o q]
  /\ stopped' = [stopped EXCEPT ![b] = @ \ S]

Due(b) == {c \in CardsOf(b) : timer[c] = "past"}

\* process_due: pops due timers, lifts lapsed pauses, and ticks if it did either
ProcessDue(b) ==
  /\ Due(b) # {} \/ pause[b] = "past"
  /\ Enqueue(b, Due(b))
  /\ timer' = [c \in Cards |-> IF c \in Due(b) THEN "none" ELSE timer[c]]
  /\ pause' = [pause EXCEPT ![b] = IF @ = "past" THEN "none" ELSE @]
  /\ AskForTick(b)
  /\ UNCHANGED <<store, run, seated, retryOk, rtTries, http, bounds>>

-----------------------------------------------------------------------------
(* The operator, on the single request thread *)

Press(act) ==
  /\ act \in Acts /\ http = NoRequest /\ presses < MaxPresses
  /\ presses' = presses + 1
  /\ UNCHANGED <<limits, restarts>>
Request(act, c) == Press(act) /\ http' = [act |-> act, on |-> c, cards |-> {}]

\* start_all reads the board, waits for the tick lock, queues what it read, and ticks
StartAllRead(b) ==
  /\ Press("start all")
  /\ http' = [act |-> "start all", on |-> b, cards |-> {c \in CardsOf(b) : Queueable(c)}]
  /\ UNCHANGED <<store, run, sched, ticks, stopped>>

StartAll(b) ==
  /\ http.act = "start all" /\ http.on = b /\ tick[b].stage = "free"
  /\ Enqueue(b, http.cards)
  /\ http' = [act |-> "ticking", on |-> b, cards |-> {}]
  /\ tick' = [tick EXCEPT ![b].stage = "held"]
  /\ UNCHANGED <<store, run, seated, retryOk, rtTries, timer, pause, todo, wantTick, bounds>>

\* stop takes the tick lock, so no tick is half way through the queue it clears
ClearQueue(b) ==
  /\ Press("stop")
  /\ queue' = [queue EXCEPT ![b] = <<>>]
  /\ stopped' = [stopped EXCEPT ![b] = Elems(queue[b])]
  /\ UNCHANGED <<store, run, seated, retryOk, rtTries, timer, pause, ticks, http>>
Stop(b) == tick[b].stage = "free" /\ ClearQueue(b)

\* _handle_run, answer_card and fallback_run: the checks, and then the start
HandCheck(c) ==
  /\ MayStartByHand(c)
  /\ \E act \in {"run", "answer"} :
       Request(act, c) /\ (act = "answer" => Answerable(c))
  /\ UNCHANGED <<store, run, sched, ticks, stopped>>

HandStart(c) ==
  /\ http.act \in {"run", "answer"} /\ http.on = c
  /\ IF http.act = "answer"
     THEN card' = [card EXCEPT ![c].reason = "none", ![c].flag = FALSE]
     ELSE UNCHANGED card
  /\ PrepareRun(c) /\ StartRun(c, "hand")
  /\ http' = NoRequest
  /\ UNCHANGED <<log, ticks, bounds, stopped>>

\* _handle_decision: refused while the card runs; then git, the pull request, the row
DecideCheck(c) ==
  /\ ~Running(c)
  /\ \/ /\ Request("accept", c)
        /\ \/ card[c].status = "rejected"
           \/ card[c].status = "checking" /\ card[c].reason = "none"
     \/ Request("reject", c) /\ card[c].status \in {"doing", "checking", "accepted"}
  /\ UNCHANGED <<store, run, sched, ticks, stopped>>

Undecided(d) == card[d].status \notin NeverQueueable
Dependents(c) == {d \in Cards : c \in DependsOn[d] /\ Undecided(d)}

\* accept_card; reversing a rejection also releases what it had blocked
Accept(c) ==
  LET released == {d \in Dependents(c) :
                     /\ card[c].status = "rejected"
                     /\ card[d].reason = "DEPENDENCY_REJECTED"
                     /\ \A e \in DependsOn[d] \ {c} : card[e].status # "rejected"} IN
  card' = [d \in Cards |->
    IF d = c THEN [card[d] EXCEPT !.status = "accepted", !.flag = FALSE]
    ELSE IF d \in released THEN [card[d] EXCEPT !.reason = "none", !.flag = FALSE]
    ELSE card[d]]

Rejected == [status |-> "rejected", reason |-> "none", flag |-> FALSE]

\* mutant of Reject: what depends on the card hears nothing
RejectAlone(c) == card' = [card EXCEPT ![c] = Rejected]

Reject(c) ==
  card' = [d \in Cards |->
    IF d = c THEN Rejected
    ELSE IF d \in Dependents(c)
    THEN [card[d] EXCEPT !.reason = "DEPENDENCY_REJECTED", !.flag = TRUE]
    ELSE card[d]]

DecideWrite(c) ==
  /\ http.on = c
  /\ \/ http.act = "accept" /\ Accept(c)
     \/ http.act = "reject" /\ Reject(c)
  /\ http' = NoRequest
  /\ UNCHANGED <<log, run, sched, ticks, bounds, stopped>>

-----------------------------------------------------------------------------
(* The board process dies and is started again *)

\* mutant of Orphaned: it looks for the cards under review
OrphanedInReview(c) ==
  card[c].status = "checking" /\ card[c].reason = "none" /\ log[c].midRun

\* recover_orphaned_runs
Orphaned(c) ==
  /\ card[c].status = "doing" /\ card[c].reason = "none" /\ ~card[c].flag
  /\ log[c].midRun

\* requeue_lapsed: a retry its last process owed and never fired
LapsedRetry(c) ==
  /\ card[c].status \notin NeverQueueable
  /\ \/ card[c].reason = "USAGE_LIMIT" /\ log[c].reset # "future"
     \/ card[c].reason = "API_UNREACHABLE" /\ log[c].retryAt # "future"
        /\ log[c].apiTries < ApiMaxRetries

Restart ==
  LET lapsed(b) == {c \in CardsOf(b) : LapsedRetry(c)} IN
  /\ restarts < MaxRestarts
  /\ restarts' = restarts + 1
  /\ card' = [c \in Cards |-> IF Orphaned(c)
                              THEN [card[c] EXCEPT !.reason = "OTHER", !.flag = TRUE]
                              ELSE card[c]]
  /\ run' = [t \in Threads |-> Idle]
  /\ \E order \in [Boards -> UNION {Orderings(lapsed(b)) : b \in Boards}] :
       /\ \A b \in Boards : order[b] \in Orderings(lapsed(b))
       /\ queue' = order
  /\ seated' = {} /\ retryOk' = {}
  /\ timer' = [c \in Cards |-> "none"]
  /\ rtTries' = [c \in Cards |-> 0]
  /\ pause' = [b \in Boards |-> "none"]
  /\ tick' = [b \in Boards |-> FreeTick]
  /\ todo' = [b \in Boards |-> <<>>]
  /\ wantTick' = [b \in Boards |-> IF lapsed(b) = {} THEN 0 ELSE 1]
  /\ http' = NoRequest
  /\ stopped' = [b \in Boards |-> {}]
  /\ UNCHANGED <<log, presses, limits>>

-----------------------------------------------------------------------------
RunThread(t) ==
  \/ Begin(t) \/ Opening(t) \/ \E o \in Endings : RunEnd(t, o)
  \/ FinishPlain(t) \/ FinishUsageLimit(t) \/ FinishApiUnreachable(t)
  \/ FinishRuntime(t) \/ FinishMergeConflict(t)
  \/ RejoinQueue(t) \/ SetTimer(t) \/ Resume(t)

Tick(b) ==
  \/ TickBegin(b) \/ TickWriteback(b)
  \/ \E c \in CardsOf(b) : TickDrop(b, c) \/ TickWait(b, c) \/ TickStart(b, c)

Operator ==
  \/ \E b \in Boards : StartAllRead(b) \/ Stop(b)
  \/ \E c \in Cards : HandCheck(c) \/ DecideCheck(c)

Time ==
  \/ \E c \in Cards : RetryComesDue(c) \/ LimitResets(c)
  \/ \E b \in Boards : PauseLapses(b)

Next ==
  \/ \E t \in Threads : RunThread(t)
  \/ \E b \in Boards : Tick(b) \/ ProcessDue(b) \/ StartAll(b)
  \/ \E c \in Cards : HandStart(c) \/ DecideWrite(c)
  \/ Operator \/ Time \/ Restart

Spec == Init /\ [][Next]_vars

\* every thread the board started goes on; the operator and a crash may never come
Fairness ==
  /\ \A t \in Threads : WF_vars(RunThread(t))
  /\ \A b \in Boards : WF_vars(Tick(b)) /\ WF_vars(ProcessDue(b)) /\ WF_vars(StartAll(b))
  /\ \A c \in Cards : WF_vars(HandStart(c) \/ DecideWrite(c)) /\ WF_vars(RetryComesDue(c))
  /\ \A b \in Boards : WF_vars(PauseLapses(b))

FairSpec == Spec /\ Fairness

-----------------------------------------------------------------------------
(* Safety *)

\* RunRegistry.start, "ONE RUN PER CARD": however a tick, an answer and a hand start of one
\* card interleave, two threads never work on it
OneRunPerCard ==
  \A t, u \in Live : run[t].card = run[u].card => t = u

\* THE GLOBAL CAP as one board keeps it: its ticks never hold more than max_parallel seats,
\* whatever was started by hand or by other boards while a tick went on
BoardWithinGlobalCap == \A b \in Boards : Cardinality(TickRuns(b)) <= MaxParallel

\* LEASES as one board keeps them: two runs its ticks started never overlap
BoardLeasesDisjoint ==
  \A b \in Boards : \A t, u \in TickRuns(b) :
    t # u => <<run[t].card, run[u].card>> \notin Clash

\* _tick_locked, one reading of the seats: runs end, are started by hand or crash while a tick
\* goes through its queue, and still its snapshot accounts for all its board's ticks started
TickAccountsForRuns ==
  \A b \in Boards : tick[b].stage = "loop" =>
    /\ \A t \in TickRuns(b) : run[t].card \in tick[b].pending
    /\ Cardinality(TickRuns(b)) + tick[b].slots <= MaxParallel

\* the queue writers (start_all, process_due, a usage limit, a restart) may race with a tick
\* and with each other: still no card is queued twice, or on another board's queue
QueueIsASet ==
  \A b \in Boards :
    /\ Elems(queue[b]) \subseteq CardsOf(b)
    /\ Cardinality(Elems(queue[b])) = Len(queue[b])

\* _tick_lock, "a stop() in between came back to life": what a stop cleared is neither in
\* the queue nor in a tick's hands until something queues it again
StoppedStaysStopped ==
  \A b \in Boards : stopped[b] \cap (Elems(queue[b]) \cup Elems(todo[b])) = {}

\* where no start passes by the ticks, a card a tick started is seated (or about to be) until
\* its on_finish: the seats the next tick subtracts miss no run
SeatsCoverRuns ==
  \A b \in Boards : \A t \in TickRuns(b) :
    run[t].card \in seated \cup tick[b].started

\* test_a_board_limit_holds_a_board_back: a board's ticks never fill more than its own cap
BoardCapHonoured == \A b \in Boards : Cardinality(TickRuns(b)) <= BoardCap[b]

InInbox(c) == Undecided(c) /\ (card[c].reason # "none" \/ card[c].flag)

\* recover_orphaned_runs: a card never sits in doing with nobody working on it and out of
\* the operator's inbox
NoSilentDoing ==
  \A c \in Cards :
    card[c].status = "doing" => Running(c) \/ InInbox(c)

\* reject_card, "dependents sit on rejected work": an undecided card that rests on a rejected
\* one is before the operator, or a run of it is still on the way to its outcome
RejectionReachesDependents ==
  \A d \in Cards : \A c \in DependsOn[d] :
    card[c].status = "rejected" /\ Undecided(d) =>
      InInbox(d) \/ \E t \in Threads : run[t].card = d

-----------------------------------------------------------------------------
(* Liveness *)

\* RunRegistry.start, on_finish is there "to learn a slot freed up": a queued card does not
\* wait forever for a seat that runs keep giving back
QueuedCardLeaves ==
  \A c \in Cards :
    c \in Elems(queue[BoardOf[c]]) ~> c \notin Elems(queue[BoardOf[c]])

\* _handle_usage_limit, "the card itself has to rejoin the queue too": a card blocked on a
\* usage limit runs again once the limit is over
LimitedCardRunsAgain ==
  \A c \in Cards :
    card[c].reason = "USAGE_LIMIT" ~> card[c].reason # "USAGE_LIMIT"

-----------------------------------------------------------------------------
(* What the documentation says and the code does not keep *)

\* configuration.md, "cards run at once across the install": all boards together
GlobalCap == Cardinality({t \in Live : run[t].by = "tick"}) <= MaxParallel

\* scheduler.py, two cards whose leases could touch the same file "never run together",
\* whoever started them
LeasesDisjoint ==
  \A t, u \in Live : t # u => <<run[t].card, run[u].card>> \notin Clash

\* _handle_decision: no card is rejected, and its worktree destroyed, under a live run
NoRejectUnderRun ==
  [][\A c \in Cards :
       card[c].status # "rejected" /\ card'[c].status = "rejected" => ~Running(c)]_vars

\* recover_orphaned_runs "blocks every card a previous board process left mid-run"
MidRunIsRecovered ==
  \A c \in Cards :
    log[c].midRun /\ Undecided(c) => Running(c) \/ InInbox(c)

\* handled_by_board: the inbox leaves these cards out, for the board goes on with them itself
HandledByBoard(c) ==
  /\ Undecided(c)
  /\ \/ card[c].reason = "API_UNREACHABLE" /\ log[c].apiTries < ApiMaxRetries
     \/ card[c].reason = "MERGE_CONFLICT" /\ ~log[c].resumed

\* a timer, a place in the queue or in a tick's hands, or a thread not done with it
Scheduled(c) ==
  \/ timer[c] # "none"
  \/ c \in Elems(queue[BoardOf[c]]) \cup tick[BoardOf[c]].started
  \/ \E t \in Threads : run[t].card = c

\* handled_by_board, "instead of hiding forever": what the inbox hides is scheduled
HiddenIsScheduled == \A c \in Cards : HandledByBoard(c) => Scheduled(c)

\* attention.answer_card, "accept_card already un-blocks it automatically": once all a card
\* rests on is accepted, it is not blocked for a rejected dependency
ReleasedOnceAccepted ==
  \A d \in Cards :
    Undecided(d) /\ card[d].reason = "DEPENDENCY_REJECTED" /\ ~Running(d) =>
      \E c \in DependsOn[d] : card[c].status # "accepted"
=============================================================================
