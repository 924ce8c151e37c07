-------------------------- MODULE Scheduler_proofs --------------------------
(***************************************************************************)
(* Theorems about Scheduler, for every number of cards, boards, threads,   *)
(* presses and restarts: its state is well typed, two threads never work   *)
(* on one card, the ticks of one board keep the global cap and the lease   *)
(* rule among the runs they start themselves, no card is queued twice, a   *)
(* stop is not undone by the tick it interrupts, and no card is left where *)
(* neither a run nor the operator attends to it.                           *)
(***************************************************************************)
EXTENDS Scheduler, FiniteSetTheorems, SequenceTheorems, WellFoundedInduction, TLAPS

USE DEF store, sched, ticks, bounds

-----------------------------------------------------------------------------
(* What the threads and the seats of a typed state are *)

\* The live threads, and those one board's ticks started, are finitely many
LEMMA LiveFinite ==
  /\ IsFiniteSet(Live) /\ Cardinality(Live) \in Nat
  /\ \A b \in Boards : /\ IsFiniteSet(TickRuns(b)) /\ Cardinality(TickRuns(b)) \in Nat
                       /\ Cardinality(TickRuns(b)) <= Cardinality(Live)
<1>1. IsFiniteSet(Live)
  BY FS_Subset, ConstantsOK DEF Live, ConstantsOK
<1>2. \A b \in Boards : IsFiniteSet(TickRuns(b)) /\ Cardinality(TickRuns(b)) <= Cardinality(Live)
  BY <1>1, FS_Subset DEF TickRuns
<1> QED
  BY <1>1, <1>2, FS_CardinalityType

\* The seats a tick may fill are an integer, and no more than the global cap leaves
LEMMA SlotsBound ==
  ASSUME NEW b \in Boards
  PROVE  Slots(b) \in Int /\ Slots(b) <= MaxParallel - Cardinality(Live)
<1>1. CardsOf(b) \subseteq Cards
  BY DEF CardsOf
<1>2. IsFiniteSet(seated \cap CardsOf(b))
  BY <1>1, FS_Subset, ConstantsOK DEF ConstantsOK
<1>3. Cardinality(seated \cap CardsOf(b)) \in Nat
  BY <1>2, FS_CardinalityType
<1>4. MaxParallel \in Int /\ BoardCap[b] \in Int
  BY ConstantsOK DEF ConstantsOK
<1> QED
  BY <1>3, <1>4, LiveFinite DEF Slots, InstallSlots, SmallerOf

\* A thread in some stage is not idle, and works on a card of some board
LEMMA BusyThread ==
  ASSUME TypeOK, NEW t \in Threads, run[t].stage # "none"
  PROVE  /\ run[t] \in RunState
         /\ run[t].card \in Cards /\ BoardOf[run[t].card] \in Boards
         /\ run[t].result \in Ending \cup {"none"}
<1>1. run[t] \in RunState
  BY DEF TypeOK, Idle
<1> QED
  BY <1>1, ConstantsOK DEF RunState, ConstantsOK

-----------------------------------------------------------------------------
(* What an update of one field leaves typed *)

\* An update of some fields of the row of one card leaves the rows typed
LEMMA RowFields ==
  ASSUME NEW rows \in [Cards -> Row], NEW c \in Cards
  PROVE  /\ \A s \in Status : [rows EXCEPT ![c].status = s] \in [Cards -> Row]
         /\ \A f \in BOOLEAN : [rows EXCEPT ![c].flag = f] \in [Cards -> Row]
         /\ \A r \in Reason, f \in BOOLEAN :
              [rows EXCEPT ![c].reason = r, ![c].flag = f] \in [Cards -> Row]
         /\ \A row \in Row : [rows EXCEPT ![c] = row] \in [Cards -> Row]
BY DEF Row

\* An update of some fields of the events of one card leaves the log typed
LEMMA LogFields ==
  ASSUME NEW l \in [Cards -> LogRow], NEW c \in Cards
  PROVE  /\ \A m \in BOOLEAN : [l EXCEPT ![c].midRun = m] \in [Cards -> LogRow]
         /\ \A m \in BOOLEAN : [l EXCEPT ![c].resumed = m] \in [Cards -> LogRow]
         /\ \A w \in When : [l EXCEPT ![c].reset = w] \in [Cards -> LogRow]
         /\ \A w \in When : [l EXCEPT ![c].retryAt = w] \in [Cards -> LogRow]
         /\ \A m \in BOOLEAN, w \in When :
              [l EXCEPT ![c].midRun = m, ![c].reset = w] \in [Cards -> LogRow]
         /\ \A n \in Nat, w \in When :
              [l EXCEPT ![c].apiTries = n, ![c].retryAt = w] \in [Cards -> LogRow]
BY DEF LogRow

\* A busy thread that goes on to another stage stays typed, and so does one that stops
LEMMA RunFields ==
  ASSUME run \in [Threads -> RunState \cup {Idle}], NEW t \in Threads, run[t] \in RunState
  PROVE  /\ \A s \in LiveStages \cup TailStages :
              [run EXCEPT ![t].stage = s] \in [Threads -> RunState \cup {Idle}]
         /\ \A s \in LiveStages \cup TailStages, o \in Ending :
              [run EXCEPT ![t].stage = s, ![t].result = o] \in [Threads -> RunState \cup {Idle}]
         /\ [run EXCEPT ![t] = Idle] \in [Threads -> RunState \cup {Idle}]
<1>1. \A s \in LiveStages \cup TailStages : [run[t] EXCEPT !.stage = s] \in RunState
  BY DEF RunState
<1>2. \A s \in LiveStages \cup TailStages, o \in Ending :
        [run[t] EXCEPT !.stage = s, !.result = o] \in RunState
  BY DEF RunState
<1> QED
  BY <1>1, <1>2

-----------------------------------------------------------------------------
(* Types *)

\* The initial state is well typed
LEMMA InitType == Init => TypeOK
BY ConstantsOK DEF Init, TypeOK, ConstantsOK, Status, Reason, When, FreeTick, NoRequest, Idle,
                   Row, LogRow, RunState, TickState

\* The start of a run keeps the types
LEMMA BeginType ==
  ASSUME TypeOK, NEW t \in Threads, Begin(t)
  PROVE  TypeOK'
<1> DEFINE c == run[t].card
           doing == [status |-> "doing", reason |-> "none", flag |-> FALSE]
<1>0. /\ card \in [Cards -> Row] /\ log \in [Cards -> LogRow]
      /\ run \in [Threads -> RunState \cup {Idle}]
  BY DEF TypeOK
<1>1. run[t] \in RunState /\ c \in Cards
  BY BusyThread DEF Begin
<1>2. \/ card' = [card EXCEPT ![c].flag = TRUE]
      \/ card' = [card EXCEPT ![c] = doing]
  BY DEF Begin, Refuse
<1>3. doing \in Row
  BY DEF Row, Status, Reason
<1> HIDE DEF doing
<1>4. card' \in [Cards -> Row]
  <2> HIDE DEF c
  <2>1. CASE card' = [card EXCEPT ![c].flag = TRUE]
    BY <1>0, <1>1, <2>1, RowFields
  <2>2. CASE card' = [card EXCEPT ![c] = doing]
    BY <1>0, <1>1, <1>3, <2>2, RowFields
  <2> QED
    BY <1>2, <2>1, <2>2
<1>5. log' \in [Cards -> LogRow]
  <2>1. [log EXCEPT ![c].reset = "none"] \in [Cards -> LogRow]
    BY <1>0, <1>1, LogFields DEF When
  <2>2. PICK l \in {log, [log EXCEPT ![c].reset = "none"]}, m \in BOOLEAN :
          log' = [l EXCEPT ![c].midRun = m]
    BY DEF Begin
  <2>3. l \in [Cards -> LogRow]
    BY <1>0, <2>1
  <2> QED
    BY <1>1, <2>2, <2>3, LogFields
<1>6. run' \in [Threads -> RunState \cup {Idle}]
  <2>1. \/ run' = [run EXCEPT ![t].stage = "working"]
        \/ \E o \in Ending : run' = [run EXCEPT ![t].stage = "finished", ![t].result = o]
    BY DEF Begin, Refuse, Ending
  <2>2. CASE run' = [run EXCEPT ![t].stage = "working"]
    BY <1>0, <1>1, <2>2, RunFields DEF LiveStages
  <2>3. ASSUME NEW o \in Ending, run' = [run EXCEPT ![t].stage = "finished", ![t].result = o]
        PROVE  run' \in [Threads -> RunState \cup {Idle}]
    BY <1>0, <1>1, <2>3, RunFields DEF TailStages
  <2> QED
    BY <2>1, <2>2, <2>3
<1> QED
  BY <1>4, <1>5, <1>6 DEF TypeOK, Begin

\* The end of a run keeps the types
LEMMA RunEndType ==
  ASSUME TypeOK, NEW t \in Threads, NEW o \in Endings, RunEnd(t, o)
  PROVE  TypeOK'
<1> DEFINE c == run[t].card
<1>0. /\ card \in [Cards -> Row] /\ log \in [Cards -> LogRow]
      /\ run \in [Threads -> RunState \cup {Idle}]
  BY DEF TypeOK
<1>1. run[t] \in RunState /\ c \in Cards /\ o \in Ending
  BY BusyThread, ConstantsOK DEF RunEnd, ConstantsOK
<1>2. o # "runtime"
  BY DEF RunEnd
<1>3. Outcome(card[c], o) \in Row
  <2>1. card[c] \in Row
    BY <1>0, <1>1
  <2> QED
    BY <1>1, <1>2, <2>1 DEF Outcome, Row, Status, Reason, Ending
<1>4. card' \in [Cards -> Row]
  <2>1. card' = [card EXCEPT ![c] = Outcome(card[c], o)]
    BY DEF RunEnd
  <2> HIDE DEF c
  <2> QED
    BY <1>0, <1>1, <1>3, <2>1, RowFields
<1>5. PICK reset \in {"none", "future"} :
        log' = [log EXCEPT ![c].midRun = FALSE, ![c].reset = reset]
  BY DEF RunEnd
<1>6. log' \in [Cards -> LogRow]
  BY <1>0, <1>1, <1>5, LogFields DEF When
<1>7. run' \in [Threads -> RunState \cup {Idle}]
  BY <1>0, <1>1, RunFields DEF RunEnd, TailStages
<1> QED
  BY <1>4, <1>6, <1>7 DEF TypeOK, RunEnd

\* A step of a run keeps the types
LEMMA RunThreadType ==
  ASSUME TypeOK, NEW t \in Threads, RunThread(t)
  PROVE  TypeOK'
<1> DEFINE c == run[t].card
<1>0. /\ card \in [Cards -> Row] /\ log \in [Cards -> LogRow]
      /\ run \in [Threads -> RunState \cup {Idle}]
  BY DEF TypeOK
<1>1. CASE Opening(t)
  <2>1. run[t] \in RunState /\ c \in Cards
    BY <1>1, BusyThread DEF Opening
  <2> QED
    BY <1>1, <2>1, RowFields, RunFields DEF TypeOK, Opening, Status, LiveStages
<1>2. CASE FinishPlain(t)
  <2>1. run[t] \in RunState /\ c \in Cards /\ BoardOf[c] \in Boards
    BY <1>2, BusyThread DEF FinishPlain
  <2> QED
    BY <1>2, <2>1 DEF TypeOK, FinishPlain, GiveUpSeat, LeaveByTick, AskForTick
<1>3. CASE FinishUsageLimit(t)
  <2>1. run[t] \in RunState /\ c \in Cards
    BY <1>3, BusyThread DEF FinishUsageLimit
  <2>2. log' \in [Cards -> LogRow]
    BY <1>0, <1>3, <2>1, LogFields DEF FinishUsageLimit, When
  <2>3. run' \in [Threads -> RunState \cup {Idle}]
    BY <1>0, <1>3, <2>1, RunFields DEF FinishUsageLimit, Goto, TailStages
  <2> QED
    BY <1>3, <2>1, <2>2, <2>3 DEF TypeOK, FinishUsageLimit, GiveUpSeat, Goto
<1>4. CASE FinishApiUnreachable(t)
  <2>1. run[t] \in RunState /\ c \in Cards
    BY <1>4, BusyThread DEF FinishApiUnreachable
  <2>2. log' \in [Cards -> LogRow]
    <3>1. log[c].apiTries + 1 \in Nat
      BY <1>0, <2>1 DEF LogRow
    <3>2. \/ log' = log
          \/ log' = [log EXCEPT ![c].apiTries = log[c].apiTries + 1, ![c].retryAt = "future"]
      BY <1>4 DEF FinishApiUnreachable
    <3> DEFINE n == log[c].apiTries + 1
    <3> HIDE DEF c, n
    <3>3. [log EXCEPT ![c].apiTries = n, ![c].retryAt = "future"] \in [Cards -> LogRow]
      BY <1>0, <2>1, <3>1, LogFields DEF When, n
    <3> QED
      BY <1>0, <3>2, <3>3 DEF n
  <2>3. run' \in [Threads -> RunState \cup {Idle}]
    <3>1. \/ run' = [run EXCEPT ![t].stage = "handling"] \/ run' = [run EXCEPT ![t] = Idle]
      BY <1>4 DEF FinishApiUnreachable, Goto, Leave
    <3>2. CASE run' = [run EXCEPT ![t].stage = "handling"]
      BY <1>0, <2>1, <3>2, RunFields DEF TailStages
    <3>3. CASE run' = [run EXCEPT ![t] = Idle]
      BY <1>0, <2>1, <3>3, RunFields
    <3> QED
      BY <3>1, <3>2, <3>3
  <2>4. UNCHANGED ticks
    BY <1>4 DEF FinishApiUnreachable, Goto, Leave
  <2> QED
    BY <1>4, <2>1, <2>2, <2>3, <2>4 DEF TypeOK, FinishApiUnreachable, GiveUpSeat
<1>5. CASE FinishRuntime(t)
  <2>1. run[t] \in RunState /\ c \in Cards /\ BoardOf[c] \in Boards
    BY <1>5, BusyThread DEF FinishRuntime
  <2> QED
    BY <1>5, <2>1 DEF TypeOK, FinishRuntime, GiveUpSeat, Goto, LeaveByTick, AskForTick,
                      RunState, TailStages
<1>6. CASE FinishMergeConflict(t)
  <2>1. run[t] \in RunState /\ c \in Cards /\ BoardOf[c] \in Boards
    BY <1>6, BusyThread DEF FinishMergeConflict
  <2>2. log' \in [Cards -> LogRow]
    <3>1. log' = log \/ log' = [log EXCEPT ![c].resumed = TRUE]
      BY <1>6 DEF FinishMergeConflict
    <3> HIDE DEF c
    <3>2. [log EXCEPT ![c].resumed = TRUE] \in [Cards -> LogRow]
      BY <1>0, <2>1, LogFields
    <3> QED
      BY <1>0, <3>1, <3>2
  <2>3. \/ Goto(t, "resuming") \/ Leave(t) \/ LeaveByTick(t)
    BY <1>6 DEF FinishMergeConflict
  <2>4. run' \in [Threads -> RunState \cup {Idle}]
    <3>1. \/ run' = [run EXCEPT ![t].stage = "resuming"] \/ run' = [run EXCEPT ![t] = Idle]
      BY <2>3 DEF Goto, Leave, LeaveByTick
    <3>2. CASE run' = [run EXCEPT ![t].stage = "resuming"]
      BY <1>0, <2>1, <3>2, RunFields DEF TailStages
    <3>3. CASE run' = [run EXCEPT ![t] = Idle]
      BY <1>0, <2>1, <3>3, RunFields
    <3> QED
      BY <3>1, <3>2, <3>3
  <2>5. tick' = tick /\ wantTick' \in [Boards -> Nat]
    BY <2>1, <2>3 DEF TypeOK, Goto, Leave, LeaveByTick, AskForTick
  <2> QED
    BY <1>6, <2>1, <2>2, <2>4, <2>5 DEF TypeOK, FinishMergeConflict, GiveUpSeat
<1>7. CASE RejoinQueue(t)
  <2>1. run[t] \in RunState /\ c \in Cards /\ BoardOf[c] \in Boards
    BY <1>7, BusyThread DEF RejoinQueue
  <2>2. pause' \in [Boards -> When]
    BY <1>7, <2>1 DEF TypeOK, RejoinQueue, When
  <2>3. run' \in [Threads -> RunState \cup {Idle}]
    BY <1>0, <1>7, <2>1, RunFields DEF RejoinQueue, LeaveByTick
  <2>5. wantTick' \in [Boards -> Nat]
    <3>1. wantTick \in [Boards -> Nat] /\ wantTick' = [wantTick EXCEPT ![BoardOf[c]] = @ + 1]
      BY <1>7 DEF TypeOK, RejoinQueue, LeaveByTick, AskForTick
    <3> QED
      BY <2>1, <3>1
  <2>4. /\ UNCHANGED <<store, tick, http, bounds>> /\ UNCHANGED <<seated, retryOk, rtTries, timer>>
    BY <1>7 DEF RejoinQueue, LeaveByTick, AskForTick
  <2> QED
    BY <2>2, <2>3, <2>4, <2>5 DEF TypeOK
<1>8. CASE SetTimer(t)
  <2>1. run[t] \in RunState /\ c \in Cards /\ BoardOf[c] \in Boards
    BY <1>8, BusyThread DEF SetTimer
  <2> QED
    BY <1>8, <2>1 DEF TypeOK, SetTimer, LeaveByTick, AskForTick, When
<1>9. CASE Resume(t)
  <2>1. run[t] \in RunState /\ c \in Cards /\ BoardOf[c] \in Boards
    BY <1>9, BusyThread DEF Resume
  <2>2. card' \in [Cards -> Row]
    BY <1>9, <2>1, RowFields DEF TypeOK, Resume, Reason
  <2>3. run' \in [Threads -> RunState \cup {Idle}]
    BY <1>9, <2>1 DEF TypeOK, Resume, RunState, LiveStages
  <2> QED
    BY <1>9, <2>1, <2>2, <2>3 DEF TypeOK, Resume, PrepareRun, AskForTick, When
<1> QED
  BY <1>1, <1>2, <1>3, <1>4, <1>5, <1>6, <1>7, <1>8, <1>9, BeginType, RunEndType DEF RunThread

\* What a tick keeps of its snapshot stays typed as the loop goes on
LEMMA TickFields ==
  ASSUME NEW ts \in [Boards -> TickState], NEW b \in Boards
  PROVE  /\ [ts EXCEPT ![b].stage = "held"] \in [Boards -> TickState]
         /\ \A S \in SUBSET Cards : [ts EXCEPT ![b].drop = S] \in [Boards -> TickState]
         /\ \A P, S \in SUBSET Cards, n \in Int :
              [ts EXCEPT ![b].pending = P, ![b].started = S, ![b].slots = n]
                \in [Boards -> TickState]
<1>1. [ts[b] EXCEPT !.stage = "held"] \in TickState
  BY DEF TickState
<1>2. \A S \in SUBSET Cards : [ts[b] EXCEPT !.drop = S] \in TickState
  BY DEF TickState
<1>3. \A P, S \in SUBSET Cards, n \in Int :
        [ts[b] EXCEPT !.pending = P, !.started = S, !.slots = n] \in TickState
  BY DEF TickState
<1> QED
  BY <1>1, <1>2, <1>3

\* A thread that asks for a tick leaves the count of the waiting typed
LEMMA AskType ==
  ASSUME wantTick \in [Boards -> Nat], NEW b \in Boards, AskForTick(b)
  PROVE  wantTick' \in [Boards -> Nat] /\ tick' = tick
BY DEF AskForTick

\* RunRegistry.start and prepare_run keep the types
LEMMA StartRunType ==
  ASSUME TypeOK, NEW c \in Cards, NEW by \in {"tick", "hand"}, StartRun(c, by)
  PROVE  run' \in [Threads -> RunState \cup {Idle}]
<1> DEFINE new == [card |-> c, stage |-> "registered", by |-> by, result |-> "none"]
<1>1. run \in [Threads -> RunState \cup {Idle}]
  BY DEF TypeOK
<1>2. new \in RunState
  BY DEF RunState, LiveStages
<1>3. run' = run \/ \E t \in Threads : run' = [run EXCEPT ![t] = new]
  BY DEF StartRun, TakeThread
<1>4. ASSUME NEW t \in Threads, run' = [run EXCEPT ![t] = new]
      PROVE  run' \in [Threads -> RunState \cup {Idle}]
  <2> HIDE DEF new
  <2> QED
    BY <1>1, <1>2, <1>4
<1> QED
  BY <1>1, <1>3, <1>4

\* and so does prepare_run
LEMMA PrepareRunType ==
  ASSUME TypeOK, NEW c \in Cards, PrepareRun(c)
  PROVE  /\ timer' \in [Cards -> When] /\ retryOk' \subseteq Cards
         /\ UNCHANGED <<seated, rtTries, pause>>
BY DEF TypeOK, PrepareRun, When

\* A step of a tick keeps the types
LEMMA TickType ==
  ASSUME TypeOK, NEW b \in Boards, Tick(b)
  PROVE  TypeOK'
<1>0. /\ tick \in [Boards -> TickState] /\ wantTick \in [Boards -> Nat]
      /\ run \in [Threads -> RunState \cup {Idle}]
      /\ CardsOf(b) \subseteq Cards
  BY DEF TypeOK, CardsOf
<1>1. CASE TickBegin(b)
  <2> DEFINE snapshot == [stage |-> "loop", seats |-> seated \cap CardsOf(b),
                          retryOk |-> retryOk \cap CardsOf(b), slots |-> Slots(b),
                          pending |-> (seated \cap CardsOf(b)) \cup ActiveCards,
                          started |-> {}, drop |-> {}]
  <2>1. ActiveCards \subseteq Cards
    BY BusyThread, <1>0 DEF ActiveCards, Live, LiveStages, RunState, Idle
  <2>2. snapshot \in TickState
    BY <1>0, <2>1, SlotsBound DEF TickState
  <2>3. tick' = [tick EXCEPT ![b] = snapshot]
    BY <1>1 DEF TickBegin
  <2>4. tick' \in [Boards -> TickState]
    <3> HIDE DEF snapshot
    <3> QED
      BY <1>0, <2>2, <2>3
  <2>5. wantTick' \in [Boards -> Nat]
    BY <1>0, <1>1 DEF TickBegin
  <2> QED
    BY <1>1, <2>4, <2>5 DEF TypeOK, TickBegin
<1>2. CASE TickWriteback(b)
  <2>1. FreeTick \in TickState /\ tick[b].started \subseteq Cards
    BY <1>0 DEF FreeTick, TickState
  <2>2. tick' \in [Boards -> TickState]
    BY <1>0, <1>2, <2>1 DEF TickWriteback
  <2>3. seated' \subseteq Cards /\ retryOk' \subseteq Cards
    BY <1>2, <2>1 DEF TypeOK, TickWriteback, SeatStarted
  <2>4. http' \in HttpState \cup {NoRequest}
    BY <1>2 DEF TypeOK, TickWriteback
  <2> QED
    BY <1>2, <2>2, <2>3, <2>4 DEF TypeOK, TickWriteback
<1>3. ASSUME NEW c \in CardsOf(b), TickDrop(b, c)
      PROVE  TypeOK'
  <2>1. tick[b].drop \cup {c} \in SUBSET Cards
    BY <1>0 DEF TickState
  <2>2. tick' \in [Boards -> TickState]
    BY <1>0, <1>3, <2>1, TickFields DEF TickDrop
  <2> QED
    BY <1>3, <2>2 DEF TypeOK, TickDrop
<1>4. ASSUME NEW c \in CardsOf(b), TickWait(b, c)
      PROVE  TypeOK'
  BY <1>4 DEF TypeOK, TickWait
<1>5. ASSUME NEW c \in CardsOf(b), TickStart(b, c)
      PROVE  TypeOK'
  <2>1. /\ tick[b].pending \cup {c} \in SUBSET Cards /\ tick[b].started \cup {c} \in SUBSET Cards
        /\ tick[b].slots - 1 \in Int
    BY <1>0 DEF TickState
  <2>2. tick' \in [Boards -> TickState]
    BY <1>0, <1>5, <2>1, TickFields DEF TickStart, Grant
  <2>3. run' \in [Threads -> RunState \cup {Idle}]
    BY <1>0, <1>5, StartRunType DEF TickStart
  <2> QED
    BY <1>5, <2>2, <2>3 DEF TypeOK, TickStart
<1> QED
  BY <1>1, <1>2, <1>3, <1>4, <1>5 DEF Tick

\* A step of the clock, the ticker, the operator or a restart keeps the types
LEMMA OtherType ==
  ASSUME TypeOK,
         \/ \E b \in Boards : ProcessDue(b) \/ StartAll(b)
         \/ \E c \in Cards : HandStart(c) \/ DecideWrite(c)
         \/ Operator \/ Time \/ Restart
  PROVE  TypeOK'
<1>0. /\ card \in [Cards -> Row] /\ log \in [Cards -> LogRow]
      /\ tick \in [Boards -> TickState] /\ wantTick \in [Boards -> Nat]
      /\ timer \in [Cards -> When] /\ pause \in [Boards -> When]
  BY DEF TypeOK
<1>1. ASSUME NEW b \in Boards, ProcessDue(b) PROVE TypeOK'
  <2>1. timer' \in [Cards -> When] /\ pause' \in [Boards -> When]
    BY <1>0, <1>1 DEF ProcessDue, When
  <2>2. wantTick' \in [Boards -> Nat] /\ tick' = tick
    BY <1>0, <1>1, AskType DEF ProcessDue
  <2> QED
    BY <1>1, <2>1, <2>2 DEF TypeOK, ProcessDue
<1>2. ASSUME NEW b \in Boards, StartAll(b) PROVE TypeOK'
  <2>1. tick' \in [Boards -> TickState]
    BY <1>0, <1>2, TickFields DEF StartAll
  <2>2. http' \in HttpState
    BY <1>2 DEF StartAll, HttpState
  <2> QED
    BY <1>2, <2>1, <2>2 DEF TypeOK, StartAll
<1>3. ASSUME NEW c \in Cards, HandStart(c) PROVE TypeOK'
  <2>1. card' \in [Cards -> Row]
    <3>1. card' = card \/ card' = [card EXCEPT ![c].reason = "none", ![c].flag = FALSE]
      BY <1>3 DEF HandStart
    <3>2. [card EXCEPT ![c].reason = "none", ![c].flag = FALSE] \in [Cards -> Row]
      BY <1>0, RowFields DEF Reason
    <3> QED
      BY <1>0, <3>1, <3>2
  <2>2. run' \in [Threads -> RunState \cup {Idle}]
    BY <1>3, StartRunType DEF HandStart
  <2>3. /\ timer' \in [Cards -> When] /\ retryOk' \subseteq Cards
        /\ UNCHANGED <<seated, rtTries, pause>>
    BY <1>3, PrepareRunType DEF HandStart
  <2> QED
    BY <1>3, <2>1, <2>2, <2>3 DEF TypeOK, HandStart
<1>4. ASSUME NEW c \in Cards, DecideWrite(c) PROVE TypeOK'
  <2>1. card' \in [Cards -> Row]
    <3>1. \A row \in Row : /\ [row EXCEPT !.status = "accepted", !.flag = FALSE] \in Row
                           /\ [row EXCEPT !.reason = "none", !.flag = FALSE] \in Row
                           /\ [row EXCEPT !.reason = "DEPENDENCY_REJECTED", !.flag = TRUE] \in Row
      BY DEF Row, Status, Reason
    <3>2. Rejected \in Row
      BY DEF Rejected, Row, Status, Reason
    <3>3. CASE Accept(c)
      BY <1>0, <3>1, <3>3 DEF Accept
    <3>4. CASE Reject(c)
      BY <1>0, <3>1, <3>2, <3>4 DEF Reject, Rejected
    <3> QED
      BY <1>4, <3>3, <3>4 DEF DecideWrite
  <2> QED
    BY <1>4, <2>1 DEF TypeOK, DecideWrite
<1>5. CASE Operator
  <2>1. ASSUME NEW b \in Boards, StartAllRead(b) PROVE TypeOK'
    <3> DEFINE S == {c \in CardsOf(b) : Queueable(c)}
    <3>1. S \in SUBSET Cards
      BY DEF CardsOf
    <3>2. http' \in HttpState
      <4>1. http' = [act |-> "start all", on |-> b, cards |-> S]
        BY <2>1 DEF StartAllRead
      <4> HIDE DEF S
      <4> QED
        BY <3>1, <4>1 DEF HttpState, Act
    <3>3. presses' = presses + 1 /\ UNCHANGED <<store, run, sched, ticks, limits, restarts>>
      BY <2>1 DEF StartAllRead, Press
    <3> QED
      BY <3>2, <3>3 DEF TypeOK
  <2>2. ASSUME NEW b \in Boards, Stop(b) PROVE TypeOK'
    BY <2>2 DEF TypeOK, Stop, ClearQueue, Press
  <2>3. ASSUME NEW c \in Cards, NEW act \in Act, Request(act, c), UNCHANGED <<store, run, sched,
               ticks>>
        PROVE  TypeOK'
    <3>1. http' \in HttpState
      BY <2>3 DEF Request, HttpState
    <3> QED
      BY <2>3, <3>1 DEF TypeOK, Request, Press
  <2>4. ASSUME NEW c \in Cards, HandCheck(c) \/ DecideCheck(c) PROVE TypeOK'
    BY <2>3, <2>4 DEF HandCheck, DecideCheck, Act
  <2> QED
    BY <1>5, <2>1, <2>2, <2>4 DEF Operator
<1>6. CASE Time
  <2>1. \A w \in When : Lapse(w) \in When
    BY DEF Lapse, When
  <2>2. ASSUME NEW c \in Cards, RetryComesDue(c) PROVE TypeOK'
    <3>1. timer' \in [Cards -> When]
      BY <1>0, <2>1, <2>2 DEF RetryComesDue
    <3>2. log[c].retryAt \in When
      BY <1>0 DEF LogRow
    <3>3. log' \in [Cards -> LogRow]
      BY <1>0, <2>1, <2>2, <3>2, LogFields DEF RetryComesDue
    <3> QED
      BY <2>2, <3>1, <3>3 DEF TypeOK, RetryComesDue
  <2>3. ASSUME NEW c \in Cards, LimitResets(c) PROVE TypeOK'
    <3>1. log' \in [Cards -> LogRow]
      BY <1>0, <2>3, LogFields DEF LimitResets, When
    <3> QED
      BY <2>3, <3>1 DEF TypeOK, LimitResets
  <2>4. ASSUME NEW b \in Boards, PauseLapses(b) PROVE TypeOK'
    BY <2>4 DEF TypeOK, PauseLapses, When
  <2> QED
    BY <1>6, <2>2, <2>3, <2>4 DEF Time
<1>7. CASE Restart
  <2>1. card' \in [Cards -> Row]
    <3>1. \A c \in Cards : [card[c] EXCEPT !.reason = "OTHER", !.flag = TRUE] \in Row
      BY <1>0 DEF Row, Reason
    <3> QED
      BY <1>0, <1>7, <3>1 DEF Restart
  <2>2. FreeTick \in TickState
    BY DEF FreeTick, TickState
  <2>3. tick' \in [Boards -> TickState] /\ run' \in [Threads -> RunState \cup {Idle}]
    BY <1>7, <2>2 DEF Restart
  <2>4. wantTick' \in [Boards -> Nat] /\ rtTries' \in [Cards -> Nat]
    <3> DEFINE lapsed(b) == {c \in CardsOf(b) : LapsedRetry(c)}
    <3>1. /\ wantTick' = [b \in Boards |-> IF lapsed(b) = {} THEN 0 ELSE 1]
          /\ rtTries' = [c \in Cards |-> 0]
      BY <1>7 DEF Restart
    <3> HIDE DEF lapsed
    <3> QED
      BY <3>1
  <2>5. timer' \in [Cards -> When] /\ pause' \in [Boards -> When]
    BY <1>7 DEF Restart, When
  <2>6. seated' = {} /\ retryOk' = {} /\ restarts' = restarts + 1
    BY <1>7 DEF Restart
  <2>7. http' = NoRequest /\ UNCHANGED <<log, presses, limits>>
    BY <1>7 DEF Restart
  <2> QED
    BY <2>1, <2>3, <2>4, <2>5, <2>6, <2>7 DEF TypeOK
<1> QED
  BY <1>1, <1>2, <1>3, <1>4, <1>5, <1>6, <1>7

\* Whatever the operator, the runs, the ticks and the crashes do, the state is well typed
THEOREM TypeCorrect == Spec => []TypeOK
<1>1. TypeOK /\ [Next]_vars => TypeOK'
  <2> SUFFICES ASSUME TypeOK, [Next]_vars PROVE TypeOK'
    OBVIOUS
  <2>1. CASE UNCHANGED vars
    BY <2>1 DEF vars, TypeOK
  <2>2. CASE \E t \in Threads : RunThread(t)
    BY <2>2, RunThreadType
  <2>3. CASE \E b \in Boards : Tick(b)
    BY <2>3, TickType
  <2> QED
    BY <2>1, <2>2, <2>3, OtherType DEF Next
<1> QED
  BY InitType, <1>1, PTL DEF Spec

-----------------------------------------------------------------------------
(* Who starts a run *)

\* The runs of the next state are those of this one, but for the threads of S
Kept(S) ==
  \A t \in Live' \ S : /\ t \in Live
                       /\ run'[t].card = run[t].card /\ run'[t].by = run[t].by

\* One thread takes on a card nobody works on, by hand or in a tick of the card's board
Started(c, u) ==
  /\ c \in Cards /\ ~Running(c)
  /\ run'[u].card = c /\ Kept({u})
  /\ \/ run'[u].by = "hand" /\ UNCHANGED tick
     \/ run'[u].by = "tick" /\ TickStart(BoardOf[c], c)

\* RunRegistry.start takes on a thread for a card nobody works on, or changes nothing
LEMMA StartRunKeeps ==
  ASSUME TypeOK, NEW c \in Cards, NEW by \in {"tick", "hand"}, StartRun(c, by)
  PROVE  \/ Kept({})
         \/ ~Running(c) /\ \E u \in Threads : run'[u].card = c /\ run'[u].by = by /\ Kept({u})
<1>1. CASE Running(c)
  BY <1>1 DEF StartRun, TakeThread, Kept, Live
<1>2. CASE ~Running(c)
  <2>1. PICK u \in Threads : run' = [run EXCEPT ![u] = [card |-> c, stage |-> "registered",
                                                        by |-> by, result |-> "none"]]
    BY <1>2 DEF StartRun, TakeThread
  <2>2. run'[u].card = c /\ run'[u].by = by /\ Kept({u})
    BY <2>1 DEF TypeOK, Kept, Live
  <2> QED
    BY <1>2, <2>2
<1> QED
  BY <1>1, <1>2

\* A step of a run starts no run, but for a resume by hand
LEMMA RunThreadKeeps ==
  ASSUME TypeOK, NEW t \in Threads, RunThread(t)
  PROVE  Kept({}) \/ \E c, u : u \in Threads /\ Started(c, u)
<1>0. run \in [Threads -> RunState \cup {Idle}]
  BY DEF TypeOK
<1>1. CASE Resume(t)
  <2> DEFINE c == run[t].card
             left == [run EXCEPT ![t] = Idle]
  <2>1. c \in Cards /\ UNCHANGED tick
    BY <1>1, BusyThread DEF Resume, AskForTick
  <2>2. CASE Running(c)
    <3>1. run' = left
      BY <1>1, <2>2 DEF Resume
    <3> QED
      BY <1>0, <3>1 DEF Kept, Live, LiveStages, Idle
  <2>3. CASE ~Running(c)
    <3>1. PICK u \in Threads :
            /\ left[u] = Idle
            /\ run' = [left EXCEPT ![u] = [card |-> c, stage |-> "registered",
                                           by |-> "hand", result |-> "none"]]
      BY <1>1, <2>3 DEF Resume
    <3>2. run'[u].card = c /\ run'[u].by = "hand"
      BY <1>0, <3>1
    <3>3. Kept({u})
      BY <1>0, <3>1 DEF Kept, Live, LiveStages, Idle
    <3> QED
      BY <2>1, <2>3, <3>2, <3>3 DEF Started
  <2> QED
    BY <2>2, <2>3
<1>2. ASSUME ~Resume(t) PROVE Kept({})
  <2>0. run[t] \in RunState \/ run[t] = Idle
    BY <1>0
  <2>1. ASSUME NEW s, run' = [run EXCEPT ![t].stage = s],
               run[t].stage \in LiveStages \/ s \in TailStages
        PROVE  Kept({})
    BY <1>0, <2>0, <2>1 DEF Kept, Live, LiveStages, TailStages, RunState, Idle
  <2>2. ASSUME NEW s, NEW o, run' = [run EXCEPT ![t].stage = s, ![t].result = o],
               run[t].stage \in LiveStages
        PROVE  Kept({})
    BY <1>0, <2>0, <2>2 DEF Kept, Live, LiveStages, RunState, Idle
  <2>3. ASSUME run' = [run EXCEPT ![t] = Idle]
        PROVE  Kept({})
    BY <1>0, <2>3 DEF Kept, Live, LiveStages, Idle
  <2>4. CASE Begin(t)
    BY <2>1, <2>2, <2>4 DEF Begin, Refuse, LiveStages
  <2>5. CASE Opening(t)
    BY <2>1, <2>5 DEF Opening, LiveStages
  <2>6. ASSUME NEW o \in Endings, RunEnd(t, o) PROVE Kept({})
    BY <2>2, <2>6 DEF RunEnd, LiveStages
  <2>7. CASE FinishPlain(t) \/ RejoinQueue(t) \/ SetTimer(t)
    BY <2>3, <2>7 DEF FinishPlain, RejoinQueue, SetTimer, LeaveByTick
  <2>8. CASE FinishUsageLimit(t) \/ FinishApiUnreachable(t) \/ FinishRuntime(t)
             \/ FinishMergeConflict(t)
    BY <2>1, <2>3, <2>8 DEF FinishUsageLimit, FinishApiUnreachable, FinishRuntime,
         FinishMergeConflict, Goto, Leave, LeaveByTick, TailStages
  <2> QED
    BY <1>2, <2>4, <2>5, <2>6, <2>7, <2>8 DEF RunThread
<1> QED
  BY <1>1, <1>2

\* No other step takes on a thread but a tick's start and the operator's
LEMMA StepKeeps ==
  ASSUME TypeOK, [Next]_vars
  PROVE  Kept({}) \/ \E c, u : u \in Threads /\ Started(c, u)
<1>1. ASSUME UNCHANGED run PROVE Kept({})
  BY <1>1 DEF Kept, Live
<1>2. CASE UNCHANGED vars
  BY <1>1, <1>2 DEF vars
<1>3. ASSUME NEW b \in Boards, NEW c \in CardsOf(b), TickStart(b, c)
      PROVE  Kept({}) \/ \E u \in Threads : Started(c, u)
  <2>1. c \in Cards /\ BoardOf[c] = b /\ StartRun(c, "tick")
    BY <1>3 DEF CardsOf, TickStart
  <2> QED
    BY <1>3, <2>1, StartRunKeeps DEF Started
<1>4. ASSUME NEW b \in Boards, Tick(b)
      PROVE  Kept({}) \/ \E c, u : u \in Threads /\ Started(c, u)
  <2>1. CASE TickBegin(b) \/ TickWriteback(b)
    BY <1>1, <2>1 DEF TickBegin, TickWriteback
  <2>2. ASSUME NEW c \in CardsOf(b), TickDrop(b, c) \/ TickWait(b, c) PROVE Kept({})
    BY <1>1, <2>2 DEF TickDrop, TickWait
  <2> QED
    BY <1>3, <1>4, <2>1, <2>2 DEF Tick
<1>5. ASSUME NEW c \in Cards, HandStart(c)
      PROVE  Kept({}) \/ \E u \in Threads : Started(c, u)
  <2>1. StartRun(c, "hand") /\ UNCHANGED tick
    BY <1>5 DEF HandStart
  <2>2. \/ Kept({})
        \/ ~Running(c) /\ \E u \in Threads : run'[u].card = c /\ run'[u].by = "hand" /\ Kept({u})
    BY <2>1, StartRunKeeps
  <2> QED
    BY <2>1, <2>2 DEF Started
<1>6. ASSUME NEW b \in Boards, ProcessDue(b) \/ StartAll(b) PROVE UNCHANGED run
  BY <1>6 DEF ProcessDue, StartAll
<1>7. ASSUME NEW c \in Cards, DecideWrite(c) PROVE UNCHANGED run
  BY <1>7 DEF DecideWrite
<1>8. CASE Operator
  BY <1>1, <1>8 DEF Operator, StartAllRead, Stop, ClearQueue, HandCheck, DecideCheck
<1>9. CASE Time
  BY <1>1, <1>9 DEF Time, RetryComesDue, LimitResets, PauseLapses
<1>10. CASE Restart
  BY <1>10 DEF Restart, Kept, Live, LiveStages, Idle
<1> QED
  BY <1>1, <1>2, <1>4, <1>5, <1>6, <1>7, <1>8, <1>9, <1>10, RunThreadKeeps DEF Next

-----------------------------------------------------------------------------
(* One run per card *)

\* RunRegistry.start: however ticks, hand starts and resumes of one card interleave, two
\* threads never work on it
THEOREM OneRunPerCardHolds == Spec => []OneRunPerCard
<1>1. Init => OneRunPerCard
  BY DEF Init, OneRunPerCard, Live, LiveStages, Idle
<1>2. TypeOK /\ OneRunPerCard /\ [Next]_vars => OneRunPerCard'
  <2> SUFFICES ASSUME TypeOK, OneRunPerCard, [Next]_vars PROVE OneRunPerCard'
    OBVIOUS
  <2>1. CASE Kept({})
    BY <2>1 DEF OneRunPerCard, Kept
  <2>2. ASSUME NEW c, NEW u \in Threads, Started(c, u) PROVE OneRunPerCard'
    BY <2>2 DEF OneRunPerCard, Started, Kept, Running, ActiveCards
  <2> QED
    BY <2>1, <2>2, StepKeeps
<1> QED
  BY <1>1, <1>2, TypeCorrect, PTL DEF Spec

-----------------------------------------------------------------------------
(* The ticks of one board: the global cap and the lease rule *)

\* What the ticks rest on: a run a tick starts keeps its place in the tick's snapshot
TickInv == BoardWithinGlobalCap /\ BoardLeasesDisjoint /\ TickAccountsForRuns

\* A step that starts no run by a tick of b leaves it no run it did not have
LEMMA TickRunsKept ==
  ASSUME TypeOK, [Next]_vars, NEW b \in Boards,
         ~\E c \in CardsOf(b) : TickStart(b, c)
  PROVE  \A t \in TickRuns(b)' : t \in TickRuns(b) /\ run'[t].card = run[t].card
<1>1. CASE Kept({})
  BY <1>1 DEF Kept, TickRuns
<1>2. ASSUME NEW c, NEW u \in Threads, Started(c, u)
      PROVE  \A t \in TickRuns(b)' : t \in TickRuns(b) /\ run'[t].card = run[t].card
  BY <1>2 DEF Started, Kept, TickRuns, CardsOf
<1> QED
  BY <1>1, <1>2, StepKeeps

\* and its runs stay within the cap and off each other's leases
LEMMA KeptTickRuns ==
  ASSUME TypeOK, TickInv, [Next]_vars, NEW b \in Boards,
         ~\E c \in CardsOf(b) : TickStart(b, c)
  PROVE  /\ Cardinality(TickRuns(b)') <= Cardinality(TickRuns(b))
         /\ Cardinality(TickRuns(b)') <= MaxParallel /\ Cardinality(TickRuns(b)') \in Nat
         /\ \A t, u \in TickRuns(b)' : t # u => <<run'[t].card, run'[u].card>> \notin Clash
<1>1. TickRuns(b)' \subseteq TickRuns(b)
  BY TickRunsKept
<1>2. /\ Cardinality(TickRuns(b)') <= Cardinality(TickRuns(b))
      /\ Cardinality(TickRuns(b)') \in Nat /\ Cardinality(TickRuns(b)) \in Nat
  BY <1>1, LiveFinite, FS_Subset, FS_CardinalityType
<1>3. Cardinality(TickRuns(b)) <= MaxParallel /\ MaxParallel \in Nat
  BY ConstantsOK DEF TickInv, BoardWithinGlobalCap, ConstantsOK
<1>4. \A t, u \in TickRuns(b)' : t # u => <<run'[t].card, run'[u].card>> \notin Clash
  BY TickRunsKept DEF TickInv, BoardLeasesDisjoint
<1> QED
  BY <1>2, <1>3, <1>4

\* A start by a tick takes one of the seats it has left, for a card that clashes with none
LEMMA TickStartInv ==
  ASSUME TypeOK, TickInv, NEW b \in Boards, NEW c \in CardsOf(b), TickStart(b, c)
  PROVE  /\ Cardinality(TickRuns(b)') <= MaxParallel
         /\ \A t, u \in TickRuns(b)' : t # u => <<run'[t].card, run'[u].card>> \notin Clash
         /\ \A t \in TickRuns(b)' : run'[t].card \in tick'[b].pending
         /\ Cardinality(TickRuns(b)') + tick'[b].slots <= MaxParallel
<1> DEFINE n == Cardinality(TickRuns(b))
           m == Cardinality(TickRuns(b)')
<1>1. /\ tick[b].stage = "loop" /\ tick[b] \in TickState /\ tick \in [Boards -> TickState]
      /\ c \in Cards /\ BoardOf[c] = b
  BY DEF TickStart, Next_, TypeOK, CardsOf
<1>2. /\ tick'[b].pending = tick[b].pending \cup {c} /\ tick'[b].slots = tick[b].slots - 1
  BY <1>1 DEF TickStart, Grant, TickState
<1>3. /\ tick[b].slots \in Int /\ tick[b].slots > 0
      /\ \A d \in tick[b].pending : <<c, d>> \notin Clash
  BY <1>1 DEF TickStart, MustWait, HeldBack, LeaseWait, TickState
<1>4. /\ n \in Nat /\ n + tick[b].slots <= MaxParallel /\ MaxParallel \in Nat
      /\ \A t \in TickRuns(b) : run[t].card \in tick[b].pending
  BY <1>1, LiveFinite, ConstantsOK DEF TickInv, TickAccountsForRuns, ConstantsOK
<1>5. CASE Kept({})
  <2>1. TickRuns(b)' \subseteq TickRuns(b) /\ \A t \in TickRuns(b)' : run'[t].card = run[t].card
    BY <1>5 DEF Kept, TickRuns
  <2>2. m <= n /\ m \in Nat
    BY <2>1, LiveFinite, FS_Subset, FS_CardinalityType
  <2>3. m <= MaxParallel /\ m + tick'[b].slots <= MaxParallel
    BY <2>2, <1>2, <1>3, <1>4
  <2>4. \A t \in TickRuns(b)' : run'[t].card \in tick'[b].pending
    BY <2>1, <1>2, <1>4
  <2>5. \A t, u \in TickRuns(b)' : t # u => <<run'[t].card, run'[u].card>> \notin Clash
    BY <2>1 DEF TickInv, BoardLeasesDisjoint
  <2> QED
    BY <2>3, <2>4, <2>5
<1>6. ASSUME NEW v \in Threads, run'[v].card = c, Kept({v})
      PROVE  /\ m <= MaxParallel /\ m + tick'[b].slots <= MaxParallel
             /\ \A t, u \in TickRuns(b)' : t # u => <<run'[t].card, run'[u].card>> \notin Clash
             /\ \A t \in TickRuns(b)' : run'[t].card \in tick'[b].pending
  <2>1. /\ TickRuns(b)' \subseteq TickRuns(b) \cup {v}
        /\ \A t \in TickRuns(b)' \ {v} : t \in TickRuns(b) /\ run'[t].card = run[t].card
    BY <1>6 DEF Kept, TickRuns
  <2>2. m <= n + 1 /\ m \in Nat
    <3>1. /\ IsFiniteSet(TickRuns(b) \cup {v})
          /\ Cardinality(TickRuns(b) \cup {v}) \in {n, n + 1}
      BY LiveFinite, FS_AddElement
    <3>2. m <= Cardinality(TickRuns(b) \cup {v}) /\ m \in Nat
      BY <2>1, <3>1, FS_Subset, FS_CardinalityType
    <3> QED
      BY <1>4, <3>1, <3>2
  <2>3. m <= MaxParallel /\ m + tick'[b].slots <= MaxParallel
    BY <2>2, <1>2, <1>3, <1>4
  <2>4. \A t \in TickRuns(b)' : run'[t].card \in tick'[b].pending
    BY <2>1, <1>2, <1>4, <1>6
  <2>5. \A t \in TickRuns(b)' \ {v} : /\ <<c, run'[t].card>> \notin Clash
                                     /\ <<run'[t].card, c>> \notin Clash
    <3>1. \A d \in tick[b].pending : <<c, d>> \notin Clash /\ <<d, c>> \notin Clash
      BY <1>3, ConstantsOK DEF ConstantsOK
    <3> QED
      BY <2>1, <1>4, <3>1
  <2>6. \A t, u \in TickRuns(b)' : t # u => <<run'[t].card, run'[u].card>> \notin Clash
    <3>1. \A t, u \in TickRuns(b) : t # u => <<run[t].card, run[u].card>> \notin Clash
      BY DEF TickInv, BoardLeasesDisjoint
    <3>2. ASSUME NEW t \in TickRuns(b)', NEW u \in TickRuns(b)', t # u
          PROVE  <<run'[t].card, run'[u].card>> \notin Clash
      <4>1. CASE t # v /\ u # v
        BY <2>1, <3>1, <3>2, <4>1
      <4>2. CASE t = v \/ u = v
        BY <2>5, <1>6, <3>2, <4>2
      <4> QED
        BY <4>1, <4>2
    <3> QED
      BY <3>2
  <2> QED
    BY <2>3, <2>4, <2>6
<1>7. StartRun(c, "tick")
  BY DEF TickStart
<1> QED
  BY <1>1, <1>5, <1>6, <1>7, StartRunKeeps

\* A step keeps what the tick of b accounts for
LEMMA SnapshotInv ==
  ASSUME TypeOK, TickInv, [Next]_vars, NEW b \in Boards,
         ~\E c \in CardsOf(b) : TickStart(b, c), tick'[b].stage = "loop"
  PROVE  /\ \A t \in TickRuns(b)' : run'[t].card \in tick'[b].pending
         /\ Cardinality(TickRuns(b)') + tick'[b].slots <= MaxParallel
<1> DEFINE n == Cardinality(TickRuns(b))
           m == Cardinality(TickRuns(b)')
<1>1. /\ m <= n /\ m \in Nat /\ n \in Nat /\ MaxParallel \in Nat
      /\ \A t \in TickRuns(b)' : t \in TickRuns(b) /\ run'[t].card = run[t].card
  BY KeptTickRuns, TickRunsKept, LiveFinite, ConstantsOK DEF ConstantsOK
<1>2. tick \in [Boards -> TickState]
  BY DEF TypeOK
<1>3. CASE TickBegin(b)
  <2>1. /\ tick'[b].slots = Slots(b)
        /\ tick'[b].pending = (seated \cap CardsOf(b)) \cup ActiveCards
    BY <1>2, <1>3 DEF TickBegin
  <2>2. \A t \in TickRuns(b) : run[t].card \in ActiveCards
    BY DEF TickRuns, ActiveCards
  <2>3. n + Slots(b) <= MaxParallel
    BY <1>1, SlotsBound, LiveFinite
  <2>4. Slots(b) \in Int
    BY SlotsBound
  <2> QED
    BY <1>1, <2>1, <2>2, <2>3, <2>4
<1>4. CASE /\ tick[b].stage = "loop"
           /\ tick'[b].slots = tick[b].slots /\ tick'[b].pending = tick[b].pending
  <2>1. n + tick[b].slots <= MaxParallel /\ \A t \in TickRuns(b) : run[t].card \in tick[b].pending
    BY <1>4 DEF TickInv, TickAccountsForRuns
  <2>2. tick[b].slots \in Int
    BY <1>2 DEF TickState
  <2> QED
    BY <1>1, <1>4, <2>1, <2>2
<1>5. ASSUME tick'[b] = tick[b]
      PROVE  /\ tick[b].stage = "loop"
             /\ tick'[b].slots = tick[b].slots /\ tick'[b].pending = tick[b].pending
  BY <1>5
<1>6. CASE UNCHANGED vars
  BY <1>4, <1>5, <1>6 DEF vars
<1>7. CASE \E t \in Threads : RunThread(t)
  <2>1. tick' = tick
    BY <1>7 DEF RunThread, Begin, Opening, RunEnd, FinishPlain, FinishUsageLimit,
         FinishApiUnreachable, FinishRuntime, FinishMergeConflict, RejoinQueue, SetTimer, Resume,
         Goto, Leave, LeaveByTick, AskForTick
  <2> QED
    BY <1>4, <1>5, <2>1
<1>8. ASSUME NEW d \in Boards, Tick(d), ~TickBegin(b)
      PROVE  /\ tick[b].stage = "loop"
             /\ tick'[b].slots = tick[b].slots /\ tick'[b].pending = tick[b].pending
  <2>1. CASE d # b
    <3>1. tick'[b] = tick[b]
      BY <1>2, <1>8, <2>1 DEF Tick, TickBegin, TickWriteback, TickDrop, TickWait, TickStart, Grant
    <3> QED
      BY <1>5, <3>1
  <2>2. CASE d = b
    <3>1. CASE TickWriteback(b)
      BY <1>2, <3>1 DEF TickWriteback, FreeTick
    <3>2. ASSUME NEW c \in CardsOf(b), TickDrop(b, c)
          PROVE  /\ tick[b].stage = "loop"
                 /\ tick'[b].slots = tick[b].slots /\ tick'[b].pending = tick[b].pending
      BY <1>2, <3>2 DEF TickDrop, Next_, TickState
    <3>3. ASSUME NEW c \in CardsOf(b), TickWait(b, c) PROVE tick'[b] = tick[b]
      BY <3>3 DEF TickWait
    <3> QED
      BY <1>5, <1>8, <2>2, <3>1, <3>2, <3>3 DEF Tick
  <2> QED
    BY <2>1, <2>2
<1>9. ASSUME NEW d \in Boards, ProcessDue(d) \/ StartAll(d) PROVE tick'[b] = tick[b]
  <2>1. CASE ProcessDue(d)
    BY <2>1 DEF ProcessDue, AskForTick
  <2>2. CASE StartAll(d)
    BY <1>2, <2>2 DEF StartAll, TickState
  <2> QED
    BY <1>9, <2>1, <2>2
<1>10. CASE \E c \in Cards : HandStart(c) \/ DecideWrite(c)
  <2>1. tick' = tick
    BY <1>10 DEF HandStart, DecideWrite
  <2> QED
    BY <1>4, <1>5, <2>1
<1>11. CASE Operator
  <2>1. tick' = tick
    BY <1>11 DEF Operator, StartAllRead, Stop, ClearQueue, HandCheck, DecideCheck
  <2> QED
    BY <1>4, <1>5, <2>1
<1>12. CASE Time
  <2>1. tick' = tick
    BY <1>12 DEF Time, RetryComesDue, LimitResets, PauseLapses
  <2> QED
    BY <1>4, <1>5, <2>1
<1>13. CASE Restart
  BY <1>13 DEF Restart, FreeTick
<1> QED
  BY <1>3, <1>4, <1>5, <1>6, <1>7, <1>8, <1>9, <1>10, <1>11, <1>12, <1>13 DEF Next

\* However runs end, are started by hand or crash while a tick goes on, the ticks of one board
\* keep the global cap and the lease rule among the runs they start
THEOREM TickInvHolds ==
  Spec => [](BoardWithinGlobalCap /\ BoardLeasesDisjoint /\ TickAccountsForRuns)
<1>1. Init => TickInv
  <2> SUFFICES ASSUME Init PROVE TickInv
    OBVIOUS
  <2>1. /\ \A b \in Boards : TickRuns(b) = {} /\ tick[b].stage # "loop"
        /\ MaxParallel \in Nat
    BY ConstantsOK DEF Init, TickRuns, Live, LiveStages, Idle, FreeTick, ConstantsOK
  <2>2. Cardinality({}) = 0
    BY FS_EmptySet
  <2> QED
    BY <2>1, <2>2 DEF TickInv, BoardWithinGlobalCap, BoardLeasesDisjoint, TickAccountsForRuns
<1>2. TypeOK /\ TickInv /\ [Next]_vars => TickInv'
  <2> SUFFICES ASSUME TypeOK, TickInv, [Next]_vars, NEW b \in Boards
               PROVE  /\ Cardinality(TickRuns(b)') <= MaxParallel
                      /\ \A t, u \in TickRuns(b)' :
                           t # u => <<run'[t].card, run'[u].card>> \notin Clash
                      /\ tick'[b].stage = "loop" =>
                           /\ \A t \in TickRuns(b)' : run'[t].card \in tick'[b].pending
                           /\ Cardinality(TickRuns(b)') + tick'[b].slots <= MaxParallel
    BY DEF TickInv, BoardWithinGlobalCap, BoardLeasesDisjoint, TickAccountsForRuns
  <2>1. CASE \E c \in CardsOf(b) : TickStart(b, c)
    BY <2>1, TickStartInv
  <2>2. CASE ~\E c \in CardsOf(b) : TickStart(b, c)
    BY <2>2, KeptTickRuns, SnapshotInv
  <2> QED
    BY <2>1, <2>2
<1>3. TickInv => BoardWithinGlobalCap /\ BoardLeasesDisjoint /\ TickAccountsForRuns
  BY DEF TickInv
<1> QED
  BY <1>1, <1>2, <1>3, TypeCorrect, PTL DEF Spec

\* _tick_locked, THE GLOBAL CAP: the ticks of one board never hold more than max_parallel seats
THEOREM BoardCapHolds == Spec => []BoardWithinGlobalCap
BY TickInvHolds, PTL

\* _tick_locked, LEASES: no two runs the ticks of one board started may touch the same file
THEOREM BoardLeasesHold == Spec => []BoardLeasesDisjoint
BY TickInvHolds, PTL

-----------------------------------------------------------------------------
(* Induction, and what is left of a sequence *)

\* A set that holds 0 and the successor of each of its members holds every natural number: of the
\* intervals up to a number outside, finite sets all, the least would be up to another one.
LEMMA Induction ==
  ASSUME NEW T, 0 \in T, \A n \in Nat : n \in T => n + 1 \in T
  PROVE  Nat \subseteq T
<1> DEFINE U == {1..x : x \in Nat \ T}
<1>0. SUFFICES ASSUME Nat \ T # {}
               PROVE  FALSE
  OBVIOUS
<1>1. \A x \in Nat : 1..x \in FiniteSubsetsOf(Nat)
  <2> SUFFICES ASSUME NEW x \in Nat
               PROVE  1..x \in FiniteSubsetsOf(Nat)
    OBVIOUS
  <2>1. x \in Int /\ 1..x \in SUBSET Nat
    OBVIOUS
  <2> QED
    BY <2>1, FS_Interval DEF FiniteSubsetsOf
<1>2. PICK u \in U : \A v \in U : ~(<<v, u>> \in StrictSubsetOrdering(Nat))
  <2>1. U \subseteq FiniteSubsetsOf(Nat) /\ U # {}
    BY <1>0, <1>1
  <2> QED
    BY <2>1, FS_StrictSubsetOrderingWellFounded, WFMin
<1>3. PICK x \in Nat \ T : u = 1..x
  BY <1>2
<1>4. x # 0 /\ x - 1 \in Nat /\ x - 1 \notin T
  BY <1>3
<1>5. 1..(x - 1) \in U
  BY <1>4
<1>6. 1..(x - 1) \in SUBSET Nat /\ 1..x \in SUBSET Nat /\ 1..(x - 1) \subseteq 1..x
  BY <1>3, <1>4
<1>7. x \in 1..x /\ x \notin 1..(x - 1)
  BY <1>3, <1>4
<1>8. 1..(x - 1) # 1..x
  BY <1>7
<1>9. <<1..(x - 1), 1..x>> \in StrictSubsetOrdering(Nat)
  BY <1>6, <1>8 DEF StrictSubsetOrdering
<1> QED
  BY <1>2, <1>3, <1>5, <1>9

\* Without is built up along the sequence.
LEMMA WithoutIs ==
  ASSUME NEW C, NEW q \in Seq(C), NEW S
  PROVE  \E f \in [0..Len(q) -> Seq(C)] :
           /\ f[0] = <<>> /\ Without(q, S) = f[Len(q)]
           /\ \A i \in 1..Len(q) : f[i] = IF q[i] \in S THEN f[i - 1] ELSE Append(f[i - 1], q[i])
<1>0. Len(q) \in Nat
  OBVIOUS
<1> DEFINE Step(f, i) == f[i] = IF q[i] \in S THEN f[i - 1] ELSE Append(f[i - 1], q[i])
           Upto(n, f) == f \in [0..n -> Seq(C)] /\ f[0] = <<>> /\ \A i \in 1..n : Step(f, i)
           T == {n \in Nat : n <= Len(q) => \E f : Upto(n, f)}
<1>1. 0 \in T
  <2>1. Upto(0, [i \in 0..0 |-> <<>>])
    BY EmptySeq
  <2> QED
    BY <2>1
<1>2. ASSUME NEW n \in Nat, n \in T
      PROVE  n + 1 \in T
  <2> HIDE DEF Upto
  <2> SUFFICES ASSUME n + 1 <= Len(q)
               PROVE  \E f : Upto(n + 1, f)
    OBVIOUS
  <2>1. Len(q) \in Nat /\ n <= Len(q)
    BY <1>0
  <2> USE DEF T, Upto
  <2>2. PICK f : Upto(n, f)
    BY <1>2, <2>1
  <2> DEFINE g == [i \in 0..(n + 1) |-> IF i <= n THEN f[i]
                                        ELSE IF q[n + 1] \in S THEN f[n] ELSE Append(f[n],
                                        q[n + 1])]
  <2>3. q[n + 1] \in C /\ f[n] \in Seq(C)
    BY <2>2
  <2>4. (IF q[n + 1] \in S THEN f[n] ELSE Append(f[n], q[n + 1])) \in Seq(C)
    BY <2>3, AppendProperties
  <2>5. g \in [0..(n + 1) -> Seq(C)]
    BY <2>2, <2>4
  <2>6. g[0] = <<>>
    BY <2>2
  <2>7. ASSUME NEW i \in 1..(n + 1)
        PROVE  Step(g, i)
    <3>1. CASE i = n + 1
      <4>1. g[i] = IF q[n + 1] \in S THEN f[n] ELSE Append(f[n], q[n + 1])
        BY <3>1
      <4>2. g[i - 1] = f[n]
        BY <3>1
      <4> QED
        BY <3>1, <4>1, <4>2
    <3>2. CASE i # n + 1
      <4>1. i \in 1..n /\ g[i] = f[i] /\ g[i - 1] = f[i - 1]
        BY <3>2
      <4>2. Step(f, i)
        BY <2>2, <4>1
      <4> QED
        BY <4>1, <4>2
    <3> QED
      BY <3>1, <3>2
  <2> HIDE DEF g
  <2> QED
    BY <2>5, <2>6, <2>7
<1>3. Len(q) \in T
  <2> HIDE DEF T
  <2> QED
    BY <1>1, <1>2, Induction
<1>4. PICK f : Upto(Len(q), f)
  BY <1>3
<1> DEFINE Rec(g) == g = [i \in 0..Len(q) |-> IF i = 0 THEN <<>>
                               ELSE IF q[i] \in S THEN g[i - 1]
                               ELSE Append(g[i - 1], q[i])]
           kept == CHOOSE g : Rec(g)
<1>5. Rec(f)
  <2>1. \A i \in 0..Len(q) : f[i] = IF i = 0 THEN <<>> ELSE IF q[i] \in S THEN f[i - 1]
                                    ELSE Append(f[i - 1], q[i])
    <3> SUFFICES ASSUME NEW i \in 0..Len(q), i # 0
                 PROVE  Step(f, i)
      BY <1>4
    <3>1. i \in 1..Len(q)
      OBVIOUS
    <3> QED
      BY <1>4, <3>1
  <2>2. f = [i \in 0..Len(q) |-> f[i]]
    BY <1>4
  <2> QED
    BY <2>1, <2>2
<1>6. Rec(kept)
  <2> HIDE DEF Rec
  <2> QED BY <1>5
<1>7. Without(q, S) = kept[Len(q)]
  BY DEF Without
<1>8. \A n \in 0..Len(q) : kept[n] = f[n]
  <2> DEFINE E == {n \in Nat : n <= Len(q) => kept[n] = f[n]}
  <2> HIDE DEF kept
  <2>1. 0 \in E
    <3>1. 0 \in 0..Len(q)
      OBVIOUS
    <3> QED
      BY <1>5, <1>6, <3>1
  <2>2. ASSUME NEW n \in Nat, n \in E
        PROVE  n + 1 \in E
    <3> SUFFICES ASSUME n + 1 <= Len(q)
                 PROVE  kept[n + 1] = f[n + 1]
      OBVIOUS
    <3>1. n + 1 \in 0..Len(q) /\ n + 1 # 0 /\ (n + 1) - 1 = n /\ n <= Len(q)
      OBVIOUS
    <3>2. kept[n] = f[n]
      BY <2>2, <3>1
    <3>3. /\ kept[n + 1] = IF q[n + 1] \in S THEN kept[n] ELSE Append(kept[n], q[n + 1])
          /\ f[n + 1] = IF q[n + 1] \in S THEN f[n] ELSE Append(f[n], q[n + 1])
      BY <1>5, <1>6, <3>1
    <3> QED
      BY <3>2, <3>3
  <2>3. Nat \subseteq E
    <3> HIDE DEF E
    <3> QED
      BY <2>1, <2>2, Induction
  <2> QED
    BY <2>3
<1> HIDE DEF kept
<1> QED
  BY <1>4, <1>7, <1>8

\* No element twice
Distinct(q) == \A i, j \in DOMAIN q : q[i] = q[j] => i = j

\* What is left is of what there was, nothing of it is in the set, and it is still without doubles.
LEMMA WithoutLeaves ==
  ASSUME NEW C, NEW q \in Seq(C), NEW S
  PROVE  /\ Without(q, S) \in Seq(C) /\ Elems(Without(q, S)) \subseteq Elems(q) \ S
         /\ Distinct(q) => Distinct(Without(q, S))
<1>0. Len(q) \in Nat /\ DOMAIN q = 1..Len(q)
  OBVIOUS
<1>1. PICK f \in [0..Len(q) -> Seq(C)] :
        /\ f[0] = <<>> /\ Without(q, S) = f[Len(q)]
        /\ \A i \in 1..Len(q) : f[i] = IF q[i] \in S THEN f[i - 1] ELSE Append(f[i - 1], q[i])
  BY WithoutIs
<1> DEFINE Upto(n) == {q[i] : i \in 1..n}
           Good(n) == /\ Elems(f[n]) \subseteq Upto(n) \ S
                      /\ Distinct(q) => Distinct(f[n])
           T == {n \in Nat : n <= Len(q) => Good(n)}
<1>2. 0 \in T
  BY <1>1 DEF Elems, Distinct
<1>3. ASSUME NEW n \in Nat, n \in T
      PROVE  n + 1 \in T
  <2> HIDE DEF Good
  <2> SUFFICES ASSUME n + 1 <= Len(q)
               PROVE  Good(n + 1)
    OBVIOUS
  <2>1. /\ n + 1 \in 1..Len(q) /\ n \in 0..Len(q) /\ (n + 1) - 1 = n /\ n <= Len(q)
        /\ n + 1 \in DOMAIN q
    BY <1>0
  <2>2. Good(n) /\ f[n] \in Seq(C) /\ q[n + 1] \in C
    BY <1>0, <1>1, <1>3, <2>1
  <2>3. Upto(n) \subseteq Upto(n + 1) /\ q[n + 1] \in Upto(n + 1)
    OBVIOUS
  <2>4. CASE q[n + 1] \in S
    <3>1. f[n + 1] = f[n]
      BY <1>1, <2>1, <2>4
    <3> QED
      BY <2>2, <2>3, <3>1 DEF Good
  <2>5. CASE q[n + 1] \notin S
    <3>1. f[n + 1] = Append(f[n], q[n + 1])
      BY <1>1, <2>1, <2>5
    <3> DEFINE r == f[n]
               x == q[n + 1]
    <3>2. /\ r \in Seq(C) /\ Len(r) \in Nat /\ DOMAIN r = 1..Len(r)
          /\ DOMAIN Append(r, x) = 1..(Len(r) + 1) /\ Append(r, x)[Len(r) + 1] = x
          /\ \A i \in 1..Len(r) : Append(r, x)[i] = r[i]
      BY <2>2, AppendProperties
    <3>3. Elems(r) \subseteq Upto(n) \ S
      BY <2>2 DEF Good
    <3> HIDE DEF r, x, Upto
    <3>4. Elems(Append(r, x)) \subseteq Elems(r) \cup {x}
      BY <3>2 DEF Elems
    <3>5. Elems(f[n + 1]) \subseteq Upto(n + 1) \ S
      BY <2>3, <2>5, <3>1, <3>3, <3>4 DEF r, x
    <3>6. ASSUME Distinct(q)
          PROVE  Distinct(Append(r, x))
      <4>1. Distinct(r)
        BY <2>2, <3>6 DEF Good, r
      <4>2. x \notin Upto(n)
        BY <1>0, <2>1, <3>6 DEF Distinct, x, Upto
      <4>3. \A i \in 1..Len(r) : r[i] # x
        BY <3>2, <3>3, <4>2 DEF Elems
      <4> QED
        BY <3>2, <4>1, <4>3 DEF Distinct
    <3> QED
      BY <3>1, <3>5, <3>6 DEF Good, r, x
  <2> QED
    BY <2>4, <2>5
<1>4. Len(q) \in T
  <2> HIDE DEF T
  <2> QED
    BY <1>0, <1>2, <1>3, Induction
<1>5. Upto(Len(q)) = Elems(q)
  BY <1>0 DEF Elems
<1> QED
  BY <1>0, <1>1, <1>4, <1>5

\* Joining two sequences with no element in common and no doubles makes none
LEMMA Concatenated ==
  ASSUME NEW C, NEW q \in Seq(C), NEW r \in Seq(C)
  PROVE  /\ q \o r \in Seq(C) /\ Elems(q \o r) \subseteq Elems(q) \cup Elems(r)
         /\ Distinct(q) /\ Distinct(r) /\ Elems(q) \cap Elems(r) = {} => Distinct(q \o r)
<1> DEFINE n == Len(q)
           m == Len(r)
           s == q \o r
<1>1. n \in Nat /\ m \in Nat /\ DOMAIN q = 1..n /\ DOMAIN r = 1..m
  OBVIOUS
<1>2. s \in Seq(C) /\ DOMAIN s = 1..(n + m)
  BY ConcatProperties
<1>3. \A i \in DOMAIN s : \/ i \in 1..n /\ s[i] = q[i]
                          \/ i \notin 1..n /\ i - n \in 1..m /\ s[i] = r[i - n]
  BY <1>1, <1>2, ConcatProperties
<1> HIDE DEF s
<1>4. Elems(s) \subseteq Elems(q) \cup Elems(r)
  BY <1>1, <1>3 DEF Elems
<1>5. ASSUME Distinct(q), Distinct(r), Elems(q) \cap Elems(r) = {}
      PROVE  Distinct(s)
  <2>1. SUFFICES ASSUME NEW i \in DOMAIN s, NEW j \in DOMAIN s, s[i] = s[j]
                 PROVE  i = j
    BY DEF Distinct
  <2>2. CASE i \in 1..n /\ s[i] = q[i] /\ j \in 1..n /\ s[j] = q[j]
    BY <1>1, <1>5, <2>1, <2>2 DEF Distinct
  <2>3. CASE i - n \in 1..m /\ s[i] = r[i - n] /\ j - n \in 1..m /\ s[j] = r[j - n]
    <3>1. i - n = j - n
      BY <1>1, <1>5, <2>1, <2>3 DEF Distinct
    <3> QED
      BY <1>1, <1>2, <3>1
  <2>4. ASSUME NEW x \in 1..n, NEW y \in 1..m, q[x] = r[y]
        PROVE  FALSE
    BY <1>1, <1>5, <2>4 DEF Elems
  <2> QED
    BY <1>3, <2>1, <2>2, <2>3, <2>4
<1> QED
  BY <1>2, <1>4, <1>5 DEF s

\* An ordering of cards is a sequence of them, each of them in it once
LEMMA OrderingIs ==
  ASSUME NEW S \in SUBSET Cards, NEW q \in Orderings(S)
  PROVE  q \in Seq(Cards) /\ Elems(q) = S /\ Distinct(q)
<1> DEFINE n == Cardinality(S)
<1>1. IsFiniteSet(S) /\ n \in Nat
  BY ConstantsOK, FS_Subset, FS_CardinalityType DEF ConstantsOK
<1>2. q \in [1..n -> S] /\ Elems(q) = S
  BY DEF Orderings
<1>3. q \in Seq(Cards)
  <2>1. q \in [1..n -> Cards]
    BY <1>2
  <2> HIDE DEF n
  <2> QED
    BY <1>1, <2>1, SeqDef
<1>4. q \in Surjection(1..n, S)
  BY <1>2 DEF Surjection, Elems
<1>5. IsFiniteSet(1..n) /\ Cardinality(1..n) = n
  <2>1. n \in Int /\ 0 <= n
    BY <1>1
  <2> HIDE DEF n
  <2>2. Cardinality(1..n) = IF 1 > n THEN 0 ELSE n - 1 + 1
    BY <2>1, FS_Interval
  <2> QED
    BY <2>1, <2>2, FS_Interval
<1>6. q \in Injection(1..n, S)
  BY <1>4, <1>5, FS_Surjection
<1>7. Distinct(q)
  BY <1>2, <1>6 DEF Injection, IsInjective, Distinct
<1> QED
  BY <1>2, <1>3, <1>7

\* A sequence without doubles holds as many elements as it is long
LEMMA DistinctCounts ==
  ASSUME NEW C, NEW q \in Seq(C), Distinct(q)
  PROVE  Cardinality(Elems(q)) = Len(q)
<1>1. Len(q) \in Nat /\ DOMAIN q = 1..Len(q)
  OBVIOUS
<1>2. q \in Bijection(1..Len(q), Elems(q))
  <2>1. q \in [1..Len(q) -> Elems(q)]
    BY <1>1 DEF Elems
  <2>2. q \in Injection(1..Len(q), Elems(q))
    BY <1>1, <2>1 DEF Injection, IsInjective, Distinct
  <2>3. q \in Surjection(1..Len(q), Elems(q))
    BY <1>1, <2>1 DEF Surjection, Elems
  <2> QED
    BY <2>2, <2>3 DEF Bijection
<1>3. ExistsBijection(1..Len(q), Elems(q))
  BY <1>2 DEF ExistsBijection
<1> QED
  BY <1>1, <1>3, FS_CountingElements

\* The rest of a sequence is of its elements
LEMMA TailIs ==
  ASSUME NEW C, NEW q \in Seq(C), q # <<>>
  PROVE  Tail(q) \in Seq(C) /\ Elems(Tail(q)) \subseteq Elems(q)
<1>1. /\ Tail(q) \in Seq(C) /\ Len(Tail(q)) = Len(q) - 1 /\ Len(q) \in Nat
      /\ \A i \in 1..Len(Tail(q)) : Tail(q)[i] = q[i + 1]
  BY HeadTailProperties
<1>2. DOMAIN q = 1..Len(q) /\ DOMAIN Tail(q) = 1..Len(Tail(q))
  BY <1>1
<1>3. \A i \in 1..Len(Tail(q)) : i + 1 \in 1..Len(q)
  BY <1>1
<1> QED
  BY <1>1, <1>2, <1>3 DEF Elems

-----------------------------------------------------------------------------
(* The queues *)

\* What the queue of a board rests on: the tick that goes through it holds cards of it, no stop
\* comes in between, and start_all queues what it read of its own board
BoardQueue(b) ==
  /\ Elems(queue[b]) \subseteq CardsOf(b) /\ Distinct(queue[b])
  /\ tick[b].stage # "loop" => todo[b] = <<>>
  /\ stopped[b] \cap (Elems(queue[b]) \cup Elems(todo[b])) = {}

QueueInv ==
  /\ queue \in [Boards -> Seq(Cards)] /\ todo \in [Boards -> Seq(Cards)]
  /\ stopped \in [Boards -> SUBSET Cards]
  /\ \A b \in Boards : BoardQueue(b)
  /\ http.act = "start all" => http.on \in Boards /\ http.cards \subseteq CardsOf(http.on)

\* A step that queues nothing may take cards out of the queues
Shrinks ==
  /\ queue' \in [Boards -> Seq(Cards)]
  /\ \A b \in Boards : Elems(queue'[b]) \subseteq Elems(queue[b]) /\ Distinct(queue'[b])
  /\ UNCHANGED stopped

\* A step that queues cards of S for b says so to whoever stopped them
Joins(b, S) ==
  /\ queue' \in [Boards -> Seq(Cards)]
  /\ \A d \in Boards \ {b} : queue'[d] = queue[d]
  /\ Elems(queue'[b]) \subseteq Elems(queue[b]) \cup S /\ Distinct(queue'[b])
  /\ stopped' = [stopped EXCEPT ![b] = @ \ S]

\* The ticks go on through what they took of the queues
Reads ==
  /\ todo' \in [Boards -> Seq(Cards)]
  /\ \A b \in Boards : /\ Elems(todo'[b]) \subseteq Elems(todo[b]) \cup Elems(queue[b])
                       /\ tick'[b].stage # "loop" => todo'[b] = <<>>

\* The request thread read cards of the board it is about
Asks == http'.act = "start all" => http'.on \in Boards /\ http'.cards \subseteq CardsOf(http'.on)

\* Such steps keep the queues
LEMMA ShrinksKeeps ==
  ASSUME QueueInv, Shrinks, Reads, Asks
  PROVE  QueueInv'
<1>1. ASSUME NEW b \in Boards
      PROVE  BoardQueue(b)'
  BY <1>1 DEF QueueInv, BoardQueue, Shrinks, Reads, CardsOf
<1> QED
  BY <1>1 DEF QueueInv, Shrinks, Reads, Asks, CardsOf

\* and so do those that queue cards of a board nobody holds the snapshot of
LEMMA JoinsKeeps ==
  ASSUME QueueInv, NEW b \in Boards, NEW S \in SUBSET CardsOf(b), Joins(b, S), UNCHANGED todo,
         \A d \in Boards : tick'[d].stage = "loop" \/ tick[d].stage # "loop", Asks
  PROVE  QueueInv'
<1>1. stopped \in [Boards -> SUBSET Cards]
  BY DEF QueueInv
<1>2. /\ stopped' \in [Boards -> SUBSET Cards] /\ stopped'[b] = stopped[b] \ S
      /\ \A d \in Boards \ {b} : stopped'[d] = stopped[d]
  BY <1>1 DEF Joins
<1>3. ASSUME NEW d \in Boards
      PROVE  BoardQueue(d)'
  <2>0. S \cap Elems(todo[d]) \subseteq S
    OBVIOUS
  <2>1. CASE d = b
    BY <1>2, <2>1 DEF QueueInv, BoardQueue, Joins, CardsOf
  <2>2. CASE d # b
    BY <1>2, <2>2 DEF QueueInv, BoardQueue, Joins, CardsOf
  <2> QED
    BY <2>1, <2>2
<1> QED
  BY <1>2, <1>3 DEF QueueInv, Joins, Asks, CardsOf

\* A step that leaves the queues alone
LEMMA SameShrinks ==
  ASSUME QueueInv, UNCHANGED <<queue, stopped>>
  PROVE  Shrinks
BY DEF QueueInv, BoardQueue, Shrinks

\* The write-back of a tick, and a start by hand, take cards out of one queue
LEMMA WithoutShrinks ==
  ASSUME QueueInv, NEW b \in Boards, NEW S, UNCHANGED stopped,
         queue' = [queue EXCEPT ![b] = Without(@, S)]
  PROVE  Shrinks
<1>1. queue \in [Boards -> Seq(Cards)] /\ \A d \in Boards : Distinct(queue[d])
  BY DEF QueueInv, BoardQueue
<1>2. /\ Without(queue[b], S) \in Seq(Cards) /\ Elems(Without(queue[b],
           S)) \subseteq Elems(queue[b])
      /\ Distinct(Without(queue[b], S))
  BY <1>1, WithoutLeaves
<1> QED
  BY <1>1, <1>2 DEF Shrinks

\* prepare_run takes the card out of its queue, unless it runs
LEMMA PrepareShrinks ==
  ASSUME QueueInv, NEW c \in Cards, PrepareRun(c), UNCHANGED stopped
  PROVE  Shrinks
<1>1. CASE UNCHANGED queue
  BY <1>1, SameShrinks
<1>2. CASE queue' = [queue EXCEPT ![BoardOf[c]] = Without(@, {c})]
  BY <1>2, WithoutShrinks, ConstantsOK DEF ConstantsOK
<1> QED
  BY <1>1, <1>2 DEF PrepareRun

\* start_all and process_due queue what is neither queued nor seated
LEMMA EnqueueJoins ==
  ASSUME QueueInv, NEW b \in Boards, NEW S \in SUBSET CardsOf(b), Enqueue(b, S)
  PROVE  Joins(b, S)
<1>1. queue \in [Boards -> Seq(Cards)] /\ Distinct(queue[b])
  BY DEF QueueInv, BoardQueue
<1>2. PICK q \in Orderings(Fresh(b, S)) : queue' = [queue EXCEPT ![b] = @ \o q]
  BY DEF Enqueue
<1>3. Fresh(b, S) \in SUBSET Cards /\ Fresh(b, S) \subseteq S \ Elems(queue[b])
  BY DEF Fresh, CardsOf
<1>4. q \in Seq(Cards) /\ Elems(q) = Fresh(b, S) /\ Distinct(q)
  BY <1>2, <1>3, OrderingIs
<1>5. /\ queue[b] \o q \in Seq(Cards) /\ Elems(queue[b] \o q) \subseteq Elems(queue[b]) \cup S
      /\ Distinct(queue[b] \o q)
  BY <1>1, <1>3, <1>4, Concatenated
<1> QED
  BY <1>1, <1>2, <1>5 DEF Joins, Enqueue

\* A card at its usage limit rejoins the queue of its board
LEMMA RejoinJoins ==
  ASSUME TypeOK, QueueInv, NEW t \in Threads, RejoinQueue(t)
  PROVE  /\ BoardOf[run[t].card] \in Boards /\ run[t].card \in CardsOf(BoardOf[run[t].card])
         /\ Joins(BoardOf[run[t].card], {run[t].card})
<1> DEFINE c == run[t].card
           b == BoardOf[c]
           new == IF c \in Elems(queue[b]) \cup seated THEN <<>> ELSE <<c>>
<1>0. c \in Cards /\ b \in Boards /\ c \in CardsOf(b)
  BY BusyThread DEF RejoinQueue, CardsOf
<1>1. queue \in [Boards -> Seq(Cards)] /\ Distinct(queue[b])
  BY <1>0 DEF QueueInv, BoardQueue
<1>2. new \in Seq(Cards) /\ Elems(new) \subseteq {c} \ Elems(queue[b]) /\ Distinct(new)
  <2>1. <<>> \in Seq(Cards) /\ <<c>> \in Seq(Cards)
    BY <1>0, EmptySeq
  <2>2. Elems(<<>>) = {} /\ Elems(<<c>>) = {c} /\ Distinct(<<>>) /\ Distinct(<<c>>)
    BY DEF Elems, Distinct
  <2> QED
    BY <2>1, <2>2
<1>3. /\ stopped' = [stopped EXCEPT ![b] = @ \ {c}]
      /\ \/ queue' = [queue EXCEPT ![b] = @ \o new]
         \/ queue' = [queue EXCEPT ![b] = new \o @]
  BY DEF RejoinQueue
<1> HIDE DEF c, b, new
<1>4. ASSUME NEW q \in {queue[b] \o new, new \o queue[b]}
      PROVE  q \in Seq(Cards) /\ Elems(q) \subseteq Elems(queue[b]) \cup {c} /\ Distinct(q)
  <2>1. Elems(queue[b]) \cap Elems(new) = {} /\ Elems(new) \cap Elems(queue[b]) = {}
    BY <1>2
  <2>2. queue[b] \in Seq(Cards)
    BY <1>0, <1>1
  <2>3. CASE q = queue[b] \o new
    BY <1>1, <1>2, <2>1, <2>2, <2>3, Concatenated
  <2>4. CASE q = new \o queue[b]
    BY <1>1, <1>2, <2>1, <2>2, <2>4, Concatenated
  <2> QED
    BY <2>3, <2>4
<1>5. PICK q \in {queue[b] \o new, new \o queue[b]} : queue' = [queue EXCEPT ![b] = q]
  BY <1>3
<1>6. Joins(b, {c})
  BY <1>0, <1>1, <1>3, <1>4, <1>5 DEF Joins
<1> QED
  BY <1>0, <1>6 DEF c, b

\* A step of a run keeps the queues
LEMMA RunThreadQueue ==
  ASSUME TypeOK, QueueInv, NEW t \in Threads, RunThread(t)
  PROVE  QueueInv'
<1>0. tick' = tick /\ todo' = todo /\ http' = http
  BY DEF RunThread, Begin, Opening, RunEnd, FinishPlain, FinishUsageLimit,
         FinishApiUnreachable, FinishRuntime, FinishMergeConflict, RejoinQueue, SetTimer, Resume,
         Goto, Leave, LeaveByTick, AskForTick
<1>1. Reads /\ Asks
  BY <1>0 DEF Reads, Asks, QueueInv, BoardQueue, CardsOf
<1>2. CASE RejoinQueue(t)
  BY <1>0, <1>1, <1>2, RejoinJoins, JoinsKeeps
<1>3. CASE Resume(t)
  <2>1. run[t].card \in Cards /\ PrepareRun(run[t].card) /\ UNCHANGED stopped
    BY <1>3, BusyThread DEF Resume
  <2> QED
    BY <1>1, <2>1, PrepareShrinks, ShrinksKeeps
<1>4. ASSUME ~RejoinQueue(t), ~Resume(t)
      PROVE  UNCHANGED <<queue, stopped>>
  BY <1>4 DEF RunThread, Begin, Opening, RunEnd, FinishPlain, FinishUsageLimit,
         FinishApiUnreachable, FinishRuntime, FinishMergeConflict, SetTimer
<1> QED
  BY <1>1, <1>2, <1>3, <1>4, SameShrinks, ShrinksKeeps

\* A step of a tick keeps the queues
LEMMA TickQueue ==
  ASSUME TypeOK, QueueInv, NEW b \in Boards, Tick(b)
  PROVE  QueueInv'
<1>0. /\ tick \in [Boards -> TickState] /\ todo \in [Boards -> Seq(Cards)]
      /\ queue \in [Boards -> Seq(Cards)]
      /\ \A d \in Boards : tick[d].stage # "loop" => todo[d] = <<>>
      /\ http.act = "start all" => http.on \in Boards /\ http.cards \subseteq CardsOf(http.on)
  BY DEF TypeOK, QueueInv, BoardQueue
<1>1. CASE TickBegin(b)
  <2>1. Reads
    <3>1. todo' = [todo EXCEPT ![b] = queue[b]] /\ tick'[b].stage = "loop"
          /\ \A d \in Boards \ {b} : tick'[d] = tick[d]
      BY <1>0, <1>1 DEF TickBegin
    <3> QED
      BY <1>0, <3>1 DEF Reads
  <2>2. Asks /\ Shrinks
    BY <1>0, <1>1, SameShrinks DEF TickBegin, Asks, CardsOf
  <2> QED
    BY <2>1, <2>2, ShrinksKeeps
<1>2. CASE TickWriteback(b)
  <2>1. Reads
    BY <1>0, <1>2 DEF TickWriteback, Reads
  <2>2. Asks
    BY <1>0, <1>2 DEF TickWriteback, Asks, CardsOf, NoRequest
  <2>3. Shrinks
    BY <1>2, WithoutShrinks DEF TickWriteback
  <2> QED
    BY <2>1, <2>2, <2>3, ShrinksKeeps
<1>3. ASSUME NEW c \in CardsOf(b), Next_(b, c), tick'[b].stage = "loop",
             \A d \in Boards \ {b} : tick'[d] = tick[d], UNCHANGED <<queue, http, stopped>>
      PROVE  QueueInv'
  <2>1. todo[b] \in Seq(Cards) /\ todo[b] # <<>> /\ todo' = [todo EXCEPT ![b] = Tail(@)]
    BY <1>0, <1>3 DEF Next_
  <2>2. Tail(todo[b]) \in Seq(Cards) /\ Elems(Tail(todo[b])) \subseteq Elems(todo[b])
    BY <2>1, TailIs
  <2>3. Reads
    BY <1>0, <1>3, <2>1, <2>2 DEF Reads
  <2>4. Asks /\ Shrinks
    BY <1>0, <1>3, SameShrinks DEF Asks, CardsOf
  <2> QED
    BY <2>3, <2>4, ShrinksKeeps
<1>4. ASSUME NEW c \in CardsOf(b), TickDrop(b, c) \/ TickWait(b, c) \/ TickStart(b, c)
      PROVE  QueueInv'
  <2>1. Next_(b, c) /\ tick[b].stage = "loop" /\ UNCHANGED <<queue, http, stopped>>
    BY <1>4 DEF TickDrop, TickWait, TickStart, Next_
  <2>2. tick'[b].stage = tick[b].stage /\ \A d \in Boards \ {b} : tick'[d] = tick[d]
    <3>1. CASE TickDrop(b, c)
      BY <1>0, <3>1 DEF TickDrop, TickState
    <3>2. CASE TickWait(b, c)
      BY <3>2 DEF TickWait
    <3>3. CASE TickStart(b, c)
      BY <1>0, <3>3 DEF TickStart, Grant, TickState
    <3> QED
      BY <1>4, <3>1, <3>2, <3>3
  <2> QED
    BY <1>3, <2>1, <2>2
<1> QED
  BY <1>1, <1>2, <1>4 DEF Tick

\* The ticker, the operator, the clock and a restart keep the queues
LEMMA OtherQueue ==
  ASSUME TypeOK, QueueInv,
         \/ \E b \in Boards : ProcessDue(b) \/ StartAll(b)
         \/ \E c \in Cards : HandStart(c) \/ DecideWrite(c)
         \/ Operator \/ Time \/ Restart
  PROVE  QueueInv'
<1>0. /\ tick \in [Boards -> TickState] /\ todo \in [Boards -> Seq(Cards)]
      /\ queue \in [Boards -> Seq(Cards)]
      /\ \A d \in Boards : tick[d].stage # "loop" => todo[d] = <<>>
      /\ http.act = "start all" => http.on \in Boards /\ http.cards \subseteq CardsOf(http.on)
  BY DEF TypeOK, QueueInv, BoardQueue
<1>1. ASSUME UNCHANGED <<tick, todo>>
      PROVE  Reads
  BY <1>0, <1>1 DEF Reads
<1>2. ASSUME UNCHANGED http
      PROVE  Asks
  BY <1>0, <1>2 DEF Asks, CardsOf
<1>3. ASSUME NEW b \in Boards, ProcessDue(b)
      PROVE  QueueInv'
  <2>1. Due(b) \in SUBSET CardsOf(b) /\ Joins(b, Due(b))
    BY <1>3, EnqueueJoins DEF ProcessDue, Due
  <2>2. UNCHANGED <<tick, todo, http>>
    BY <1>3 DEF ProcessDue, AskForTick
  <2> QED
    BY <1>2, <2>1, <2>2, JoinsKeeps
<1>4. ASSUME NEW b \in Boards, StartAll(b)
      PROVE  QueueInv'
  <2>1. http.cards \in SUBSET CardsOf(b) /\ Joins(b, http.cards)
    BY <1>0, <1>4, EnqueueJoins DEF StartAll
  <2>2. UNCHANGED todo /\ Asks
    BY <1>4 DEF StartAll, Asks
  <2>3. \A d \in Boards : tick'[d].stage = "loop" \/ tick[d].stage # "loop"
    BY <1>0, <1>4 DEF StartAll
  <2> QED
    BY <2>1, <2>2, <2>3, JoinsKeeps
<1>5. ASSUME NEW c \in Cards, HandStart(c)
      PROVE  QueueInv'
  <2>1. Shrinks
    BY <1>5, PrepareShrinks DEF HandStart
  <2>2. Reads /\ Asks
    BY <1>1, <1>5 DEF HandStart, Asks, NoRequest
  <2> QED
    BY <2>1, <2>2, ShrinksKeeps
<1>6. ASSUME NEW c \in Cards, DecideWrite(c)
      PROVE  QueueInv'
  <2>1. Reads /\ Asks /\ Shrinks
    BY <1>1, <1>6, SameShrinks DEF DecideWrite, Asks, NoRequest
  <2> QED
    BY <2>1, ShrinksKeeps
<1>7. CASE Operator
  <2>1. UNCHANGED <<tick, todo>>
    BY <1>7 DEF Operator, StartAllRead, Stop, ClearQueue, HandCheck, DecideCheck
  <2>2. ASSUME NEW b \in Boards, StartAllRead(b)
        PROVE  QueueInv'
    <3>1. Asks /\ Shrinks
      BY <2>2, SameShrinks DEF StartAllRead, Asks, CardsOf
    <3> QED
      BY <1>1, <2>1, <3>1, ShrinksKeeps
  <2>3. ASSUME NEW b \in Boards, Stop(b)
        PROVE  QueueInv'
    <3>1. /\ queue' = [queue EXCEPT ![b] = <<>>]
          /\ stopped' = [stopped EXCEPT ![b] = Elems(queue[b])]
          /\ tick[b].stage = "free" /\ UNCHANGED <<tick, todo, http>>
      BY <2>3 DEF Stop, ClearQueue
    <3>2. queue' \in [Boards -> Seq(Cards)]
      BY <1>0, <3>1, EmptySeq
    <3>3. Elems(queue[b]) \in SUBSET Cards
      BY <1>0 DEF QueueInv, BoardQueue, CardsOf
    <3>4. stopped' \in [Boards -> SUBSET Cards]
      BY <3>1, <3>3 DEF QueueInv
    <3>5. Elems(<<>>) = {} /\ Distinct(<<>>)
      BY DEF Elems, Distinct
    <3>6. ASSUME NEW d \in Boards
          PROVE  BoardQueue(d)'
      <4>1. CASE d = b
        <5>1. queue'[b] = <<>> /\ todo'[b] = <<>>
          BY <1>0, <3>1
        <5> QED
          BY <3>5, <4>1, <5>1 DEF BoardQueue
      <4>2. CASE d # b
        <5>1. queue'[d] = queue[d] /\ stopped'[d] = stopped[d]
          BY <1>0, <3>1, <4>2 DEF QueueInv
        <5> QED
          BY <3>1, <5>1 DEF QueueInv, BoardQueue, CardsOf
      <4> QED
        BY <4>1, <4>2
    <3> QED
      BY <1>0, <3>1, <3>2, <3>4, <3>6 DEF QueueInv, CardsOf
  <2>4. ASSUME NEW c \in Cards, HandCheck(c) \/ DecideCheck(c)
        PROVE  QueueInv'
    <3>1. PICK act \in {"run", "answer", "accept", "reject"} : Request(act, c)
      BY <2>4 DEF HandCheck, DecideCheck
    <3>2. http'.act # "start all"
      BY <3>1 DEF Request
    <3>3. UNCHANGED <<queue, stopped>>
      BY <2>4 DEF HandCheck, DecideCheck
    <3>4. Asks /\ Shrinks
      BY <3>2, <3>3, SameShrinks DEF Asks
    <3> QED
      BY <1>1, <2>1, <3>4, ShrinksKeeps
  <2> QED
    BY <1>7, <2>2, <2>3, <2>4 DEF Operator
<1>8. CASE Time
  <2>1. Reads /\ Asks /\ Shrinks
    BY <1>1, <1>2, <1>8, SameShrinks DEF Time, RetryComesDue, LimitResets, PauseLapses
  <2> QED
    BY <2>1, ShrinksKeeps
<1>9. CASE Restart
  <2> DEFINE lapsed(b) == {c \in CardsOf(b) : LapsedRetry(c)}
  <2>1. PICK order \in [Boards -> UNION {Orderings(lapsed(b)) : b \in Boards}] :
          (\A b \in Boards : order[b] \in Orderings(lapsed(b))) /\ queue' = order
    BY <1>9 DEF Restart
  <2>2. \A b \in Boards : lapsed(b) \subseteq CardsOf(b) /\ lapsed(b) \in SUBSET Cards
    BY DEF CardsOf
  <2>3. \A b \in Boards : /\ queue'[b] \in Seq(Cards) /\ Elems(queue'[b]) \subseteq CardsOf(b)
                          /\ Distinct(queue'[b])
    BY <2>1, <2>2, OrderingIs
  <2>4. queue' \in [Boards -> Seq(Cards)]
    BY <2>1, <2>3
  <2>5. /\ todo' = [b \in Boards |-> <<>>] /\ stopped' = [b \in Boards |-> {}]
        /\ http' = NoRequest
    BY <1>9 DEF Restart
  <2>6. \A b \in Boards : todo'[b] = <<>> /\ stopped'[b] = {}
    BY <2>5
  <2>7. todo' \in [Boards -> Seq(Cards)] /\ stopped' \in [Boards -> SUBSET Cards]
    BY <2>5, EmptySeq
  <2>8. ASSUME NEW b \in Boards
        PROVE  BoardQueue(b)'
    BY <2>3, <2>6 DEF BoardQueue, CardsOf
  <2> QED
    BY <2>4, <2>5, <2>7, <2>8 DEF QueueInv, NoRequest
<1> QED
  BY <1>3, <1>4, <1>5, <1>6, <1>7, <1>8, <1>9

\* Whatever queues cards, stops them, starts them or goes through them, the queues hold up
THEOREM QueueInvHolds == Spec => []QueueInv
<1>1. Init => QueueInv
  <2> SUFFICES ASSUME Init PROVE QueueInv
    OBVIOUS
  <2>1. \A b \in Boards : queue[b] = <<>> /\ todo[b] = <<>> /\ stopped[b] = {}
    BY DEF Init
  <2>2. Elems(<<>>) = {} /\ Distinct(<<>>)
    BY DEF Elems, Distinct
  <2>3. /\ queue \in [Boards -> Seq(Cards)] /\ todo \in [Boards -> Seq(Cards)]
        /\ stopped \in [Boards -> SUBSET Cards] /\ http.act # "start all"
    BY EmptySeq DEF Init, NoRequest
  <2> QED
    BY <2>1, <2>2, <2>3 DEF QueueInv, BoardQueue
<1>2. TypeOK /\ QueueInv /\ [Next]_vars => QueueInv'
  <2> SUFFICES ASSUME TypeOK, QueueInv, [Next]_vars PROVE QueueInv'
    OBVIOUS
  <2>1. CASE UNCHANGED vars
    BY <2>1 DEF vars, QueueInv, BoardQueue, CardsOf
  <2>2. CASE \E t \in Threads : RunThread(t)
    BY <2>2, RunThreadQueue
  <2>3. CASE \E b \in Boards : Tick(b)
    BY <2>3, TickQueue
  <2> QED
    BY <2>1, <2>2, <2>3, OtherQueue DEF Next
<1> QED
  BY <1>1, <1>2, TypeCorrect, PTL DEF Spec

\* start_all, process_due, a usage limit and a restart race with a tick and with each other: no
\* card is queued twice, or on another board's queue
THEOREM QueueHolds == Spec => []QueueIsASet
<1>1. QueueInv => QueueIsASet
  BY DistinctCounts DEF QueueInv, BoardQueue, QueueIsASet
<1> QED
  BY <1>1, QueueInvHolds, PTL

\* _tick_lock: what a stop cleared comes back to no queue and no tick before it is queued again
THEOREM StopHolds == Spec => []StoppedStaysStopped
<1>1. QueueInv => StoppedStaysStopped
  BY DEF QueueInv, BoardQueue, StoppedStaysStopped
<1> QED
  BY <1>1, QueueInvHolds, PTL

-----------------------------------------------------------------------------
(* Nothing is left where nobody sees it *)

\* The inbox shows the card, if nobody has decided it
Seen(c) == card[c].reason # "none" \/ card[c].flag

\* What rests on a rejected card is in the inbox, or a run of it has yet to end
AnswersRejection ==
  \A d \in Cards : \A c \in DependsOn[d] :
    card[c].status = "rejected" /\ Undecided(d) => Seen(d) \/ Running(d)

\* A card in doing is in the inbox, or has its run
AttendsDoing == \A c \in Cards : card[c].status = "doing" => Seen(c) \/ Running(c)

\* The runs go on, but for the run of c
RunsGoOn(c) == \A d \in Cards \ {c} : Running(d) => Running(d)'

\* A step that writes the row of c and no other leaves c to a decision, an inbox or a run, and
\* does not reject it
OnlyRow(c) ==
  /\ c \in Cards /\ RunsGoOn(c)
  /\ \A d \in Cards \ {c} : card'[d] = card[d]
  /\ card'[c].status = "rejected" => card[c].status = "rejected"
  /\ Undecided(c)' => Seen(c)' \/ Running(c)'

\* The rows stay as they are, and no run ends
RowsStay == UNCHANGED card /\ \A d \in Cards : Running(d) => Running(d)'

\* Such steps leave no card out of sight
LEMMA OnlyRowAttends ==
  ASSUME NEW c, OnlyRow(c)
  PROVE  /\ AnswersRejection => AnswersRejection'
         /\ AttendsDoing => AttendsDoing'
BY ConstantsOK DEF OnlyRow, RunsGoOn, AnswersRejection, AttendsDoing, Undecided, Seen,
                   NeverQueueable, ConstantsOK

\* and steps that leave the rows alone
LEMMA RowsStayAttends ==
  ASSUME RowsStay
  PROVE  /\ AnswersRejection => AnswersRejection'
         /\ AttendsDoing => AttendsDoing'
BY DEF RowsStay, AnswersRejection, AttendsDoing, Undecided, Seen

\* The runs of the threads that are left alone go on
LEMMA ThreadsGoOn ==
  ASSUME NEW c, NEW t, \A u \in Threads \ {t} : run'[u] = run[u],
         t \in Live => run[t].card = c
  PROVE  RunsGoOn(c)
BY DEF RunsGoOn, Running, ActiveCards, Live

\* A step of a run writes the row of its card alone
LEMMA RunThreadRow ==
  ASSUME TypeOK, NEW t \in Threads, RunThread(t)
  PROVE  (\E c \in Cards : OnlyRow(c)) \/ RowsStay
<1>a. run[t].card \in Cards
  <2>1. run[t].stage # "none"
    BY DEF RunThread, Begin, Opening, RunEnd, FinishPlain, FinishUsageLimit, FinishRuntime,
           FinishApiUnreachable, FinishMergeConflict, RejoinQueue, SetTimer, Resume
  <2> QED
    BY <2>1, BusyThread
<1>b. PICK c \in Cards : c = run[t].card
  BY <1>a
<1>0. card \in [Cards -> Row] /\ run \in [Threads -> RunState \cup {Idle}]
  BY DEF TypeOK
<1>1. CASE Begin(t)
  <2>1. t \in Live
    BY <1>1, BusyThread DEF Begin, Live, LiveStages
  <2>2. RunsGoOn(c)
    BY <1>0, <1>b, <1>1, ThreadsGoOn DEF Begin, Refuse
  <2>3. \/ Refuse(t, "refused") \/ Refuse(t, "runtime")
        \/ /\ card' = [card EXCEPT ![c] = [status |-> "doing", reason |-> "none", flag |-> FALSE]]
           /\ run' = [run EXCEPT ![t].stage = "working"]
    BY <1>b, <1>1 DEF Begin
  <2>4. CASE Refuse(t, "refused") \/ Refuse(t, "runtime")
    <3>1. card' = [card EXCEPT ![c].flag = TRUE]
      BY <1>b, <2>4 DEF Refuse
    <3>2. card'[c].flag /\ card'[c].status = card[c].status
      BY <1>0, <1>b, <2>1, <3>1 DEF Row
    <3>3. Seen(c)'
      BY <1>b, <3>2 DEF Seen
    <3>4. \A d \in Cards \ {c} : card'[d] = card[d]
      BY <1>0, <1>b, <3>1
    <3> QED
      BY <1>b, <2>1, <2>2, <3>2, <3>3, <3>4 DEF OnlyRow
  <2>5. CASE /\ card' = [card EXCEPT ![c] = [status |-> "doing", reason |-> "none", flag |-> FALSE]]
             /\ run' = [run EXCEPT ![t].stage = "working"]
    <3>1. run'[t].card = c /\ t \in Live'
      BY <1>0, <1>b, <2>5 DEF Live, LiveStages, RunState, Idle
    <3>2. Running(c)' /\ card'[c].status = "doing"
      BY <1>0, <1>b, <2>1, <2>5, <3>1 DEF Running, ActiveCards
    <3> QED
      BY <1>0, <1>b, <2>1, <2>2, <2>5, <3>2 DEF OnlyRow
  <2> QED
    BY <1>b, <2>3, <2>4, <2>5
<1>2. CASE Opening(t)
  <2>1. t \in Live
    BY <1>2, BusyThread DEF Opening, Live, LiveStages
  <2>2. RunsGoOn(c)
    BY <1>0, <1>b, <1>2, ThreadsGoOn DEF Opening
  <2>3. run'[t].card = c /\ t \in Live'
    BY <1>0, <1>b, <1>2 DEF Opening, Live, LiveStages, RunState, Idle
  <2>4. Running(c)' /\ card'[c].status = "checking"
    BY <1>0, <1>b, <1>2, <2>1, <2>3 DEF Opening, Running, ActiveCards
  <2> QED
    BY <1>0, <1>b, <1>2, <2>1, <2>2, <2>4 DEF Opening, OnlyRow
<1>3. ASSUME NEW o \in Endings, RunEnd(t, o)
      PROVE  OnlyRow(c)
  <2>2. RunsGoOn(c)
    BY <1>0, <1>b, <1>3, ThreadsGoOn DEF RunEnd
  <2>3. card' = [card EXCEPT ![c] = Outcome(card[c], o)] /\ card[c] \in Row
    BY <1>0, <1>b, <1>3 DEF RunEnd
  <2>4. /\ Outcome(card[c], o).status = "accepted" \/ Outcome(card[c], o).flag
        /\ Outcome(card[c], o).status \in {"accepted", card[c].status}
    BY <1>b, <2>3 DEF Outcome, Row
  <2>5. card'[c] = Outcome(card[c], o) /\ \A d \in Cards \ {c} : card'[d] = card[d]
    BY <1>0, <1>b, <2>3
  <2>6. Undecided(c)' => Seen(c)'
    BY <1>b, <2>4, <2>5 DEF Seen, Undecided, NeverQueueable
  <2> QED
    BY <1>b, <2>2, <2>4, <2>5, <2>6 DEF OnlyRow
<1>4. CASE Resume(t)
  <2>1. t \notin Live
    BY <1>b, <1>4, BusyThread DEF Resume, Live, LiveStages
  <2>2. /\ card' = [card EXCEPT ![c].reason = "none", ![c].flag = FALSE]
        /\ card'[c].status = card[c].status /\ \A d \in Cards \ {c} : card'[d] = card[d]
    BY <1>0, <1>b, <1>4, <2>1 DEF Resume, Row
  <2>3. CASE Running(c)
    <3>1. run' = [run EXCEPT ![t] = Idle]
      BY <1>b, <1>4, <2>3 DEF Resume
    <3>2. \A d \in Cards : Running(d) => Running(d)'
      BY <1>0, <1>b, <2>1, <3>1 DEF Running, ActiveCards, Live
    <3> QED
      BY <1>b, <2>1, <2>2, <2>3, <3>2 DEF OnlyRow, RunsGoOn
  <2>4. CASE ~Running(c)
    <3> DEFINE left == [run EXCEPT ![t] = Idle]
    <3>1. PICK u \in Threads :
            /\ left[u] = Idle
            /\ run' = [left EXCEPT ![u] = [card |-> c, stage |-> "registered",
                                           by |-> "hand", result |-> "none"]]
      BY <1>b, <1>4, <2>4 DEF Resume
    <3>2. u \notin Live
      BY <1>0, <1>b, <2>1, <3>1 DEF Live, LiveStages, Idle
    <3>3. \A v \in Live : run'[v] = run[v]
      BY <1>0, <1>b, <2>1, <3>1, <3>2 DEF Live
    <3>4. run'[u].card = c /\ run'[u].stage = "registered"
      BY <1>0, <1>b, <3>1
    <3>5. u \in Live' /\ \A v \in Live : v \in Live' /\ run'[v].card = run[v].card
      BY <1>b, <3>3, <3>4 DEF Live, LiveStages
    <3>6. Running(c)' /\ RunsGoOn(c)
      BY <1>b, <3>4, <3>5 DEF Running, ActiveCards, RunsGoOn
    <3> QED
      BY <1>0, <1>b, <2>1, <2>2, <3>6 DEF OnlyRow
  <2> QED
    BY <1>b, <2>3, <2>4
<1>5. ASSUME FinishPlain(t) \/ FinishUsageLimit(t) \/ FinishApiUnreachable(t) \/ FinishRuntime(t)
             \/ FinishMergeConflict(t) \/ RejoinQueue(t) \/ SetTimer(t)
      PROVE  RowsStay
  <2>1. UNCHANGED card /\ t \notin Live
    BY <1>5 DEF FinishPlain, FinishUsageLimit, FinishApiUnreachable, FinishRuntime,
                FinishMergeConflict, RejoinQueue, SetTimer, Live, LiveStages
  <2>2. \/ run' = [run EXCEPT ![t] = Idle]
        \/ \E s : run' = [run EXCEPT ![t].stage = s]
    BY <1>5 DEF FinishPlain, FinishUsageLimit, FinishApiUnreachable, FinishRuntime,
                FinishMergeConflict, RejoinQueue, SetTimer, Goto, Leave, LeaveByTick
  <2>3. \A u \in Threads \ {t} : run'[u] = run[u]
    BY <1>0, <1>b, <2>2
  <2> QED
    BY <1>b, <2>1, <2>3 DEF RowsStay, Running, ActiveCards, Live
<1> QED
  BY <1>1, <1>2, <1>3, <1>4, <1>5 DEF RunThread

\* RunRegistry.start leaves the card with a run
LEMMA StartRunRuns ==
  ASSUME TypeOK, NEW c \in Cards, NEW by \in {"tick", "hand"}, StartRun(c, by)
  PROVE  Running(c)' /\ \A d \in Cards : Running(d) => Running(d)'
<1>1. CASE Running(c)
  BY <1>1 DEF StartRun, Running, ActiveCards, Live
<1>2. CASE ~Running(c)
  <2>0. run \in [Threads -> RunState \cup {Idle}]
    BY DEF TypeOK
  <2>1. PICK u \in Threads :
          run[u] = Idle /\ run' = [run EXCEPT ![u] = [card |-> c, stage |-> "registered",
                                                      by |-> by, result |-> "none"]]
    BY <1>2 DEF StartRun, TakeThread
  <2>2. u \notin Live /\ run'[u].card = c /\ run'[u].stage = "registered"
    BY <2>0, <2>1 DEF Live, LiveStages, Idle
  <2>3. \A v \in Live : run'[v] = run[v]
    BY <2>0, <2>1, <2>2 DEF Live
  <2>4. u \in Live' /\ \A v \in Live : v \in Live' /\ run'[v].card = run[v].card
    BY <2>2, <2>3 DEF Live, LiveStages
  <2> QED
    BY <2>2, <2>4 DEF Running, ActiveCards
<1> QED
  BY <1>1, <1>2

\* Steps that write no row: a tick, the ticker, the clock, and the operator up to the write
LEMMA OthersStay ==
  ASSUME TypeOK,
         \/ \E b \in Boards : Tick(b) \/ ProcessDue(b) \/ StartAll(b)
         \/ Operator \/ Time
  PROVE  RowsStay
<1>0. ASSUME UNCHANGED <<card, run>>
      PROVE  RowsStay
  BY <1>0 DEF RowsStay, Running, ActiveCards, Live
<1>1. ASSUME NEW b \in Boards, Tick(b)
      PROVE  RowsStay
  <2>1. CASE TickBegin(b) \/ TickWriteback(b)
    BY <1>0, <2>1 DEF TickBegin, TickWriteback
  <2>2. ASSUME NEW c \in CardsOf(b), TickDrop(b, c) \/ TickWait(b, c)
        PROVE  RowsStay
    BY <1>0, <2>2 DEF TickDrop, TickWait
  <2>3. ASSUME NEW c \in CardsOf(b), TickStart(b, c)
        PROVE  RowsStay
    <3>1. c \in Cards /\ StartRun(c, "tick") /\ UNCHANGED card
      BY <2>3 DEF TickStart, CardsOf
    <3> QED
      BY <3>1, StartRunRuns DEF RowsStay
  <2> QED
    BY <1>1, <2>1, <2>2, <2>3 DEF Tick
<1>2. ASSUME NEW b \in Boards, ProcessDue(b) \/ StartAll(b)
      PROVE  RowsStay
  BY <1>0, <1>2 DEF ProcessDue, StartAll
<1>3. CASE Operator
  BY <1>0, <1>3 DEF Operator, StartAllRead, Stop, ClearQueue, HandCheck, DecideCheck
<1>4. CASE Time
  BY <1>0, <1>4 DEF Time, RetryComesDue, LimitResets, PauseLapses
<1> QED
  BY <1>1, <1>2, <1>3, <1>4

\* A start by hand clears the block of its card, and starts it or finds it running
LEMMA HandStartRow ==
  ASSUME TypeOK, NEW c \in Cards, HandStart(c)
  PROVE  OnlyRow(c)
<1>0. card \in [Cards -> Row]
  BY DEF TypeOK
<1>1. Running(c)' /\ RunsGoOn(c)
  BY StartRunRuns DEF HandStart, RunsGoOn
<1>2. card' = card \/ card' = [card EXCEPT ![c].reason = "none", ![c].flag = FALSE]
  BY DEF HandStart
<1>3. card'[c].status = card[c].status /\ \A d \in Cards \ {c} : card'[d] = card[d]
  BY <1>0, <1>2 DEF Row
<1> QED
  BY <1>1, <1>3 DEF OnlyRow

\* accept_card releases only what rests on no rejected card any more
LEMMA AcceptAnswers ==
  ASSUME TypeOK, NEW c \in Cards, Accept(c), UNCHANGED run, AnswersRejection
  PROVE  AnswersRejection'
<1> DEFINE released == {d \in Dependents(c) :
                          /\ card[c].status = "rejected"
                          /\ card[d].reason = "DEPENDENCY_REJECTED"
                          /\ \A e \in DependsOn[d] \ {c} : card[e].status # "rejected"}
<1>0. card \in [Cards -> Row] /\ \A d \in Cards : DependsOn[d] \subseteq Cards
  BY ConstantsOK DEF TypeOK, ConstantsOK
<1>1. /\ card'[c].status = "accepted"
      /\ \A d \in Cards \ {c} : /\ card'[d].status = card[d].status
                                /\ d \notin released => card'[d] = card[d]
  BY <1>0 DEF Accept, Row
<1>2. SUFFICES ASSUME NEW d \in Cards, NEW e \in DependsOn[d], card'[e].status = "rejected",
                      Undecided(d)'
               PROVE  Seen(d)' \/ Running(d)'
  BY DEF AnswersRejection
<1>3. d # c /\ e # c /\ card[e].status = "rejected"
  BY <1>0, <1>1, <1>2 DEF Undecided, NeverQueueable
<1>4. d \notin released
  BY <1>2, <1>3
<1>5. card'[d] = card[d]
  BY <1>1, <1>3, <1>4
<1> QED
  BY <1>0, <1>2, <1>3, <1>5 DEF AnswersRejection, Undecided, Seen, Running, ActiveCards, Live

\* reject_card tells all that rest on the card
LEMMA RejectAttends ==
  ASSUME TypeOK, NEW c \in Cards, Reject(c), UNCHANGED run
  PROVE  /\ AnswersRejection => AnswersRejection'
         /\ AttendsDoing => AttendsDoing'
<1>0. card \in [Cards -> Row] /\ \A d \in Cards : DependsOn[d] \subseteq Cards
  BY ConstantsOK DEF TypeOK, ConstantsOK
<1>1. /\ card'[c] = Rejected
      /\ \A d \in Cards \ {c} :
           /\ card'[d].status = card[d].status
           /\ d \notin Dependents(c) => card'[d] = card[d]
           /\ d \in Dependents(c) => card'[d].reason = "DEPENDENCY_REJECTED"
  BY <1>0 DEF Reject, Row
<1>2. card'[c].status = "rejected" /\ ~Undecided(c)'
  BY <1>1 DEF Rejected, Undecided, NeverQueueable
<1>3. \A d \in Cards \ {c} : Undecided(d)' => Undecided(d)
  BY <1>1 DEF Undecided
<1>4. \A d \in Cards : Running(d)' <=> Running(d)
  BY DEF Running, ActiveCards, Live
<1>5. ASSUME AnswersRejection, NEW d \in Cards, NEW e \in DependsOn[d],
             card'[e].status = "rejected", Undecided(d)'
      PROVE  Seen(d)' \/ Running(d)'
  <2>1. d # c /\ Undecided(d) /\ e \in Cards
    BY <1>0, <1>2, <1>3, <1>5
  <2>2. CASE d \in Dependents(c)
    BY <1>1, <2>1, <2>2 DEF Seen
  <2>3. CASE d \notin Dependents(c)
    <3>1. e # c
      BY <2>1, <2>3 DEF Dependents
    <3>2. card[e].status = "rejected" /\ card'[d] = card[d]
      BY <1>1, <1>5, <2>1, <2>3, <3>1
    <3> QED
      BY <1>4, <1>5, <2>1, <3>2 DEF AnswersRejection, Seen
  <2> QED
    BY <2>2, <2>3
<1>6. ASSUME AttendsDoing, NEW d \in Cards, card'[d].status = "doing"
      PROVE  Seen(d)' \/ Running(d)'
  <2>1. d # c /\ card[d].status = "doing"
    BY <1>1, <1>2, <1>6
  <2>2. CASE d \in Dependents(c)
    BY <1>1, <2>1, <2>2 DEF Seen
  <2>3. CASE d \notin Dependents(c)
    BY <1>1, <1>4, <1>6, <2>1, <2>3 DEF AttendsDoing, Seen
  <2> QED
    BY <2>2, <2>3
<1> QED
  BY <1>5, <1>6 DEF AnswersRejection, AttendsDoing

\* Only a restart counts as one
LEMMA RestartsCount == [Next]_vars /\ ~Restart => UNCHANGED restarts
  BY DEF Next, vars, RunThread, Begin, Opening, RunEnd, FinishPlain, FinishUsageLimit,
     FinishApiUnreachable, FinishRuntime, FinishMergeConflict, RejoinQueue, SetTimer, Resume,
     Tick, TickBegin, TickWriteback, TickDrop, TickWait, TickStart, ProcessDue, StartAll,
     HandStart, DecideWrite, Operator, StartAllRead, Stop, ClearQueue, HandCheck, DecideCheck,
     Request, Press, Time, RetryComesDue, LimitResets, PauseLapses

\* reject_card, "dependents sit on rejected work": until the board process dies, what rests on
\* a rejected card is before the operator or has a run on the way to its outcome
THEOREM RejectionHolds == Spec => [](restarts = 0 => RejectionReachesDependents)
<1> DEFINE I == restarts = 0 => AnswersRejection
<1>1. Init => I
  <2> SUFFICES ASSUME Init PROVE AnswersRejection
    OBVIOUS
  <2>1. \A c \in Cards : card[c].status = "todo" /\ DependsOn[c] \subseteq Cards
    BY ConstantsOK DEF Init, ConstantsOK
  <2> QED
    BY <2>1 DEF AnswersRejection
<1>2. TypeOK /\ I /\ [Next]_vars => I'
  <2> SUFFICES ASSUME TypeOK, AnswersRejection, [Next]_vars, ~Restart
               PROVE  AnswersRejection'
    <3>1. TypeOK /\ Restart => restarts' # 0
      <4>1. TypeOK => restarts \in Nat
        BY DEF TypeOK
      <4>2. Restart => restarts' = restarts + 1
        BY DEF Restart
      <4> QED
        BY <4>1, <4>2
    <3>2. [Next]_vars /\ ~Restart => UNCHANGED restarts
      BY RestartsCount
    <3> QED
      BY <3>1, <3>2
  <2>1. CASE UNCHANGED vars
    <3>1. RowsStay
      BY <2>1 DEF vars, RowsStay, Running, ActiveCards, Live
    <3> QED
      BY <3>1, RowsStayAttends
  <2>2. CASE \E t \in Threads : RunThread(t)
    BY <2>2, RunThreadRow, OnlyRowAttends, RowsStayAttends
  <2>3. CASE \E c \in Cards : HandStart(c)
    BY <2>3, HandStartRow, OnlyRowAttends
  <2>4. ASSUME NEW c \in Cards, DecideWrite(c)
        PROVE  AnswersRejection'
    BY <2>4, AcceptAnswers, RejectAttends DEF DecideWrite
  <2>5. CASE \/ \E b \in Boards : Tick(b) \/ ProcessDue(b) \/ StartAll(b)
             \/ Operator \/ Time
    BY <2>5, OthersStay, RowsStayAttends
  <2> QED
    BY <2>1, <2>2, <2>3, <2>4, <2>5 DEF Next
<1>3. AnswersRejection => RejectionReachesDependents
  BY DEF AnswersRejection, RejectionReachesDependents, InInbox, Seen, Running, ActiveCards, Live
<1> QED
  BY <1>1, <1>2, <1>3, TypeCorrect, PTL DEF Spec

-----------------------------------------------------------------------------
(* A card in doing *)

\* Nothing reverses a rejection that blocked others: the release of a card in doing, whose run the
\* rejection's block outlived, leaves it with nobody
NothingReleases ==
  "accept" \notin Acts \/ "reject" \notin Acts \/ \A c \in Cards : DependsOn[c] = {}

\* Nothing clears a block before the run that takes the card up has begun
NothingResumes == "answer" \notin Acts /\ "MERGE_CONFLICT" \notin Endings

\* Requests, rejections and resumes have a cause
CausesInv ==
  /\ http.act \in Acts \cup {"ticking", "idle"}
  /\ \A c \in Cards : card[c].status = "rejected" => "reject" \in Acts
  /\ \A t \in Threads : /\ run[t].stage = "resuming" => run[t].result = "MERGE_CONFLICT"
                        /\ run[t].result = "MERGE_CONFLICT" => "MERGE_CONFLICT" \in Endings

\* What recover_orphaned_runs goes by: the log of a card in doing and out of sight has a start
\* and no end
StartsAreLogged ==
  \A c \in Cards : card[c].status = "doing" /\ ~Seen(c) => log[c].midRun

\* The threads keep their causes
ThreadCauses ==
  \A t \in Threads : /\ run'[t].stage = "resuming" => run'[t].result = "MERGE_CONFLICT"
                     /\ run'[t].result = "MERGE_CONFLICT" => "MERGE_CONFLICT" \in Endings

\* RunRegistry.start leaves a thread with no result
LEMMA StartRunCauses ==
  ASSUME TypeOK, CausesInv, NEW c, NEW by, StartRun(c, by)
  PROVE  ThreadCauses
<1>1. run' = run \/ \E t \in Threads : run' = [run EXCEPT ![t] =
                      [card |-> c, stage |-> "registered", by |-> by, result |-> "none"]]
  BY DEF StartRun, TakeThread
<1> QED
  BY <1>1 DEF CausesInv, TypeOK, ThreadCauses

\* A run ends only as it may, and is resumed only after a conflict
LEMMA RunThreadCauses ==
  ASSUME TypeOK, CausesInv, NEW t \in Threads, RunThread(t)
  PROVE  ThreadCauses
<1>0. /\ run \in [Threads -> RunState \cup {Idle}] /\ run[t] \in RunState \cup {Idle}
      /\ \A u \in Threads : /\ run[u].stage = "resuming" => run[u].result = "MERGE_CONFLICT"
                            /\ run[u].result = "MERGE_CONFLICT" => "MERGE_CONFLICT" \in Endings
  BY DEF TypeOK, CausesInv
<1>1. ASSUME NEW s, run' = [run EXCEPT ![t].stage = s],
             s = "resuming" => run[t].result = "MERGE_CONFLICT"
      PROVE  ThreadCauses
  BY <1>0, <1>1 DEF ThreadCauses, RunState, Idle
<1>2. ASSUME NEW o, run' = [run EXCEPT ![t].stage = "finished", ![t].result = o],
             o = "MERGE_CONFLICT" => o \in Endings
      PROVE  ThreadCauses
  BY <1>0, <1>2 DEF ThreadCauses, RunState, Idle
<1>3. ASSUME run' = [run EXCEPT ![t] = Idle]
      PROVE  ThreadCauses
  BY <1>0, <1>3 DEF ThreadCauses, Idle
<1>4. CASE Begin(t)
  <2>1. \/ run' = [run EXCEPT ![t].stage = "working"]
        \/ \E o \in {"refused", "runtime"} :
             run' = [run EXCEPT ![t].stage = "finished", ![t].result = o]
    BY <1>4 DEF Begin, Refuse
  <2>2. CASE run' = [run EXCEPT ![t].stage = "working"]
    BY <1>1, <2>2
  <2>3. ASSUME NEW o \in {"refused", "runtime"},
               run' = [run EXCEPT ![t].stage = "finished", ![t].result = o]
        PROVE  ThreadCauses
    BY <1>2, <2>3
  <2> QED
    BY <2>1, <2>2, <2>3
<1>5. CASE Opening(t)
  BY <1>1, <1>5 DEF Opening
<1>6. ASSUME NEW o \in Endings, RunEnd(t, o) PROVE ThreadCauses
  BY <1>2, <1>6 DEF RunEnd
<1>7. CASE FinishPlain(t) \/ RejoinQueue(t) \/ SetTimer(t)
  BY <1>3, <1>7 DEF FinishPlain, RejoinQueue, SetTimer, LeaveByTick
<1>8. CASE FinishUsageLimit(t) \/ FinishApiUnreachable(t) \/ FinishRuntime(t)
           \/ FinishMergeConflict(t)
  BY <1>1, <1>3, <1>8 DEF FinishUsageLimit, FinishApiUnreachable, FinishRuntime,
       FinishMergeConflict, Goto, Leave, LeaveByTick
<1>9. CASE Resume(t)
  <2> DEFINE left == [run EXCEPT ![t] = Idle]
             new(c) == [card |-> c, stage |-> "registered", by |-> "hand", result |-> "none"]
  <2>1. run' = left \/ \E u \in Threads : run' = [left EXCEPT ![u] = new(run[t].card)]
    BY <1>9 DEF Resume
  <2>2. left \in [Threads -> RunState \cup {Idle}]
        /\ \A u \in Threads : left[u] = Idle \/ left[u] = run[u]
    BY <1>0
  <2>3. ASSUME NEW u \in Threads, run' = [left EXCEPT ![u] = new(run[t].card)]
        PROVE  ThreadCauses
    <3>1. \A v \in Threads : run'[v] = new(run[t].card) \/ run'[v] = Idle \/ run'[v] = run[v]
      BY <2>2, <2>3
    <3> QED
      BY <1>0, <3>1 DEF ThreadCauses, Idle
  <2> QED
    BY <1>3, <2>1, <2>3
<1> QED
  BY <1>4, <1>5, <1>6, <1>7, <1>8, <1>9 DEF RunThread

\* No step but a rejection rejects a card
LEMMA CausesKept ==
  ASSUME TypeOK, CausesInv, [Next]_vars
  PROVE  CausesInv'
<1>0. /\ http.act \in Acts \cup {"ticking", "idle"}
      /\ \A c \in Cards : card[c].status = "rejected" => "reject" \in Acts
      /\ card \in [Cards -> Row]
  BY DEF CausesInv, TypeOK
<1>1. http'.act \in Acts \cup {"ticking", "idle"}
  <2>1. ASSUME NEW t \in Threads, RunThread(t) PROVE UNCHANGED http
    BY <2>1 DEF RunThread, Begin, Opening, RunEnd, FinishPlain, FinishUsageLimit,
         FinishApiUnreachable, FinishRuntime, FinishMergeConflict, RejoinQueue, SetTimer, Resume
  <2>2. ASSUME NEW b \in Boards, Tick(b) PROVE UNCHANGED http \/ http' = NoRequest
    BY <2>2 DEF Tick, TickBegin, TickWriteback, TickDrop, TickWait, TickStart
  <2>3. ASSUME NEW b \in Boards, ProcessDue(b) \/ StartAll(b)
        PROVE  UNCHANGED http \/ http'.act = "ticking"
    <3>1. CASE ProcessDue(b)
      BY <3>1 DEF ProcessDue
    <3>2. CASE StartAll(b)
      <4>1. http' = [act |-> "ticking", on |-> b, cards |-> {}]
        BY <3>2 DEF StartAll
      <4> QED
        BY <4>1
    <3> QED
      BY <2>3, <3>1, <3>2
  <2>4. ASSUME Operator
        PROVE  UNCHANGED http \/ http'.act \in Acts
    <3>1. ASSUME NEW b \in Boards, StartAllRead(b) PROVE http'.act \in Acts
      BY <3>1 DEF StartAllRead, Press
    <3>2. ASSUME NEW b \in Boards, Stop(b) PROVE UNCHANGED http
      BY <3>2 DEF Stop, ClearQueue
    <3>3. ASSUME NEW c \in Cards, HandCheck(c) \/ DecideCheck(c) PROVE http'.act \in Acts
      <4>1. PICK act \in Act : Request(act, c)
        BY <3>3 DEF HandCheck, DecideCheck, Act
      <4> QED
        BY <4>1 DEF Request, Press
    <3> QED
      BY <2>4, <3>1, <3>2, <3>3 DEF Operator
  <2>5. ASSUME UNCHANGED http \/ http' = NoRequest \/ http'.act = "ticking"
        PROVE  http'.act \in Acts \cup {"ticking", "idle"}
    BY <1>0, <2>5 DEF NoRequest
  <2>6. ASSUME Time \/ (\E c \in Cards : HandStart(c) \/ DecideWrite(c)) \/ Restart
        PROVE  UNCHANGED http \/ http' = NoRequest
    BY <2>6 DEF Time, RetryComesDue, LimitResets, PauseLapses, HandStart, DecideWrite, Restart
  <2>7. CASE UNCHANGED vars
    BY <2>5, <2>7 DEF vars
  <2> QED
    BY <2>1, <2>2, <2>3, <2>4, <2>5, <2>6, <2>7 DEF Next
<1>2. ASSUME RowsStay \/ \E c \in Cards : OnlyRow(c)
      PROVE  \A c \in Cards : card'[c].status = "rejected" => "reject" \in Acts
  BY <1>0, <1>2 DEF RowsStay, OnlyRow
<1>3. ASSUME UNCHANGED run
      PROVE  ThreadCauses
  BY <1>3 DEF CausesInv, ThreadCauses
<1>4. CASE UNCHANGED vars
  BY <1>0, <1>1, <1>3, <1>4 DEF vars, CausesInv, ThreadCauses
<1>5. CASE \E t \in Threads : RunThread(t)
  BY <1>1, <1>2, <1>5, RunThreadRow, RunThreadCauses DEF CausesInv, ThreadCauses
<1>6. CASE \E b \in Boards : Tick(b) \/ ProcessDue(b) \/ StartAll(b)
  <2>1. ThreadCauses
    <3>1. ASSUME NEW b \in Boards, NEW c \in CardsOf(b), TickStart(b, c) PROVE ThreadCauses
      BY <3>1, StartRunCauses DEF TickStart
    <3>2. ASSUME NEW b \in Boards, NEW c \in CardsOf(b), TickDrop(b, c) \/ TickWait(b, c)
          PROVE  UNCHANGED run
      BY <3>2 DEF TickDrop, TickWait
    <3>3. ASSUME NEW b \in Boards,
                 TickBegin(b) \/ TickWriteback(b) \/ ProcessDue(b) \/ StartAll(b)
          PROVE  UNCHANGED run
      BY <3>3 DEF TickBegin, TickWriteback, ProcessDue, StartAll
    <3> QED
      BY <1>3, <1>6, <3>1, <3>2, <3>3 DEF Tick
  <2>2. \A c \in Cards : card'[c].status = "rejected" => "reject" \in Acts
    BY <1>2, <1>6, OthersStay
  <2> QED
    BY <1>1, <2>1, <2>2 DEF CausesInv, ThreadCauses
<1>7. ASSUME NEW c \in Cards, HandStart(c)
      PROVE  CausesInv'
  <2>1. ThreadCauses
    BY <1>7, StartRunCauses DEF HandStart
  <2> QED
    BY <1>1, <1>2, <1>7, <2>1, HandStartRow DEF CausesInv, ThreadCauses
<1>8. ASSUME NEW c \in Cards, DecideWrite(c)
      PROVE  CausesInv'
  <2>1. UNCHANGED run
    BY <1>8 DEF DecideWrite
  <2>2. \A d \in Cards : card'[d].status = "rejected" => "reject" \in Acts
    <3>1. CASE http.act = "reject"
      BY <1>0, <3>1
    <3>2. CASE Accept(c)
      BY <1>0, <3>2 DEF Accept, Row
    <3> QED
      BY <1>8, <3>1, <3>2 DEF DecideWrite
  <2> QED
    BY <1>1, <1>3, <2>1, <2>2 DEF CausesInv, ThreadCauses
<1>9. CASE Operator \/ Time
  <2>1. UNCHANGED run
    BY <1>9 DEF Operator, StartAllRead, Stop, ClearQueue, HandCheck, DecideCheck,
                Time, RetryComesDue, LimitResets, PauseLapses
  <2> QED
    BY <1>1, <1>2, <1>3, <1>9, <2>1, OthersStay DEF CausesInv, ThreadCauses
<1>10. CASE Restart
  <2>1. ThreadCauses
    BY <1>10 DEF Restart, ThreadCauses, Idle
  <2>2. \A c \in Cards : card'[c].status = card[c].status
    BY <1>0, <1>10 DEF Restart, Row
  <2> QED
    BY <1>0, <1>1, <2>1, <2>2 DEF CausesInv, ThreadCauses
<1> QED
  BY <1>4, <1>5, <1>6, <1>7, <1>8, <1>9, <1>10 DEF Next

\* An accept that releases nothing writes the row of its card alone
LEMMA AcceptRow ==
  ASSUME TypeOK, CausesInv, NothingReleases, NEW c \in Cards, http.act = "accept", Accept(c),
         UNCHANGED run
  PROVE  OnlyRow(c)
<1>0. card \in [Cards -> Row]
  BY DEF TypeOK
<1>1. {d \in Dependents(c) :
         /\ card[c].status = "rejected"
         /\ card[d].reason = "DEPENDENCY_REJECTED"
         /\ \A e \in DependsOn[d] \ {c} : card[e].status # "rejected"} = {}
  <2> SUFFICES ASSUME NEW d \in Dependents(c), card[c].status = "rejected"
               PROVE  FALSE
    OBVIOUS
  <2>1. "accept" \in Acts /\ "reject" \in Acts
    BY DEF CausesInv
  <2>2. d \in Cards /\ DependsOn[d] # {}
    BY DEF Dependents
  <2> QED
    BY <2>1, <2>2 DEF NothingReleases
<1>2. card'[c].status = "accepted" /\ \A d \in Cards \ {c} : card'[d] = card[d]
  BY <1>0, <1>1 DEF Accept, Row
<1>3. RunsGoOn(c)
  BY DEF RunsGoOn, Running, ActiveCards, Live
<1> QED
  BY <1>2, <1>3 DEF OnlyRow, Undecided, NeverQueueable

\* A step of a run that clears no block logs the start it makes
LEMMA RunThreadLogged ==
  ASSUME TypeOK, StartsAreLogged, NEW t \in Threads, RunThread(t), ~Resume(t)
  PROVE  StartsAreLogged'
<1>a. run[t].card \in Cards
  <2>1. run[t].stage # "none"
    BY DEF RunThread, Begin, Opening, RunEnd, FinishPlain, FinishUsageLimit, FinishRuntime,
           FinishApiUnreachable, FinishMergeConflict, RejoinQueue, SetTimer, Resume
  <2> QED
    BY <2>1, BusyThread
<1>b. PICK c \in Cards : c = run[t].card
  BY <1>a
<1>0. card \in [Cards -> Row] /\ log \in [Cards -> LogRow]
  BY DEF TypeOK
<1>1. ASSUME \A d \in Cards \ {c} : card'[d] = card[d] /\ log'[d] = log[d],
             card'[c].status = "doing" /\ ~Seen(c)' => log'[c].midRun
      PROVE  StartsAreLogged'
  <2> SUFFICES ASSUME NEW d \in Cards, card'[d].status = "doing", ~Seen(d)'
               PROVE  log'[d].midRun
    BY DEF StartsAreLogged
  <2>1. CASE d = c
    BY <1>1, <2>1
  <2>2. CASE d # c
    BY <1>1, <2>2 DEF StartsAreLogged, Seen
  <2> QED
    BY <2>1, <2>2
<1>2. CASE Begin(t)
  <2>1. PICK m \in BOOLEAN, l \in {log, [log EXCEPT ![c].reset = "none"]} :
          /\ log' = [l EXCEPT ![c].midRun = m]
          /\ \/ ~m /\ card' = [card EXCEPT ![c].flag = TRUE]
             \/ m /\ card' = [card EXCEPT ![c] = [status |-> "doing", reason |-> "none",
                                                  flag |-> FALSE]]
    BY <1>b, <1>2 DEF Begin, Refuse
  <2>2. l \in [Cards -> LogRow] /\ \A d \in Cards \ {c} : l[d] = log[d]
    <3>1. "none" \in When
      BY DEF When
    <3>2. [log EXCEPT ![c].reset = "none"] \in [Cards -> LogRow]
      BY <1>0, <3>1, LogFields
    <3> QED
      BY <1>0, <2>1, <3>2
  <2>3. \A d \in Cards \ {c} : card'[d] = card[d] /\ log'[d] = log[d]
    BY <1>0, <2>1, <2>2
  <2>4. log'[c].midRun = m
    BY <2>1, <2>2 DEF LogRow
  <2>5. CASE card' = [card EXCEPT ![c].flag = TRUE]
    <3>1. card'[c].flag
      BY <1>0, <2>5 DEF Row
    <3> QED
      BY <1>1, <2>3, <3>1 DEF Seen
  <2>6. CASE m
    BY <1>1, <2>3, <2>4, <2>6
  <2> QED
    BY <2>1, <2>5, <2>6
<1>3. CASE Opening(t)
  <2>1. /\ card'[c].status = "checking"
        /\ \A d \in Cards \ {c} : card'[d] = card[d] /\ log'[d] = log[d]
    BY <1>b, <1>0, <1>3 DEF Opening, Row
  <2> QED
    BY <1>1, <2>1
<1>4. ASSUME NEW o \in Endings, RunEnd(t, o)
      PROVE  StartsAreLogged'
  <2>1. PICK reset : log' = [log EXCEPT ![c].midRun = FALSE, ![c].reset = reset]
    BY <1>b, <1>4 DEF RunEnd
  <2>2. card' = [card EXCEPT ![c] = Outcome(card[c], o)] /\ card[c] \in Row
    BY <1>b, <1>0, <1>4 DEF RunEnd
  <2>3. Outcome(card[c], o).status = "accepted" \/ Outcome(card[c], o).flag
    BY <2>2 DEF Outcome, Row
  <2>4. card'[c] = Outcome(card[c], o)
        /\ \A d \in Cards \ {c} : card'[d] = card[d] /\ log'[d] = log[d]
    BY <1>0, <2>1, <2>2
  <2>5. card'[c].status # "doing" \/ Seen(c)'
    BY <2>3, <2>4 DEF Seen
  <2> QED
    BY <1>1, <2>4, <2>5
<1>5. ASSUME FinishPlain(t) \/ FinishUsageLimit(t) \/ FinishApiUnreachable(t) \/ FinishRuntime(t)
             \/ FinishMergeConflict(t) \/ RejoinQueue(t) \/ SetTimer(t)
      PROVE  StartsAreLogged'
  <2>1. UNCHANGED card
    BY <1>5 DEF FinishPlain, FinishUsageLimit, FinishApiUnreachable, FinishRuntime,
                FinishMergeConflict, RejoinQueue, SetTimer
  <2>2. \/ UNCHANGED log
        \/ \E w : log' = [log EXCEPT ![c].reset = w]
        \/ \E n, w : log' = [log EXCEPT ![c].apiTries = n, ![c].retryAt = w]
        \/ \E r : log' = [log EXCEPT ![c].resumed = r]
    <3>1. CASE FinishPlain(t) \/ FinishRuntime(t) \/ RejoinQueue(t) \/ SetTimer(t)
      BY <3>1 DEF FinishPlain, FinishRuntime, RejoinQueue, SetTimer
    <3>2. CASE FinishUsageLimit(t)
      BY <1>b, <3>2 DEF FinishUsageLimit
    <3>3. CASE FinishApiUnreachable(t)
      <4>1. \/ UNCHANGED log
            \/ log' = [log EXCEPT ![c].apiTries = log[c].apiTries + 1, ![c].retryAt = "future"]
        BY <1>b, <3>3 DEF FinishApiUnreachable
      <4> QED
        BY <4>1
    <3>4. CASE FinishMergeConflict(t)
      BY <1>b, <3>4 DEF FinishMergeConflict
    <3> QED
      BY <1>5, <3>1, <3>2, <3>3, <3>4
  <2>3. log'[c].midRun = log[c].midRun /\ \A d \in Cards \ {c} : log'[d] = log[d]
    BY <1>0, <2>2 DEF LogRow
  <2> QED
    BY <1>1, <2>1, <2>3 DEF StartsAreLogged, Seen
<1> QED
  BY <1>2, <1>3, <1>4, <1>5 DEF RunThread

\* The other steps leave what the log says of a start, or put the card before the operator
LEMMA OtherLogged ==
  ASSUME TypeOK, CausesInv, NothingReleases, NothingResumes, StartsAreLogged,
         \/ \E b \in Boards : Tick(b) \/ ProcessDue(b) \/ StartAll(b)
         \/ \E c \in Cards : HandStart(c) \/ DecideWrite(c)
         \/ Operator \/ Time \/ Restart
  PROVE  StartsAreLogged'
<1>0. card \in [Cards -> Row] /\ log \in [Cards -> LogRow]
  BY DEF TypeOK
<1>1. ASSUME \A c \in Cards : /\ card'[c].status = "doing" /\ ~Seen(c)' => card'[c] = card[c]
                              /\ log'[c].midRun = log[c].midRun
      PROVE  StartsAreLogged'
  BY <1>1 DEF StartsAreLogged, Seen
<1>2. CASE UNCHANGED <<card, log>>
  BY <1>1, <1>2
<1>3. CASE \E b \in Boards : Tick(b) \/ ProcessDue(b) \/ StartAll(b)
  BY <1>2, <1>3 DEF Tick, TickBegin, TickWriteback, TickDrop, TickWait, TickStart, ProcessDue,
                    StartAll
<1>4. CASE Operator
  BY <1>2, <1>4 DEF Operator, StartAllRead, Stop, ClearQueue, HandCheck, DecideCheck
<1>5. CASE Time
  <2>1. UNCHANGED card
    BY <1>5 DEF Time, RetryComesDue, LimitResets, PauseLapses
  <2>2. \/ UNCHANGED log
        \/ \E c \in Cards : \E w : log' = [log EXCEPT ![c].reset = w]
        \/ \E c \in Cards : \E w : log' = [log EXCEPT ![c].retryAt = w]
    BY <1>5 DEF Time, RetryComesDue, LimitResets, PauseLapses
  <2>3. \A c \in Cards : log'[c].midRun = log[c].midRun
    BY <1>0, <2>2 DEF LogRow
  <2> QED
    BY <1>1, <2>1, <2>3
<1>6. ASSUME NEW c \in Cards, HandStart(c)
      PROVE  StartsAreLogged'
  <2>1. http.act # "answer"
    BY DEF CausesInv, NothingResumes
  <2> QED
    BY <1>2, <1>6, <2>1 DEF HandStart
<1>7. ASSUME NEW c \in Cards, DecideWrite(c)
      PROVE  StartsAreLogged'
  <2>1. UNCHANGED <<log, run>>
    BY <1>7 DEF DecideWrite
  <2>2. CASE http.act = "accept" /\ Accept(c)
    <3>1. \A d \in Cards \ {c} : card'[d] = card[d]
      BY <2>1, <2>2, AcceptRow DEF OnlyRow
    <3>2. card'[c].status = "accepted"
      BY <1>0, <2>2 DEF Accept, Row
    <3> QED
      BY <1>1, <2>1, <3>1, <3>2
  <2>3. CASE Reject(c)
    <3>1. card'[c].status = "rejected"
      BY <1>0, <2>3 DEF Reject, Rejected
    <3>2. \A d \in Cards \ {c} : card'[d] = card[d] \/ card'[d].flag
      BY <1>0, <2>3 DEF Reject, Row
    <3> QED
      BY <1>1, <2>1, <3>1, <3>2 DEF Seen
  <2> QED
    BY <1>7, <2>2, <2>3 DEF DecideWrite
<1>8. CASE Restart
  <2>1. UNCHANGED log /\ \A c \in Cards : card'[c] = card[c] \/ card'[c].flag
    BY <1>0, <1>8 DEF Restart, Row
  <2> QED
    BY <1>1, <2>1 DEF Seen
<1> QED
  BY <1>3, <1>4, <1>5, <1>6, <1>7, <1>8

\* recover_orphaned_runs: a card never sits in doing with nobody working on it and out of the
\* operator's inbox, as long as no rejection is reversed under it, and until the board process
\* dies unless nothing was ever answered or resumed
THEOREM DoingHolds ==
  ASSUME NothingReleases
  PROVE  Spec => [](restarts = 0 \/ NothingResumes => NoSilentDoing)
<1> DEFINE I == /\ CausesInv
                /\ restarts = 0 \/ NothingResumes => AttendsDoing
                /\ NothingResumes => StartsAreLogged
<1>1. Init => I
  <2> SUFFICES ASSUME Init PROVE I
    OBVIOUS
  <2>1. \A c \in Cards : card[c].status = "todo"
    BY DEF Init
  <2>2. CausesInv
    BY <2>1 DEF Init, CausesInv, NoRequest, Idle
  <2> QED
    BY <2>1, <2>2 DEF AttendsDoing, StartsAreLogged
<1>2. TypeOK /\ I /\ [Next]_vars => I'
  <2> SUFFICES ASSUME TypeOK, I, [Next]_vars
               PROVE  /\ restarts' = 0 \/ NothingResumes => AttendsDoing'
                      /\ NothingResumes => StartsAreLogged'
    BY CausesKept
  <2>1. CASE Restart
    <3>1. restarts \in Nat /\ restarts' = restarts + 1
      BY <2>1 DEF TypeOK, Restart
    <3>2. ASSUME NothingResumes
          PROVE  AttendsDoing' /\ StartsAreLogged'
      <4>1. StartsAreLogged'
        BY <2>1, <3>2, OtherLogged
      <4>2. ASSUME NEW c \in Cards, card'[c].status = "doing"
            PROVE  Seen(c)'
        <5>0. card \in [Cards -> Row] /\ card[c] \in Row
          BY DEF TypeOK
        <5>1. CASE Orphaned(c)
          <6>1. card'[c].flag
            BY <2>1, <5>0, <5>1 DEF Restart, Row
          <6> QED
            BY <6>1 DEF Seen
        <5>2. CASE ~Orphaned(c)
          <6>1. card'[c] = card[c]
            BY <2>1, <5>0, <5>2 DEF Restart
          <6>2. Seen(c)
            BY <3>2, <4>2, <5>2, <6>1 DEF Orphaned, Seen, StartsAreLogged
          <6> QED
            BY <6>1, <6>2 DEF Seen
        <5> QED
          BY <5>1, <5>2
      <4> QED
        BY <4>1, <4>2 DEF AttendsDoing
    <3> QED
      BY <3>1, <3>2
  <2>2. CASE UNCHANGED vars
    <3>1. RowsStay
      BY <2>2 DEF vars, RowsStay, Running, ActiveCards, Live
    <3>2. UNCHANGED restarts /\ (StartsAreLogged => StartsAreLogged')
      BY <2>2 DEF vars, StartsAreLogged, Seen
    <3> QED
      BY <3>1, <3>2, RowsStayAttends
  <2>3. ASSUME ~Restart, ~UNCHANGED vars
        PROVE  UNCHANGED restarts
    BY <2>3, RestartsCount
  <2>4. CASE \E t \in Threads : RunThread(t)
    <3>1. AttendsDoing => AttendsDoing'
      BY <2>4, RunThreadRow, OnlyRowAttends, RowsStayAttends
    <3>2. NothingResumes => ~\E t \in Threads : Resume(t)
      BY DEF CausesInv, NothingResumes, Resume
    <3>3. NothingResumes => StartsAreLogged'
      BY <2>4, <3>2, RunThreadLogged
    <3> QED
      BY <2>1, <2>2, <2>3, <3>1, <3>3
  <2>5. CASE \E c \in Cards : HandStart(c)
    BY <2>1, <2>2, <2>3, <2>5, HandStartRow, OnlyRowAttends, OtherLogged
  <2>6. ASSUME NEW c \in Cards, DecideWrite(c)
        PROVE  /\ AttendsDoing => AttendsDoing'
               /\ NothingResumes => StartsAreLogged'
    <3>1. UNCHANGED run
      BY <2>6 DEF DecideWrite
    <3>2. AttendsDoing => AttendsDoing'
      BY <2>6, <3>1, AcceptRow, OnlyRowAttends, RejectAttends DEF DecideWrite
    <3> QED
      BY <2>6, <3>2, OtherLogged
  <2>7. CASE \/ \E b \in Boards : Tick(b) \/ ProcessDue(b) \/ StartAll(b)
             \/ Operator \/ Time
    BY <2>1, <2>2, <2>3, <2>7, OthersStay, RowsStayAttends, OtherLogged
  <2> QED
    BY <2>1, <2>2, <2>3, <2>4, <2>5, <2>6, <2>7 DEF Next
<1>3. AttendsDoing => NoSilentDoing
  BY DEF AttendsDoing, NoSilentDoing, InInbox, Seen, Undecided, NeverQueueable
<1> QED
  BY <1>1, <1>2, <1>3, TypeCorrect, PTL DEF Spec

=============================================================================
