-------------------------------- MODULE Spend --------------------------------
(***************************************************************************)
(* The event log of each card, as its attempts write it (run_process,      *)
(* smortboard/exec/runner.py, and smortboard/lifecycle.py), and what is    *)
(* read back out of it: the cost of every role, card and day, what the     *)
(* spend caps refuse on, and how each attempt is said to have ended        *)
(* (smortboard/telemetry.py, budgets.py, labs/events.py).  Runs, turns of  *)
(* mission control, midnight and restarts of the board come in any order.  *)
(*                                                                         *)
(* A cost is a small number, or NoPrice where the lab told none.           *)
(***************************************************************************)
EXTENDS Integers, FiniteSets, SequencesExt

CONSTANTS
  Cards,
  MaxFixRounds,            \* MAX_FIX_ROUNDS
  DailyBudget, CardBudget, \* daily_budget_usd of the board, card_total_budget_usd
  Prices,                  \* what a piece of work may cost
  Faults,                  \* reasons an agent's result may carry, see Fault
  Tagged,                  \* whether results say whose they are: FALSE is an older log
  Metered,                 \* whether an agent may tell its usage before a result
  MaxAttempts,             \* bound: attempts of a card
  MaxHappens               \* bound: lines of agents, turns, midnights and restarts, in all

NoPrice == -1
Fault == {"capped", "CRASH", "LEASE_CONFLICT", "USAGE_LIMIT", "API_UNREACHABLE", "AGENT_QUESTION"}

ASSUME SpendConstants ==
  /\ IsFiniteSet(Cards) /\ Prices \subseteq Nat \cup {NoPrice} /\ Faults \subseteq Fault
  /\ Tagged \subseteq BOOLEAN /\ Metered \in BOOLEAN
  /\ {MaxFixRounds, DailyBudget, CardBudget, MaxAttempts, MaxHappens} \subseteq Nat

VARIABLES
  log,       \* the events of each card, oldest first
  turns,     \* board_spend, one row per turn
  day,
  tagged,    \* whether the board that runs records the role with a result
  at,        \* how far each card's run is
  agent,     \* what run_process holds of the agent it reads
  rounds,    \* state.fix_rounds
  reuse,     \* reuse_verdict
  cleared,   \* cards that spend_refusal let start, and whose start is still to come
  (* history variables *)
  paid,      \* what was really spent, by card and by whom
  due,       \* what each agent's work since its last result costs
  today,     \* what results and turns were told of since midnight
  ends,      \* how each attempt really ended, and whether its log may say otherwise
  astray,    \* the attempt went on where its log reads as if it had ended
  unheard,   \* money was spent that no line tells of
  happened

control == <<at, rounds, reuse>>
history == <<ends, astray>>
money == <<paid, due, today, unheard>>
vars == <<log, turns, day, tagged, agent, control, cleared, history, money, happened>>

NoAgent == [pending |-> <<>>, finals |-> 0, why |-> "none", limited |-> FALSE]
Roles == {"worker", "reviewer"}

Price == Nat \cup {NoPrice}

TypeOK ==
  /\ \A c \in Cards :
       /\ \A i \in DOMAIN log[c] : log[c][i].cost \in Price /\ log[c][i].used \in Price
       /\ at[c] \in {"idle", "begun", "worker", "worked", "tests", "reviewer", "reviewed",
                    "opening"}
       /\ at[c] \notin Roles => agent[c] = [NoAgent EXCEPT !.why = agent[c].why]
       /\ rounds[c] \in 0..MaxFixRounds /\ reuse[c] \in BOOLEAN /\ due[c] \in Price
       /\ \A r \in Roles : paid[c][r] \in Price
  /\ today \in Price /\ day \in Nat /\ happened \in 0..MaxHappens
  /\ tagged \in BOOLEAN /\ unheard \in BOOLEAN /\ cleared \subseteq Cards

Init ==
  /\ log = [c \in Cards |-> <<>>] /\ turns = <<>> /\ day = 0 /\ tagged \in Tagged
  /\ at = [c \in Cards |-> "idle"] /\ agent = [c \in Cards |-> NoAgent]
  /\ rounds = [c \in Cards |-> 0] /\ reuse = [c \in Cards |-> FALSE] /\ cleared = {}
  /\ paid = [c \in Cards |-> [r \in Roles |-> 0]] /\ today = 0 /\ unheard = FALSE
  /\ due = [c \in Cards |-> 0]
  /\ ends = [c \in Cards |-> <<>>] /\ astray = [c \in Cards |-> FALSE]
  /\ happened = 0

-----------------------------------------------------------------------------
(* Costs *)

Plus(a, b) == IF NoPrice \in {a, b} THEN NoPrice ELSE a + b

\* cost_sum: unknown as soon as one of them is
CostSum(cost) == IF NoPrice \in Range(cost) THEN NoPrice ELSE SumFunction(cost)

Results(c) == {i \in DOMAIN log[c] : log[c][i].kind = "result"}
EventCost(c, I) == [i \in I |-> log[c][i].cost]

-----------------------------------------------------------------------------
(* Attempts, read back *)

Kind(c, I, kinds) == {i \in I : log[c][i].kind \in kinds}
Starts(c) == Kind(c, DOMAIN log[c], {"lifecycle_started"})

\* _attempts: from each start to the next one
Attempts(c) ==
  IF Starts(c) = {} THEN {DOMAIN log[c]} \ {{}}
  ELSE {{i \in DOMAIN log[c] : i >= s /\ ~\E n \in Starts(c) : s < n /\ n <= i} :
        s \in Starts(c)}
Latest(c) == CHOOSE I \in Attempts(c) : \A J \in Attempts(c) : Max(J) <= Max(I)
Nth(c, n) == CHOOSE I \in Attempts(c) : Cardinality({s \in Starts(c) : s <= Min(I)}) = n

\* mutant: a fix round is no mark
RoleSinceTests(c, I, i) ==
  IF \E j \in Kind(c, I, {"test_gate"}) : j < i THEN "reviewer" ELSE "worker"

\* what came before a result that nothing came after
RoleBefore(c, I, i) ==
  LET marks == {j \in Kind(c, I, {"test_gate", "lifecycle_started", "fix_round"}) : j < i} IN
  IF marks # {} /\ log[c][Max(marks)].kind = "test_gate" THEN "reviewer" ELSE "worker"
\* _result_role
RoleOf(c, I, i) ==
  LET next == {j \in Kind(c, I, {"result", "worker_summary", "review_gate"}) : j > i} IN
  IF log[c][i].role # "unsaid" THEN log[c][i].role
  ELSE IF next = {} \/ log[c][Min(next)].kind = "result" THEN RoleBefore(c, I, i)
  ELSE IF log[c][Min(next)].kind = "worker_summary" THEN "worker" ELSE "reviewer"

\* _summarize_attempt, _telemetry_for, _board_overview_row
AttemptCost(c, I, r) ==
  CostSum(EventCost(c, {i \in Results(c) \cap I : RoleOf(c, I, i) = r}))
CardCost(c, r) == CostSum([I \in Attempts(c) |-> AttemptCost(c, I, r)])
BoardCost(r) == CostSum([c \in Cards |-> CardCost(c, r)])

\* usage_projection, the models' rows: usage told twice counts once
UsageCost(c) ==
  CostSum([i \in Kind(c, DOMAIN log[c], {"usage", "result"}) |-> log[c][i].used])

\* budgets._card_total_spend; below, telemetry.board_spend_today
CardSpend(c) == CostSum(EventCost(c, Results(c)))
TurnsOn(d) == CostSum([t \in {t \in DOMAIN turns : turns[t].day = d} |-> turns[t].cost])

\* mutant: what the cards cost on any day
CardsOnAnyDay(d) == Plus(CostSum([c \in Cards |-> CardSpend(c)]), TurnsOn(d))

CardSpentOn(c, d) == CostSum(EventCost(c, {i \in Results(c) : log[c][i].day = d}))
SpentOn(d) == Plus(CostSum([c \in Cards |-> CardSpentOn(c, d)]), TurnsOn(d))

Spent(cost, cap) == cost = NoPrice \/ cost >= cap

\* mutant: the card's own cap is not asked
DailyCapOnly(c) == Spent(SpentOn(day), DailyBudget)

\* spend_refusal; the scheduler's _budget_exhausted is its first part
SpendRefused(c) == Spent(SpentOn(day), DailyBudget) \/ Spent(CardSpend(c), CardBudget)

-----------------------------------------------------------------------------
(* How an attempt ended, read back *)

WhyOf(c, J) == IF J = {} THEN "none" ELSE log[c][Max(J)].why

\* _attempt_outcome: the signs it looks for, most decisive first: marks of the end itself, and
\* then what the agents and the gates said
Marks(c, I) ==
  << <<Kind(c, I, {"merge_request"}), "pull request">>,
     <<Kind(c, I, {"run_refused"}), "refused">>,
     <<Kind(c, I, {"run_stopped"}), "stopped">>,
     <<Kind(c, I, {"run_orphaned", "run_crashed"}), "CRASH">>,
     <<Kind(c, I, {"merge_conflict"}), "MERGE_CONFLICT">>,
     <<Kind(c, I, {"rebase_conflict"}), "OUTDATED">>,
     <<Kind(c, I, {"rate_limit"}), "USAGE_LIMIT">> >>
Verdicts(c, I) ==
  LET With(kind, fine) == {i \in Kind(c, I, {kind}) : log[c][i].why \notin fine}
      reasons == With("result", {"none"})
      rejections == With("review_gate", {"approved"})
      failures == With("test_gate", {"none"})
      red == Kind(c, I, {"base_red"}) IN
  << <<reasons, WhyOf(c, reasons)>>,
     <<rejections, WhyOf(c, rejections)>>,
     <<failures, IF red # {} THEN "BASE_RED" ELSE "TESTS_FAILED">> >>

\* mutant: what was said decides first
VerdictsFirst(c, I) == Verdicts(c, I) \o Marks(c, I)
Signs(c, I) == Marks(c, I) \o Verdicts(c, I)

Outcome(c, I) ==
  LET seen == {n \in DOMAIN Signs(c, I) : Signs(c, I)[n][1] # {}} IN
  IF seen # {} THEN Signs(c, I)[Min(seen)][2]
  ELSE IF Kind(c, I, {"worker_summary", "worker_skipped"}) = {} THEN "refused"
  ELSE "in progress"

\* outcome._latest_attempt and timeline._default_attempt: the newest that left an outcome
Shown(c) ==
  LET real == {I \in Attempts(c) :
                 Kind(c, I, {"worker_summary", "test_gate", "review_gate", "merge_request"})
                   # {}} IN
  IF real = {} THEN Latest(c) ELSE CHOOSE I \in real : \A J \in real : Max(J) <= Max(I)

\* _finished_card_evidence
IsEvidence(c) == Attempts(c) # {} /\ Outcome(c, Latest(c)) # "in progress"
-----------------------------------------------------------------------------
(* What is written *)

Event(kind, why) ==
  [kind |-> kind, why |-> why, day |-> 0, cost |-> 0, used |-> 0, role |-> "unsaid"]
Plain(kinds) == [n \in DOMAIN kinds |-> Event(kinds[n], "none")]

\* a result of the agent that c's run reads: in all it cost `cost`, `used` of it told only now
Result(c, cost, used, why) ==
  [Event("result", why) EXCEPT !.cost = cost, !.used = used, !.day = day,
     !.role = IF ~tagged THEN "unsaid" ELSE at[c]]

Writes(c, events) == log' = [log EXCEPT ![c] = @ \o events]
Happens == happened < MaxHappens /\ happened' = happened + 1
Goes(c, to) == at' = [at EXCEPT ![c] = to]
Running(c) == at[c] # "idle"

\* the attempt ends as `how`, after its last events; odd: its log may say otherwise
EndsOddly(c, how, odd) ==
  /\ Goes(c, "idle")
  /\ ends' = [ends EXCEPT ![c] = Append(@, [how |-> how, odd |-> astray[c] \/ odd])]
  /\ rounds' = [rounds EXCEPT ![c] = 0] /\ reuse' = [reuse EXCEPT ![c] = FALSE]
  /\ astray' = [astray EXCEPT ![c] = FALSE]
Ends(c, how) == EndsOddly(c, how, FALSE)
EndsWith(c, how, kinds) == Ends(c, how) /\ Writes(c, Plain(kinds))

Told == <<turns, day, tagged, agent, money, happened, cleared>>

-----------------------------------------------------------------------------
(* The agent of a run: run_process *)

Charge(c, cost) == paid' = [paid EXCEPT ![c][at[c]] = Plus(@, cost)]
Settle(c, cost) == today' = Plus(today, cost) /\ due' = [due EXCEPT ![c] = 0]

Line(c) == at[c] \in Roles /\ Happens
           /\ UNCHANGED <<turns, day, tagged, cleared, control, ends, unheard>>

\* a line that tells of usage, and of no result
Uses(c) == \E cost \in Prices :
  /\ Line(c) /\ Metered /\ ~agent[c].limited
  /\ Writes(c, <<[Event("usage", "none") EXCEPT !.used = cost]>>)
  /\ agent' = [agent EXCEPT ![c].pending = Append(@, cost)]
  /\ Charge(c, cost) /\ due' = [due EXCEPT ![c] = Plus(@, cost)]
  /\ UNCHANGED <<today, astray>>

Pending(c) == CostSum(agent[c].pending)

\* a result: an agent that is steered goes on after it
Reports(c) == \E cost \in Prices, why \in {"none"} \cup Faults :
  /\ Line(c)
  /\ Writes(c, <<Result(c, Plus(Pending(c), cost), cost,
                       IF why = "capped" THEN "CRASH" ELSE why)>>)
  /\ agent' = [agent EXCEPT ![c] = [@ EXCEPT !.pending = <<>>, !.finals = 1, !.why = why]]
  /\ Charge(c, cost) /\ Settle(c, Plus(due[c], cost))
  /\ astray' = [astray EXCEPT ![c] =
                  @ \/ (agent[c].finals = 1 /\ agent[c].why # "none" /\ why = "none")]

\* only labs with a cap of their own (native_budget) tell of a limit on a line of its own, and
\* none of these tells its usage by itself
Limited(c) ==
  /\ Line(c) /\ ~agent[c].limited /\ agent[c].pending = <<>>
  /\ Writes(c, Plain(<<"rate_limit">>))
  /\ agent' = [agent EXCEPT ![c].limited = TRUE]
  /\ UNCHANGED <<paid, due, today, astray>>

Exit(c, why) ==
  /\ at[c] \in Roles
  /\ Goes(c, IF at[c] = "worker" THEN "worked" ELSE "reviewed")
  /\ agent' = [agent EXCEPT ![c] = [NoAgent EXCEPT !.why = why]]
  /\ UNCHANGED <<turns, day, tagged, cleared, rounds, reuse, ends>>

Silent(c) == agent[c].finals = 0 /\ agent[c].pending = <<>>

\* the agent is done after a result: what it used since is in none
LeftOver(c) ==
  /\ agent[c].finals = 1
  /\ due' = [due EXCEPT ![c] = 0]
  /\ unheard' = (unheard \/ agent[c].pending # <<>>)
  /\ UNCHANGED <<paid, today, happened>>

Finishes(c) ==
  /\ LeftOver(c)
  /\ Exit(c, IF agent[c].why = "none" /\ agent[c].limited THEN "USAGE_LIMIT"
             ELSE agent[c].why)
  /\ astray' = [astray EXCEPT ![c] =
                  @ \/ (agent[c].limited /\ agent[c].why \notin {"none", "USAGE_LIMIT"})]
  /\ UNCHANGED log

\* no line for STALL_TIMEOUT_SECONDS after a result: an outage, of which no result tells
Stalls(c) ==
  /\ LeftOver(c)
  /\ Exit(c, "API_UNREACHABLE") /\ astray' = [astray EXCEPT ![c] = TRUE]
  /\ UNCHANGED log

\* it died before any result, and what it used so far is all that is known
Dies(c) == \E stalled \in BOOLEAN :
  LET cost == IF agent[c].pending = <<>> THEN NoPrice ELSE Pending(c)
      why == IF stalled THEN "API_UNREACHABLE"
             ELSE IF agent[c].limited THEN "USAGE_LIMIT" ELSE "CRASH" IN
  /\ agent[c].finals = 0 /\ Happens
  /\ Exit(c, why) /\ Writes(c, <<Result(c, cost, 0, why)>>)
  /\ IF Silent(c) THEN Charge(c, NoPrice) /\ Settle(c, NoPrice)
     ELSE Settle(c, due[c]) /\ UNCHANGED paid
  /\ astray' = [astray EXCEPT ![c] = @ \/ (stalled /\ agent[c].limited)]
  /\ UNCHANGED unheard

\* the board cut it short, over its budget or its time (a lab without native_budget): the cost
\* of what no result told of is the sum of the usage told since, also where that is none
Rest(c) == Pending(c)
Capped(c) ==
  /\ Happens
  /\ ~agent[c].limited /\ Exit(c, "capped") /\ Writes(c, <<Result(c, Rest(c), 0, "CRASH")>>)
  /\ IF Silent(c) THEN Charge(c, NoPrice) /\ Settle(c, NoPrice) /\ unheard' = TRUE
     ELSE Settle(c, due[c]) /\ UNCHANGED <<paid, unheard>>
  /\ UNCHANGED astray

-----------------------------------------------------------------------------
(* The attempts of a card: _run_attempt *)

\* every start asks spend_refusal first
Ask(c) ==
  /\ ~Running(c) /\ c \notin cleared /\ ~SpendRefused(c)
  /\ Cardinality(Starts(c)) < MaxAttempts
  /\ cleared' = cleared \cup {c}
  /\ UNCHANGED <<log, turns, day, tagged, agent, control, history, money, happened>>

\* and the run is started in a step of its own, whatever was booked since it asked
Clears(c) ==
  /\ c \in cleared /\ cleared' = cleared \ {c}
  /\ UNCHANGED <<turns, day, tagged, agent, money, happened>>

Start(c) ==
  /\ ~Running(c) /\ Clears(c)
  /\ Goes(c, "begun") /\ Writes(c, Plain(<<"lifecycle_started">>))
  /\ UNCHANGED <<rounds, reuse, history>>

\* refused before its start is marked, into the log of the attempt before
RefusedAtOnce(c) ==
  /\ ~Running(c) /\ Clears(c) /\ ends[c] # <<>> /\ WhyOf(c, DOMAIN log[c]) # "at once"
  /\ Writes(c, <<Event("run_refused", "at once")>>)
  /\ ends' = [ends EXCEPT ![c][Len(ends[c])].odd = TRUE]
  /\ UNCHANGED <<control, astray>>

\* repeats_failed_attempt and resume_point, as far as the verdicts go (see Attempt)
Tried(c) == {I \in Attempts(c) : Kind(c, I, {"worker_summary", "worker_skipped"}) # {}}
FailedLast(c) == \E I \in Tried(c) : /\ \A J \in Tried(c) : Max(J) <= Max(I)
                                     /\ WhyOf(c, Kind(c, I, {"test_gate"})) = "failed"
ApprovedOnce(c) == WhyOf(c, Kind(c, DOMAIN log[c], {"review_gate"})) = "approved"

Prepare(c) ==
  /\ at[c] = "begun" /\ UNCHANGED Told
  /\ \/ EndsWith(c, "refused", <<"run_refused">>)
     \/ EndsWith(c, "OUTDATED", <<"rebase_conflict">>)
     \/ FailedLast(c) /\ EndsOddly(c, "TESTS_FAILED", TRUE) /\ UNCHANGED log
     \/ Goes(c, "worker") /\ UNCHANGED <<log, rounds, reuse, history>>
     \/ /\ Tried(c) # {} /\ Goes(c, "tests") /\ Writes(c, Plain(<<"worker_skipped">>))
        /\ \E r \in {FALSE, ApprovedOnce(c)} : reuse' = [reuse EXCEPT ![c] = r]
        /\ UNCHANGED <<rounds, history>>

\* what becomes of a worker that came back; one that was cut short or refused a write goes on
\* if it has committed
Worked(c) ==
  LET why == agent[c].why
      GoesOn(astrayToo) ==
        /\ Goes(c, "tests") /\ Writes(c, Plain(<<"worker_summary">>))
        /\ astray' = [astray EXCEPT ![c] = @ \/ astrayToo]
        /\ UNCHANGED <<ends, rounds, reuse>> IN
  /\ at[c] = "worked" /\ UNCHANGED Told
  /\ \/ EndsWith(c, "stopped", <<"run_stopped">>)
     \/ why = "CRASH" /\ EndsWith(c, "refused", <<"run_refused">>)      \* auth_failed
     \/ why \notin {"none", "capped"} /\ Ends(c, why) /\ UNCHANGED log
     \* the check after the run finds a commit outside the lease, whatever the result says
     \/ why # "LEASE_CONFLICT" /\ EndsOddly(c, "LEASE_CONFLICT", TRUE) /\ UNCHANGED log
     \/ why = "capped" /\ Ends(c, "CRASH") /\ UNCHANGED log
     \/ why \in {"capped", "LEASE_CONFLICT"} /\ GoesOn(TRUE)
     \/ why = "none" /\ GoesOn(FALSE)
     \/ /\ why = "none" /\ rounds[c] = 0                                \* no commits
        /\ EndsWith(c, "refused", <<"worker_summary", "run_refused">>)

Failing(c, why, events) ==
  /\ EndsOddly(c, why, \E i \in Kind(c, Latest(c), {"review_gate"}) :
                         log[c][i].why # "approved")
  /\ Writes(c, <<Event("test_gate", "failed")>> \o Plain(events))

Test(c) ==
  /\ at[c] = "tests" /\ UNCHANGED Told
  /\ \/ EndsWith(c, "refused", <<"run_refused">>)
     \/ EndsWith(c, "stopped", <<"test_gate", "run_stopped">>)
     \/ Failing(c, "TESTS_FAILED", <<>>)
     \/ Failing(c, "BASE_RED", <<"base_red">>)
     \/ /\ reuse[c] /\ Goes(c, "opening")
        /\ Writes(c, Plain(<<"test_gate", "review_reused">>))
        /\ UNCHANGED <<rounds, reuse, history>>
     \/ /\ ~reuse[c] /\ Goes(c, "reviewer") /\ Writes(c, Plain(<<"test_gate">>))
        /\ UNCHANGED <<rounds, reuse, history>>

\* the verdict is recorded and acted upon: _parse, _record and the rest of the loop
Verdict(c) ==
  LET why == agent[c].why
      \* no verdict is to be read, of a clean result either
      outage == IF why \in {"USAGE_LIMIT", "API_UNREACHABLE"} THEN why ELSE "CRASH"
      gate(says) == <<Event("review_gate", says)>>
      answered == why # "USAGE_LIMIT" IN
  /\ at[c] = "reviewed" /\ UNCHANGED Told
  /\ \/ \E says \in {"approved", "REVIEW_REJECTED", outage} :
          /\ Ends(c, "stopped")
          /\ Writes(c, gate(says) \o Plain(<<"run_stopped">>))
     \/ /\ answered /\ Goes(c, "opening") /\ Writes(c, gate("approved"))
        /\ astray' = [astray EXCEPT ![c] = @ \/ why # "none"]
        /\ UNCHANGED <<ends, rounds, reuse>>
     \/ /\ Writes(c, gate(outage))
        /\ EndsOddly(c, outage, outage # why /\ why \notin {"none", "capped"})
     \/ /\ answered /\ Writes(c, gate("REVIEW_REJECTED"))
        /\ EndsOddly(c, "REVIEW_REJECTED", why # "none")
     \/ /\ answered /\ rounds[c] < MaxFixRounds /\ Goes(c, "worker")
        /\ Writes(c, gate("REVIEW_REJECTED") \o Plain(<<"fix_round">>))
        /\ rounds' = [rounds EXCEPT ![c] = @ + 1]
        /\ astray' = [astray EXCEPT ![c] = @ \/ why # "none"]
        /\ UNCHANGED <<ends, reuse>>

\* the reviewer is not run: it cannot be, or there is no diff to read
NoReviewer(c) ==
  /\ at[c] = "reviewer" /\ Silent(c) /\ ~agent[c].limited /\ UNCHANGED Told
  /\ \/ EndsWith(c, "refused", <<"run_refused">>)
     \/ /\ Goes(c, "opening") /\ Writes(c, <<Event("review_gate", "approved")>>)
        /\ UNCHANGED <<rounds, reuse, history>>

Open(c) ==
  /\ at[c] = "opening" /\ UNCHANGED Told
  /\ \/ EndsWith(c, "stopped", <<"run_stopped">>)
     \/ EndsWith(c, "MERGE_CONFLICT", <<"merge_conflict">>)
     \/ Failing(c, "TESTS_FAILED", <<>>)
     \/ Failing(c, "BASE_RED", <<"base_red">>)
     \/ EndsWith(c, "refused", <<"run_refused">>)
     \/ EndsWith(c, "pull request", <<"merge_request">>)

\* the run raised: _block_crashed
Raises(c) ==
  /\ at[c] \in {"begun", "tests", "opening"} /\ UNCHANGED Told
  /\ EndsWith(c, "CRASH", <<"run_crashed">>)

-----------------------------------------------------------------------------
(* The board *)

\* add_board_spend, whatever became of the turn
Turn == \E cost \in Prices :
  /\ Happens
  /\ turns' = Append(turns, [cost |-> cost, day |-> day])
  /\ today' = Plus(today, cost)
  /\ UNCHANGED <<log, day, tagged, agent, cleared, control, history, paid, due, unheard>>

Midnight ==
  /\ Happens /\ day' = day + 1 /\ today' = 0
  /\ UNCHANGED <<log, turns, tagged, agent, cleared, control, history, paid, due, unheard>>

\* the board dies with its runs, and what it is started as next knows whose a result is;
\* recover_orphaned_runs marks those it finds in doing: a run sets that after it has begun, and
\* its card goes to checking before its pull request is opened
Restart == \E kept \in SUBSET {c \in Cards : at[c] = "opening"} :
  LET runs == {c \in Cards : Running(c)}
      found == {c \in runs \ kept : at[c] # "begun"} IN
  /\ Happens /\ tagged' = TRUE /\ cleared' = {}
  /\ at' = [c \in Cards |-> "idle"] /\ agent' = [c \in Cards |-> NoAgent]
  /\ log' = [c \in Cards |-> IF c \in found THEN log[c] \o Plain(<<"run_orphaned">>)
                             ELSE log[c]]
  /\ ends' = [c \in Cards |-> IF c \in runs
                THEN Append(ends[c], [how |-> "CRASH", odd |-> c \notin found]) ELSE ends[c]]
  /\ unheard' = (unheard \/ \E c \in runs : at[c] \in Roles)
  /\ rounds' = [c \in Cards |-> 0] /\ reuse' = [c \in Cards |-> FALSE]
  /\ astray' = [c \in Cards |-> FALSE] /\ due' = [c \in Cards |-> 0]
  /\ UNCHANGED <<turns, day, paid, today>>

AgentNext(c) == Uses(c) \/ Reports(c) \/ Limited(c) \/ Finishes(c) \/ Stalls(c) \/ Dies(c)
                \/ Capped(c)
RunNext(c) == Start(c) \/ RefusedAtOnce(c) \/ Prepare(c) \/ Worked(c) \/ Test(c) \/ Verdict(c)
              \/ NoReviewer(c) \/ Open(c) \/ Raises(c)
Next == (\E c \in Cards : AgentNext(c) \/ RunNext(c) \/ Ask(c)) \/ Turn \/ Midnight \/ Restart

Spec == Init /\ [][Next]_vars

-----------------------------------------------------------------------------
(* Properties *)

\* What the log says a card's worker and its reviewer cost is what they cost, whether the
\* results say whose they are or the reader infers it from what came before and after; the
\* board's rows, the card's cap and the view by model say the same in all.  A cost nobody
\* knows stays unknown, whatever was told before and after it.
SpendIsCounted ==
  ~unheard /\ (\A c \in Cards : due[c] = 0) =>
    /\ \A c \in Cards :
         LET total == Plus(paid[c]["worker"], paid[c]["reviewer"]) IN
         /\ \A r \in Roles : CardCost(c, r) = paid[c][r]
         /\ CardSpend(c) = total
         /\ total # NoPrice => UsageCost(c) = total
    /\ \A r \in Roles : BoardCost(r) = CostSum([c \in Cards |-> paid[c][r]])

\* Today's spend is what was told of since midnight: a run whose results came before and after
\* it, a run that died or was cut short and a turn of mission control each count once.
TodayIsCounted == ~unheard => SpentOn(day) = today

\* An attempt that is over is said to have ended the way it did, unless its log is silent on it or
\* says otherwise (odd): it went on where an attempt stops (astray), the check after its run found
\* a lease conflict, the next one was refused into its log, or the board died before it began or
\* with its card in checking already, which recovery passes over.
OutcomeIsTold ==
  \A c \in Cards : \A n \in DOMAIN ends[c] :
    ~ends[c][n].odd => Outcome(c, Nth(c, n)) = ends[c][n].how

\* No start is let through once what its board was told of today, or what its card ever cost,
\* has reached the cap or is not known; and no run starts that was not let through, each once.
StartsWithin(c) ==
  /\ ~Spent(today, DailyBudget)
  /\ ~Spent(Plus(paid[c]["worker"], paid[c]["reviewer"]), CardBudget)
LetThrough(before, after) == after \ before
CapsHold ==
  [][\A c \in Cards :
       /\ c \in LetThrough(cleared, cleared') /\ ~unheard => StartsWithin(c)
       /\ ~Running(c) /\ Running(c)' => c \in LetThrough(cleared', cleared)]_vars

\* Not true: CapsHold whatever the log was not told.  docs/practices/labs.md:85 has "an enabled
\* cumulative spend cap refuses new starts while prior spend is unknown": an agent that told no
\* usage before its time was up is booked at 0, not at no price.
UnknownIsRefused ==
  [][\A c \in Cards : c \in LetThrough(cleared, cleared') => StartsWithin(c)]_vars

\* Not true: telemetry.py:296 has "how this attempt ended, read off its own events - honestly
\* means never inventing a reason the log does not carry".
OutcomeIsHonest ==
  \A c \in Cards : \A n \in DOMAIN ends[c] : Outcome(c, Nth(c, n)) = ends[c][n].how

\* Not true: telemetry.py:942 has "None while it is still running or has never been run, so an
\* in-progress card never counts toward a model's record".
RunningIsNoEvidence == \A c \in Cards : Running(c) => ~IsEvidence(c)

\* Not true: review/outcome.py:4 has "Only events after the latest `lifecycle_started` count, so
\* a card rejected and run again shows the new attempt".
ShowsTheLatest == \A c \in Cards : Attempts(c) # {} => Shown(c) = Latest(c)
=============================================================================
