----------------------------- MODULE LandingLock -----------------------------
(***************************************************************************)
(* Landing on one base branch of one repo: the landing lock of the store   *)
(* (smortboard/store/api.py), the two kinds of client that take it, the    *)
(* board's own cards (review/land_card.py) and agents outside the board    *)
(* (land_cli.py), and what they do to the base while they hold it.         *)
(*                                                                         *)
(* The agents share the connection of the single-threaded server.  A card  *)
(* lands on a thread and a connection of its own, one card at a time       *)
(* behind integration_lock, so one more connection stands for them all.    *)
(* A transaction is one step; a SELECT before it commits nothing and holds *)
(* nothing, so it is a step of its own and another connection may write    *)
(* between the two.  A lease is known by the client it was made for.       *)
(***************************************************************************)
EXTENDS Integers, Sequences, FiniteSets

CONSTANTS
  Cards, Agents,
  NoOne,          \* no client
  Attempts,       \* INTEGRATE_ATTEMPTS
  Happens,        \* what else may happen, see Happening
  MaxLapses,      \* bound: leases of live holders that pass their ttl
  MaxPushes,      \* bound: pushes to the base by somebody without the lock
  MaxCrashes      \* bound: restarts of the board process

Clients == Cards \cup Agents

\* slow: a card tests for longer than its ttl; sleep: an agent's machine sleeps for longer;
\* late beat: a heartbeat is on its way while the lease is released; watch: the queue panel
\* is read; fetch: a fetch of the base may fail, which the board goes on after
Happening == {"slow", "sleep", "late beat", "watch", "interrupt", "kill", "fetch"}

ASSUME LandingConstants ==
  /\ Cards \cap Agents = {} /\ NoOne \notin Clients
  /\ IsFiniteSet(Clients)
  /\ Attempts \in Nat \ {0} /\ Happens \subseteq Happening
  /\ MaxLapses \in Nat /\ MaxPushes \in Nat /\ MaxCrashes \in Nat

VARIABLES
  holder,         \* landing_locks: the lease that holds the base, if any
  stale,          \* its last_heartbeat is older than its ttl
  line,           \* landing_queue, by position and then as it was entered
  places,         \* its positions
  mark,           \* the next_position each connection has read
  req,            \* the request each connection is half way through
  landing,        \* integration_lock: the card inside it
  phase,          \* how far each client is
  tested,         \* the base each client last merged in and tested
  tries,          \* attempts of land_card spent
  beat,           \* the heartbeat thread of each agent
  base,           \* how many commits the base has taken
  overtaken,      \* history: whose last sync fetched nothing, or was followed by a push by hand
  blind,          \* history: who was last checked against a base that was not fetched
  evicted,        \* history: the clients at work whose lease was evicted
  lapses, pushes, crashes    \* bounds

lock == <<holder, stale, line, places, mark>>
work == <<tested, tries, base, overtaken, blind>>
bounds == <<lapses, pushes, crashes>>
vars == <<lock, req, landing, phase, work, beat, evicted, bounds>>

Conns == {"http", "board"}
ConnOf(c) == IF c \in Agents THEN "http" ELSE "board"
Working == {"holding", "synced", "merging"}
Phases == {"new", "asking", "waiting", "leaving", "gone", "dead"} \cup Working
Asks == {"first", "poll"}
NoRequest == [who |-> NoOne, kind |-> "none", at |-> "idle"]
Points == {"stale?", "evict", "held?", "beat", "queued?", "free?", "insert", "join",
           "enter", "granted?", "place?", "release?", "free", "waits?", "leave"}
Elems(q) == {q[i] : i \in DOMAIN q}
AtWork == {c \in Clients : phase[c] \in Working}

TypeOK ==
  /\ holder \in Clients \cup {NoOne} /\ stale \in BOOLEAN
  /\ line \in Seq(Clients) /\ places \in Seq(Nat) /\ mark \in [Conns -> Nat]
  /\ req \in [Conns -> [who : Clients \cup {NoOne}, at : Points,
                        kind : Asks \cup {"beat", "release", "watch"}] \cup {NoRequest}]
  /\ landing \in Cards \cup {NoOne}
  /\ phase \in [Clients -> Phases]
  /\ tested \in [Clients -> Nat] /\ tries \in [Clients -> Nat] /\ base \in Nat
  /\ beat \in [Agents -> {"none", "sent", "dead"}]
  /\ evicted \subseteq Clients /\ overtaken \subseteq Clients /\ blind \subseteq Clients
  /\ lapses \in Nat /\ pushes \in Nat /\ crashes \in Nat

Init ==
  /\ holder = NoOne /\ stale = FALSE /\ line = <<>> /\ places = <<>>
  /\ mark = [k \in Conns |-> 0]
  /\ req = [k \in Conns |-> NoRequest]
  /\ landing = NoOne
  /\ phase = [c \in Clients |-> "new"]
  /\ tested = [c \in Clients |-> 0] /\ tries = [c \in Clients |-> 0] /\ base = 0
  /\ beat = [a \in Agents |-> "none"]
  /\ evicted = {} /\ overtaken = {} /\ blind = {}
  /\ lapses = 0 /\ pushes = 0 /\ crashes = 0

-----------------------------------------------------------------------------
(* Requests *)

Idle(k) == req[k] = NoRequest
At(k, point) == req[k].at = point
Who(k) == req[k].who
Known(k) == req[k].kind # "first"       \* it came with a lease id
Goto(k, point) == req' = [req EXCEPT ![k].at = point]
Post(k, c, kind, point) == req' = [req EXCEPT ![k] = [who |-> c, kind |-> kind, at |-> point]]

\* the answer reaches a client that still waits for it; a heartbeat's is read by nobody,
\* but an error ends the thread that sent it
Reply(k, result) ==
  LET c == Who(k) IN
  /\ req' = [req EXCEPT ![k] = NoRequest]
  /\ phase' = IF req[k].kind \in Asks /\ phase[c] = "asking"
              THEN [phase EXCEPT ![c] = result] ELSE phase
  /\ landing' = IF result = "gone" /\ landing = c THEN NoOne ELSE landing
  /\ beat' = IF req[k].kind = "beat"
             THEN [beat EXCEPT ![c] = IF result = "gone" THEN "dead" ELSE "none"] ELSE beat

Unchanged == UNCHANGED <<work, evicted, bounds>>
OnlyMoves(k, point) == Goto(k, point) /\ UNCHANGED <<lock, landing, phase, beat>> /\ Unchanged

\* _renumber_landing_queue
Renumber == places' = [i \in 1..Len(line') |-> i] /\ UNCHANGED mark

\* _promote_next_landing once the slot is free: the head of the line, on a fresh heartbeat
Promote ==
  /\ holder' = IF line = <<>> THEN NoOne ELSE Head(line)
  /\ line' = IF line = <<>> THEN line ELSE Tail(line)
  /\ stale' = FALSE /\ Renumber

-----------------------------------------------------------------------------
(* request_landing and list_landing *)

\* _evict_stale_landing reads the holder and its age ...
SelectStale(k) ==
  /\ At(k, "stale?")
  /\ IF holder # NoOne /\ stale THEN OnlyMoves(k, "evict")
     ELSE IF req[k].kind = "watch"
     THEN /\ req' = [req EXCEPT ![k] = NoRequest]
          /\ UNCHANGED <<lock, landing, phase, beat>> /\ Unchanged
     ELSE OnlyMoves(k, IF Known(k) THEN "held?" ELSE "free?")

\* ... and deletes whatever row the key has by then
Drop == Promote

Evict(k) ==
  /\ At(k, "evict") /\ Drop
  /\ evicted' = evicted \cup ({holder} \cap AtWork)
  /\ IF req[k].kind = "watch" THEN req' = [req EXCEPT ![k] = NoRequest]
     ELSE Goto(k, IF Known(k) THEN "held?" ELSE "free?")
  /\ UNCHANGED <<landing, phase, beat, work, bounds>>

SelectHeld(k) ==
  /\ At(k, "held?")
  /\ OnlyMoves(k, IF holder = Who(k) THEN "beat" ELSE "queued?")

Refresh(c) == stale' = (stale /\ holder # c)

Heartbeat(k) ==
  /\ At(k, "beat") /\ Goto(k, "granted?") /\ Refresh(Who(k))
  /\ UNCHANGED <<holder, line, places, mark, landing, phase, beat>> /\ Unchanged

SelectQueued(k) ==
  /\ At(k, "queued?")
  /\ OnlyMoves(k, IF Who(k) \in Elems(line) THEN "granted?" ELSE "free?")

\* mutant of FreeSlot: a base nobody waits for counts as free
NobodyWaits == line = <<>>
FreeSlot == holder = NoOne

SelectCurrent(k) == At(k, "free?") /\ OnlyMoves(k, IF FreeSlot THEN "insert" ELSE "join")

\* the primary key refuses a second holder: the request fails
Insert(k) ==
  /\ At(k, "insert")
  /\ IF FreeSlot
     THEN /\ holder' = Who(k) /\ stale' = FALSE /\ Goto(k, "granted?")
          /\ UNCHANGED <<line, places, mark, landing, phase, beat>>
     ELSE Reply(k, "gone") /\ UNCHANGED lock
  /\ Unchanged

\* SELECT MAX(position) ...
Join(k) ==
  /\ At(k, "join") /\ Goto(k, "enter")
  /\ mark' = [mark EXCEPT ![k] = IF line = <<>> THEN 1 ELSE places[Len(line)] + 1]
  /\ UNCHANGED <<holder, stale, line, places, landing, phase, beat>> /\ Unchanged

With(q, n, x) ==
  [i \in 1..(Len(q) + 1) |-> IF i <= n THEN q[i] ELSE IF i = n + 1 THEN x ELSE q[i - 1]]

\* ... and INSERT at the position after it, which others may have taken by then
PlaceAt(n, p) ==
  /\ \A i \in 1..n : places[i] <= p
  /\ \A i \in (n + 1)..Len(line) : places[i] > p

\* mutant of Enter: the newest waiter goes first
EnterFirst(c, p) == line' = With(line, 0, c) /\ places' = With(places, 0, 0)
Enter(c, p) ==
  \E n \in 0..Len(line) :
    PlaceAt(n, p) /\ line' = With(line, n, c) /\ places' = With(places, n, p)

\* a lease id is UNIQUE in the queue
EnterLine(k) ==
  /\ At(k, "enter")
  /\ IF Who(k) \in Elems(line) THEN Reply(k, "gone") /\ UNCHANGED <<line, places>>
     ELSE Enter(Who(k), mark[k]) /\ Goto(k, "granted?") /\ UNCHANGED <<landing, phase, beat>>
  /\ mark' = [mark EXCEPT ![k] = 0]
  /\ UNCHANGED <<holder, stale>> /\ Unchanged

\* _landing_status: two SELECTs, and an error if the lease is in neither place
StatusHeld(k) ==
  /\ At(k, "granted?")
  /\ IF holder = Who(k) THEN Reply(k, "holding") /\ UNCHANGED lock /\ Unchanged
     ELSE OnlyMoves(k, "place?")
StatusQueued(k) ==
  /\ At(k, "place?")
  /\ Reply(k, IF Who(k) \in Elems(line) THEN "waiting" ELSE "gone")
  /\ UNCHANGED lock /\ Unchanged

(* release_landing *)

Without(i) == [j \in 1..(Len(line) - 1) |-> IF j < i THEN line[j] ELSE line[j + 1]]

Done(k) ==
  /\ req' = [req EXCEPT ![k] = NoRequest]
  /\ phase' = IF phase[Who(k)] = "leaving" THEN [phase EXCEPT ![Who(k)] = "gone"] ELSE phase
  /\ landing' = IF landing = Who(k) THEN NoOne ELSE landing
  /\ UNCHANGED beat

ReleaseHeld(k) ==
  /\ At(k, "release?")
  /\ OnlyMoves(k, IF holder = Who(k) THEN "free" ELSE "waits?")

\* DELETE by lease id, then promote unless the slot is held
Free(k) ==
  /\ At(k, "free")
  /\ IF holder \in {Who(k), NoOne} THEN Promote ELSE UNCHANGED lock
  /\ Done(k) /\ Unchanged

ReleaseQueued(k) ==
  /\ At(k, "waits?")
  /\ IF Who(k) \in Elems(line) THEN OnlyMoves(k, "leave")
     ELSE Done(k) /\ UNCHANGED lock /\ Unchanged

\* DELETE by lease id, which is UNIQUE, and the others move up
LeaveLine(k) ==
  /\ At(k, "leave")
  /\ IF Who(k) \in Elems(line)
     THEN (\E i \in 1..Len(line) : line[i] = Who(k) /\ line' = Without(i)) /\ Renumber
     ELSE UNCHANGED <<line, places, mark>>
  /\ Done(k) /\ UNCHANGED <<holder, stale>> /\ Unchanged

-----------------------------------------------------------------------------
(* A client asks until the lock is granted *)

EnterIntegration(c) == landing = NoOne /\ landing' = c

Ask(c) ==
  /\ Idle(ConnOf(c))
  /\ \/ /\ phase[c] = "new" /\ Post(ConnOf(c), c, "first", "stale?")
        /\ IF c \in Cards THEN EnterIntegration(c) ELSE UNCHANGED landing
     \/ /\ phase[c] = "waiting" /\ Post(ConnOf(c), c, "poll", "stale?")
        /\ UNCHANGED landing
  /\ phase' = [phase EXCEPT ![c] = "asking"]
  /\ UNCHANGED <<lock, beat>> /\ Unchanged

Move(c, to) ==
  /\ phase' = [phase EXCEPT ![c] = to]
  /\ UNCHANGED <<lock, req, landing, beat, evicted, bounds>>

\* _heartbeat_loop: only agents have one
SendBeat(a) ==
  /\ phase[a] \in Working /\ beat[a] = "none"
  /\ beat' = [beat EXCEPT ![a] = "sent"]
  /\ UNCHANGED <<lock, req, landing, phase, work, evicted, bounds>>

ServeBeat(a) ==
  /\ beat[a] = "sent" /\ Idle("http")
  /\ Post("http", a, "beat", "stale?")
  /\ UNCHANGED <<lock, landing, phase, work, beat, evicted, bounds>>

\* no heartbeat is sent once stop is set; one may still be on its way
Quiet(c) == c \in Agents /\ "late beat" \notin Happens => beat[c] # "sent"

Fail(c) ==
  /\ phase[c] \in Working /\ Quiet(c)
  /\ Move(c, "leaving") /\ UNCHANGED work

FetchMayFail(c) == c \in Cards /\ "fetch" \in Happens

\* merges the base in and tests it: _sync_and_retest, or fetch, merge and the test command.  A
\* card whose fetch fails goes on with what it has, an agent gives up
Sync(c) ==
  /\ phase[c] = "holding"
  /\ \/ tested' = [tested EXCEPT ![c] = base] /\ overtaken' = overtaken \ {c}
     \/ FetchMayFail(c) /\ overtaken' = overtaken \cup {c} /\ UNCHANGED tested
  /\ Move(c, "synced") /\ UNCHANGED <<tries, base, blind>>

\* mutant of StillCurrent: the base is not fetched again before the merge
NoFetch(c) == TRUE
StillCurrent(c) == tested[c] = base

Verdict(c, current) ==
  Move(c, IF current THEN "merging" ELSE IF tries[c] + 1 < Attempts THEN "holding" ELSE "leaving")

\* integrate: a base that moved since the sync is synced again, three times at most.  Nobody
\* looks whether its fetch failed: origin/<base> may then be as the sync left it, or newer
\* where somebody else fetched meanwhile
Check(c) ==
  /\ c \in Cards /\ phase[c] = "synced"
  /\ tries' = [tries EXCEPT ![c] = @ + 1]
  /\ \/ Verdict(c, StillCurrent(c)) /\ blind' = blind \ {c}
     \/ /\ FetchMayFail(c) /\ blind' = blind \cup {c}
        /\ Verdict(c, TRUE) \/ (tested[c] # base /\ Verdict(c, FALSE))
  /\ UNCHANGED <<tested, base, overtaken>>

\* gh pr merge, which takes a base that moved; or github asks for another sync
Merge(c) ==
  /\ c \in Cards /\ phase[c] = "merging"
  /\ \/ base' = base + 1 /\ Move(c, "leaving")
     \/ tries[c] < Attempts /\ Move(c, "holding") /\ UNCHANGED base
  /\ UNCHANGED <<tested, tries, overtaken, blind>>

FastForward(c) == IF tested[c] = base THEN base' = base + 1 ELSE UNCHANGED base

\* git push: the remote refuses what is no fast forward
Push(c) ==
  /\ c \in Agents /\ phase[c] = "synced" /\ Quiet(c)
  /\ FastForward(c) /\ Move(c, "leaving") /\ UNCHANGED <<tested, tries, overtaken, blind>>

\* the finally block
Release(c) ==
  /\ phase[c] = "leaving" /\ Idle(ConnOf(c))
  /\ Post(ConnOf(c), c, "release", "release?")
  /\ UNCHANGED <<lock, landing, phase, work, beat, evicted, bounds>>

-----------------------------------------------------------------------------
(* What else happens *)

\* the queue panel reads list_landing, which sweeps a stale holder first
Watch ==
  /\ "watch" \in Happens /\ Idle("http")
  /\ holder # NoOne /\ stale
  /\ Post("http", NoOne, "watch", "stale?")
  /\ UNCHANGED <<lock, landing, phase, work, beat, evicted, bounds>>

\* nobody refreshes the lease of a client that is gone, nor that of a card at work
Late(c) ==
  \/ c \in Cards /\ phase[c] \in Working /\ "slow" \in Happens
  \/ c \in Agents /\ phase[c] \in Working /\ ("sleep" \in Happens \/ beat[c] = "dead")

Abandoned == holder # NoOne /\ phase[holder] \in {"gone", "dead"}

Lapse ==
  /\ holder # NoOne /\ ~stale
  /\ \/ Abandoned /\ UNCHANGED lapses
     \/ Late(holder) /\ lapses < MaxLapses /\ lapses' = lapses + 1
  /\ stale' = TRUE
  /\ UNCHANGED <<holder, line, places, mark, req, landing, phase, work, beat, evicted, pushes,
                 crashes>>

\* somebody merges by hand, outside the seconds between integrate's fetch and its merge
PushByHand ==
  /\ pushes < MaxPushes /\ \A c \in Clients : phase[c] # "merging"
  /\ pushes' = pushes + 1 /\ base' = base + 1
  /\ overtaken' = overtaken \cup {c \in Clients : phase[c] = "synced"}
  /\ UNCHANGED <<lock, req, landing, phase, tested, tries, blind, beat, evicted, lapses,
                 crashes>>

\* ctrl-c: _release knows no lease id until _acquire has returned
Interrupt(a) ==
  /\ "interrupt" \in Happens
  /\ \/ phase[a] \in {"asking", "waiting"} /\ Move(a, "gone")
     \/ phase[a] \in Working /\ Quiet(a) /\ Move(a, "leaving")
  /\ UNCHANGED work

Kill(a) ==
  /\ "kill" \in Happens /\ phase[a] \notin {"new", "gone", "dead"}
  /\ Move(a, "dead") /\ UNCHANGED work

\* the board process dies: its landings are over, and the requests of agents fail
Crash ==
  /\ crashes < MaxCrashes /\ crashes' = crashes + 1
  /\ req' = [k \in Conns |-> NoRequest] /\ mark' = [k \in Conns |-> 0] /\ landing' = NoOne
  /\ phase' = [c \in Clients |->
       IF c \in Cards THEN IF phase[c] \in {"new", "gone"} THEN phase[c] ELSE "dead"
       ELSE IF req["http"].who = c /\ req["http"].kind # "beat" /\ phase[c] # "dead"
       THEN "gone" ELSE phase[c]]
  /\ beat' = [a \in Agents |-> IF beat[a] = "sent" THEN "dead" ELSE beat[a]]
  /\ UNCHANGED <<holder, stale, line, places, work, evicted, lapses, pushes>>

-----------------------------------------------------------------------------
Serve(k) ==
  \/ SelectStale(k) \/ Evict(k) \/ SelectHeld(k) \/ Heartbeat(k) \/ SelectQueued(k)
  \/ SelectCurrent(k) \/ Insert(k) \/ Join(k) \/ EnterLine(k) \/ StatusHeld(k) \/ StatusQueued(k)
  \/ ReleaseHeld(k) \/ Free(k) \/ ReleaseQueued(k) \/ LeaveLine(k)

Land(c) == Sync(c) \/ Check(c) \/ Merge(c) \/ Push(c) \/ Fail(c)

\* the next request of a client, or of its heartbeat thread
Request(c) == Ask(c) \/ Release(c) \/ (c \in Agents /\ ServeBeat(c))

Next ==
  \/ \E k \in Conns : Serve(k)
  \/ \E c \in Clients : Request(c) \/ Land(c)
  \/ \E a \in Agents : SendBeat(a) \/ Interrupt(a) \/ Kill(a)
  \/ Watch \/ Lapse \/ PushByHand \/ Crash

Spec == Init /\ [][Next]_vars

\* the server takes the requests that wait for it in turn, clients at work finish, and
\* the clock runs
Fairness ==
  /\ \A k \in Conns : WF_vars(Serve(k))
  /\ \A c \in Clients : SF_vars(Request(c)) /\ SF_vars(Land(c))
  /\ WF_vars(Lapse /\ Abandoned)

FairSpec == Spec /\ Fairness

-----------------------------------------------------------------------------
(* Safety *)

\* the landing lock, "one holder": nobody works on the base beside another.  Two evictions of
\* one stale lease break it, see evicted_twice ...
OneLands == Cardinality(AtWork) <= 1

\* ... and nothing else does, whatever the requests of two connections overwrite in each other:
\* among the clients at work whose lease was not evicted, there is no second
OnlyEvictedOverlap == Cardinality(AtWork \ evicted) <= 1

Lands(c) == phase[c] \in Working /\ phase'[c] = "leaving" /\ base' # base

\* landing.md, a base that moved is "never merged untested"
NothingUntestedLands == [][\A c \in Clients : Lands(c) => tested[c] = base]_vars

\* one fetch that succeeds is enough: what lands was tested on the very base it lands on, though
\* the sync fetched nothing or somebody pushed by hand after it, as long as integrate's own
\* fetch succeeds, and though that one fails, as long as the sync's did not and nobody pushed
\* since; until the first lease of a client at work is evicted
LandsTested ==
  [][\A c \in Clients : Lands(c) /\ evicted = {} /\ c \notin blind \cap overtaken
                         => tested[c] = base]_vars

\* request_landing, "rather than taking a second place in line": a lease is in one place
LeaseInOnePlace ==
  /\ holder \notin Elems(line)
  /\ Cardinality(Elems(line)) = Len(line)

\* smortboard-land "always releases": a client that ended has left the lock and the line
AlwaysReleases ==
  \A c \in Clients : phase[c] = "gone" => c # holder /\ c \notin Elems(line)

Ahead(q) == {<<q[p[1]], q[p[2]]>> : p \in {r \in (1..Len(q)) \X (1..Len(q)) : r[1] < r[2]}}

\* "fifo queue behind it": the lock goes to the head of the line, nobody takes it past who
\* waits, and nobody gets ahead of one who was there before
FirstComeFirstServed ==
  [][/\ holder' \notin {holder, NoOne} => line = <<>> \/ holder' = Head(line)
     /\ \A c \in Elems(line), d \in Clients :
          <<d, c>> \in Ahead(line') => <<d, c>> \in Ahead(line)]_vars

\* _evict_stale_landing, "if the holder is still live": a client at work loses the lock only
\* after its own heartbeat went stale
LiveHolderKeepsIt ==
  [][holder # NoOne /\ ~stale /\ holder \in AtWork => holder' = holder]_vars

-----------------------------------------------------------------------------
(* Liveness *)

\* "a dead process cannot wedge the queue": whoever waits stops waiting
WaiterIsServed == \A c \in Clients : phase[c] = "waiting" ~> phase[c] \notin {"waiting", "asking"}
=============================================================================
