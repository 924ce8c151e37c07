------------------------------ MODULE Profiles ------------------------------
(***************************************************************************)
(* The credential profiles of each lab (smortboard/profiles.py), and those *)
(* who read and rotate them at once: the runs of cards with the usage      *)
(* limit handler of their board (smortboard/scheduler.py), the turns of    *)
(* mission control (smortboard/orchestrator.py) and the operator           *)
(* (smortboard/server/app.py).                                             *)
(*                                                                         *)
(* Each writer loads, changes and saves the state file under _STATE_LOCK,  *)
(* one step here; nobody takes the lock to read, so what a run reads at    *)
(* its start and what a handler reads after its rotation are steps of      *)
(* their own.  The account behind a credential refuses until its window is *)
(* over, whatever the file says.                                           *)
(***************************************************************************)
EXTENDS Integers, FiniteSets, SequencesExt

CONSTANTS
  Labs, DefaultLab,       \* DEFAULT_LAB: the lab of every card and role by itself
  Names, DefaultName,     \* DEFAULT_PROFILE
  NoName,
  Cards, NoCard,
  Threads,                \* those that run cards and turns
  Fallbacks,              \* the labs of {role}_cross_lab_fallback, in order
  Configured,             \* the profiles a lab has when there is a file to begin with
  Requests,               \* what the operator may ask for, see Request
  Used,                   \* labs that a card or a role names: their last profile stays
  Park,                   \* _FALLBACK_PARK_SECONDS
  MaxTime, MaxWindow,     \* bounds: the last end of a window, and how long one lasts
  MaxRefusals,            \* bound: windows used up
  MaxRequests             \* bound: requests of the operator

Request == {"add", "remove", "activate", "route", "press", "turn"}
Time == 0..(MaxTime + Park)

ASSUME ProfilesConstants ==
  /\ DefaultLab \in Labs /\ DefaultName \in Names /\ NoName \notin Names
  /\ NoCard \notin Cards
  /\ Fallbacks \in Seq(Labs) /\ Configured \in [Labs -> Seq(Names)]
  /\ Requests \subseteq Request /\ Used \subseteq Labs
  /\ {Park, MaxTime, MaxWindow, MaxRefusals, MaxRequests} \subseteq Nat /\ Park > 0

VARIABLES
  disk,      \* profiles.json: whether it exists; each lab's active, profiles and limits
  tokens,    \* the token files there are
  now,
  route,     \* the setting usage_limit_route
  thread,    \* what each thread does
  status,    \* of each card
  fallback,  \* each card's lab_fallback events that are not consumed
  queue,     \* the board's queue, as a set
  seated,    \* _running
  batch,     \* of the tick under way: the queue as it read it, the cards it started and dropped
  paused,    \* _lab_paused_until, 0 where there is none
  (* the world, and history variables *)
  spent,     \* when the window of a credential's account ends
  told,      \* the resets that whoever presented a credential was told
  granted,   \* fallbacks recorded for a card, less the runs it made in another lab
  lost,      \* cards whose on_finish raised
  missed,    \* cards a write-back seated or took from the queue when their run was over
  refusals, requests

queueing == <<queue, seated, batch, missed>>
vars == <<disk, tokens, now, route, thread, status, fallback, queueing, paused, spent,
          told, granted, lost, refusals, requests>>
world == <<now, spent, told, refusals>>
board == <<status, fallback, queueing, paused, granted, lost>>

Credentials == Labs \X Names
Idle == [pc |-> "idle", card |-> NoCard, lab |-> DefaultLab, name |-> NoName, reset |-> 0,
         next |-> NoName, switching |-> FALSE, target |-> <<DefaultLab, NoName>>, tried |-> {}]

----------------------------------------------------------------------------
(* smortboard/profiles.py *)

EmptyLab == [active |-> NoName, profiles |-> <<>>, limits |-> [n \in Names |-> 0]]
LabOf(ps) == [EmptyLab EXCEPT !.profiles = ps, !.active = IF ps = <<>> THEN NoName ELSE ps[1]]
DefaultState == [l \in Labs |-> LabOf(IF l = DefaultLab THEN <<DefaultName>> ELSE <<>>)]

Lab(l) == disk.labs[l]
Listed(l) == ToSet(Lab(l).profiles)
Several(l) == Len(Lab(l).profiles) > 1
Saved(l, s) == disk' = [exists |-> TRUE, labs |-> [disk.labs EXCEPT ![l] = s]]

Free(s, n) == s.limits[n] <= now
FirstFree(s, order) == LET free == {i \in DOMAIN order : Free(s, order[i])}
                       IN IF free = {} THEN NoName ELSE order[Min(free)]

\* _next_available: from the one after the active profile round to the active one
NextAvailable(s) ==
  LET free == {i \in DOMAIN s.profiles : Free(s, s.profiles[i])}
      after == {i \in free : \E j \in 1..(i - 1) : s.profiles[j] = s.active}
  IN IF free = {} THEN NoName ELSE s.profiles[Min(IF after # {} THEN after ELSE free)]

\* _earliest_reset, 0 for none
EarliestReset(s) == LET resets == {s.limits[n] : n \in Names} \ 0..now
                    IN IF resets = {} THEN 0 ELSE Min(resets)

\* _mark_limited: a profile that is not listed is listed again
\* mutant of Marked: whichever profile is active by then takes the blame
MarkedActive(s, n, reset) == [s EXCEPT !.limits[s.active] = reset]
Marked(s, n, reset) ==
  [s EXCEPT !.profiles = IF Contains(@, n) THEN @ ELSE Append(@, n), !.limits[n] = reset]

Rotated(s) == [s EXCEPT !.active = IF NextAvailable(s) = NoName THEN @ ELSE NextAvailable(s)]

Activates(l, n) ==
  /\ n \in Listed(l)
  /\ IF Lab(l).active = n THEN UNCHANGED disk ELSE Saved(l, [Lab(l) EXCEPT !.active = n])

\* usable_fallback, passing over the credentials that are out: <<from, NoName>> for none
UsableFallback(from, out) ==
  LET Usable(l) == LET n == NextAvailable(Lab(l))
                   IN l # from /\ n # NoName /\ <<l, n>> \in tokens \ out
      k == SelectInSeq(Fallbacks, Usable)
  IN IF k = 0 THEN <<from, NoName>> ELSE <<Fallbacks[k], NextAvailable(Lab(Fallbacks[k]))>>

----------------------------------------------------------------------------
(* A run of a card, and of a turn *)

RunRef(c) == IF fallback[c] = <<>> THEN DefaultLab ELSE Last(fallback[c])
IsTurn(t) == thread[t].card = NoCard
AtWork == {"begin", "capture", "present", "running"}
Going(c) == \E t \in Threads : thread[t].card = c /\ thread[t].pc \in AtWork
\* going, or its on_finish has yet to give up the seat
Running(c) == \E t \in Threads : thread[t].card = c /\ thread[t].pc \in AtWork \cup {"refused"}

\* which thread is the new one tells nothing apart
New(t) == /\ thread[t] = Idle
          /\ t = CHOOSE u \in Threads : thread[u] = Idle
Becomes(t, pc) == thread' = [thread EXCEPT ![t].pc = pc]
Leaves(t) == thread' = [thread EXCEPT ![t] = Idle]

\* A tick goes through the queue as it was when it began, and what it took from there it takes
\* from the queue of by then, and seats, when it is through: runs end meanwhile.
NoBatch == [seen |-> {}, started |-> {}, dropped |-> {}]
Taken == batch.started \cup batch.dropped
Seen == IF Taken = {} THEN queue ELSE batch.seen
Starts(c) == batch' = [batch EXCEPT !.seen = Seen, !.started = @ \cup {c}]
Queueable(c) == status[c] \in {"todo", "limited"}

\* a tick starts a queued card whose lab is not paused
Start(t, c) ==
  /\ New(t) /\ c \in Seen \ Taken /\ ~Going(c) /\ c \notin seated
  /\ Queueable(c) /\ paused[RunRef(c)] <= now
  /\ thread' = [thread EXCEPT ![t] = [Idle EXCEPT !.pc = "begin", !.card = c]]
  /\ Starts(c) /\ missed' = missed \ {c}
  /\ UNCHANGED <<disk, tokens, route, world, status, fallback, queue, seated, paused, granted, lost,
                 requests>>

\* ... or takes the run that was started by hand since it looked for its own
Join(c) ==
  /\ c \in Seen \ Taken /\ Going(c) /\ c \notin seated /\ paused[RunRef(c)] <= now
  /\ Starts(c)
  /\ UNCHANGED <<disk, tokens, route, world, thread, status, fallback, queue, seated, missed,
                 paused, granted, lost, requests>>

\* ... and drops one that is going or has nothing left to do
Drop(c) ==
  /\ c \in Seen \ Taken /\ (c \in seated \/ ~Queueable(c))
  /\ batch' = [batch EXCEPT !.seen = Seen, !.dropped = @ \cup {c}]
  /\ UNCHANGED <<disk, tokens, route, world, thread, status, fallback, queue, seated, missed,
                 paused, granted, lost, requests>>

WriteBack ==
  /\ Taken # {} /\ batch' = NoBatch
  /\ queue' = queue \ Taken /\ seated' = seated \cup batch.started
  /\ missed' = missed \cup {c \in batch.started \cup (batch.dropped \cap queue) : ~Running(c)}
  /\ UNCHANGED <<disk, tokens, route, world, thread, status, fallback, paused, granted, lost,
                 requests>>

\* run_card_lifecycle: the lab is chosen, and its active credential must be readable
Begin(t) ==
  LET c == thread[t].card
      l == RunRef(c) IN
  /\ thread[t].pc = "begin"
  /\ IF <<l, Lab(l).active>> \in tokens
     THEN /\ thread' = [thread EXCEPT ![t].pc = "capture", ![t].lab = l]
          /\ status' = [status EXCEPT ![c] = "doing"]
     ELSE Leaves(t) /\ status' = [status EXCEPT ![c] = "failed"]
  /\ seated' = IF thread'[t] = Idle THEN seated \ {c} ELSE seated
  /\ UNCHANGED <<disk, tokens, route, world, fallback, queue, batch, missed, paused, granted, lost,
                 requests>>

\* mutant of Consumed: the fallback stays for the runs after this one
NotConsumed(c) == fallback
Consumed(c) == IF fallback[c] = <<>> THEN fallback ELSE [fallback EXCEPT ![c] = Front(@)]

\* the worker consumes the card's newest fallback; then the active profile is this run's
Capture(t) ==
  LET c == thread[t].card IN
  /\ thread[t].pc = "capture"
  /\ thread' = [thread EXCEPT ![t].pc = "present", ![t].name = Lab(thread[t].lab).active]
  /\ fallback' = IF IsTurn(t) THEN fallback ELSE Consumed(c)
  /\ UNCHANGED <<disk, tokens, route, world, status, queueing, paused, granted, lost, requests>>

\* its token is read and presented; a token that is gone fails the run
Present(t) ==
  LET c == thread[t].card IN
  /\ thread[t].pc = "present"
  /\ IF <<thread[t].lab, thread[t].name>> \in tokens
     THEN /\ Becomes(t, "running")
          /\ granted' = IF IsTurn(t) \/ thread[t].lab = DefaultLab THEN granted
                        ELSE [granted EXCEPT ![c] = @ - 1]
          /\ UNCHANGED status
     ELSE /\ Leaves(t)
          /\ status' = IF IsTurn(t) THEN status ELSE [status EXCEPT ![c] = "failed"]
          /\ UNCHANGED granted
  /\ seated' = IF thread'[t] = Idle THEN seated \ {c} ELSE seated
  /\ UNCHANGED <<disk, tokens, route, world, fallback, queue, batch, missed, paused, lost,
                 requests>>

\* the newest resets of the credential that any run was told may be older than this refusal
Heard(t) == IF IsTurn(t) THEN {}
            ELSE {x[3] : x \in {y \in told : y[1] = thread[t].lab /\ y[2] = thread[t].name}}

\* the account lets the run finish, or its window is over: the stream told the reset, or an earlier
\* one did, or none
Ends(t) ==
  LET c == thread[t].card
      k == <<thread[t].lab, thread[t].name>> IN
  /\ thread[t].pc = "running"
  /\ \/ /\ spent[k] <= now
        /\ Leaves(t)
        /\ status' = IF IsTurn(t) THEN status ELSE [status EXCEPT ![c] = "done"]
        /\ seated' = seated \ {c}
        /\ UNCHANGED <<spent, told, refusals>>
     \/ /\ UNCHANGED seated
        /\ \/ spent[k] > now /\ UNCHANGED <<spent, refusals>>
           \/ /\ spent[k] <= now /\ refusals < MaxRefusals
              /\ \E w \in 1..MaxWindow : /\ now + w <= MaxTime
                                         /\ spent' = [spent EXCEPT ![k] = now + w]
              /\ refusals' = refusals + 1
        /\ \E reset \in {spent'[k], now + Park} \cup Heard(t) :
             /\ thread' = [thread EXCEPT ![t].pc = "refused", ![t].reset = reset]
             /\ told' = told \cup {<<k[1], k[2], reset>>}
        /\ status' = IF IsTurn(t) THEN status ELSE [status EXCEPT ![c] = "limited"]
  /\ UNCHANGED <<disk, tokens, now, route, fallback, queue, batch, missed, paused, granted, lost,
                 requests>>

----------------------------------------------------------------------------
(* BoardScheduler._handle_usage_limit *)

\* without a rotation, the mark is written only where there is something to tell apart
Recorded(l, rotates) ==
  rotates \/ Several(l) \/ (disk.exists /\ (route = "switch" => Lab(l).profiles # <<>>))

\* on_finish gives up the seat; the credential is marked and, on the route "switch", rotated, in one
\* hold of the lock
Mark(t) ==
  LET l == thread[t].lab
      s == Marked(Lab(l), thread[t].name, thread[t].reset)
      switching == route = "switch"
      rotates == switching /\ Several(l) IN
  /\ thread[t].pc = "refused" /\ ~IsTurn(t)
  /\ thread' = [thread EXCEPT
       ![t].pc = IF rotates /\ NextAvailable(s) # NoName THEN "requeue" ELSE "reroute",
       ![t].switching = switching,
       ![t].next = IF rotates THEN NextAvailable(s) ELSE NoName,
       ![t].reset = IF rotates /\ EarliestReset(s) # 0 THEN EarliestReset(s) ELSE @]
  /\ IF Recorded(l, rotates) THEN Saved(l, IF rotates THEN Rotated(s) ELSE s)
     ELSE UNCHANGED disk
  /\ seated' = seated \ {thread[t].card}
  /\ UNCHANGED <<tokens, route, world, status, fallback, queue, batch, missed, paused, granted,
                 lost, requests>>

\* mutants: the card stays out of the queue while its lab is paused; the pause is anthropic's
RejoinsAtOnce(t) == IF thread[t].next = NoName THEN queue ELSE queue \cup {thread[t].card}
PausesDefault(t) == [paused EXCEPT ![DefaultLab] = thread[t].reset]
Rejoins(t) == IF thread[t].card \in seated THEN queue ELSE queue \cup {thread[t].card}
Pauses(t) == [paused EXCEPT ![thread[t].lab] = thread[t].reset]

\* with no profile to go on with, the lab is paused and a fallback looked for
Reroute(t) ==
  LET l == thread[t].lab
      free == Several(l) /\ NextAvailable(Lab(l)) # NoName
      target == UsableFallback(l, {x \in Credentials : paused[x[1]] > now}) IN
  /\ thread[t].pc = "reroute" /\ ~IsTurn(t)
  /\ paused' = Pauses(t)
  /\ IF thread[t].switching /\ ~free /\ target[2] # NoName
     THEN thread' = [thread EXCEPT ![t].pc = "record", ![t].target = target]
     ELSE Becomes(t, "requeue")
  /\ UNCHANGED <<disk, tokens, route, world, status, fallback, queueing, granted, lost, requests>>

\* record_fallback: set_active raises when the profile was removed meanwhile
Record(t) ==
  LET c == thread[t].card
      target == thread[t].target IN
  /\ thread[t].pc = "record"
  /\ IF target[2] \in Listed(target[1])
     THEN /\ Activates(target[1], target[2])
          /\ fallback' = [fallback EXCEPT ![c] = Append(@, target[1])]
          /\ granted' = [granted EXCEPT ![c] = @ + 1]
          /\ thread' = [thread EXCEPT ![t].pc = "requeue", ![t].next = target[2]]
          /\ UNCHANGED lost
     ELSE /\ Leaves(t) /\ lost' = lost \cup {c}
          /\ UNCHANGED <<disk, fallback, granted>>
  /\ UNCHANGED <<tokens, route, world, status, queueing, paused, requests>>

\* the card rejoins the queue: at once, or with its lab paused until the reset
Requeue(t) ==
  /\ thread[t].pc = "requeue"
  /\ Leaves(t)
  /\ queue' = Rejoins(t)
  /\ paused' = IF thread[t].next # NoName THEN paused ELSE Pauses(t)
  /\ UNCHANGED <<disk, tokens, route, world, status, fallback, seated, batch, missed, granted, lost,
                 requests>>

----------------------------------------------------------------------------
(* orchestrator.run: a turn marks, chooses and activates in three steps *)

TurnMarks(t) ==
  LET l == thread[t].lab IN
  /\ thread[t].pc = "refused" /\ IsTurn(t)
  /\ IF disk.exists \/ Several(l)
     THEN Saved(l, Marked(Lab(l), thread[t].name, thread[t].reset)) ELSE UNCHANGED disk
  /\ thread' = [thread EXCEPT ![t].pc = "reroute", ![t].tried = @ \cup {<<l, thread[t].name>>}]
  /\ UNCHANGED <<tokens, route, world, board, requests>>

TurnChooses(t) ==
  LET l == thread[t].lab
      tried == thread[t].tried
      own == FirstFree(Lab(l), SelectSeq(Lab(l).profiles, LAMBDA n : <<l, n>> \notin tried))
      target == IF own # NoName THEN <<l, own>> ELSE UsableFallback(l, tried) IN
  /\ thread[t].pc = "reroute" /\ IsTurn(t)
  /\ IF thread[t].switching /\ target[2] # NoName
     THEN thread' = [thread EXCEPT ![t].pc = "activate", ![t].target = target]
     ELSE Leaves(t)
  /\ UNCHANGED <<disk, tokens, route, world, board, requests>>

TurnActivates(t) ==
  LET target == thread[t].target IN
  /\ thread[t].pc = "activate"
  /\ IF target[2] \in Listed(target[1])
     THEN /\ Activates(target[1], target[2])
          /\ thread' = [thread EXCEPT ![t].pc = "capture", ![t].lab = target[1]]
     ELSE Leaves(t) /\ UNCHANGED disk
  /\ UNCHANGED <<tokens, route, world, board, requests>>

----------------------------------------------------------------------------
(* The operator, and the clock *)

Asks(what) == what \in Requests /\ requests < MaxRequests /\ requests' = requests + 1

AddProfile(l, n) ==
  /\ Asks("add") /\ n \notin Listed(l)
  /\ tokens' = tokens \cup {<<l, n>>}
  /\ Saved(l, [Lab(l) EXCEPT !.profiles = Append(@, n), !.active = IF @ = NoName THEN n ELSE @])
  /\ UNCHANGED <<route, world, thread, board>>

\* the last profile of a lab goes only when no card or role would run on that lab
MayRemove(l, rest) == l \in Used => rest # <<>>
\* the active one is replaced by a free one, else by any (_pick_replacement)
RemoveProfile(l, n) ==
  LET rest == RemoveFirst(Lab(l).profiles, n)
      free == FirstFree(Lab(l), rest) IN
  /\ Asks("remove") /\ n \in Listed(l) /\ MayRemove(l, rest)
  /\ Saved(l, [Lab(l) EXCEPT !.profiles = rest, !.limits[n] = 0,
                             !.active = IF @ # n THEN @ ELSE IF free # NoName THEN free
                                        ELSE LabOf(rest).active])
  /\ tokens' = tokens \ {<<l, n>>}
  /\ UNCHANGED <<route, world, thread, board>>

ActivateProfile(l, n) ==
  /\ Asks("activate") /\ Lab(l).active # n
  /\ Activates(l, n)
  /\ UNCHANGED <<tokens, route, world, thread, board>>

SetRoute ==
  /\ Asks("route") /\ route' = IF route = "switch" THEN "wait" ELSE "switch"
  /\ UNCHANGED <<disk, tokens, world, thread, board>>

\* a start by hand leaves the queue and asks no pause (prepare_run)
ByHand(t, c) ==
  /\ Asks("press") /\ New(t) /\ ~Going(c)
  /\ thread' = [thread EXCEPT ![t] = [Idle EXCEPT !.pc = "begin", !.card = c]]
  /\ queue' = queue \ {c} /\ missed' = missed \ {c}
  /\ UNCHANGED <<tokens, route, world, status, seated, batch, paused, lost>>
Press(t, c) ==
  /\ status[c] \in {"limited", "failed"} /\ ByHand(t, c)
  /\ UNCHANGED <<disk, fallback, granted>>

\* fallback_run, from the lab the card's newest profile_limited names
PressFallback(t, c) ==
  /\ status[c] = "limited" /\ ByHand(t, c)
  /\ \E from \in Labs :
       LET target == UsableFallback(from, {x \in Credentials : paused[x[1]] > now}) IN
       /\ target[2] # NoName /\ Activates(target[1], target[2])
       /\ fallback' = [fallback EXCEPT ![c] = Append(@, target[1])]
  /\ granted' = [granted EXCEPT ![c] = @ + 1]

\* a message to mission control: the settings are read once for the whole turn
BeginTurn(t) ==
  /\ Asks("turn") /\ New(t)
  /\ thread' = [thread EXCEPT ![t] = [Idle EXCEPT !.pc = "capture",
                                                  !.switching = route = "switch"]]
  /\ UNCHANGED <<disk, tokens, route, world, board>>

Tick ==
  /\ now < MaxTime + Park /\ now' = now + 1
  /\ UNCHANGED <<disk, tokens, route, thread, board, spent, told, refusals, requests>>

----------------------------------------------------------------------------
TypeOK ==
  /\ disk \in [exists : BOOLEAN,
               labs : [Labs -> [active : Names \cup {NoName}, profiles : Seq(Names),
                                limits : [Names -> Time]]]]
  /\ tokens \subseteq Credentials
  /\ now \in Time /\ route \in {"wait", "switch"}
  /\ \A t \in Threads :
       /\ thread[t].card \in Cards \cup {NoCard} /\ thread[t].lab \in Labs
       /\ thread[t].name \in Names \cup {NoName} /\ thread[t].reset \in Time
  /\ status \in [Cards -> {"todo", "doing", "limited", "failed", "done"}]
  /\ fallback \in [Cards -> Seq(Labs)]
  /\ \A C \in {queue, seated, missed, lost} : C \subseteq Cards
  /\ batch \in [{"seen", "started", "dropped"} -> SUBSET Cards]
  /\ paused \in [Labs -> Time] /\ spent \in [Credentials -> Time]
  /\ told \subseteq Labs \X Names \X Time
  /\ granted \in [Cards -> Int]
  /\ refusals \in 0..MaxRefusals /\ requests \in 0..MaxRequests

Init ==
  /\ \E there \in BOOLEAN :
       /\ disk = [exists |-> there,
                  labs |-> IF there THEN [l \in Labs |-> LabOf(Configured[l])] ELSE DefaultState]
       /\ tokens = IF there THEN {k \in Credentials : Contains(Configured[k[1]], k[2])}
                   ELSE {<<DefaultLab, DefaultName>>}
  /\ now = 0 /\ route \in {"wait", "switch"}
  /\ thread = [t \in Threads |-> Idle]
  /\ status = [c \in Cards |-> "todo"] /\ queue = Cards
  /\ seated = {} /\ batch = NoBatch /\ missed = {}
  /\ fallback = [c \in Cards |-> <<>>] /\ granted = [c \in Cards |-> 0]
  /\ paused = [l \in Labs |-> 0] /\ spent = [k \in Credentials |-> 0]
  /\ told = {} /\ lost = {} /\ refusals = 0 /\ requests = 0

Runs(t) == \/ Begin(t) \/ Capture(t) \/ Present(t) \/ Ends(t)
           \/ Mark(t) \/ Reroute(t) \/ Record(t) \/ Requeue(t)
           \/ TurnMarks(t) \/ TurnChooses(t) \/ TurnActivates(t)
Next ==
  \/ \E t \in Threads :
       Runs(t) \/ BeginTurn(t) \/ \E c \in Cards : Start(t, c) \/ Press(t, c) \/ PressFallback(t, c)
  \/ \E c \in Cards : Join(c) \/ Drop(c)
  \/ WriteBack
  \/ \E l \in Labs, n \in Names : AddProfile(l, n) \/ RemoveProfile(l, n) \/ ActivateProfile(l, n)
  \/ SetRoute
  \/ Tick

Spec == Init /\ [][Next]_vars

\* threads are scheduled, agents end, the clock goes on and the board's ticker ticks
Goes == \/ Tick \/ WriteBack
        \/ \E t \in Threads : Runs(t) \/ \E c \in Cards : Start(t, c)
        \/ \E c \in Cards : Join(c) \/ Drop(c)
FairSpec == Spec /\ WF_vars(Goes)

----------------------------------------------------------------------------
\* A limit stands on a profile only if whoever presented that very credential was told so,
\* however often the active profile changed while it ran.
LimitsAreTheRefused ==
  \A l \in Labs, n \in Names :
    Lab(l).limits[n] # 0 => <<l, n, Lab(l).limits[n]>> \in told

\* A lab is paused until a credential of that same lab comes free, never until another lab's
\* reset.
PauseIsOfItsLab ==
  \A l \in Labs : paused[l] > now => \E n \in Names : <<l, n, paused[l]>> \in told

\* A fallback is good for one run: a card never makes more runs in another lab than it was
\* granted.
FallbackServesOneRun == \A c \in Cards : granted[c] >= 0

\* "a single-credential board never grows a profiles.json": no run, limit or turn makes the
\* file, only the operator's adding, activating or removing a profile.
FilelessUntilAsked == [][~disk.exists /\ disk'.exists => requests' # requests]_vars

\* A card whose run hit a limit runs again by itself, on whichever credential or lab comes
\* free, unless its handler raised, or its run was over before the tick that took it wrote back:
\* that one takes the card from the queue again, and keeps it out of it.
LimitedRunsAgain ==
  \A c \in Cards : status[c] = "limited" ~> status[c] # "limited" \/ c \in lost \cup missed
----------------------------------------------------------------------------
\* Not true: the pause ends when the first profile comes free, and nothing makes that one
\* active; the run goes to the active profile, whose own limit still stands.
NoBlindStart ==
  [][\A t \in Threads :
       thread[t].pc = "capture" /\ thread'[t].pc = "present" =>
         LET s == Lab(thread[t].lab) IN Free(s, s.active) \/ NextAvailable(s) = NoName]_vars

\* Not true: a run that is refused brings back the profile it ran on.
RemovedStaysRemoved ==
  [][\A l \in Labs, n \in Names :
       n \notin Listed(l) /\ n \in ToSet(disk'.labs[l].profiles) => requests' # requests]_vars

\* Not true: a run that began before a fallback was recorded consumes it and runs elsewhere.
FallbackIsFollowed ==
  [][\A c \in Cards : Len(fallback'[c]) < Len(fallback[c]) =>
       \E t \in Threads : /\ thread[t].card = c /\ thread[t].pc = "capture"
                          /\ thread[t].lab = Last(fallback[c])]_vars

\* Not true: the write-back of a tick forgets the card that a limit has put back meanwhile.
LimitedAlwaysRunsAgain ==
  \A c \in Cards : status[c] = "limited" ~> status[c] # "limited" \/ c \in lost

\* Not true: a fallback profile removed before it is activated loses the card its turn.
NoneIsLost == lost = {}
=============================================================================
