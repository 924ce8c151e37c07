-------------------------- MODULE Profiles_proofs --------------------------
(***************************************************************************)
(* That limits and pauses are told by whom they are of, in however many    *)
(* threads the profiles are read, rotated, removed and added again; that a *)
(* fallback serves one run; and that everything keeps its type.            *)
(***************************************************************************)
EXTENDS Profiles, TLAPS, FiniteSetTheorems, SequenceTheorems

\* The fields of a thread's state, and of a lab's
ThreadFields ==
  {"pc", "card", "lab", "name", "reset", "next", "switching", "target", "tried"}
LabFields == {"active", "profiles", "limits"}

Told(l, reset) == \E n \in Names : <<l, n, reset>> \in told

\* what a thread holds: of a run that is on, a credential there may be; of one that was refused,
\* what it was told about that; and of a card's, a time that somebody was told about its lab
Holds(t) ==
  LET s == thread[t] IN
  /\ DOMAIN s = ThreadFields
  /\ s.card \in Cards \cup {NoCard} /\ s.lab \in Labs /\ s.target[1] \in Labs /\ s.reset \in Nat
  /\ s.pc \in {"begin", "record", "requeue"} => s.card # NoCard
  /\ s.pc = "activate" => s.card = NoCard
  /\ s.pc \in {"running", "refused"} => s.name \in Names
  /\ s.pc = "refused" => <<s.lab, s.name, s.reset>> \in told
  /\ s.pc \in {"reroute", "record", "requeue"} /\ s.card # NoCard => Told(s.lab, s.reset)
ThreadsHold == DOMAIN thread = Threads /\ \A t \in Threads : Holds(t)

\* what the file holds of a lab
Keeps(l, s) ==
  /\ DOMAIN s = LabFields /\ s.limits \in [Names -> Nat]
  /\ \A n \in Names : s.limits[n] # 0 => <<l, n, s.limits[n]>> \in told
FileKeeps == DOMAIN disk.labs = Labs /\ \A l \in Labs : Keeps(l, Lab(l))

\* a pause is what somebody was told about that lab
Pausing == \A l \in Labs : paused[l] # 0 => Told(l, paused[l])

\* The types that matter here
Typed ==
  /\ now \in Nat /\ tokens \subseteq Credentials
  /\ spent \in [Credentials -> Nat] /\ paused \in [Labs -> Nat]
  /\ fallback \in [Cards -> Seq(Labs)] /\ told \subseteq Labs \X Names \X Nat

\* The inductive invariant of the limits
LimitsInv == Typed /\ ThreadsHold /\ FileKeeps /\ Pausing

\* a card has one run at a time, and that run is in another lab only if it has a fallback to consume
\* or has just consumed it
WorksOn(t, c) == thread[t].card = c /\ thread[t].pc \in AtWork
OneAtWork == \A t, u \in Threads, c \in Cards : WorksOn(t, c) /\ WorksOn(u, c) => t = u
Elsewhere(t, c) == thread[t].card = c /\ thread[t].lab # DefaultLab
HasFallback ==
  \A t \in Threads, c \in Cards :
    thread[t].pc = "capture" /\ Elsewhere(t, c) => fallback[c] # <<>>
Owes(c) == \E t \in Threads : thread[t].pc = "present" /\ Elsewhere(t, c)
Suffices(n, fs, owed) == n >= Len(fs) /\ (owed => n >= Len(fs) + 1)
Granted ==
  /\ granted \in [Cards -> Int]
  /\ \A c \in Cards : Suffices(granted[c], fallback[c], Owes(c))

\* The inductive invariant of the fallbacks
FallbackInv == OneAtWork /\ HasFallback /\ Granted

-----------------------------------------------------------------------------
(* the operators *)

\* A set of naturals has a least element: of the intervals up to its members, finite sets all, one
\* holds no other.
LEMMA MinIsIn ==
  ASSUME NEW T, T \subseteq Nat, T # {}
  PROVE  Min(T) \in T
<1> DEFINE U == {1..x : x \in T}
<1>1. \A x \in T : 1..x \in FiniteSubsetsOf(Nat)
  <2> SUFFICES ASSUME NEW x \in T
               PROVE  1..x \in FiniteSubsetsOf(Nat)
    OBVIOUS
  <2>1. x \in Int /\ 1..x \in SUBSET Nat
    OBVIOUS
  <2> QED
    BY <2>1, FS_Interval DEF FiniteSubsetsOf
<1>2. PICK u \in U : \A v \in U : ~(<<v, u>> \in StrictSubsetOrdering(Nat))
  <2>1. U \subseteq FiniteSubsetsOf(Nat) /\ U # {}
    BY <1>1
  <2> QED
    BY <2>1, FS_StrictSubsetOrderingWellFounded, WFMin
<1>3. PICK x \in T : u = 1..x
  BY <1>2
<1>4. ASSUME NEW y \in T, ~(x <= y)
      PROVE  FALSE
  <2>1. x \in Nat /\ y \in Nat /\ y < x
    BY <1>4
  <2>2. 1..y \in SUBSET Nat /\ 1..x \in SUBSET Nat /\ 1..y \subseteq 1..x
    BY <2>1
  <2>3. x \in 1..x /\ x \notin 1..y
    BY <2>1
  <2>4. 1..y # 1..x
    BY <2>3
  <2>5. <<1..y, 1..x>> \in StrictSubsetOrdering(Nat)
    BY <2>2, <2>4 DEF StrictSubsetOrdering
  <2> QED
    BY <1>2, <1>3, <2>5
<1>5. \E z \in T : \A y \in T : z <= y
  BY <1>4
<1> QED
  BY <1>5 DEF Min

\* All but the last of a sequence.
LEMMA FrontIsShorter ==
  ASSUME NEW S, NEW s \in Seq(S), s # <<>>
  PROVE  Front(s) \in Seq(S) /\ Len(Front(s)) = Len(s) - 1
<1>1. 1 \in Int /\ Len(s) - 1 \in Int /\ \A i \in 1..(Len(s) - 1) : s[i] \in S
  OBVIOUS
<1>2. Len(s) \in Nat \ {0}
  BY EmptySeq
<1>3. Front(s) \in Seq(S)
  BY <1>1, SubSeqProperties DEF Front
<1>4. Len(Front(s)) = IF 1 <= Len(s) - 1 THEN Len(s) - 1 ELSE 0
  BY <1>1, SubSeqProperties DEF Front
<1>5. \A n \in Nat \ {0} : (IF 1 <= n - 1 THEN n - 1 ELSE 0) = n - 1
  OBVIOUS
<1>6. Len(Front(s)) = Len(s) - 1
  BY <1>2, <1>4, <1>5, Zenon
<1> QED
  BY <1>3, <1>6

\* A fallback is in a lab.
LEMMA FallbackIsALab ==
  ASSUME NEW l \in Labs, NEW out
  PROVE  UsableFallback(l, out)[1] \in Labs
<1>1. Fallbacks \in Seq(Labs)
  BY ProfilesConstants DEF ProfilesConstants
<1>2. \A i \in 1..Len(Fallbacks) : Fallbacks[i] \in Labs
  BY <1>1
<1>3. \A I \in SUBSET (1..Len(Fallbacks)) : I # {} => Min(I) \in 1..Len(Fallbacks)
  <2> SUFFICES ASSUME NEW I \in SUBSET (1..Len(Fallbacks)), I # {}
               PROVE  Min(I) \in 1..Len(Fallbacks)
    OBVIOUS
  <2>1. I \subseteq Nat
    OBVIOUS
  <2>2. Min(I) \in I
    BY <2>1, MinIsIn
  <2> QED
    BY <2>2
<1> QED
  BY <1>2, <1>3 DEF UsableFallback, SelectInSeq

\* The earliest reset of a lab is one of its limits.
LEMMA EarliestIsTold ==
  ASSUME NEW l \in Labs, NEW s, Keeps(l, s), now \in Nat
  PROVE  /\ EarliestReset(s) \in Nat
         /\ EarliestReset(s) # 0 => Told(l, EarliestReset(s))
<1> DEFINE resets == {s.limits[n] : n \in Names} \ 0..now
<1>1. resets \subseteq Nat
  BY DEF Keeps
<1>2. EarliestReset(s) = IF resets = {} THEN 0 ELSE Min(resets)
  BY DEF EarliestReset
<1>3. CASE resets = {}
  BY <1>2, <1>3
<1>4. CASE resets # {}
  <2>1. Min(resets) \in resets
    BY <1>1, <1>4, MinIsIn
  <2>2. PICK n \in Names : Min(resets) = s.limits[n]
    BY <2>1
  <2> HIDE DEF resets
  <2>3. Min(resets) \in Nat
    BY <1>1, <2>1
  <2> QED
    BY <1>2, <1>4, <2>2, <2>3 DEF Keeps, Told
<1> QED
  BY <1>3, <1>4

-----------------------------------------------------------------------------
(* what the file keeps *)

\* A mark keeps what was told, if the mark was.
LEMMA MarkedKeeps ==
  ASSUME NEW l \in Labs, NEW s, Keeps(l, s), NEW n \in Names, NEW reset \in Nat,
         <<l, n, reset>> \in told
  PROVE  Keeps(l, Marked(s, n, reset))
<1>1. DOMAIN Marked(s, n, reset) = LabFields
  BY DEF Marked, Keeps
<1>2. Marked(s, n, reset).limits = [s.limits EXCEPT ![n] = reset]
  BY DEF Marked, Keeps, LabFields
<1> QED
  BY <1>1, <1>2 DEF Keeps

\* Neither a rotation nor any other change of the active profile touches the limits,
LEMMA ActiveKeeps ==
  ASSUME NEW l \in Labs, NEW s, Keeps(l, s), NEW n
  PROVE  Keeps(l, [s EXCEPT !.active = n]) /\ Keeps(l, Rotated(s))
<1>1. ASSUME NEW m
      PROVE  Keeps(l, [s EXCEPT !.active = m])
  <2>1. DOMAIN [s EXCEPT !.active = m] = LabFields
    BY DEF Keeps
  <2>2. [s EXCEPT !.active = m].limits = s.limits
    BY DEF Keeps, LabFields
  <2> QED
    BY <2>1, <2>2 DEF Keeps
<1>2. Rotated(s) = [s EXCEPT !.active = IF NextAvailable(s) = NoName THEN s.active
                                        ELSE NextAvailable(s)]
  BY DEF Rotated
<1> QED
  BY <1>1, <1>2

\* nor does another list of profiles, and a removed profile loses its own.
LEMMA ProfilesKeep ==
  ASSUME NEW l \in Labs, NEW s, Keeps(l, s), NEW n \in Names, NEW ps, NEW a
  PROVE  /\ Keeps(l, [s EXCEPT !.profiles = ps, !.active = a])
         /\ Keeps(l, [s EXCEPT !.profiles = ps, !.limits[n] = 0, !.active = a])
<1>1. Keeps(l, [s EXCEPT !.profiles = ps, !.active = a])
  <2> DEFINE r == [s EXCEPT !.profiles = ps, !.active = a]
  <2>1. DOMAIN r = LabFields /\ r.limits = s.limits
    BY DEF Keeps, LabFields
  <2> QED
    BY <2>1 DEF Keeps
<1>2. Keeps(l, [s EXCEPT !.profiles = ps, !.limits[n] = 0, !.active = a])
  <2> DEFINE r == [s EXCEPT !.profiles = ps, !.limits[n] = 0, !.active = a]
  <2>1. DOMAIN r = LabFields /\ r.limits = [s.limits EXCEPT ![n] = 0]
    BY DEF Keeps, LabFields
  <2> HIDE DEF r
  <2>2. Keeps(l, r)
    BY <2>1 DEF Keeps
  <2> QED
    BY <2>2 DEF r
<1> QED
  BY <1>1, <1>2

\* A press, with a fallback or without one, takes up the work of a card nobody works on.
Pressed(t, c) == Press(t, c) \/ PressFallback(t, c)
LEMMA PressesByHand ==
  ASSUME NEW t \in Threads, NEW c \in Cards, Pressed(t, c)
  PROVE  /\ thread' = [thread EXCEPT ![t] = [Idle EXCEPT !.pc = "begin", !.card = c]]
         /\ ~Going(c) /\ Asks("press") /\ queue' = queue \ {c} /\ missed' = missed \ {c}
         /\ UNCHANGED <<tokens, route, status, seated, batch, paused, lost>>
         /\ UNCHANGED <<now, spent, told, refusals>>
<1>1. ByHand(t, c)
  BY DEF Pressed, Press, PressFallback
<1> QED
  BY <1>1 DEF ByHand, world

\* A fallback by hand is in a lab, and is granted for one run.
LEMMA FallbackByHand ==
  ASSUME NEW t \in Threads, NEW c \in Cards, PressFallback(t, c)
  PROVE  \E l \in Labs : \E n : /\ Activates(l, n)
                               /\ fallback' = [fallback EXCEPT ![c] = Append(@, l)]
                               /\ granted' = [granted EXCEPT ![c] = @ + 1]
<1>1. PICK from \in Labs :
        LET target == UsableFallback(from, {x \in Credentials : paused[x[1]] > now}) IN
        /\ Activates(target[1], target[2])
        /\ fallback' = [fallback EXCEPT ![c] = Append(@, target[1])]
        /\ granted' = [granted EXCEPT ![c] = @ + 1]
  BY DEF PressFallback
<1> QED
  BY <1>1, FallbackIsALab

\* What is told stays told, and so what is kept stays kept.
LEMMA ToldGrows ==
  ASSUME [Next]_vars
  PROVE  told \subseteq told'
<1>1. \A t \in Threads : Ends(t) => told \subseteq told'
  BY DEF Ends
<1>2. \A t \in Threads : /\ Begin(t) => UNCHANGED told
                         /\ Capture(t) => UNCHANGED told
                         /\ Present(t) => UNCHANGED told
                         /\ Mark(t) => UNCHANGED told
                         /\ Reroute(t) => UNCHANGED told
                         /\ Record(t) => UNCHANGED told
                         /\ Requeue(t) => UNCHANGED told
                         /\ TurnMarks(t) => UNCHANGED told
                         /\ TurnChooses(t) => UNCHANGED told
                         /\ TurnActivates(t) => UNCHANGED told
  BY DEF Begin, Capture, Present, Mark, Reroute, Record, Requeue, TurnMarks, TurnChooses,
         TurnActivates, world
<1>4. \A t \in Threads : /\ BeginTurn(t) => UNCHANGED told
                         /\ \A c \in Cards : Start(t, c) \/ Pressed(t, c) => UNCHANGED told
  BY PressesByHand DEF BeginTurn, Start, world
<1>3. /\ WriteBack \/ (\E c \in Cards : Join(c) \/ Drop(c)) => UNCHANGED told
      /\ \A l \in Labs, n \in Names :
           AddProfile(l, n) \/ RemoveProfile(l, n) \/ ActivateProfile(l, n) => UNCHANGED told
      /\ SetRoute \/ Tick \/ UNCHANGED vars => UNCHANGED told
  BY DEF WriteBack, Join, Drop, AddProfile, RemoveProfile, ActivateProfile, SetRoute, Tick,
         world, vars
<1> QED
  BY <1>1, <1>2, <1>3, <1>4 DEF Next, Runs, Pressed

\* A lab's state is saved for that lab only.
LEMMA SavedKeeps ==
  ASSUME FileKeeps, NEW l, NEW s, l \in Labs => Keeps(l, s), Saved(l, s), told \subseteq told'
  PROVE  FileKeeps'
<1>1. disk'.labs = [disk.labs EXCEPT ![l] = s]
  BY DEF Saved
<1>2. \A k \in Labs : Lab(k)' = IF k = l THEN s ELSE Lab(k)
  BY <1>1 DEF FileKeeps, Lab
<1>3. \A k \in Labs : \A r : Keeps(k, r) => Keeps(k, r)'
  BY DEF Keeps
<1>4. DOMAIN disk'.labs = Labs
  BY <1>1 DEF FileKeeps
<1>5. \A k \in Labs : Keeps(k, Lab(k)) /\ (k = l => Keeps(k, s))
  BY DEF FileKeeps
<1> QED
  BY <1>2, <1>4, <1>5 DEF FileKeeps, Keeps, Lab

\* A profile is activated for its lab only.
LEMMA ActivatesKeeps ==
  ASSUME FileKeeps, NEW l \in Labs, NEW n, Activates(l, n), told \subseteq told'
  PROVE  FileKeeps'
<1>1. Keeps(l, Lab(l))
  BY DEF FileKeeps
<1>2. CASE UNCHANGED disk
  BY <1>2 DEF FileKeeps, Keeps, Lab
<1>3. CASE Saved(l, [Lab(l) EXCEPT !.active = n])
  BY <1>1, <1>3, ActiveKeeps, SavedKeeps
<1> QED
  BY <1>2, <1>3 DEF Activates

\* Each step keeps the file.
LEMMA FileStep ==
  ASSUME LimitsInv, [Next]_vars
  PROVE  FileKeeps'
<1>0. FileKeeps /\ ThreadsHold /\ told \subseteq told'
  BY ToldGrows DEF LimitsInv
<1>1. ASSUME NEW t \in Threads, Mark(t)
      PROVE  FileKeeps'
  <2> DEFINE l == thread[t].lab
             s == Marked(Lab(l), thread[t].name, thread[t].reset)
  <2>1. l \in Labs /\ Keeps(l, Lab(l))
    BY <1>0 DEF ThreadsHold, Holds, FileKeeps
  <2>2. Keeps(l, s)
    BY <1>0, <1>1, <2>1, MarkedKeeps DEF Mark, ThreadsHold, Holds
  <2>3. Keeps(l, Rotated(s))
    BY <2>1, <2>2, ActiveKeeps
  <2>4. Saved(l, s) \/ Saved(l, Rotated(s)) \/ UNCHANGED disk
    BY <1>1 DEF Mark
  <2>5. CASE UNCHANGED disk
    BY <1>0, <2>5 DEF FileKeeps, Keeps, Lab
  <2> QED
    BY <1>0, <2>2, <2>3, <2>4, <2>5, SavedKeeps
<1>2. ASSUME NEW t \in Threads, TurnMarks(t)
      PROVE  FileKeeps'
  <2> DEFINE l == thread[t].lab
             s == Marked(Lab(l), thread[t].name, thread[t].reset)
  <2>1. l \in Labs /\ Keeps(l, Lab(l))
    BY <1>0 DEF ThreadsHold, Holds, FileKeeps
  <2>2. Keeps(l, s)
    BY <1>0, <1>2, <2>1, MarkedKeeps DEF TurnMarks, ThreadsHold, Holds
  <2>3. Saved(l, s) \/ UNCHANGED disk
    BY <1>2 DEF TurnMarks
  <2>4. CASE UNCHANGED disk
    BY <1>0, <2>4 DEF FileKeeps, Keeps, Lab
  <2> QED
    BY <1>0, <2>2, <2>3, <2>4, SavedKeeps
<1>3. ASSUME NEW t \in Threads, Record(t) \/ TurnActivates(t)
      PROVE  FileKeeps'
  <2>1. UNCHANGED disk \/ Activates(thread[t].target[1], thread[t].target[2])
    BY <1>3 DEF Record, TurnActivates
  <2>2. thread[t].target[1] \in Labs
    BY <1>0 DEF ThreadsHold, Holds
  <2>3. CASE UNCHANGED disk
    BY <1>0, <2>3 DEF FileKeeps, Keeps, Lab
  <2> QED
    BY <1>0, <2>1, <2>2, <2>3, ActivatesKeeps
<1>4. ASSUME NEW l \in Labs, NEW n \in Names, AddProfile(l, n)
      PROVE  FileKeeps'
  <2>1. Keeps(l, Lab(l))
    BY <1>0 DEF FileKeeps
  <2>2. \E ps, a : Saved(l, [Lab(l) EXCEPT !.profiles = ps, !.active = a])
    BY <1>4 DEF AddProfile
  <2> QED
    BY <1>0, <2>1, <2>2, ProfilesKeep, SavedKeeps
<1>5. ASSUME NEW l \in Labs, NEW n \in Names, RemoveProfile(l, n)
      PROVE  FileKeeps'
  <2>1. Keeps(l, Lab(l))
    BY <1>0 DEF FileKeeps
  <2>2. \E ps, a : Saved(l, [Lab(l) EXCEPT !.profiles = ps, !.limits[n] = 0, !.active = a])
    BY <1>5 DEF RemoveProfile
  <2> QED
    BY <1>0, <2>1, <2>2, ProfilesKeep, SavedKeeps
<1>6. ASSUME NEW l \in Labs, NEW n \in Names, ActivateProfile(l, n)
      PROVE  FileKeeps'
  BY <1>0, <1>6, ActivatesKeeps DEF ActivateProfile
<1>7. CASE UNCHANGED disk
  BY <1>0, <1>7 DEF FileKeeps, Keeps, Lab
<1>8. \A t \in Threads : /\ Begin(t) => UNCHANGED disk
                         /\ Capture(t) => UNCHANGED disk
                         /\ Present(t) => UNCHANGED disk
                         /\ Ends(t) => UNCHANGED disk
                         /\ Reroute(t) => UNCHANGED disk
                         /\ Requeue(t) => UNCHANGED disk
                         /\ TurnChooses(t) => UNCHANGED disk
                         /\ BeginTurn(t) => UNCHANGED disk
                         /\ \A c \in Cards : Start(t, c) \/ Press(t, c) => UNCHANGED disk
  BY DEF Begin, Capture, Present, Ends, Reroute, Requeue, TurnChooses, BeginTurn, Start, Press
<1>10. ASSUME NEW t \in Threads, NEW c \in Cards, PressFallback(t, c)
       PROVE  FileKeeps'
  BY <1>0, <1>10, FallbackByHand, ActivatesKeeps
<1>9. /\ WriteBack \/ (\E c \in Cards : Join(c) \/ Drop(c)) => UNCHANGED disk
      /\ SetRoute \/ Tick \/ UNCHANGED vars => UNCHANGED disk
  BY DEF WriteBack, Join, Drop, SetRoute, Tick, vars
<1> QED
  BY <1>1, <1>2, <1>3, <1>4, <1>5, <1>6, <1>7, <1>8, <1>9, <1>10 DEF Next, Runs

-----------------------------------------------------------------------------
(* threads *)

\* Only one thread takes a step, and what the others hold stays.
LEMMA OthersHold ==
  ASSUME ThreadsHold, told \subseteq told', NEW t \in Threads,
         DOMAIN thread' = Threads, \A u \in Threads \ {t} : thread'[u] = thread[u], Holds(t)'
  PROVE  ThreadsHold'
<1>1. \A l, reset : Told(l, reset) => Told(l, reset)'
  BY DEF Told
<1>2. \A u \in Threads \ {t} : Holds(u)'
  BY <1>1 DEF ThreadsHold, Holds
<1> QED
  BY <1>2 DEF ThreadsHold

\* A thread that ends or has not begun holds nothing.
LEMMA IdleHolds ==
  ASSUME NEW t \in Threads, thread'[t] = Idle
  PROVE  Holds(t)'
<1>1. DefaultLab \in Labs
  BY ProfilesConstants DEF ProfilesConstants
<1>2. /\ DOMAIN Idle = ThreadFields /\ Idle.card = NoCard /\ Idle.lab = DefaultLab
      /\ Idle.target[1] = DefaultLab /\ Idle.reset = 0 /\ Idle.pc = "idle"
  BY DEF Idle, ThreadFields
<1> QED
  BY <1>1, <1>2 DEF Holds

\* Each step of a thread leaves it with what it should hold.
LEMMA ThreadsStep ==
  ASSUME LimitsInv, [Next]_vars
  PROVE  ThreadsHold'
<1>0. /\ ThreadsHold /\ FileKeeps /\ Typed /\ told \subseteq told'
      /\ DOMAIN thread = Threads /\ DefaultLab \in Labs
      /\ NoCard \notin Cards
  BY ToldGrows, ProfilesConstants DEF LimitsInv, ThreadsHold, ProfilesConstants
<1>a. ASSUME NEW t \in Threads
      PROVE  /\ DOMAIN thread[t] = ThreadFields /\ Holds(t)
             /\ thread[t].lab \in Labs
             /\ \A l \in Labs : \A reset : Told(l, reset) => Told(l, reset)'
  BY <1>0 DEF ThreadsHold, Holds, Told
<1>1. ASSUME NEW t \in Threads, Begin(t)
      PROVE  ThreadsHold'
  <2> DEFINE c == thread[t].card
  <2>1. CASE Leaves(t)
    BY <1>0, <2>1, IdleHolds, OthersHold DEF Leaves
  <2>2. CASE thread' = [thread EXCEPT ![t].pc = "capture", ![t].lab = RunRef(c)]
    <3>1. c \in Cards /\ RunRef(c) \in Labs
      <4>1. c \in Cards
        BY <1>1, <1>a DEF Begin, Holds
      <4>2. fallback[c] \in Seq(Labs) /\ (fallback[c] # <<>> => Len(fallback[c]) \in Nat \ {0})
        BY <1>0, <4>1, EmptySeq DEF Typed
      <4>3. fallback[c] # <<>> => fallback[c][Len(fallback[c])] \in Labs
        BY <4>2
      <4> QED
        BY <1>0, <4>1, <4>3 DEF RunRef, Last
    <3>2. Holds(t)'
      BY <1>0, <1>a, <2>2, <3>1 DEF Holds, ThreadFields
    <3> QED
      BY <1>0, <2>2, <3>2, OthersHold
  <2> QED
    BY <1>1, <2>1, <2>2 DEF Begin
<1>2. ASSUME NEW t \in Threads, Capture(t)
      PROVE  ThreadsHold'
  <2>1. PICK n : thread' = [thread EXCEPT ![t].pc = "present", ![t].name = n]
    BY <1>2 DEF Capture
  <2>2. Holds(t)'
    BY <1>0, <1>a, <2>1 DEF Holds, ThreadFields
  <2> QED
    BY <1>0, <2>1, <2>2, OthersHold
<1>3. ASSUME NEW t \in Threads, Present(t)
      PROVE  ThreadsHold'
  <2>1. CASE Leaves(t)
    BY <1>0, <2>1, IdleHolds, OthersHold DEF Leaves
  <2>2. CASE Becomes(t, "running") /\ <<thread[t].lab, thread[t].name>> \in tokens
    <3>1. thread[t].name \in Names
      BY <1>0, <2>2 DEF Typed, Credentials
    <3>2. Holds(t)'
      BY <1>0, <1>a, <2>2, <3>1 DEF Holds, ThreadFields, Becomes
    <3> QED
      BY <1>0, <2>2, <3>2, OthersHold DEF Becomes
  <2> QED
    BY <1>3, <2>1, <2>2 DEF Present
<1>4. ASSUME NEW t \in Threads, Ends(t)
      PROVE  ThreadsHold'
  <2> DEFINE k == <<thread[t].lab, thread[t].name>>
  <2>1. CASE Leaves(t)
    BY <1>0, <2>1, IdleHolds, OthersHold DEF Leaves
  <2>2. ASSUME NEW reset,
               reset \in Nat, thread' = [thread EXCEPT ![t].pc = "refused", ![t].reset = reset],
               told' = told \cup {<<k[1], k[2], reset>>}
        PROVE  ThreadsHold'
    <3>1. thread[t].name \in Names /\ <<thread[t].lab, thread[t].name, reset>> \in told'
      BY <1>4, <1>a, <2>2 DEF Ends, Holds
    <3>2. Holds(t)'
      BY <1>0, <1>a, <2>2, <3>1 DEF Holds, ThreadFields
    <3> QED
      BY <1>0, <2>2, <3>2, OthersHold
  <2>3. k \in Credentials
    BY <1>4, <1>a DEF Ends, Holds, Credentials
  <2>4. now + Park \in Nat /\ spent'[k] \in Nat
    <3>1. Park \in Nat /\ MaxWindow \in Nat
      BY ProfilesConstants DEF ProfilesConstants
    <3>2. spent' = spent \/ \E w \in 1..MaxWindow : spent' = [spent EXCEPT ![k] = now + w]
      BY <1>4 DEF Ends
    <3>3. now \in Nat /\ spent[k] \in Nat /\ DOMAIN spent = Credentials
      BY <1>0, <2>3 DEF Typed
    <3>4. ASSUME NEW w \in 1..MaxWindow, spent' = [spent EXCEPT ![k] = now + w]
          PROVE  spent'[k] \in Nat
      BY <2>3, <3>1, <3>3, <3>4
    <3> QED
      BY <3>1, <3>2, <3>3, <3>4
  <2>5. Heard(t) \subseteq Nat
    <3>1. \A y \in told : y[3] \in Nat
      BY <1>0 DEF Typed
    <3> QED
      BY <3>1 DEF Heard
  <2>6. Leaves(t) \/ \E reset \in {spent'[k], now + Park} \cup Heard(t) :
                       /\ thread' = [thread EXCEPT ![t].pc = "refused", ![t].reset = reset]
                       /\ told' = told \cup {<<k[1], k[2], reset>>}
    BY <1>4 DEF Ends
  <2> HIDE DEF k
  <2> QED
    BY <2>1, <2>2, <2>4, <2>5, <2>6
<1>5. ASSUME NEW t \in Threads, Mark(t)
      PROVE  ThreadsHold'
  <2> DEFINE l == thread[t].lab
             s == Marked(Lab(l), thread[t].name, thread[t].reset)
             r == thread'[t].reset
  <2>1. Keeps(l, s)
    BY <1>0, <1>5, <1>a, MarkedKeeps DEF Mark, Holds, FileKeeps
  <2>2. EarliestReset(s) \in Nat /\ (EarliestReset(s) # 0 => Told(l, EarliestReset(s)))
    BY <1>0, <1>a, <2>1, EarliestIsTold DEF Typed
  <2>3. thread[t].card # NoCard /\ Told(l, thread[t].reset) /\ thread[t].reset \in Nat
    BY <1>5, <1>a DEF Mark, IsTurn, Holds, Told
  <2>a. PICK pc \in {"requeue", "reroute"} : \E switching, next, reset :
          /\ thread' = [thread EXCEPT ![t].pc = pc, ![t].switching = switching, ![t].next = next,
                                      ![t].reset = reset]
          /\ reset = thread[t].reset \/ (reset = EarliestReset(s) /\ EarliestReset(s) # 0)
    BY <1>5 DEF Mark
  <2>4. PICK switching, next, reset :
          /\ thread' = [thread EXCEPT ![t].pc = pc, ![t].switching = switching, ![t].next = next,
                                      ![t].reset = reset]
          /\ reset = thread[t].reset \/ (reset = EarliestReset(s) /\ EarliestReset(s) # 0)
    BY <2>a
  <2> HIDE DEF s
  <2>5. reset \in Nat /\ Told(l, reset)
    BY <2>2, <2>3, <2>4
  <2>6. /\ DOMAIN thread'[t] = ThreadFields /\ thread'[t].pc = pc /\ thread'[t].reset = reset
        /\ thread'[t].card = thread[t].card /\ thread'[t].lab = thread[t].lab
        /\ thread'[t].target = thread[t].target
    BY <1>0, <1>a, <2>4 DEF ThreadFields
  <2>7. Holds(t)'
    BY <1>a, <2>3, <2>4, <2>5, <2>6 DEF Holds
  <2> QED
    BY <1>0, <2>4, <2>7, OthersHold
<1>6. ASSUME NEW t \in Threads, Reroute(t)
      PROVE  ThreadsHold'
  <2>1. thread[t].card # NoCard /\ thread[t].pc = "reroute"
    BY <1>6 DEF Reroute, IsTurn
  <2>2. Told(thread[t].lab, thread[t].reset)
    BY <1>a, <2>1 DEF Holds
  <2>3. ASSUME NEW pc \in {"record", "requeue"}, NEW target, target[1] \in Labs,
               \/ thread' = [thread EXCEPT ![t].pc = pc, ![t].target = target]
               \/ thread' = [thread EXCEPT ![t].pc = pc]
        PROVE  ThreadsHold'
    <3>1. /\ DOMAIN thread'[t] = ThreadFields /\ thread'[t].pc = pc
          /\ thread'[t].reset = thread[t].reset
          /\ thread'[t].card = thread[t].card /\ thread'[t].lab = thread[t].lab
          /\ thread'[t].target = target \/ thread'[t].target = thread[t].target
      BY <1>0, <1>a, <2>3 DEF ThreadFields
    <3>2. Holds(t)'
      BY <1>a, <2>1, <2>2, <2>3, <3>1 DEF Holds
    <3> QED
      BY <1>0, <2>3, <3>2, OthersHold
  <2>4. UsableFallback(thread[t].lab, {x \in Credentials : paused[x[1]] > now})[1] \in Labs
    BY <1>a, FallbackIsALab
  <2> QED
    BY <1>6, <2>3, <2>4 DEF Reroute, Becomes
<1>7. ASSUME NEW t \in Threads, Record(t)
      PROVE  ThreadsHold'
  <2>1. CASE Leaves(t)
    BY <1>0, <2>1, IdleHolds, OthersHold DEF Leaves
  <2>2. ASSUME NEW next, thread' = [thread EXCEPT ![t].pc = "requeue", ![t].next = next]
        PROVE  ThreadsHold'
    <3>1. Holds(t)'
      BY <1>0, <1>7, <1>a, <2>2 DEF Holds, ThreadFields, Record
    <3> QED
      BY <1>0, <2>2, <3>1, OthersHold
  <2> QED
    BY <1>7, <2>1, <2>2 DEF Record
<1>8. ASSUME NEW t \in Threads, Requeue(t)
      PROVE  ThreadsHold'
  BY <1>0, <1>8, IdleHolds, OthersHold DEF Requeue, Leaves
<1>9. ASSUME NEW t \in Threads, TurnMarks(t)
      PROVE  ThreadsHold'
  <2>1. \E tried : thread' = [thread EXCEPT ![t].pc = "reroute", ![t].tried = tried]
    BY <1>9 DEF TurnMarks
  <2>2. Holds(t)'
    BY <1>0, <1>9, <1>a, <2>1 DEF Holds, ThreadFields, TurnMarks, IsTurn
  <2> QED
    BY <1>0, <2>1, <2>2, OthersHold
<1>10. ASSUME NEW t \in Threads, TurnChooses(t)
       PROVE  ThreadsHold'
  <2>1. CASE Leaves(t)
    BY <1>0, <2>1, IdleHolds, OthersHold DEF Leaves
  <2>2. ASSUME NEW target, target[1] \in Labs,
               thread' = [thread EXCEPT ![t].pc = "activate", ![t].target = target]
        PROVE  ThreadsHold'
    <3>1. Holds(t)'
      BY <1>0, <1>10, <1>a, <2>2 DEF Holds, ThreadFields, TurnChooses, IsTurn
    <3> QED
      BY <1>0, <2>2, <3>1, OthersHold
  <2>3. UsableFallback(thread[t].lab, thread[t].tried)[1] \in Labs
    BY <1>a, FallbackIsALab
  <2>4. Leaves(t) \/ \E target : /\ target[1] \in Labs
                                 /\ thread' = [thread EXCEPT ![t].pc = "activate",
                                                             ![t].target = target]
    BY <1>10, <1>a, <2>3 DEF TurnChooses
  <2> QED
    BY <2>1, <2>2, <2>4
<1>11. ASSUME NEW t \in Threads, TurnActivates(t)
       PROVE  ThreadsHold'
  <2>1. CASE Leaves(t)
    BY <1>0, <2>1, IdleHolds, OthersHold DEF Leaves
  <2>2. CASE thread' = [thread EXCEPT ![t].pc = "capture", ![t].lab = thread[t].target[1]]
    <3>1. Holds(t)'
      BY <1>0, <1>a, <2>2 DEF Holds, ThreadFields
    <3> QED
      BY <1>0, <2>2, <3>1, OthersHold
  <2> QED
    BY <1>11, <2>1, <2>2 DEF TurnActivates
<1>12. ASSUME NEW t \in Threads, NEW c \in Cards, Start(t, c) \/ Pressed(t, c)
       PROVE  ThreadsHold'
  <2>1. thread' = [thread EXCEPT ![t] = [Idle EXCEPT !.pc = "begin", !.card = c]]
    BY <1>12, PressesByHand DEF Start
  <2>2. thread'[t] = [Idle EXCEPT !.pc = "begin", !.card = c]
    BY <1>0, <2>1
  <2>3. Holds(t)'
    BY <1>0, <2>2 DEF Holds, ThreadFields, Idle
  <2> QED
    BY <1>0, <2>1, <2>3, OthersHold
<1>13. ASSUME NEW t \in Threads, BeginTurn(t)
       PROVE  ThreadsHold'
  <2>1. thread' = [thread EXCEPT ![t] = [Idle EXCEPT !.pc = "capture",
                                                     !.switching = route = "switch"]]
    BY <1>13 DEF BeginTurn
  <2>2. thread'[t] = [Idle EXCEPT !.pc = "capture", !.switching = route = "switch"]
    BY <1>0, <2>1
  <2>3. Holds(t)'
    BY <1>0, <2>2 DEF Holds, ThreadFields, Idle
  <2> QED
    BY <1>0, <2>1, <2>3, OthersHold
<1>14. CASE UNCHANGED thread
  <2>1. \A l, reset : Told(l, reset) => Told(l, reset)'
    BY <1>0 DEF Told
  <2> QED
    BY <1>0, <1>14, <2>1 DEF ThreadsHold, Holds
<1>15. /\ WriteBack \/ (\E c \in Cards : Join(c) \/ Drop(c)) => UNCHANGED thread
       /\ \A l \in Labs, n \in Names :
            AddProfile(l, n) \/ RemoveProfile(l, n) \/ ActivateProfile(l, n) => UNCHANGED thread
       /\ SetRoute \/ Tick \/ UNCHANGED vars => UNCHANGED thread
  BY DEF WriteBack, Join, Drop, AddProfile, RemoveProfile, ActivateProfile, SetRoute, Tick, vars
<1> QED
  BY <1>1, <1>2, <1>3, <1>4, <1>5, <1>6, <1>7, <1>8, <1>9, <1>10, <1>11, <1>12, <1>13, <1>14,
     <1>15 DEF Next, Runs, Pressed

-----------------------------------------------------------------------------
(* limits and pauses *)

\* Each step keeps the types.
LEMMA TypesStep ==
  ASSUME LimitsInv, [Next]_vars
  PROVE  Typed'
<1>0. Typed /\ ThreadsHold /\ Park \in Nat /\ MaxWindow \in Nat
  BY ProfilesConstants DEF ProfilesConstants, LimitsInv
<1>a. ASSUME NEW t \in Threads
      PROVE  Holds(t) /\ thread[t].lab \in Labs /\ thread[t].reset \in Nat
  BY <1>0 DEF ThreadsHold, Holds
<1>1. ASSUME NEW t \in Threads, Capture(t)
      PROVE  Typed'
  <2> DEFINE c == thread[t].card
  <2>1. c = NoCard \/ c \in Cards
    BY <1>a DEF Holds
  <2>2. ASSUME c \in Cards
        PROVE  Consumed(c) \in [Cards -> Seq(Labs)]
    <3>1. fallback[c] # <<>> => Front(fallback[c]) \in Seq(Labs)
      BY <1>0, <2>2, FrontIsShorter DEF Typed
    <3> QED
      BY <1>0, <3>1 DEF Consumed, Typed
  <2>3. fallback' = fallback \/ (c \in Cards /\ fallback' = Consumed(c))
    BY <1>1, <2>1 DEF Capture, IsTurn
  <2>4. UNCHANGED <<now, tokens, spent, paused, told>>
    BY <1>1 DEF Capture, world
  <2> QED
    BY <1>0, <2>2, <2>3, <2>4 DEF Typed
<1>2. ASSUME NEW t \in Threads, Ends(t)
      PROVE  Typed'
  <2> DEFINE k == <<thread[t].lab, thread[t].name>>
  <2>1. \/ spent' = spent
        \/ \E w \in 1..MaxWindow : spent' = [spent EXCEPT ![k] = now + w]
    BY <1>2 DEF Ends
  <2>2. spent' \in [Credentials -> Nat]
    <3>1. ASSUME NEW w \in 1..MaxWindow, spent' = [spent EXCEPT ![k] = now + w]
          PROVE  spent' \in [Credentials -> Nat]
      <4>1. now + w \in Nat /\ spent \in [Credentials -> Nat]
        BY <1>0 DEF Typed
      <4> QED
        BY <3>1, <4>1
    <3> QED
      BY <1>0, <2>1, <3>1 DEF Typed
  <2>3. UNCHANGED <<now, tokens, paused, fallback>>
    BY <1>2 DEF Ends
  <2>4. told' \subseteq Labs \X Names \X Nat
    <3>1. LimitsInv /\ [Next]_vars
      OBVIOUS
    <3>2. Holds(t)'
      BY <3>1, ThreadsStep DEF ThreadsHold
    <3>3. told' = told \/ (told' = told \cup {<<k[1], k[2], thread'[t].reset>>})
      <4>1. told' = told \/ \E reset :
              /\ thread' = [thread EXCEPT ![t].pc = "refused", ![t].reset = reset]
              /\ told' = told \cup {<<k[1], k[2], reset>>}
        BY <1>2 DEF Ends
      <4>2. DOMAIN thread = Threads /\ DOMAIN thread[t] = ThreadFields
        BY <1>0 DEF ThreadsHold, Holds
      <4> HIDE DEF k
      <4> QED
        BY <4>1, <4>2 DEF ThreadFields
    <3>4. thread[t].name \in Names
      BY <1>2, <1>a DEF Ends, Holds
    <3>5. told \subseteq Labs \X Names \X Nat /\ thread'[t].reset \in Nat
      BY <1>0, <3>2 DEF Typed, Holds
    <3> QED
      BY <1>a, <3>3, <3>4, <3>5
  <2> QED
    BY <1>0, <2>2, <2>3, <2>4 DEF Typed
<1>3. ASSUME NEW t \in Threads, Reroute(t) \/ Requeue(t)
      PROVE  Typed'
  <2>1. paused' = paused \/ paused' = [paused EXCEPT ![thread[t].lab] = thread[t].reset]
    BY <1>3 DEF Reroute, Requeue, Pauses
  <2>2. UNCHANGED <<now, tokens, spent, fallback, told>>
    BY <1>3 DEF Reroute, Requeue, world
  <2> QED
    BY <1>0, <1>a, <2>1, <2>2 DEF Typed
<1>4. ASSUME NEW t \in Threads, Record(t)
      PROVE  Typed'
  <2> DEFINE c == thread[t].card
             l == thread[t].target[1]
  <2>1. c \in Cards /\ l \in Labs
    BY <1>4, <1>a DEF Record, Holds
  <2>2. fallback' = fallback \/ fallback' = [fallback EXCEPT ![c] = Append(@, l)]
    BY <1>4 DEF Record
  <2>3. Append(fallback[c], l) \in Seq(Labs)
    BY <1>0, <2>1, AppendProperties DEF Typed
  <2>4. UNCHANGED <<now, tokens, spent, paused, told>>
    BY <1>4 DEF Record, world
  <2> QED
    BY <1>0, <2>1, <2>2, <2>3, <2>4 DEF Typed
<1>5. ASSUME NEW l \in Labs, NEW n \in Names, AddProfile(l, n) \/ RemoveProfile(l, n)
      PROVE  Typed'
  <2>1. tokens' = tokens \cup {<<l, n>>} \/ tokens' = tokens \ {<<l, n>>}
    BY <1>5 DEF AddProfile, RemoveProfile
  <2>2. tokens' \subseteq Credentials
    BY <1>0, <2>1 DEF Typed, Credentials
  <2>3. UNCHANGED <<now, spent, paused, fallback, told>>
    BY <1>5 DEF AddProfile, RemoveProfile, Asks, world, board
  <2> QED
    BY <1>0, <2>2, <2>3 DEF Typed
<1>6. CASE Tick
  BY <1>0, <1>6 DEF Tick, Typed, board
<1>7. CASE UNCHANGED <<now, tokens, spent, paused, fallback, told>>
  BY <1>0, <1>7 DEF Typed
<1>8. \A t \in Threads :
        /\ Begin(t) => UNCHANGED <<now, tokens, spent, paused, fallback, told>>
        /\ Present(t) => UNCHANGED <<now, tokens, spent, paused, fallback, told>>
        /\ Mark(t) => UNCHANGED <<now, tokens, spent, paused, fallback, told>>
        /\ TurnMarks(t) => UNCHANGED <<now, tokens, spent, paused, fallback, told>>
        /\ TurnChooses(t) => UNCHANGED <<now, tokens, spent, paused, fallback, told>>
        /\ TurnActivates(t) => UNCHANGED <<now, tokens, spent, paused, fallback, told>>
        /\ BeginTurn(t) => UNCHANGED <<now, tokens, spent, paused, fallback, told>>
        /\ \A c \in Cards : Start(t, c) \/ Press(t, c) =>
             UNCHANGED <<now, tokens, spent, paused, fallback, told>>
  <2>1. \A t \in Threads, c \in Cards :
          Press(t, c) => UNCHANGED <<now, tokens, spent, paused, fallback, told>>
    BY PressesByHand DEF Pressed, Press
  <2> QED
    BY <2>1 DEF Begin, Present, Mark, TurnMarks, TurnChooses, TurnActivates, BeginTurn, Start,
                world, board
<1>10. ASSUME NEW t \in Threads, NEW c \in Cards, PressFallback(t, c)
       PROVE  Typed'
  <2>1. PICK l \in Labs : fallback' = [fallback EXCEPT ![c] = Append(@, l)]
    BY <1>10, FallbackByHand
  <2>2. Append(fallback[c], l) \in Seq(Labs)
    BY <1>0, AppendProperties DEF Typed
  <2>3. UNCHANGED <<now, tokens, spent, paused, told>>
    BY <1>10, PressesByHand DEF Pressed
  <2> QED
    BY <1>0, <2>1, <2>2, <2>3 DEF Typed
<1>9. /\ WriteBack \/ (\E c \in Cards : Join(c) \/ Drop(c)) =>
           UNCHANGED <<now, tokens, spent, paused, fallback, told>>
      /\ \A l \in Labs, n \in Names :
           ActivateProfile(l, n) => UNCHANGED <<now, tokens, spent, paused, fallback, told>>
      /\ SetRoute \/ UNCHANGED vars => UNCHANGED <<now, tokens, spent, paused, fallback, told>>
  BY DEF WriteBack, Join, Drop, ActivateProfile, SetRoute, vars, world, board
<1> QED
  BY <1>1, <1>2, <1>3, <1>4, <1>5, <1>6, <1>7, <1>8, <1>9, <1>10 DEF Next, Runs

\* A lab is paused only by a run that was refused in it.
LEMMA PausingStep ==
  ASSUME LimitsInv, [Next]_vars
  PROVE  Pausing'
<1>0. Typed /\ Pausing /\ ThreadsHold /\ told \subseteq told'
  BY ToldGrows DEF LimitsInv
<1>a. \A l, reset : Told(l, reset) => Told(l, reset)'
  BY <1>0 DEF Told
<1>1. CASE UNCHANGED paused
  <2>1. \A l \in Labs : paused'[l] # 0 => Told(l, paused'[l])
    BY <1>0, <1>1 DEF Pausing
  <2> QED
    BY <1>a, <2>1 DEF Pausing, Told
<1>2. ASSUME NEW t \in Threads, Reroute(t) \/ Requeue(t)
      PROVE  Pausing'
  <2>1. Told(thread[t].lab, thread[t].reset)
    BY <1>0, <1>2 DEF ThreadsHold, Holds, Reroute, Requeue, IsTurn
  <2>2. paused' = paused \/ paused' = [paused EXCEPT ![thread[t].lab] = thread[t].reset]
    BY <1>2 DEF Reroute, Requeue, Pauses
  <2>3. \A l \in Labs : paused'[l] # 0 => Told(l, paused'[l])
    BY <1>0, <2>1, <2>2 DEF Pausing, Typed
  <2> QED
    BY <1>a, <2>3 DEF Pausing, Told
<1>3. \A t \in Threads : /\ Begin(t) => UNCHANGED paused
                         /\ Capture(t) => UNCHANGED paused
                         /\ Present(t) => UNCHANGED paused
                         /\ Ends(t) => UNCHANGED paused
                         /\ Mark(t) => UNCHANGED paused
                         /\ Record(t) => UNCHANGED paused
  BY DEF Begin, Capture, Present, Ends, Mark, Record, board
<1>5. \A t \in Threads : /\ TurnMarks(t) => UNCHANGED paused
                         /\ TurnChooses(t) => UNCHANGED paused
                         /\ TurnActivates(t) => UNCHANGED paused
                         /\ BeginTurn(t) => UNCHANGED paused
                         /\ \A c \in Cards : Start(t, c) \/ Pressed(t, c) => UNCHANGED paused
  BY PressesByHand DEF TurnMarks, TurnChooses, TurnActivates, BeginTurn, Start, board
<1>4. /\ WriteBack \/ (\E c \in Cards : Join(c) \/ Drop(c)) => UNCHANGED paused
      /\ \A l \in Labs, n \in Names :
           AddProfile(l, n) \/ RemoveProfile(l, n) \/ ActivateProfile(l, n) => UNCHANGED paused
      /\ SetRoute \/ Tick \/ UNCHANGED vars => UNCHANGED paused
  BY DEF WriteBack, Join, Drop, AddProfile, RemoveProfile, ActivateProfile, SetRoute, Tick,
         vars, board
<1> QED
  BY <1>1, <1>2, <1>3, <1>4, <1>5 DEF Next, Runs, Pressed

\* The invariant of the limits holds at first,
LEMMA LimitsInit == Init => LimitsInv
<1> SUFFICES ASSUME Init
             PROVE  LimitsInv
  OBVIOUS
<1>0. DefaultLab \in Labs /\ DefaultName \in Names
  BY ProfilesConstants DEF ProfilesConstants
<1>1. Typed
  BY <1>0, EmptySeq DEF Init, Typed, Credentials
<1>2. ThreadsHold
  BY <1>0 DEF Init, ThreadsHold, Holds, Idle, ThreadFields
<1>3. \A l \in Labs : \A ps : Keeps(l, LabOf(ps))
  <2> SUFFICES ASSUME NEW l \in Labs, NEW ps
               PROVE  Keeps(l, LabOf(ps))
    OBVIOUS
  <2>1. DOMAIN LabOf(ps) = LabFields /\ LabOf(ps).limits = [n \in Names |-> 0]
    BY DEF LabOf, EmptyLab, LabFields
  <2> QED
    BY <2>1 DEF Keeps
<1>4. FileKeeps
  <2>1. /\ DOMAIN disk.labs = Labs
        /\ \A l \in Labs : \E ps : disk.labs[l] = LabOf(ps)
    BY DEF Init, DefaultState
  <2> QED
    BY <1>3, <2>1 DEF FileKeeps, Lab
<1>5. Pausing
  BY DEF Init, Pausing
<1> QED
  BY <1>1, <1>2, <1>4, <1>5 DEF LimitsInv

\* and always.
LEMMA LimitsInvariant == Spec => []LimitsInv
<1>1. LimitsInv /\ [Next]_vars => LimitsInv'
  BY FileStep, ThreadsStep, TypesStep, PausingStep DEF LimitsInv
<1> QED
  BY LimitsInit, <1>1, PTL DEF Spec

\* However the active profile changes while runs and turns are on, and whichever profiles are
\* removed and added again: a limit is written for the very credential that was refused, with a
\* time that its run was told.
THEOREM LimitsAreOfTheRefused == Spec => []LimitsAreTheRefused
<1>1. LimitsInv => LimitsAreTheRefused
  BY DEF LimitsInv, FileKeeps, Keeps, LimitsAreTheRefused
<1> QED
  BY LimitsInvariant, <1>1, PTL

\* No lab is ever paused until another lab's reset, also where a run of one lab was given a
\* fallback in another one while it waited for its turn to be recorded.
THEOREM PausesAreOfTheirLab == Spec => []PauseIsOfItsLab
<1>1. LimitsInv => PauseIsOfItsLab
  <2> SUFFICES ASSUME LimitsInv, NEW l \in Labs, paused[l] > now
               PROVE  \E n \in Names : <<l, n, paused[l]>> \in told
    BY DEF PauseIsOfItsLab
  <2>1. paused[l] # 0
    BY DEF LimitsInv, Typed
  <2> QED
    BY <2>1 DEF LimitsInv, Pausing, Told
<1> QED
  BY LimitsInvariant, <1>1, PTL

-----------------------------------------------------------------------------
(* fallbacks *)

\* A step of a thread, as far as fallbacks go: it puts its work down, or takes up that of a card
\* nobody works on, or goes on with it.
Rests(t) == thread'[t].pc \notin AtWork /\ UNCHANGED <<fallback, granted>>
TakesUp(t, c) ==
  /\ ~Going(c) /\ thread'[t].card = c /\ thread'[t].pc = "begin"
  /\ UNCHANGED <<fallback, granted>>
Turns(t) == thread'[t].card = NoCard /\ UNCHANGED <<fallback, granted>>
GoesOn(t, c) == WorksOn(t, c) /\ thread'[t].card = c
Chooses(t, c) ==
  /\ GoesOn(t, c) /\ thread'[t].pc = "capture" /\ thread'[t].lab = RunRef(c)
  /\ UNCHANGED <<fallback, granted>>
Consumes(t, c) ==
  /\ GoesOn(t, c) /\ thread[t].pc = "capture" /\ thread'[t].pc = "present"
  /\ thread'[t].lab = thread[t].lab
  /\ fallback' = Consumed(c) /\ UNCHANGED granted
Presents(t, c) ==
  /\ GoesOn(t, c) /\ thread[t].pc = "present" /\ thread'[t].pc = "running"
  /\ granted' = (IF thread[t].lab = DefaultLab THEN granted ELSE [granted EXCEPT ![c] = @ - 1])
  /\ UNCHANGED fallback
Grants(c) ==
  /\ \E l \in Labs : fallback' = [fallback EXCEPT ![c] = Append(@, l)]
  /\ granted' = [granted EXCEPT ![c] = @ + 1]
IsGranted(t, c) ==
  /\ thread'[t].pc = "requeue" \/ (~Going(c) /\ thread'[t].card = c /\ thread'[t].pc = "begin")
  /\ Grants(c)
Moves(t) ==
  /\ \A u \in Threads \ {t} : thread'[u] = thread[u]
  /\ \/ Rests(t) \/ Turns(t)
     \/ \E c \in Cards : TakesUp(t, c) \/ Chooses(t, c) \/ Consumes(t, c) \/ Presents(t, c)
                         \/ IsGranted(t, c)

\* Each step is one of these, or none of them.
LEMMA StepsMove ==
  ASSUME LimitsInv, [Next]_vars
  PROVE  UNCHANGED <<thread, fallback, granted>> \/ \E t \in Threads : Moves(t)
<1>0. /\ ThreadsHold /\ DOMAIN thread = Threads /\ NoCard \notin Cards
  BY ProfilesConstants DEF LimitsInv, ThreadsHold, ProfilesConstants
<1>a. ASSUME NEW t \in Threads
      PROVE  /\ DOMAIN thread[t] = ThreadFields
             /\ thread[t].card \in Cards \cup {NoCard}
             /\ thread[t].pc \in {"begin", "record", "requeue"} => thread[t].card \in Cards
             /\ thread[t].pc = "activate" => thread[t].card = NoCard
  BY <1>0 DEF ThreadsHold, Holds
<1>b. ASSUME NEW t \in Threads, NEW r, thread' = [thread EXCEPT ![t] = r]
      PROVE  thread'[t] = r /\ \A u \in Threads \ {t} : thread'[u] = thread[u]
  BY <1>0, <1>b
<1>c. Idle.pc = "idle" /\ Idle.card = NoCard /\ "idle" \notin AtWork
  BY DEF Idle, AtWork
<1>1. ASSUME NEW t \in Threads, Leaves(t), UNCHANGED <<fallback, granted>>
      PROVE  Moves(t)
  BY <1>1, <1>b, <1>c DEF Leaves, Moves, Rests
<1>2. ASSUME NEW t \in Threads, Begin(t)
      PROVE  Moves(t)
  <2>1. UNCHANGED <<fallback, granted>> /\ thread[t].card \in Cards /\ thread[t].pc = "begin"
    BY <1>2, <1>a DEF Begin
  <2>2. CASE thread' = [thread EXCEPT ![t].pc = "capture", ![t].lab = RunRef(thread[t].card)]
    <3>1. /\ thread'[t].pc = "capture" /\ thread'[t].lab = RunRef(thread[t].card)
          /\ thread'[t].card = thread[t].card /\ \A u \in Threads \ {t} : thread'[u] = thread[u]
      BY <1>0, <1>a, <2>2 DEF ThreadFields
    <3> QED
      BY <2>1, <3>1 DEF Moves, Chooses, GoesOn, WorksOn, AtWork
  <2> QED
    BY <1>1, <1>2, <2>1, <2>2 DEF Begin
<1>3. ASSUME NEW t \in Threads, Capture(t)
      PROVE  Moves(t)
  <2>1. PICK n : thread' = [thread EXCEPT ![t].pc = "present", ![t].name = n]
    BY <1>3 DEF Capture
  <2>2. /\ thread'[t].pc = "present" /\ thread'[t].lab = thread[t].lab
        /\ thread'[t].card = thread[t].card /\ \A u \in Threads \ {t} : thread'[u] = thread[u]
    BY <1>0, <1>a, <2>1 DEF ThreadFields
  <2>3. UNCHANGED granted /\ thread[t].pc = "capture"
    BY <1>3 DEF Capture
  <2>4. CASE IsTurn(t)
    BY <1>3, <2>2, <2>3, <2>4 DEF Capture, Moves, Turns, IsTurn
  <2>5. CASE ~IsTurn(t)
    <3>1. thread[t].card \in Cards /\ fallback' = Consumed(thread[t].card)
      BY <1>3, <1>a, <2>5 DEF Capture, IsTurn
    <3> QED
      BY <2>2, <2>3, <3>1 DEF Moves, Consumes, GoesOn, WorksOn, AtWork
  <2> QED
    BY <2>4, <2>5
<1>4. ASSUME NEW t \in Threads, Present(t)
      PROVE  Moves(t)
  <2>1. UNCHANGED fallback /\ thread[t].pc = "present"
    BY <1>4 DEF Present
  <2>2. CASE Leaves(t) /\ UNCHANGED granted
    BY <1>1, <2>1, <2>2
  <2>3. CASE /\ Becomes(t, "running")
             /\ granted' = IF IsTurn(t) \/ thread[t].lab = DefaultLab THEN granted
                           ELSE [granted EXCEPT ![thread[t].card] = @ - 1]
    <3>1. /\ thread'[t].pc = "running" /\ thread'[t].card = thread[t].card
          /\ \A u \in Threads \ {t} : thread'[u] = thread[u]
      BY <1>0, <1>a, <2>3 DEF ThreadFields, Becomes
    <3>2. CASE IsTurn(t)
      BY <2>1, <2>3, <3>1, <3>2 DEF Moves, Turns, IsTurn
    <3>3. CASE ~IsTurn(t)
      <4>1. thread[t].card \in Cards
        BY <1>a, <3>3 DEF IsTurn
      <4> QED
        BY <2>1, <2>3, <3>1, <3>3, <4>1 DEF Moves, Presents, GoesOn, WorksOn, AtWork
    <3> QED
      BY <3>2, <3>3
  <2> QED
    BY <1>4, <2>2, <2>3 DEF Present
<1>5. ASSUME NEW t \in Threads,
             Ends(t) \/ Mark(t) \/ Reroute(t) \/ TurnMarks(t) \/ TurnChooses(t) \/ Requeue(t)
      PROVE  Moves(t)
  <2>1. UNCHANGED <<fallback, granted>>
    BY <1>5 DEF Ends, Mark, Reroute, TurnMarks, TurnChooses, Requeue, board
  <2>3. Ends(t) => Leaves(t) \/ \E reset : thread' = [thread EXCEPT ![t].pc = "refused",
                                                                    ![t].reset = reset]
    BY DEF Ends
  <2>4. ASSUME Mark(t)
        PROVE  \E pc \in {"requeue", "reroute"} : \E switching, next, reset :
                 thread' = [thread EXCEPT ![t].pc = pc, ![t].switching = switching,
                                          ![t].next = next, ![t].reset = reset]
    BY <2>4 DEF Mark
  <2>5. Reroute(t) => \/ \E target : thread' = [thread EXCEPT ![t].pc = "record",
                                                              ![t].target = target]
                      \/ thread' = [thread EXCEPT ![t].pc = "requeue"]
    BY DEF Reroute, Becomes
  <2>6. TurnMarks(t) => \E tried : thread' = [thread EXCEPT ![t].pc = "reroute",
                                                            ![t].tried = tried]
    BY DEF TurnMarks
  <2>7. TurnChooses(t) => Leaves(t) \/ \E target : thread' = [thread EXCEPT ![t].pc = "activate",
                                                                            ![t].target = target]
    BY DEF TurnChooses
  <2>8. \/ Leaves(t)
        \/ /\ thread'[t].pc \in {"refused", "requeue", "reroute", "record", "activate"}
           /\ \A u \in Threads \ {t} : thread'[u] = thread[u]
    <3>1. Requeue(t) => Leaves(t)
      BY DEF Requeue
    <3>2. CASE Ends(t)
      BY <1>0, <1>a, <2>3, <3>2 DEF ThreadFields
    <3>3. CASE Mark(t)
      <4>1. PICK pc \in {"requeue", "reroute"} : \E switching, next, reset :
              thread' = [thread EXCEPT ![t].pc = pc, ![t].switching = switching,
                                       ![t].next = next, ![t].reset = reset]
        BY <2>4, <3>3
      <4>2. thread'[t].pc = pc /\ \A u \in Threads \ {t} : thread'[u] = thread[u]
        BY <1>0, <1>a, <4>1 DEF ThreadFields
      <4> QED
        BY <4>2
    <3>4. CASE Reroute(t)
      BY <1>0, <1>a, <2>5, <3>4 DEF ThreadFields
    <3>5. CASE TurnMarks(t)
      BY <1>0, <1>a, <2>6, <3>5 DEF ThreadFields
    <3>6. CASE TurnChooses(t)
      BY <1>0, <1>a, <2>7, <3>6 DEF ThreadFields
    <3> QED
      BY <1>5, <3>1, <3>2, <3>3, <3>4, <3>5, <3>6
  <2> QED
    BY <1>1, <2>1, <2>8 DEF Moves, Rests, AtWork
<1>6. ASSUME NEW t \in Threads, Record(t)
      PROVE  Moves(t)
  <2> DEFINE c == thread[t].card
  <2>1. c \in Cards
    BY <1>6, <1>a DEF Record
  <2>2. ASSUME NEW next, thread' = [thread EXCEPT ![t].pc = "requeue", ![t].next = next],
               fallback' = [fallback EXCEPT ![c] = Append(@, thread[t].target[1])],
               granted' = [granted EXCEPT ![c] = @ + 1]
        PROVE  Moves(t)
    <3>1. thread'[t].pc = "requeue" /\ \A u \in Threads \ {t} : thread'[u] = thread[u]
      BY <1>0, <1>a, <2>2 DEF ThreadFields
    <3>2. thread[t].target[1] \in Labs
      BY <1>0 DEF ThreadsHold, Holds
    <3> QED
      BY <2>1, <2>2, <3>1, <3>2 DEF Moves, IsGranted, Grants
  <2> QED
    BY <1>1, <1>6, <2>2 DEF Record
<1>7. ASSUME NEW t \in Threads, TurnActivates(t)
      PROVE  Moves(t)
  <2>1. UNCHANGED <<fallback, granted>> /\ thread[t].card = NoCard
    BY <1>7, <1>a DEF TurnActivates, board
  <2>2. CASE thread' = [thread EXCEPT ![t].pc = "capture", ![t].lab = thread[t].target[1]]
    <3>1. thread'[t].card = thread[t].card /\ \A u \in Threads \ {t} : thread'[u] = thread[u]
      BY <1>0, <1>a, <2>2 DEF ThreadFields
    <3> QED
      BY <2>1, <3>1 DEF Moves, Turns
  <2> QED
    BY <1>1, <1>7, <2>1, <2>2 DEF TurnActivates
<1>8. ASSUME NEW t \in Threads, NEW c \in Cards, Start(t, c) \/ Pressed(t, c)
      PROVE  Moves(t)
  <2>1. /\ thread' = [thread EXCEPT ![t] = [Idle EXCEPT !.pc = "begin", !.card = c]]
        /\ ~Going(c)
    BY <1>8, PressesByHand DEF Start
  <2>2. /\ thread'[t].card = c /\ thread'[t].pc = "begin"
        /\ \A u \in Threads \ {t} : thread'[u] = thread[u]
    BY <1>0, <2>1 DEF Idle
  <2>3. UNCHANGED <<fallback, granted>> \/ Grants(c)
    <3>1. Start(t, c) \/ Press(t, c) => UNCHANGED <<fallback, granted>>
      BY DEF Start, Press
    <3>2. PressFallback(t, c) => Grants(c)
      BY FallbackByHand DEF Grants
    <3> QED
      BY <1>8, <3>1, <3>2 DEF Pressed
  <2> QED
    BY <2>1, <2>2, <2>3 DEF Moves, TakesUp, IsGranted
<1>9. ASSUME NEW t \in Threads, BeginTurn(t)
      PROVE  Moves(t)
  <2>1. UNCHANGED <<fallback, granted>>
    BY <1>9 DEF BeginTurn, board
  <2>2. thread'[t].card = NoCard /\ \A u \in Threads \ {t} : thread'[u] = thread[u]
    BY <1>0, <1>9 DEF BeginTurn, Idle
  <2> QED
    BY <2>1, <2>2 DEF Moves, Turns
<1>10. /\ WriteBack \/ (\E c \in Cards : Join(c) \/ Drop(c)) =>
            UNCHANGED <<thread, fallback, granted>>
       /\ \A l \in Labs, n \in Names :
            AddProfile(l, n) \/ RemoveProfile(l, n) \/ ActivateProfile(l, n) =>
              UNCHANGED <<thread, fallback, granted>>
       /\ SetRoute \/ Tick \/ UNCHANGED vars => UNCHANGED <<thread, fallback, granted>>
  BY DEF WriteBack, Join, Drop, AddProfile, RemoveProfile, ActivateProfile, SetRoute, Tick,
         vars, board
<1> QED
  BY <1>2, <1>3, <1>4, <1>5, <1>6, <1>7, <1>8, <1>9, <1>10 DEF Next, Runs, Pressed

\* Nobody works yet, and nothing is granted yet.
LEMMA FallbackInit == Init => FallbackInv
<1> SUFFICES ASSUME Init
             PROVE  FallbackInv
  OBVIOUS
<1>1. \A t \in Threads : thread[t].pc = "idle"
  BY DEF Init, Idle
<1>2. \A c \in Cards : granted[c] = 0 /\ Len(fallback[c]) = 0
  BY DEF Init
<1>3. granted \in [Cards -> Int]
  BY DEF Init
<1>4. OneAtWork /\ HasFallback
  BY <1>1 DEF OneAtWork, WorksOn, AtWork, HasFallback
<1>5. \A c \in Cards : ~Owes(c)
  BY <1>1 DEF Owes
<1> QED
  BY <1>2, <1>3, <1>4, <1>5 DEF FallbackInv, Granted, Suffices

\* One thread at most is left to work on a card, and it has its fallback before it, after a step
\* that changes neither the fallbacks nor what is granted.
LEMMA UnchangedSteps ==
  ASSUME LimitsInv, FallbackInv, NEW t \in Threads, UNCHANGED <<fallback, granted>>,
         \A u \in Threads \ {t} : thread'[u] = thread[u],
         \/ thread'[t].pc \notin AtWork
         \/ thread'[t].card = NoCard
         \/ \E c \in Cards : /\ thread'[t].card = c /\ (GoesOn(t, c) \/ ~Going(c))
                             /\ \/ thread'[t].pc = "begin"
                                \/ thread'[t].pc = "capture" /\ thread'[t].lab = RunRef(c)
  PROVE  FallbackInv'
<1>0. NoCard \notin Cards
  BY ProfilesConstants DEF ProfilesConstants
<1>1. \A u \in Threads, c \in Cards : WorksOn(u, c)' => WorksOn(u, c) \/ (u = t /\ ~Going(c))
  BY <1>0 DEF WorksOn, GoesOn
<1>2. OneAtWork'
  BY <1>1 DEF OneAtWork, FallbackInv, Going, WorksOn
<1>3. \A c \in Cards : Owes(c)' => Owes(c)
  BY <1>0 DEF Owes, Elsewhere, AtWork
<1>4. Granted'
  BY <1>3 DEF Granted, Suffices, FallbackInv
<1>5. HasFallback'
  <2>1. \A u \in Threads \ {t}, c \in Cards :
          thread'[u].pc = "capture" /\ Elsewhere(u, c)' => fallback'[c] # <<>>
    BY DEF FallbackInv, HasFallback, Elsewhere
  <2>2. \A c \in Cards :
          thread'[t].pc = "capture" /\ Elsewhere(t, c)' => fallback'[c] # <<>>
    BY <1>0 DEF Elsewhere, AtWork, RunRef
  <2> QED
    BY <2>1, <2>2 DEF HasFallback
<1> QED
  BY <1>2, <1>4, <1>5 DEF FallbackInv

\* A run takes its card's fallback with it: what the card has left to take is one less, and what it
\* is granted is still enough.
LEMMA ConsumingKeeps ==
  ASSUME LimitsInv, FallbackInv, NEW t \in Threads, NEW c \in Cards, Consumes(t, c),
         \A u \in Threads \ {t} : thread'[u] = thread[u]
  PROVE  FallbackInv'
<1>1. /\ WorksOn(t, c) /\ thread'[t].card = c /\ thread[t].card = c
      /\ thread[t].pc = "capture" /\ thread'[t].pc = "present"
      /\ thread'[t].lab = thread[t].lab /\ fallback' = Consumed(c) /\ granted' = granted
  BY DEF Consumes, GoesOn, WorksOn
<1>2. \A u \in Threads \ {t} : ~WorksOn(u, c)
  BY <1>1 DEF FallbackInv, OneAtWork
<1>3. /\ fallback \in [Cards -> Seq(Labs)]
      /\ \A d \in Cards \ {c} : fallback'[d] = fallback[d]
      /\ fallback[c] = <<>> => fallback'[c] = <<>>
      /\ fallback[c] # <<>> => fallback'[c] = Front(fallback[c])
  BY <1>1 DEF LimitsInv, Typed, Consumed
<1>4. OneAtWork'
  <2>1. \A u \in Threads, d \in Cards : WorksOn(u, d)' => WorksOn(u, d)
    BY <1>1 DEF WorksOn, AtWork
  <2> QED
    BY <2>1 DEF FallbackInv, OneAtWork
<1>5. HasFallback'
  <2>1. \A u \in Threads, d \in Cards :
          thread'[u].pc = "capture" /\ Elsewhere(u, d)' => u # t /\ d # c
    BY <1>1, <1>2 DEF Elsewhere, WorksOn, AtWork
  <2>2. \A u \in Threads, d \in Cards :
          thread'[u].pc = "capture" /\ Elsewhere(u, d)' => fallback[d] # <<>>
    BY <2>1 DEF FallbackInv, HasFallback, Elsewhere
  <2> QED
    BY <1>3, <2>1, <2>2 DEF HasFallback
<1>6. \A d \in Cards \ {c} : Owes(d)' => Owes(d)
  BY <1>1 DEF Owes, Elsewhere
<1>7. granted[c] >= Len(fallback[c]) /\ granted[c] \in Int
  BY DEF FallbackInv, Granted, Suffices
<1>8. Suffices(granted[c], fallback'[c], Owes(c)')
  <2>1. CASE fallback[c] = <<>>
    <3>1. ~Owes(c)'
      BY <1>1, <1>2, <2>1 DEF FallbackInv, HasFallback, Owes, Elsewhere, WorksOn, AtWork
    <3> QED
      BY <1>3, <1>7, <2>1, <3>1 DEF Suffices
  <2>2. CASE fallback[c] # <<>>
    <3>1. Len(fallback'[c]) = Len(fallback[c]) - 1 /\ Len(fallback[c]) \in Nat
      BY <1>3, <2>2, FrontIsShorter
    <3> QED
      BY <1>7, <3>1 DEF Suffices
  <2> QED
    BY <2>1, <2>2
<1>9. Granted'
  <2>1. \A d \in Cards : Suffices(granted[d], fallback'[d], Owes(d)')
    <3> SUFFICES ASSUME NEW d \in Cards, d # c
                 PROVE  Suffices(granted[d], fallback'[d], Owes(d)')
      BY <1>8
    <3>1. /\ Suffices(granted[d], fallback[d], Owes(d))
          /\ fallback[d] \in Seq(Labs) /\ granted[d] \in Int
      BY <1>3 DEF FallbackInv, Granted
    <3> QED
      BY <1>3, <1>6, <3>1 DEF Suffices
  <2> QED
    BY <1>1, <2>1 DEF Granted, FallbackInv
<1> QED
  BY <1>4, <1>5, <1>9 DEF FallbackInv

\* A run begins: if in another lab, on the fallback that it owed.
LEMMA PresentingKeeps ==
  ASSUME LimitsInv, FallbackInv, NEW t \in Threads, NEW c \in Cards, Presents(t, c),
         \A u \in Threads \ {t} : thread'[u] = thread[u]
  PROVE  FallbackInv'
<1>1. /\ WorksOn(t, c) /\ thread'[t].card = c /\ thread[t].card = c
      /\ thread[t].pc = "present" /\ thread'[t].pc = "running" /\ fallback' = fallback
      /\ granted' = (IF thread[t].lab = DefaultLab THEN granted
                     ELSE [granted EXCEPT ![c] = @ - 1])
  BY DEF Presents, GoesOn, WorksOn
<1>2. \A u \in Threads \ {t} : ~WorksOn(u, c)
  BY <1>1 DEF FallbackInv, OneAtWork
<1>3. OneAtWork'
  <2>1. \A u \in Threads, d \in Cards : WorksOn(u, d)' => WorksOn(u, d)
    BY <1>1 DEF WorksOn, AtWork
  <2> QED
    BY <2>1 DEF FallbackInv, OneAtWork
<1>4. HasFallback'
  BY <1>1 DEF FallbackInv, HasFallback, Elsewhere
<1>5. \A d \in Cards : Owes(d)' => Owes(d) /\ d # c
  BY <1>1, <1>2 DEF Owes, Elsewhere, WorksOn, AtWork
<1>6. /\ granted \in [Cards -> Int]
      /\ \A d \in Cards : Suffices(granted[d], fallback[d], Owes(d))
      /\ fallback \in [Cards -> Seq(Labs)]
  BY DEF FallbackInv, Granted, LimitsInv, Typed
<1>7. granted' \in [Cards -> Int] /\ \A d \in Cards \ {c} : granted'[d] = granted[d]
  BY <1>1, <1>6
<1>8. granted'[c] >= Len(fallback[c])
  <2>1. CASE thread[t].lab = DefaultLab
    BY <1>1, <1>6, <2>1 DEF Suffices
  <2>2. CASE thread[t].lab # DefaultLab
    <3>1. Owes(c)
      BY <1>1, <2>2 DEF Owes, Elsewhere
    <3>2. granted'[c] = granted[c] - 1 /\ granted[c] >= Len(fallback[c]) + 1
      BY <1>1, <1>6, <2>2, <3>1 DEF Suffices
    <3> QED
      BY <1>6, <3>2
  <2> QED
    BY <2>1, <2>2
<1>9. Granted'
  <2>1. ASSUME NEW d \in Cards
        PROVE  Suffices(granted'[d], fallback[d], Owes(d)')
    <3>1. Suffices(granted[d], fallback[d], Owes(d)) /\ Len(fallback[d]) \in Nat
      BY <1>6
    <3> QED
      BY <1>5, <1>6, <1>7, <1>8, <3>1 DEF Suffices
  <2> QED
    BY <1>1, <1>7, <2>1 DEF Granted
<1> QED
  BY <1>3, <1>4, <1>9 DEF FallbackInv

\* What a card is granted grows with its fallbacks.
LEMMA GrantingKeeps ==
  ASSUME LimitsInv, FallbackInv, NEW t \in Threads, NEW c \in Cards, IsGranted(t, c),
         \A u \in Threads \ {t} : thread'[u] = thread[u]
  PROVE  FallbackInv'
<1>0. NoCard \notin Cards
  BY ProfilesConstants DEF ProfilesConstants
<1>1. PICK l \in Labs : /\ fallback' = [fallback EXCEPT ![c] = Append(@, l)]
                        /\ granted' = [granted EXCEPT ![c] = @ + 1]
  BY DEF IsGranted, Grants
<1>9. /\ thread'[t].pc \in {"requeue", "begin"}
      /\ thread'[t].pc = "begin" => ~Going(c) /\ thread'[t].card = c
  BY DEF IsGranted
<1>2. /\ fallback \in [Cards -> Seq(Labs)]
      /\ granted \in [Cards -> Int]
      /\ \A d \in Cards : Suffices(granted[d], fallback[d], Owes(d))
  BY DEF LimitsInv, Typed, FallbackInv, Granted
<1>3. /\ granted' \in [Cards -> Int]
      /\ \A d \in Cards \ {c} : fallback'[d] = fallback[d] /\ granted'[d] = granted[d]
      /\ granted'[c] = granted[c] + 1 /\ fallback'[c] = Append(fallback[c], l)
  BY <1>1, <1>2
<1>4. Len(fallback'[c]) = Len(fallback[c]) + 1 /\ Len(fallback[c]) \in Nat
  BY <1>2, <1>3, AppendProperties
<1>5. \A d \in Cards : Owes(d)' => Owes(d)
  BY <1>9 DEF Owes, Elsewhere
<1>6. OneAtWork'
  <2>1. \A u \in Threads, d \in Cards :
          WorksOn(u, d)' => WorksOn(u, d) \/ (u = t /\ d = c /\ ~Going(c))
    BY <1>0, <1>9 DEF WorksOn, AtWork
  <2> QED
    BY <2>1 DEF FallbackInv, OneAtWork, Going, WorksOn
<1>7. HasFallback'
  <2>1. \A d \in Cards : fallback[d] # <<>> => fallback'[d] # <<>>
    BY <1>2, <1>3, <1>4, EmptySeq
  <2>2. \A u \in Threads, d \in Cards :
          thread'[u].pc = "capture" /\ Elsewhere(u, d)' => fallback[d] # <<>>
    BY <1>9 DEF FallbackInv, HasFallback, Elsewhere
  <2> QED
    BY <2>1, <2>2 DEF HasFallback
<1>8. ASSUME NEW d \in Cards
      PROVE  Suffices(granted'[d], fallback'[d], Owes(d)')
  <2>1. Suffices(granted[d], fallback[d], Owes(d)) /\ Len(fallback[d]) \in Nat
    BY <1>2
  <2>2. CASE d = c
    BY <1>2, <1>3, <1>4, <1>5, <2>1, <2>2 DEF Suffices
  <2>3. CASE d # c
    BY <1>3, <1>5, <2>1, <2>3 DEF Suffices
  <2> QED
    BY <2>2, <2>3
<1> QED
  BY <1>3, <1>6, <1>7, <1>8 DEF FallbackInv, Granted

\* Every step keeps it.
LEMMA FallbackStep ==
  ASSUME LimitsInv, FallbackInv, [Next]_vars
  PROVE  FallbackInv'
<1>1. CASE UNCHANGED <<thread, fallback, granted>>
  BY <1>1 DEF FallbackInv, OneAtWork, WorksOn, HasFallback, Elsewhere, Granted, Owes
<1>2. ASSUME NEW t \in Threads, Moves(t)
      PROVE  FallbackInv'
  <2>1. \A u \in Threads \ {t} : thread'[u] = thread[u]
    BY <1>2 DEF Moves
  <2>2. CASE Rests(t) \/ Turns(t)
    BY <2>1, <2>2, UnchangedSteps DEF Rests, Turns
  <2>3. ASSUME NEW c \in Cards, TakesUp(t, c) \/ Chooses(t, c)
        PROVE  FallbackInv'
    BY <2>1, <2>3, UnchangedSteps DEF TakesUp, Chooses, GoesOn
  <2>4. ASSUME NEW c \in Cards, Consumes(t, c) \/ Presents(t, c) \/ IsGranted(t, c)
        PROVE  FallbackInv'
    BY <2>1, <2>4, ConsumingKeeps, PresentingKeeps, GrantingKeeps
  <2> QED
    BY <1>2, <2>2, <2>3, <2>4 DEF Moves
<1> QED
  BY <1>1, <1>2, StepsMove

\* Whatever fallbacks are recorded while a card's run is between choosing its lab and taking the
\* fallback there, each one is good for at most one run in another lab: the run that takes one is
\* the only run of its card.
THEOREM FallbacksServeOneRun == Spec => []FallbackServesOneRun
<1>1. LimitsInv /\ FallbackInv /\ [Next]_vars => FallbackInv'
  BY FallbackStep
<1>2. LimitsInv /\ FallbackInv => FallbackServesOneRun
  <2> SUFFICES ASSUME LimitsInv, FallbackInv, NEW c \in Cards
               PROVE  granted[c] >= 0
    BY DEF FallbackServesOneRun
  <2>1. /\ granted[c] \in Int /\ Len(fallback[c]) \in Nat
        /\ Suffices(granted[c], fallback[c], Owes(c))
    BY DEF FallbackInv, Granted, LimitsInv, Typed
  <2> QED
    BY <2>1 DEF Suffices
<1> QED
  BY LimitsInvariant, FallbackInit, <1>1, <1>2, PTL DEF Spec

-----------------------------------------------------------------------------
(* types *)

\* What the file may hold of a lab
LabState == [active : Names \cup {NoName}, profiles : Seq(Names), limits : [Names -> Time]]

\* The inductive invariant of the types: a window ends within the bound, so that what a refused run
\* assumes of it does too
TypeInv == LimitsInv /\ TypeOK /\ spent \in [Credentials -> 0..MaxTime]

\* The first index with a property is an index.
LEMMA FirstIsAnIndex ==
  ASSUME NEW n \in Nat, NEW I, I \subseteq 1..n
  PROVE  (IF I # {} THEN Min(I) ELSE 0) \in 0..n /\ (I # {} => Min(I) \in 1..n /\ Min(I) \in I)
<1>1. I \subseteq Nat
  OBVIOUS
<1>2. CASE I = {}
  BY <1>2
<1>3. CASE I # {}
  <2>1. Min(I) \in I
    BY <1>1, <1>3, MinIsIn
  <2>2. Min(I) \in 1..n
    BY <2>1
  <2> QED
    BY <1>3, <2>1, <2>2
<1> QED
  BY <1>2, <1>3

\* The first profile that is free is a profile,
LEMMA FreeIsAName ==
  ASSUME NEW s, NEW order \in Seq(Names)
  PROVE  FirstFree(s, order) \in Names \cup {NoName}
<1> DEFINE free == {i \in DOMAIN order : Free(s, order[i])}
<1>1. FirstFree(s, order) = IF free = {} THEN NoName ELSE order[Min(free)]
  BY DEF FirstFree
<1>2. Len(order) \in Nat /\ free \subseteq 1..Len(order)
  OBVIOUS
<1> HIDE DEF free
<1>3. free # {} => Min(free) \in 1..Len(order)
  BY <1>2, FirstIsAnIndex
<1>4. \A i \in 1..Len(order) : order[i] \in Names
  OBVIOUS
<1> QED
  BY <1>1, <1>3, <1>4

\* and so is the one that is next.
LEMMA NextIsAName ==
  ASSUME NEW s \in LabState
  PROVE  NextAvailable(s) \in Names \cup {NoName}
<1> DEFINE ps == s.profiles
           free == {i \in DOMAIN ps : Free(s, ps[i])}
           after == {i \in free : \E j \in 1..(i - 1) : ps[j] = s.active}
           first == IF after # {} THEN after ELSE free
<1>1. NextAvailable(s) = IF free = {} THEN NoName ELSE ps[Min(first)]
  BY DEF NextAvailable
<1>2. ps \in Seq(Names) /\ Len(ps) \in Nat
  BY DEF LabState
<1>3. free \subseteq 1..Len(ps)
  BY <1>2
<1>4. first \subseteq 1..Len(ps) /\ (free # {} => first # {})
  BY <1>3
<1> HIDE DEF first
<1>5. free # {} => Min(first) \in 1..Len(ps)
  BY <1>2, <1>4, FirstIsAnIndex
<1> HIDE DEF free, ps
<1>6. \A i \in 1..Len(ps) : ps[i] \in Names
  BY <1>2
<1> QED
  BY <1>1, <1>5, <1>6

\* What is left of a list without a name is a list.
LEMMA RestIsAList ==
  ASSUME NEW ps \in Seq(Names), NEW n
  PROVE  RemoveFirst(ps, n) \in Seq(Names)
<1> DEFINE I == {j \in 1..Len(ps) : ps[j] = n}
           i == IF I # {} THEN Min(I) ELSE 0
           left == SubSeq(ps, 1, i - 1)
           right == SubSeq(ps, i + 1, Len(ps))
<1>1. RemoveFirst(ps, n) = left \o right \/ RemoveFirst(ps, n) = ps
  BY DEF RemoveFirst, RemoveAt, SelectInSeq
<1>2. Len(ps) \in Nat /\ I \subseteq 1..Len(ps)
  OBVIOUS
<1>3. i \in 0..Len(ps)
  <2> HIDE DEF I
  <2> QED
    BY <1>2, FirstIsAnIndex
<1> HIDE DEF i
<1>4. \A j \in 1..Len(ps) : ps[j] \in Names
  OBVIOUS
<1>5. i + 1 \in Int /\ 1 \in Int /\ Len(ps) \in Int /\ i - 1 \in Int
  BY <1>2, <1>3
<1>6. /\ \A j \in (i + 1)..Len(ps) : ps[j] \in Names
      /\ \A j \in 1..(i - 1) : ps[j] \in Names
  BY <1>2, <1>3, <1>4
<1>7. left \in Seq(Names) /\ right \in Seq(Names)
  BY <1>5, <1>6, SubSeqProperties
<1> HIDE DEF left, right
<1>8. left \o right \in Seq(Names)
  BY <1>7, ConcatProperties
<1> QED
  BY <1>1, <1>8

\* A lab that is written for the first time
LEMMA LabOfIsTyped ==
  ASSUME NEW ps \in Seq(Names)
  PROVE  LabOf(ps) \in LabState
<1>1. 0 \in Time
  BY ProfilesConstants DEF ProfilesConstants, Time
<1>2. ps # <<>> => ps[1] \in Names
  BY EmptySeq
<1>3. EmptyLab \in LabState
  BY <1>1, EmptySeq DEF EmptyLab, LabState
<1>4. ASSUME NEW a \in Names \cup {NoName}
      PROVE  [EmptyLab EXCEPT !.profiles = ps, !.active = a] \in LabState
  BY <1>3 DEF LabState
<1> QED
  BY <1>2, <1>4 DEF LabOf

\* The earliest reset of a lab is a time.
LEMMA EarliestIsATime ==
  ASSUME NEW s \in LabState, now \in Nat
  PROVE  EarliestReset(s) \in Time
<1> DEFINE resets == {s.limits[n] : n \in Names} \ 0..now
<1>1. 0 \in Time /\ Time \subseteq Nat
  BY ProfilesConstants DEF ProfilesConstants, Time
<1>2. resets \subseteq Time
  BY DEF LabState
<1>3. EarliestReset(s) = IF resets = {} THEN 0 ELSE Min(resets)
  BY DEF EarliestReset
<1> HIDE DEF resets
<1>4. resets # {} => Min(resets) \in resets
  BY <1>1, <1>2, MinIsIn
<1> QED
  BY <1>1, <1>2, <1>3, <1>4

\* A mark and a rotation leave a lab's state one.
LEMMA MarkedIsTyped ==
  ASSUME NEW s \in LabState, NEW n \in Names, NEW reset \in Time
  PROVE  Marked(s, n, reset) \in LabState /\ Rotated(s) \in LabState
<1> DEFINE ps == IF Contains(s.profiles, n) THEN s.profiles ELSE Append(s.profiles, n)
<1>1. s.profiles \in Seq(Names) /\ s.limits \in [Names -> Time] /\ s.active \in Names \cup {NoName}
  BY DEF LabState
<1>2. ps \in Seq(Names)
  BY <1>1, AppendProperties
<1>3. Marked(s, n, reset) = [s EXCEPT !.profiles = ps, !.limits[n] = reset]
  BY DEF Marked
<1> HIDE DEF ps
<1>4. [s EXCEPT !.profiles = ps, !.limits[n] = reset] \in LabState
  BY <1>2 DEF LabState
<1>5. Rotated(s) \in LabState
  BY <1>1, NextIsAName DEF Rotated, LabState
<1> QED
  BY <1>3, <1>4, <1>5

\* What a lab's state and a thread's may become
Saves(l, s) == Saved(l, s) /\ l \in Labs /\ s \in LabState
Files == [exists : BOOLEAN, labs : [Labs -> LabState]]

\* A lab's state is saved into the file,
LEMMA SavesAFile ==
  ASSUME disk \in Files, NEW l, NEW s, Saves(l, s)
  PROVE  disk' \in Files
<1>1. disk.labs \in [Labs -> LabState]
  BY DEF Files
<1>2. [disk.labs EXCEPT ![l] = s] \in [Labs -> LabState]
  BY <1>1 DEF Saves
<1> QED
  BY <1>2 DEF Saves, Saved, Files

\* by each step that changes the file.
LEMMA FileIsTyped ==
  ASSUME TypeInv, [Next]_vars
  PROVE  disk' \in Files
<1>0. disk \in Files /\ \A l \in Labs : Lab(l) \in LabState
  BY DEF TypeInv, TypeOK, Files, LabState, Lab
<1>a. ASSUME NEW t \in Threads
      PROVE  /\ thread[t].lab \in Labs /\ thread[t].reset \in Time /\ thread[t].target[1] \in Labs
             /\ thread[t].pc = "refused" => thread[t].name \in Names
  BY DEF TypeInv, TypeOK, LimitsInv, ThreadsHold, Holds
<1>1. ASSUME NEW t \in Threads, Mark(t) \/ TurnMarks(t)
      PROVE  disk' \in Files
  <2> DEFINE l == thread[t].lab
             s == Marked(Lab(l), thread[t].name, thread[t].reset)
  <2>1. s \in LabState /\ Rotated(s) \in LabState
    <3>1. thread[t].name \in Names
      BY <1>1, <1>a DEF Mark, TurnMarks
    <3>2. s \in LabState
      BY <1>0, <1>a, <3>1, MarkedIsTyped
    <3> QED
      BY <1>a, <3>1, <3>2, MarkedIsTyped
  <2>2. Saved(l, s) \/ Saved(l, Rotated(s)) \/ UNCHANGED disk
    BY <1>1 DEF Mark, TurnMarks
  <2> HIDE DEF s
  <2> QED
    BY <1>0, <1>a, <2>1, <2>2, SavesAFile DEF Saves
<1>2. ASSUME NEW l \in Labs, NEW n, Activates(l, n)
      PROVE  disk' \in Files
  <2>1. n \in Names
    <3>1. Lab(l).profiles \in Seq(Names)
      BY <1>0 DEF LabState
    <3>2. \E i \in 1..Len(Lab(l).profiles) : n = Lab(l).profiles[i]
      BY <1>2, <3>1 DEF Activates, Listed, ToSet
    <3> QED
      BY <3>1, <3>2
  <2>2. [Lab(l) EXCEPT !.active = n] \in LabState
    BY <1>0, <2>1 DEF LabState
  <2> QED
    BY <1>0, <1>2, <2>2, SavesAFile DEF Saves, Activates
<1>3. ASSUME NEW t \in Threads, Record(t) \/ TurnActivates(t)
      PROVE  disk' \in Files
  <2>1. UNCHANGED disk \/ Activates(thread[t].target[1], thread[t].target[2])
    BY <1>3 DEF Record, TurnActivates
  <2> QED
    BY <1>0, <1>2, <1>a, <2>1
<1>4. ASSUME NEW l \in Labs, NEW n \in Names, AddProfile(l, n)
      PROVE  disk' \in Files
  <2>1. Append(Lab(l).profiles, n) \in Seq(Names)
    BY <1>0, AppendProperties DEF LabState
  <2>2. \A ps \in Seq(Names), a \in Names \cup {NoName} :
          [Lab(l) EXCEPT !.profiles = ps, !.active = a] \in LabState
    BY <1>0 DEF LabState
  <2>3. \E a \in Names \cup {NoName} :
          Saved(l, [Lab(l) EXCEPT !.profiles = Append(@, n), !.active = a])
    BY <1>0, <1>4 DEF AddProfile, LabState
  <2>4. \E s \in LabState : Saved(l, s)
    BY <2>1, <2>2, <2>3
  <2> QED
    BY <1>0, <2>4, SavesAFile DEF Saves
<1>5. ASSUME NEW l \in Labs, NEW n \in Names, RemoveProfile(l, n)
      PROVE  disk' \in Files
  <2> DEFINE rest == RemoveFirst(Lab(l).profiles, n)
             free == FirstFree(Lab(l), rest)
  <2>1. rest \in Seq(Names)
    BY <1>0, RestIsAList DEF LabState
  <2>2. free \in Names \cup {NoName} /\ LabOf(rest) \in LabState /\ 0 \in Time
    BY <2>1, FreeIsAName, LabOfIsTyped, ProfilesConstants DEF ProfilesConstants, Time
  <2>3. \A ps \in Seq(Names), a \in Names \cup {NoName} :
          [Lab(l) EXCEPT !.profiles = ps, !.limits[n] = 0, !.active = a] \in LabState
    BY <1>0, <2>2 DEF LabState
  <2>4. \E a \in {Lab(l).active, free, LabOf(rest).active} :
          Saved(l, [Lab(l) EXCEPT !.profiles = rest, !.limits[n] = 0, !.active = a])
    BY <1>5 DEF RemoveProfile
  <2>5. Lab(l).active \in Names \cup {NoName} /\ LabOf(rest).active \in Names \cup {NoName}
    BY <1>0, <2>2 DEF LabState
  <2> HIDE DEF rest, free
  <2>6. \E s \in LabState : Saved(l, s)
    BY <2>1, <2>2, <2>3, <2>4, <2>5
  <2> QED
    BY <1>0, <2>6, SavesAFile DEF Saves
<1>6. ASSUME NEW l \in Labs, NEW n \in Names, ActivateProfile(l, n)
      PROVE  disk' \in Files
  BY <1>2, <1>6 DEF ActivateProfile
<1>7. \A t \in Threads : /\ Begin(t) => UNCHANGED disk
                         /\ Capture(t) => UNCHANGED disk
                         /\ Present(t) => UNCHANGED disk
                         /\ Ends(t) => UNCHANGED disk
                         /\ Reroute(t) => UNCHANGED disk
                         /\ Requeue(t) => UNCHANGED disk
                         /\ TurnChooses(t) => UNCHANGED disk
                         /\ BeginTurn(t) => UNCHANGED disk
                         /\ \A c \in Cards : Start(t, c) \/ Press(t, c) => UNCHANGED disk
  BY DEF Begin, Capture, Present, Ends, Reroute, Requeue, TurnChooses, BeginTurn, Start, Press
<1>9. ASSUME NEW t \in Threads, NEW c \in Cards, PressFallback(t, c)
      PROVE  disk' \in Files
  BY <1>2, <1>9, FallbackByHand
<1>8. /\ WriteBack \/ (\E c \in Cards : Join(c) \/ Drop(c)) => UNCHANGED disk
      /\ SetRoute \/ Tick \/ UNCHANGED vars => UNCHANGED disk
  BY DEF WriteBack, Join, Drop, SetRoute, Tick, vars
<1> QED
  BY <1>0, <1>1, <1>3, <1>4, <1>5, <1>6, <1>7, <1>8, <1>9 DEF Next, Runs

\* A refused run is told of a window that is on, or assumes one: either ends in time.
LEMMA ResetIsATime ==
  ASSUME TypeInv, NEW t \in Threads, Ends(t)
  PROVE  /\ spent' \in [Credentials -> 0..MaxTime]
         /\ told' \subseteq Labs \X Names \X Time
         /\ refusals' \in 0..MaxRefusals
         /\ thread'[t].reset \in Time /\ thread'[t].name \in Names \cup {NoName}
         /\ \A u \in Threads \ {t} : thread'[u] = thread[u]
<1> DEFINE k == <<thread[t].lab, thread[t].name>>
<1>0. /\ MaxTime \in Nat /\ Park \in Nat /\ MaxWindow \in Nat /\ MaxRefusals \in Nat
      /\ now \in Nat /\ spent \in [Credentials -> 0..MaxTime]
      /\ told \subseteq Labs \X Names \X Time /\ refusals \in 0..MaxRefusals
      /\ DOMAIN thread = Threads
      /\ DOMAIN thread[t] = ThreadFields /\ thread[t].name \in Names /\ thread[t].lab \in Labs
  BY ProfilesConstants DEF ProfilesConstants, TypeInv, TypeOK, LimitsInv, Typed, ThreadsHold,
     Holds, Ends
<1>1. k \in Credentials /\ spent[k] \in 0..MaxTime /\ DOMAIN spent = Credentials
  BY <1>0 DEF Credentials
<1> HIDE DEF k
<1>2. CASE Leaves(t) /\ UNCHANGED <<spent, told, refusals>>
  <2>1. 0 \in Time
    BY <1>0 DEF Time
  <2>2. thread'[t] = Idle /\ \A u \in Threads \ {t} : thread'[u] = thread[u]
    BY <1>0, <1>2 DEF Leaves
  <2>3. thread'[t].reset \in Time /\ thread'[t].name \in Names \cup {NoName}
    BY <2>1, <2>2 DEF Idle
  <2> QED
    BY <1>0, <1>2, <2>2, <2>3
<1>3. ASSUME /\ \/ spent[k] > now /\ UNCHANGED <<spent, refusals>>
                \/ /\ spent[k] <= now /\ refusals < MaxRefusals
                   /\ \E w \in 1..MaxWindow : /\ now + w <= MaxTime
                                              /\ spent' = [spent EXCEPT ![k] = now + w]
                   /\ refusals' = refusals + 1,
             NEW reset \in {spent'[k], now + Park} \cup Heard(t),
             thread' = [thread EXCEPT ![t].pc = "refused", ![t].reset = reset],
             told' = told \cup {<<k[1], k[2], reset>>}
      PROVE  /\ spent' \in [Credentials -> 0..MaxTime]
             /\ told' \subseteq Labs \X Names \X Time
             /\ refusals' \in 0..MaxRefusals
             /\ thread'[t].reset \in Time /\ thread'[t].name \in Names \cup {NoName}
             /\ \A u \in Threads \ {t} : thread'[u] = thread[u]
  <2>1. spent' \in [Credentials -> 0..MaxTime] /\ spent'[k] \in 0..MaxTime /\ now <= MaxTime
    <3>1. CASE spent[k] > now /\ UNCHANGED <<spent, refusals>>
      BY <1>0, <1>1, <3>1
    <3>2. ASSUME NEW w \in 1..MaxWindow, now + w <= MaxTime,
                 spent' = [spent EXCEPT ![k] = now + w]
          PROVE  spent' \in [Credentials -> 0..MaxTime] /\ spent'[k] \in 0..MaxTime
                 /\ now <= MaxTime
      <4>1. now + w \in 0..MaxTime /\ now <= MaxTime
        BY <1>0, <3>2
      <4> QED
        BY <1>0, <1>1, <3>2, <4>1
    <3> QED
      BY <1>3, <3>1, <3>2
  <2>2. reset \in Time
    <3>1. Heard(t) \subseteq Time
      <4>1. \A y \in told : y[3] \in Time
        BY <1>0
      <4> QED
        BY <4>1 DEF Heard
    <3>2. spent'[k] \in Time /\ now + Park \in Time
      BY <1>0, <2>1 DEF Time
    <3> QED
      BY <1>3, <3>1, <3>2
  <2>3. k[1] \in Labs /\ k[2] \in Names
    BY <1>1 DEF Credentials
  <2>4. <<k[1], k[2], reset>> \in Labs \X Names \X Time
    BY <2>2, <2>3
  <2>5. refusals' \in 0..MaxRefusals
    BY <1>0, <1>3
  <2>6. /\ thread'[t].reset = reset /\ thread'[t].name = thread[t].name
        /\ \A u \in Threads \ {t} : thread'[u] = thread[u]
    BY <1>0, <1>3 DEF ThreadFields
  <2> QED
    BY <1>0, <1>3, <2>1, <2>2, <2>4, <2>5, <2>6
<1> QED
  BY <1>2, <1>3 DEF Ends, k

\* Each step leaves the threads typed.
LEMMA ThreadsAreTyped ==
  ASSUME TypeInv, [Next]_vars
  PROVE  \A t \in Threads : thread'[t].name \in Names \cup {NoName} /\ thread'[t].reset \in Time
<1> DEFINE Good(s) == s.name \in Names \cup {NoName} /\ s.reset \in Time
<1>0. /\ DOMAIN thread = Threads /\ \A t \in Threads : Good(thread[t])
      /\ \A t \in Threads : DOMAIN thread[t] = ThreadFields /\ thread[t].lab \in Labs
      /\ \A l \in Labs : Lab(l) \in LabState
      /\ Good(Idle) /\ now \in Nat
  <2>1. 0 \in Time
    BY ProfilesConstants DEF ProfilesConstants, Time
  <2> QED
    BY <2>1 DEF TypeInv, TypeOK, LimitsInv, ThreadsHold, Holds, Lab, LabState, Idle, Typed
<1>1. ASSUME NEW t \in Threads, Good(thread'[t]), \A u \in Threads \ {t} : thread'[u] = thread[u]
      PROVE  \A u \in Threads : Good(thread'[u])
  BY <1>0, <1>1
<1>2. ASSUME NEW t \in Threads, NEW s, thread' = [thread EXCEPT ![t] = s], Good(s)
      PROVE  \A u \in Threads : Good(thread'[u])
  <2>1. thread'[t] = s /\ \A u \in Threads \ {t} : thread'[u] = thread[u]
    BY <1>0, <1>2
  <2> QED
    BY <1>1, <1>2, <2>1
<1>3. ASSUME NEW t \in Threads, Leaves(t)
      PROVE  \A u \in Threads : Good(thread'[u])
  BY <1>0, <1>2, <1>3 DEF Leaves
<1>4. CASE UNCHANGED thread
  BY <1>0, <1>4
<1>5. ASSUME NEW t \in Threads, Begin(t)
      PROVE  \A u \in Threads : Good(thread'[u])
  <2>1. Leaves(t) \/ \E l : thread' = [thread EXCEPT ![t].pc = "capture", ![t].lab = l]
    BY <1>5 DEF Begin
  <2>2. ASSUME NEW l, thread' = [thread EXCEPT ![t].pc = "capture", ![t].lab = l]
        PROVE  \A u \in Threads : Good(thread'[u])
    <3>1. /\ thread'[t].name = thread[t].name /\ thread'[t].reset = thread[t].reset
          /\ \A u \in Threads \ {t} : thread'[u] = thread[u]
      BY <1>0, <2>2 DEF ThreadFields
    <3> QED
      BY <1>0, <1>1, <3>1
  <2> QED
    BY <1>3, <2>1, <2>2
<1>6. ASSUME NEW t \in Threads, Capture(t)
      PROVE  \A u \in Threads : Good(thread'[u])
  <2>1. thread' = [thread EXCEPT ![t].pc = "present", ![t].name = Lab(thread[t].lab).active]
    BY <1>6 DEF Capture
  <2>2. /\ thread'[t].name = Lab(thread[t].lab).active /\ thread'[t].reset = thread[t].reset
        /\ \A u \in Threads \ {t} : thread'[u] = thread[u]
    BY <1>0, <2>1 DEF ThreadFields
  <2>3. Lab(thread[t].lab).active \in Names \cup {NoName}
    BY <1>0 DEF LabState
  <2> QED
    BY <1>0, <1>1, <2>2, <2>3
<1>7. ASSUME NEW t \in Threads, NEW pc, Becomes(t, pc)
      PROVE  \A u \in Threads : Good(thread'[u])
  <2>1. /\ thread'[t].name = thread[t].name /\ thread'[t].reset = thread[t].reset
        /\ \A u \in Threads \ {t} : thread'[u] = thread[u]
    BY <1>0, <1>7 DEF ThreadFields, Becomes
  <2> QED
    BY <1>0, <1>1, <2>1
<1>8. ASSUME NEW t \in Threads, Ends(t)
      PROVE  \A u \in Threads : Good(thread'[u])
  BY <1>1, <1>8, ResetIsATime
<1>9. ASSUME NEW t \in Threads, Mark(t)
      PROVE  \A u \in Threads : Good(thread'[u])
  <2> DEFINE s == Marked(Lab(thread[t].lab), thread[t].name, thread[t].reset)
  <2>1. EarliestReset(s) \in Time
    <3>1. thread[t].name \in Names
      BY <1>9 DEF Mark, TypeInv, LimitsInv, ThreadsHold, Holds
    <3>2. s \in LabState
      BY <1>0, <3>1, MarkedIsTyped
    <3> HIDE DEF s
    <3> QED
      BY <1>0, <3>2, EarliestIsATime
  <2>2. \E pc \in {"requeue", "reroute"} : \E switching, next, reset :
          /\ thread' = [thread EXCEPT ![t].pc = pc, ![t].switching = switching, ![t].next = next,
                                      ![t].reset = reset]
          /\ reset = thread[t].reset \/ reset = EarliestReset(s)
    BY <1>9 DEF Mark
  <2> HIDE DEF s
  <2>3. PICK pc, switching, next, reset :
          /\ thread' = [thread EXCEPT ![t].pc = pc, ![t].switching = switching, ![t].next = next,
                                      ![t].reset = reset]
          /\ reset = thread[t].reset \/ reset = EarliestReset(s)
    BY <2>2
  <2>4. /\ thread'[t].name = thread[t].name /\ thread'[t].reset = reset
        /\ \A u \in Threads \ {t} : thread'[u] = thread[u]
    BY <1>0, <2>3 DEF ThreadFields
  <2> QED
    BY <1>0, <1>1, <2>1, <2>3, <2>4
<1>10. ASSUME NEW t \in Threads, NEW pc, NEW target,
              thread' = [thread EXCEPT ![t].pc = pc, ![t].target = target]
       PROVE  \A u \in Threads : Good(thread'[u])
  <2>1. /\ thread'[t].name = thread[t].name /\ thread'[t].reset = thread[t].reset
        /\ \A u \in Threads \ {t} : thread'[u] = thread[u]
    BY <1>0, <1>10 DEF ThreadFields
  <2> QED
    BY <1>0, <1>1, <2>1
<1>11. ASSUME NEW t \in Threads, Reroute(t) \/ TurnChooses(t)
       PROVE  \A u \in Threads : Good(thread'[u])
  <2>1. \/ Leaves(t) \/ Becomes(t, "requeue")
        \/ \E target : thread' = [thread EXCEPT ![t].pc = "record", ![t].target = target]
        \/ \E target : thread' = [thread EXCEPT ![t].pc = "activate", ![t].target = target]
    BY <1>11 DEF Reroute, TurnChooses
  <2> QED
    BY <1>3, <1>7, <1>10, <2>1
<1>12. ASSUME NEW t \in Threads, Record(t)
       PROVE  \A u \in Threads : Good(thread'[u])
  <2>1. Leaves(t) \/ \E n : thread' = [thread EXCEPT ![t].pc = "requeue", ![t].next = n]
    BY <1>12 DEF Record
  <2>2. ASSUME NEW n, thread' = [thread EXCEPT ![t].pc = "requeue", ![t].next = n]
        PROVE  \A u \in Threads : Good(thread'[u])
    <3>1. /\ thread'[t].name = thread[t].name /\ thread'[t].reset = thread[t].reset
          /\ \A u \in Threads \ {t} : thread'[u] = thread[u]
      BY <1>0, <2>2 DEF ThreadFields
    <3> QED
      BY <1>0, <1>1, <3>1
  <2> QED
    BY <1>3, <2>1, <2>2
<1>13. ASSUME NEW t \in Threads, TurnMarks(t)
       PROVE  \A u \in Threads : Good(thread'[u])
  <2>1. PICK tried : thread' = [thread EXCEPT ![t].pc = "reroute", ![t].tried = tried]
    BY <1>13 DEF TurnMarks
  <2>2. /\ thread'[t].name = thread[t].name /\ thread'[t].reset = thread[t].reset
        /\ \A u \in Threads \ {t} : thread'[u] = thread[u]
    BY <1>0, <2>1 DEF ThreadFields
  <2> QED
    BY <1>0, <1>1, <2>2
<1>14. ASSUME NEW t \in Threads, TurnActivates(t)
       PROVE  \A u \in Threads : Good(thread'[u])
  <2>1. Leaves(t) \/ \E l : thread' = [thread EXCEPT ![t].pc = "capture", ![t].lab = l]
    BY <1>14 DEF TurnActivates
  <2>2. ASSUME NEW l, thread' = [thread EXCEPT ![t].pc = "capture", ![t].lab = l]
        PROVE  \A u \in Threads : Good(thread'[u])
    <3>1. /\ thread'[t].name = thread[t].name /\ thread'[t].reset = thread[t].reset
          /\ \A u \in Threads \ {t} : thread'[u] = thread[u]
      BY <1>0, <2>2 DEF ThreadFields
    <3> QED
      BY <1>0, <1>1, <3>1
  <2> QED
    BY <1>3, <2>1, <2>2
<1>15. ASSUME NEW t \in Threads, BeginTurn(t) \/ \E c \in Cards : Start(t, c) \/ Pressed(t, c)
       PROVE  \A u \in Threads : Good(thread'[u])
  <2>1. /\ BeginTurn(t) => \E s : s.name = Idle.name /\ s.reset = Idle.reset
                                  /\ thread' = [thread EXCEPT ![t] = s]
        /\ \A c \in Cards : Start(t, c) => \E s : s.name = Idle.name /\ s.reset = Idle.reset
                                                  /\ thread' = [thread EXCEPT ![t] = s]
        /\ \A c \in Cards : Pressed(t, c) => \E s : s.name = Idle.name /\ s.reset = Idle.reset
                                                    /\ thread' = [thread EXCEPT ![t] = s]
    BY PressesByHand DEF BeginTurn, Start, Idle
  <2>2. \E s : s.name = Idle.name /\ s.reset = Idle.reset /\ thread' = [thread EXCEPT ![t] = s]
    BY <1>15, <2>1
  <2> QED
    BY <1>0, <1>2, <2>2
<1>16. /\ WriteBack \/ (\E c \in Cards : Join(c) \/ Drop(c)) => UNCHANGED thread
       /\ \A l \in Labs, n \in Names :
            AddProfile(l, n) \/ RemoveProfile(l, n) \/ ActivateProfile(l, n) => UNCHANGED thread
       /\ SetRoute \/ Tick \/ UNCHANGED vars => UNCHANGED thread
       /\ \A t \in Threads : Present(t) => Leaves(t) \/ Becomes(t, "running")
       /\ \A t \in Threads : Requeue(t) => Leaves(t)
  BY DEF WriteBack, Join, Drop, AddProfile, RemoveProfile, ActivateProfile, SetRoute, Tick, vars,
         Present, Requeue
<1>17. \A t \in Threads : Good(thread'[t])
  BY <1>3, <1>4, <1>5, <1>6, <1>7, <1>8, <1>9, <1>11, <1>12, <1>13, <1>14, <1>15, <1>16
     DEF Next, Runs, Pressed
<1> QED
  BY <1>17

\* What a board holds of its cards
Statuses == {"todo", "doing", "limited", "failed", "done"}
BoardTyped ==
  /\ status \in [Cards -> Statuses]
  /\ queue \subseteq Cards /\ seated \subseteq Cards /\ missed \subseteq Cards
  /\ lost \subseteq Cards
  /\ batch \in [{"seen", "started", "dropped"} -> SUBSET Cards]
  /\ granted \in [Cards -> Int]
  /\ paused \in [Labs -> Time]

\* Each step leaves the board typed.
LEMMA BoardIsTyped ==
  ASSUME TypeInv, [Next]_vars
  PROVE  BoardTyped'
<1>0. /\ BoardTyped
      /\ \A t \in Threads : /\ thread[t].lab \in Labs /\ thread[t].reset \in Time
                            /\ thread[t].card \in Cards \cup {NoCard}
                            /\ thread[t].pc \in {"begin", "record", "requeue"} =>
                                 thread[t].card # NoCard
  BY DEF TypeInv, TypeOK, BoardTyped, Statuses, LimitsInv, ThreadsHold, Holds
<1>1. CASE UNCHANGED board
  BY <1>0, <1>1 DEF board, queueing, BoardTyped
<1>2. ASSUME NEW t \in Threads, Begin(t) \/ Present(t) \/ Ends(t)
      PROVE  BoardTyped'
  <2> DEFINE c == thread[t].card
  <2>1. \/ status' = status
        \/ \E st \in Statuses : status' = [status EXCEPT ![c] = st]
    BY <1>2 DEF Begin, Present, Ends, Statuses
  <2>2. \/ granted' = granted
        \/ c \in Cards /\ granted' = [granted EXCEPT ![c] = @ - 1]
    BY <1>0, <1>2 DEF Begin, Present, Ends, IsTurn
  <2>3. UNCHANGED <<queue, batch, missed, lost, paused>> /\ seated' \in {seated, seated \ {c}}
    BY <1>2 DEF Begin, Present, Ends
  <2>4. status' \in [Cards -> Statuses]
    BY <1>0, <2>1 DEF BoardTyped
  <2>5. granted' \in [Cards -> Int]
    BY <1>0, <2>2 DEF BoardTyped
  <2> QED
    BY <1>0, <2>3, <2>4, <2>5 DEF BoardTyped
<1>3. ASSUME NEW t \in Threads, Capture(t)
      PROVE  BoardTyped'
  BY <1>0, <1>3 DEF Capture, queueing, BoardTyped
<1>4. ASSUME NEW c \in Cards, granted' = granted \/ granted' = [granted EXCEPT ![c] = @ + 1]
      PROVE  granted' \in [Cards -> Int]
  BY <1>0, <1>4 DEF BoardTyped
<1>5. ASSUME NEW t \in Threads, Record(t)
      PROVE  BoardTyped'
  <2> DEFINE c == thread[t].card
  <2>1. c \in Cards
    BY <1>0, <1>5 DEF Record
  <2>2. /\ granted' = granted \/ granted' = [granted EXCEPT ![c] = @ + 1]
        /\ lost' = lost \/ lost' = lost \cup {c}
        /\ UNCHANGED <<status, queue, seated, batch, missed, paused>>
    BY <1>5 DEF Record, queueing
  <2> QED
    BY <1>0, <1>4, <2>1, <2>2 DEF BoardTyped
<1>6. ASSUME NEW t \in Threads, Mark(t) \/ Reroute(t) \/ Requeue(t)
      PROVE  BoardTyped'
  <2> DEFINE c == thread[t].card
  <2>1. /\ queue' = queue \/ (c \in Cards /\ queue' = queue \cup {c})
        /\ paused' = paused \/ paused' = [paused EXCEPT ![thread[t].lab] = thread[t].reset]
        /\ seated' \in {seated, seated \ {c}}
        /\ UNCHANGED <<status, batch, missed, granted, lost>>
    BY <1>0, <1>6 DEF Mark, Reroute, Requeue, Rejoins, Pauses, queueing
  <2>2. paused' \in [Labs -> Time]
    BY <1>0, <2>1 DEF BoardTyped
  <2> QED
    BY <1>0, <2>1, <2>2 DEF BoardTyped
<1>7. ASSUME NEW c \in Cards, Join(c) \/ Drop(c) \/ \E t \in Threads : Start(t, c)
      PROVE  BoardTyped'
  <2>1. \/ batch' = [batch EXCEPT !.seen = Seen, !.started = @ \cup {c}]
        \/ batch' = [batch EXCEPT !.seen = Seen, !.dropped = @ \cup {c}]
    BY <1>7 DEF Join, Drop, Start, Starts
  <2>2. Seen \subseteq Cards
    BY <1>0 DEF BoardTyped, Seen
  <2>3. batch' \in [{"seen", "started", "dropped"} -> SUBSET Cards]
    <3> DEFINE fields == {"seen", "started", "dropped"}
               sets == SUBSET Cards
    <3>1. /\ batch \in [fields -> sets] /\ Seen \in sets
          /\ batch.started \cup {c} \in sets /\ batch.dropped \cup {c} \in sets
      BY <1>0, <2>2 DEF BoardTyped
    <3> HIDE DEF sets
    <3>2. batch' \in [fields -> sets]
      BY <2>1, <3>1
    <3> QED
      BY <3>2 DEF sets
  <2>4. UNCHANGED <<status, queue, seated, paused, granted, lost>> /\ missed' \subseteq missed
    BY <1>7 DEF Join, Drop, Start
  <2> QED
    BY <1>0, <2>3, <2>4 DEF BoardTyped
<1>8. CASE WriteBack
  <2>1. batch' \in [{"seen", "started", "dropped"} -> SUBSET Cards]
    BY <1>8 DEF WriteBack, NoBatch
  <2>2. batch.started \subseteq Cards /\ batch.dropped \subseteq Cards
    BY <1>0 DEF BoardTyped
  <2>3. queue' \subseteq Cards /\ seated' \subseteq Cards /\ missed' \subseteq Cards
    BY <1>0, <1>8, <2>2 DEF BoardTyped, WriteBack
  <2> QED
    BY <1>0, <1>8, <2>1, <2>3 DEF BoardTyped, WriteBack
<1>9. ASSUME NEW t \in Threads, NEW c \in Cards, Pressed(t, c)
      PROVE  BoardTyped'
  <2>1. /\ queue' = queue \ {c} /\ missed' = missed \ {c}
        /\ UNCHANGED <<status, seated, batch, paused, lost>>
    BY <1>9, PressesByHand
  <2>2. granted' = granted \/ granted' = [granted EXCEPT ![c] = @ + 1]
    BY <1>9 DEF Pressed, Press, PressFallback
  <2> QED
    BY <1>0, <1>4, <2>1, <2>2 DEF BoardTyped
<1>10. /\ \A t \in Threads :
            TurnMarks(t) \/ TurnChooses(t) \/ TurnActivates(t) \/ BeginTurn(t) =>
              UNCHANGED board
       /\ \A l \in Labs, n \in Names :
            AddProfile(l, n) \/ RemoveProfile(l, n) \/ ActivateProfile(l, n) => UNCHANGED board
       /\ SetRoute \/ Tick \/ UNCHANGED vars => UNCHANGED board
  BY DEF TurnMarks, TurnChooses, TurnActivates, BeginTurn, AddProfile, RemoveProfile,
         ActivateProfile, SetRoute, Tick, vars, board
<1> QED
  BY <1>1, <1>2, <1>3, <1>5, <1>6, <1>7, <1>8, <1>9, <1>10 DEF Next, Runs, Pressed

\* Each step leaves the clock, the route, the requests and what the world told typed.
LEMMA WorldIsTyped ==
  ASSUME TypeInv, [Next]_vars
  PROVE  /\ now' \in Time /\ route' \in {"wait", "switch"} /\ requests' \in 0..MaxRequests
         /\ spent' \in [Credentials -> 0..MaxTime] /\ told' \subseteq Labs \X Names \X Time
         /\ refusals' \in 0..MaxRefusals
<1>0. /\ now \in Time /\ route \in {"wait", "switch"} /\ requests \in 0..MaxRequests
      /\ spent \in [Credentials -> 0..MaxTime] /\ told \subseteq Labs \X Names \X Time
      /\ refusals \in 0..MaxRefusals
      /\ MaxTime \in Nat /\ Park \in Nat /\ MaxRequests \in Nat
  BY ProfilesConstants DEF ProfilesConstants, TypeInv, TypeOK
<1>1. now' \in Time
  <2>1. now' = now \/ (now < MaxTime + Park /\ now' = now + 1)
    <3>1. \A t \in Threads : /\ Begin(t) => UNCHANGED now
                             /\ Capture(t) => UNCHANGED now
                             /\ Present(t) => UNCHANGED now
                             /\ Ends(t) => UNCHANGED now
                             /\ Mark(t) => UNCHANGED now
                             /\ Reroute(t) => UNCHANGED now
      BY DEF Begin, Capture, Present, Ends, Mark, Reroute, world
    <3>3. \A t \in Threads : /\ Record(t) => UNCHANGED now
                             /\ Requeue(t) => UNCHANGED now
                             /\ TurnMarks(t) => UNCHANGED now
                             /\ TurnChooses(t) => UNCHANGED now
                             /\ TurnActivates(t) => UNCHANGED now
                             /\ BeginTurn(t) => UNCHANGED now
                             /\ \A c \in Cards : Start(t, c) \/ Pressed(t, c) => UNCHANGED now
      BY PressesByHand DEF Record, Requeue, TurnMarks, TurnChooses, TurnActivates, BeginTurn,
                           Start, world
    <3>2. /\ WriteBack \/ (\E c \in Cards : Join(c) \/ Drop(c)) => UNCHANGED now
          /\ \A l \in Labs, n \in Names :
               AddProfile(l, n) \/ RemoveProfile(l, n) \/ ActivateProfile(l, n) => UNCHANGED now
          /\ SetRoute \/ UNCHANGED vars => UNCHANGED now
      BY DEF WriteBack, Join, Drop, AddProfile, RemoveProfile, ActivateProfile, SetRoute, vars,
             world
    <3> QED
      BY <3>1, <3>2, <3>3 DEF Next, Runs, Tick, Pressed
  <2> QED
    BY <1>0, <2>1 DEF Time
<1>2. route' \in {"wait", "switch"} /\ requests' \in 0..MaxRequests
  <2>1. /\ requests' = requests \/ (requests < MaxRequests /\ requests' = requests + 1)
        /\ route' \in {route, "wait", "switch"}
    <3>1. \A t \in Threads : /\ Begin(t) => UNCHANGED <<route, requests>>
                             /\ Capture(t) => UNCHANGED <<route, requests>>
                             /\ Present(t) => UNCHANGED <<route, requests>>
                             /\ Ends(t) => UNCHANGED <<route, requests>>
                             /\ Mark(t) => UNCHANGED <<route, requests>>
                             /\ Reroute(t) => UNCHANGED <<route, requests>>
      BY DEF Begin, Capture, Present, Ends, Mark, Reroute
    <3>5. \A t \in Threads : /\ Record(t) => UNCHANGED <<route, requests>>
                             /\ Requeue(t) => UNCHANGED <<route, requests>>
                             /\ TurnMarks(t) => UNCHANGED <<route, requests>>
                             /\ TurnChooses(t) => UNCHANGED <<route, requests>>
                             /\ TurnActivates(t) => UNCHANGED <<route, requests>>
                             /\ \A c \in Cards : Start(t, c) => UNCHANGED <<route, requests>>
      BY DEF Record, Requeue, TurnMarks, TurnChooses, TurnActivates, Start
    <3>2. /\ WriteBack \/ (\E c \in Cards : Join(c) \/ Drop(c)) =>
               UNCHANGED <<route, requests>>
          /\ Tick \/ UNCHANGED vars => UNCHANGED <<route, requests>>
      BY DEF WriteBack, Join, Drop, Tick, vars
    <3>3. /\ \A t \in Threads : BeginTurn(t) => Asks("turn") /\ UNCHANGED route
          /\ \A t \in Threads, c \in Cards : Pressed(t, c) => Asks("press") /\ UNCHANGED route
          /\ \A l \in Labs, n \in Names :
               /\ AddProfile(l, n) => Asks("add") /\ UNCHANGED route
               /\ RemoveProfile(l, n) => Asks("remove") /\ UNCHANGED route
               /\ ActivateProfile(l, n) => Asks("activate") /\ UNCHANGED route
          /\ SetRoute => Asks("route") /\ route' \in {"wait", "switch"}
      BY PressesByHand DEF BeginTurn, AddProfile, RemoveProfile, ActivateProfile, SetRoute
    <3>4. \A what : Asks(what) => requests < MaxRequests /\ requests' = requests + 1
      BY DEF Asks
    <3> QED
      BY <3>1, <3>2, <3>3, <3>4, <3>5 DEF Next, Runs, Pressed
  <2> QED
    BY <1>0, <2>1
<1>3. (\E t \in Threads : Ends(t)) \/ UNCHANGED <<spent, told, refusals>>
  <2>1. \A t \in Threads :
          /\ Begin(t) \/ Capture(t) \/ Present(t) => UNCHANGED <<spent, told, refusals>>
          /\ Mark(t) \/ Reroute(t) \/ Record(t) => UNCHANGED <<spent, told, refusals>>
          /\ Requeue(t) \/ TurnMarks(t) \/ TurnChooses(t) => UNCHANGED <<spent, told, refusals>>
          /\ TurnActivates(t) => UNCHANGED <<spent, told, refusals>>
    BY DEF Begin, Capture, Present, Mark, Reroute, Record, Requeue, TurnMarks, TurnChooses,
           TurnActivates, world
  <2>3. \A t \in Threads :
          /\ BeginTurn(t) => UNCHANGED <<spent, told, refusals>>
          /\ \A c \in Cards : Start(t, c) \/ Pressed(t, c) => UNCHANGED <<spent, told, refusals>>
    BY PressesByHand DEF BeginTurn, Start, world
  <2>2. /\ WriteBack \/ (\E c \in Cards : Join(c) \/ Drop(c)) =>
             UNCHANGED <<spent, told, refusals>>
        /\ \A l \in Labs, n \in Names :
             AddProfile(l, n) \/ RemoveProfile(l, n) \/ ActivateProfile(l, n) =>
               UNCHANGED <<spent, told, refusals>>
        /\ SetRoute \/ Tick \/ UNCHANGED vars => UNCHANGED <<spent, told, refusals>>
    BY DEF WriteBack, Join, Drop, AddProfile, RemoveProfile, ActivateProfile, SetRoute, Tick,
           vars, world
  <2> QED
    BY <2>1, <2>2, <2>3 DEF Next, Runs, Pressed
<1>4. CASE \E t \in Threads : Ends(t)
  <2>1. PICK t \in Threads : Ends(t)
    BY <1>4
  <2> QED
    BY <1>1, <1>2, <2>1, ResetIsATime
<1>5. CASE UNCHANGED <<spent, told, refusals>>
  BY <1>0, <1>1, <1>2, <1>5
<1> QED
  BY <1>3, <1>4, <1>5

\* A lab's file is typed at first: by default one lab has one profile.
LEMMA FilesInit == Init => disk \in Files /\ tokens \subseteq Credentials
<1> SUFFICES ASSUME Init
             PROVE  disk \in Files /\ tokens \subseteq Credentials
  OBVIOUS
<1>0. /\ DefaultLab \in Labs /\ DefaultName \in Names /\ Configured \in [Labs -> Seq(Names)]
  BY ProfilesConstants DEF ProfilesConstants
<1>1. <<DefaultName>> \in Seq(Names) /\ <<>> \in Seq(Names)
  BY <1>0, EmptySeq
<1>2. [l \in Labs |-> LabOf(Configured[l])] \in [Labs -> LabState]
  BY <1>0, LabOfIsTyped
<1>3. DefaultState \in [Labs -> LabState]
  <2>1. \A l \in Labs :
          LabOf(IF l = DefaultLab THEN <<DefaultName>> ELSE <<>>) \in LabState
    <3>1. LabOf(<<DefaultName>>) \in LabState
      BY <1>1, LabOfIsTyped
    <3>2. LabOf(<<>>) \in LabState
      BY <1>1, LabOfIsTyped
    <3> QED
      BY <3>1, <3>2
  <2> QED
    BY <2>1 DEF DefaultState
<1>4. tokens \subseteq Credentials
  BY <1>0 DEF Init, Credentials
<1>5. PICK there \in BOOLEAN :
        disk = [exists |-> there,
                labs |-> IF there THEN [l \in Labs |-> LabOf(Configured[l])] ELSE DefaultState]
  BY DEF Init
<1> QED
  BY <1>2, <1>3, <1>4, <1>5 DEF Files

\* Whatever the limits, routes and requests: the file, the threads, the board and the world keep
\* their types, and what a run assumes where its stream tells no reset is a time within the bounds.
THEOREM TypeCorrect == Spec => []TypeOK
<1>1. Init => TypeInv
  <2> SUFFICES ASSUME Init
               PROVE  TypeInv
    OBVIOUS
  <2>0. /\ DefaultLab \in Labs /\ {Park, MaxTime, MaxWindow, MaxRefusals, MaxRequests} \subseteq Nat
    BY ProfilesConstants DEF ProfilesConstants
  <2>1. 0 \in Time /\ 0 \in 0..MaxTime /\ 0 \in 0..MaxRefusals /\ 0 \in 0..MaxRequests
    BY <2>0 DEF Time
  <2>2. /\ \A t \in Threads :
             /\ thread[t].card \in Cards \cup {NoCard} /\ thread[t].lab \in Labs
             /\ thread[t].name \in Names \cup {NoName} /\ thread[t].reset \in Time
    BY <2>0, <2>1 DEF Init, Idle
  <2>3. /\ now \in Time /\ route \in {"wait", "switch"}
        /\ status \in [Cards -> {"todo", "doing", "limited", "failed", "done"}]
        /\ \A C \in {queue, seated, missed, lost} : C \subseteq Cards
        /\ batch \in [{"seen", "started", "dropped"} -> SUBSET Cards]
        /\ granted \in [Cards -> Int]
        /\ refusals \in 0..MaxRefusals /\ requests \in 0..MaxRequests
    BY <2>1 DEF Init, NoBatch
  <2>4. fallback \in [Cards -> Seq(Labs)]
    BY EmptySeq DEF Init
  <2>5. /\ paused \in [Labs -> Time] /\ spent \in [Credentials -> 0..MaxTime]
        /\ spent \in [Credentials -> Time] /\ told \subseteq Labs \X Names \X Time
    BY <2>1 DEF Init
  <2> QED
    BY <2>2, <2>3, <2>4, <2>5, LimitsInit, FilesInit DEF TypeInv, TypeOK, Files, LabState
<1>2. TypeInv /\ [Next]_vars => TypeInv'
  <2> SUFFICES ASSUME TypeInv, [Next]_vars
               PROVE  TypeInv'
    OBVIOUS
  <2>1. LimitsInv'
    BY FileStep, ThreadsStep, TypesStep, PausingStep DEF LimitsInv, TypeInv
  <2>2. \A t \in Threads : /\ thread'[t].card \in Cards \cup {NoCard} /\ thread'[t].lab \in Labs
                           /\ thread'[t].name \in Names \cup {NoName} /\ thread'[t].reset \in Time
    BY <2>1, ThreadsAreTyped DEF LimitsInv, ThreadsHold, Holds
  <2>3. tokens' \subseteq Credentials /\ fallback' \in [Cards -> Seq(Labs)]
    BY <2>1 DEF LimitsInv, Typed
  <2>4. spent' \in [Credentials -> Time]
    <3>1. 0..MaxTime \subseteq Time
      BY ProfilesConstants DEF ProfilesConstants, Time
    <3> QED
      BY <3>1, WorldIsTyped
  <2>5. disk' \in Files
    BY FileIsTyped
  <2>6. BoardTyped'
    BY BoardIsTyped
  <2> QED
    BY <2>1, <2>2, <2>3, <2>4, <2>5, <2>6, WorldIsTyped
       DEF TypeInv, TypeOK, Files, LabState, BoardTyped, Statuses
<1>3. TypeInv => TypeOK
  BY DEF TypeInv
<1> QED
  BY <1>1, <1>2, <1>3, PTL DEF Spec
=============================================================================
