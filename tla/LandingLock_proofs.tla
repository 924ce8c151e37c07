------------------------- MODULE LandingLock_proofs -------------------------
(***************************************************************************)
(* That the landing lock keeps what it can keep, for any number of cards   *)
(* and agents, however long they take, whoever dies and however often the  *)
(* board restarts: no two clients work on a base at once but after an      *)
(* eviction, and until there is one only tested work lands.  That a live   *)
(* holder keeps the lock and that the line keeps its order holds as long   *)
(* as all clients share one connection.                                    *)
(***************************************************************************)
EXTENDS LandingLock, FiniteSetTheorems, SequenceTheorems, TLAPS

USE LandingConstants DEF LandingConstants

\* What a request is at, and for whom, by its kind
AskPoints == {"stale?", "evict", "held?", "beat", "queued?", "free?", "insert", "join",
              "enter", "granted?", "place?"}
ReleasePoints == {"release?", "free", "waits?", "leave"}
Requests == [who : Clients, kind : Asks, at : AskPoints]
            \cup [who : Agents, kind : {"beat"}, at : AskPoints]
            \cup [who : Clients, kind : {"release"}, at : ReleasePoints]
            \cup [who : {NoOne}, kind : {"watch"}, at : {"stale?", "evict"}]
            \cup {NoRequest}

\* who asks for its lease to be released works no more
Leaves(k) == req[k].kind = "release" => phase[Who(k)] \in {"leaving", "gone", "dead"}

\* who works holds the lock, unless it was evicted
WorkersHold == \A c \in AtWork \ evicted : holder = c

\* unless somebody was evicted, the base a client synced with is still the base if its sync
\* fetched it and nobody pushed by hand, and a card about to merge has tested the base if
\* integrate fetched it
MergesTested ==
  evicted = {} =>
    \A c \in Clients :
      /\ phase[c] \in {"synced", "merging"} /\ c \notin overtaken => tested[c] = base
      /\ phase[c] = "merging" /\ c \notin blind => tested[c] = base

\* The inductive invariant of the lock
LockInv == /\ TypeOK /\ req \in [Conns -> Requests] /\ Len(places) = Len(line)
           /\ \A k \in Conns : Leaves(k)
           /\ WorkersHold /\ MergesTested

\* Every client has a connection
LEMMA ConnsOf == \A c \in Clients : ConnOf(c) \in Conns
BY DEF ConnOf, Conns, Clients

\* A request is well formed where it is posted and where it moves on
LEMMA RequestsGo ==
  ASSUME req \in [Conns -> Requests], NEW k \in Conns
  PROVE  /\ [req EXCEPT ![k] = NoRequest] \in [Conns -> Requests]
         /\ \A r \in Requests : [req EXCEPT ![k] = r] \in [Conns -> Requests]
         /\ req[k].at \in AskPoints =>
              \A p \in AskPoints \ {"evict"} : req[k].kind # "watch" =>
                [req EXCEPT ![k].at = p] \in [Conns -> Requests]
         /\ req[k].at = "stale?" => [req EXCEPT ![k].at = "evict"] \in [Conns -> Requests]
         /\ req[k].at \in ReleasePoints =>
              \A p \in ReleasePoints : [req EXCEPT ![k].at = p] \in [Conns -> Requests]
<1>1. req[k] \in Requests
  OBVIOUS
<1>2. NoRequest \in Requests
  BY DEF Requests
<1>3. req[k].at \in AskPoints /\ req[k].kind # "watch" =>
        \A p \in AskPoints : [req[k] EXCEPT !.at = p] \in Requests
  BY <1>1 DEF Requests, AskPoints, ReleasePoints, NoRequest, Asks
<1>4. req[k].at = "stale?" => [req[k] EXCEPT !.at = "evict"] \in Requests
  BY <1>1 DEF Requests, AskPoints, ReleasePoints, NoRequest, Asks
<1>5. req[k].at \in ReleasePoints => \A p \in ReleasePoints : [req[k] EXCEPT !.at = p] \in Requests
  BY <1>1 DEF Requests, AskPoints, ReleasePoints, NoRequest, Asks
<1> QED
  BY <1>2, <1>3, <1>4, <1>5

\* Who a request is for
LEMMA RequestIs ==
  ASSUME req \in [Conns -> Requests], NEW k \in Conns
  PROVE  /\ req[k].at \in AskPoints /\ req[k].kind # "watch" => Who(k) \in Clients
         /\ req[k].at \in ReleasePoints => Who(k) \in Clients /\ req[k].kind = "release"
         /\ req[k].at \in AskPoints => req[k].kind # "release"
         /\ req[k].kind = "beat" => Who(k) \in Agents
         /\ req[k].at \in AskPoints \ {"stale?", "evict"} => req[k].kind # "watch"
<1>1. req[k] \in Requests
  OBVIOUS
<1> QED
  BY <1>1 DEF Requests, AskPoints, ReleasePoints, NoRequest, Asks, Who, Clients

\* A well formed request is a request
LEMMA RequestTypes ==
  \A R \in [Conns -> Requests] :
    R \in [Conns -> [who : Clients \cup {NoOne}, at : Points,
                     kind : Asks \cup {"beat", "release", "watch"}] \cup {NoRequest}]
<1>1. Requests \subseteq [who : Clients \cup {NoOne}, at : Points,
                          kind : Asks \cup {"beat", "release", "watch"}] \cup {NoRequest}
  BY DEF Requests, AskPoints, ReleasePoints, Points, Asks, Clients
<1> QED
  BY <1>1

\* Positions counted from one
LEMMA NumberedType ==
  ASSUME NEW q \in Seq(Clients)
  PROVE  [i \in 1..Len(q) |-> i] \in Seq(Nat) /\ Len([i \in 1..Len(q) |-> i]) = Len(q)
<1>1. Len(q) \in Nat
  BY LenProperties
<1>2. [i \in 1..Len(q) |-> i] \in [1..Len(q) -> Nat]
  BY <1>1
<1> QED
  BY <1>1, <1>2, IsASeq, LenProperties

\* A sequence with one element more
LEMMA WithType ==
  ASSUME NEW S, NEW q \in Seq(S), NEW n \in 0..Len(q), NEW x \in S
  PROVE  With(q, n, x) \in Seq(S) /\ Len(With(q, n, x)) = Len(q) + 1
<1>1. Len(q) \in Nat /\ Len(q) + 1 \in Nat /\ \A j \in 1..Len(q) : q[j] \in S
  BY LenProperties, ElementOfSeq
<1> DEFINE f(i) == IF i <= n THEN q[i] ELSE IF i = n + 1 THEN x ELSE q[i - 1]
<1>2. \A i \in 1..(Len(q) + 1) : f(i) \in S
  BY <1>1
<1>3. With(q, n, x) = [i \in 1..(Len(q) + 1) |-> f(i)]
  BY DEF With
<1> HIDE DEF f
<1>4. With(q, n, x) \in [1..(Len(q) + 1) -> S]
  BY <1>2, <1>3
<1> QED
  BY <1>1, <1>4, IsASeq, LenProperties

\* What promoting makes of the lock
LEMMA PromoteType ==
  ASSUME line \in Seq(Clients), Promote
  PROVE  /\ holder' \in Clients \cup {NoOne} /\ stale' \in BOOLEAN /\ line' \in Seq(Clients)
         /\ places' \in Seq(Nat) /\ Len(places') = Len(line') /\ UNCHANGED mark
         /\ line # <<>> => holder' = Head(line) /\ line' = Tail(line) /\ holder' # NoOne
         /\ line = <<>> => holder' = NoOne /\ line' = line
<1>1. line # <<>> => Head(line) \in Clients /\ Tail(line) \in Seq(Clients)
  BY HeadTailProperties
<1>2. NoOne \notin Clients
  OBVIOUS
<1>3. line' \in Seq(Clients)
  BY <1>1 DEF Promote
<1>4. places' \in Seq(Nat) /\ Len(places') = Len(line') /\ UNCHANGED mark
  BY <1>3, NumberedType DEF Promote, Renumber
<1> QED
  BY <1>1, <1>2, <1>3, <1>4 DEF Promote

\* The line without one of its places
LEMMA WithoutType ==
  ASSUME line \in Seq(Clients), NEW i \in 1..Len(line)
  PROVE  Without(i) \in Seq(Clients) /\ Len(Without(i)) = Len(line) - 1
<1>1. Len(line) \in Nat /\ Len(line) - 1 \in Nat /\ \A j \in 1..Len(line) : line[j] \in Clients
  BY LenProperties, ElementOfSeq
<1>2. \A j \in 1..(Len(line) - 1) : (IF j < i THEN line[j] ELSE line[j + 1]) \in Clients
  BY <1>1
<1> DEFINE f(j) == IF j < i THEN line[j] ELSE line[j + 1]
<1>3. \A j \in 1..(Len(line) - 1) : f(j) \in Clients
  BY <1>2
<1>4. Without(i) = [j \in 1..(Len(line) - 1) |-> f(j)]
  BY DEF Without
<1> HIDE DEF f
<1>5. Without(i) \in [1..(Len(line) - 1) -> Clients]
  BY <1>3, <1>4
<1> QED
  BY <1>1, <1>5, IsASeq, LenProperties

-----------------------------------------------------------------------------
(* The types *)

\* A request that is served keeps the state well formed
LEMMA ServeType ==
  ASSUME LockInv, NEW k \in Conns, Serve(k)
  PROVE  TypeOK' /\ req' \in [Conns -> Requests] /\ Len(places') = Len(line')
<1>0. /\ TypeOK /\ req \in [Conns -> Requests] /\ line \in Seq(Clients)
      /\ phase \in [Clients -> Phases] /\ beat \in [Agents -> {"none", "sent", "dead"}]
      /\ landing \in Cards \cup {NoOne} /\ evicted \subseteq Clients
      /\ holder \in Clients \cup {NoOne} /\ stale \in BOOLEAN
      /\ places \in Seq(Nat) /\ mark \in [Conns -> Nat] /\ Len(places) = Len(line)
  BY DEF LockInv, TypeOK
<1>1. ASSUME req' \in [Conns -> Requests], phase' \in [Clients -> Phases],
             beat' \in [Agents -> {"none", "sent", "dead"}], landing' \in Cards \cup {NoOne},
             holder' \in Clients \cup {NoOne}, stale' \in BOOLEAN, line' \in Seq(Clients),
             places' \in Seq(Nat), mark' \in [Conns -> Nat], Len(places') = Len(line'),
             UNCHANGED <<work, bounds>>, evicted' \subseteq Clients
      PROVE  TypeOK' /\ req' \in [Conns -> Requests] /\ Len(places') = Len(line')
  BY <1>0, <1>1, RequestTypes DEF TypeOK, work, bounds
<1>2. ASSUME NEW p \in AskPoints, OnlyMoves(k, p), req[k].at \in AskPoints,
             p = "evict" => req[k].at = "stale?", p # "evict" => req[k].kind # "watch"
      PROVE  TypeOK' /\ req' \in [Conns -> Requests] /\ Len(places') = Len(line')
  BY <1>0, <1>1, <1>2, RequestsGo DEF OnlyMoves, Goto, Unchanged, lock
<1>3. ASSUME NEW p \in ReleasePoints, OnlyMoves(k, p), req[k].at \in ReleasePoints
      PROVE  TypeOK' /\ req' \in [Conns -> Requests] /\ Len(places') = Len(line')
  BY <1>0, <1>1, <1>3, RequestsGo DEF OnlyMoves, Goto, Unchanged, lock
<1>4. ASSUME NEW r \in {"holding", "waiting", "gone"}, Reply(k, r), Who(k) \in Clients,
             req[k].kind = "beat" => Who(k) \in Agents
      PROVE  /\ req' \in [Conns -> Requests] /\ phase' \in [Clients -> Phases]
             /\ beat' \in [Agents -> {"none", "sent", "dead"}]
             /\ landing' \in Cards \cup {NoOne}
  <2>1. r \in Phases
    BY DEF Phases, Working
  <2>2. req' \in [Conns -> Requests]
    BY <1>0, <1>4, RequestsGo DEF Reply
  <2> QED
    BY <1>0, <1>4, <2>1, <2>2 DEF Reply
<1>5. ASSUME Done(k)
      PROVE  /\ req' \in [Conns -> Requests] /\ phase' \in [Clients -> Phases]
             /\ beat' \in [Agents -> {"none", "sent", "dead"}]
             /\ landing' \in Cards \cup {NoOne}
  <2>1. "gone" \in Phases
    BY DEF Phases
  <2>2. req' \in [Conns -> Requests]
    BY <1>0, <1>5, RequestsGo DEF Done
  <2> QED
    BY <1>0, <1>5, <2>1, <2>2 DEF Done
<1>6. \A p \in {"stale?", "evict", "held?", "beat", "queued?", "free?", "insert", "join",
                "enter", "granted?", "place?"} : p \in AskPoints
  BY DEF AskPoints
<1>7. \A p \in {"release?", "free", "waits?", "leave"} : p \in ReleasePoints
  BY DEF ReleasePoints
<1>8. /\ req[k].at \in AskPoints \ {"stale?", "evict"} =>
           /\ req[k].kind # "watch" /\ Who(k) \in Clients
           /\ req[k].kind = "beat" => Who(k) \in Agents
      /\ req[k].at \in ReleasePoints => Who(k) \in Clients
  BY <1>0, RequestIs
<1>g. ASSUME NEW p \in AskPoints \ {"evict"}, req[k].at \in AskPoints, req[k].kind # "watch",
             Goto(k, p)
      PROVE  req' \in [Conns -> Requests]
  BY <1>0, <1>g, RequestsGo DEF Goto
<1>9. CASE SelectStale(k)
  <2>1. CASE req[k].kind = "watch" /\ ~(holder # NoOne /\ stale)
    BY <1>0, <1>1, <1>9, <2>1, RequestsGo DEF SelectStale, Unchanged, lock
  <2>2. CASE ~(req[k].kind = "watch" /\ ~(holder # NoOne /\ stale))
    <3>1. /\ req[k].at = "stale?"
          /\ \E p \in {"evict", "held?", "free?"} :
               OnlyMoves(k, p) /\ (p # "evict" => req[k].kind # "watch")
      BY <1>9, <2>2 DEF SelectStale, At
    <3> QED
      BY <1>2, <1>6, <3>1
  <2> QED
    BY <2>1, <2>2
<1>10. CASE Evict(k)
  <2>1. req[k].at = "evict" /\ Promote /\ UNCHANGED <<landing, phase, beat, work, bounds>>
    BY <1>10 DEF Evict, At, Drop
  <2>2. req' \in [Conns -> Requests]
    <3>1. CASE req[k].kind = "watch"
      BY <1>0, <1>10, <3>1, RequestsGo DEF Evict
    <3>2. CASE req[k].kind # "watch"
      <4>1. \E p \in {"held?", "free?"} : Goto(k, p)
        BY <1>10, <3>2 DEF Evict
      <4> QED
        BY <1>6, <1>g, <2>1, <3>2, <4>1
    <3> QED
      BY <3>1, <3>2
  <2>3. evicted' \subseteq Clients
    BY <1>0, <1>10 DEF Evict, AtWork
  <2> QED
    BY <1>0, <1>1, <2>1, <2>2, <2>3, PromoteType
<1>11. CASE SelectHeld(k) \/ SelectQueued(k) \/ SelectCurrent(k)
  <2>1. /\ req[k].at \in AskPoints \ {"stale?", "evict"}
        /\ \E p \in {"beat", "queued?", "granted?", "free?", "insert", "join"} : OnlyMoves(k, p)
    BY <1>6, <1>11 DEF SelectHeld, SelectQueued, SelectCurrent, At
  <2> QED
    BY <1>2, <1>6, <1>8, <2>1
<1>12. CASE Heartbeat(k)
  <2>1. req[k].at \in AskPoints \ {"stale?", "evict"} /\ req' \in [Conns -> Requests]
    BY <1>0, <1>6, <1>8, <1>12, RequestsGo DEF Heartbeat, Goto, At
  <2> QED
    BY <1>0, <1>1, <1>12, <2>1 DEF Heartbeat, Refresh, Unchanged
<1>13. CASE Insert(k)
  <2>1. req[k].at \in AskPoints \ {"stale?", "evict"}
    BY <1>6, <1>13 DEF Insert, At
  <2>2. CASE FreeSlot
    <3>1. req' \in [Conns -> Requests]
      BY <1>6, <1>8, <1>13, <1>g, <2>1, <2>2 DEF Insert
    <3> QED
      BY <1>0, <1>1, <1>8, <1>13, <2>1, <2>2, <3>1 DEF Insert, Unchanged
  <2>3. CASE ~FreeSlot
    BY <1>0, <1>1, <1>4, <1>8, <1>13, <2>1, <2>3 DEF Insert, Unchanged, lock
  <2> QED
    BY <2>2, <2>3
<1>14. CASE Join(k)
  <2>1. req[k].at \in AskPoints \ {"stale?", "evict"}
    BY <1>6, <1>14 DEF Join, At
  <2>2. req' \in [Conns -> Requests]
    BY <1>6, <1>8, <1>14, <1>g, <2>1 DEF Join
  <2>3. mark' \in [Conns -> Nat]
    <3>1. line # <<>> => places[Len(line)] \in Nat
      BY <1>0, LenProperties, ElementOfSeq, EmptySeq
    <3> QED
      BY <1>0, <1>14, <3>1 DEF Join
  <2> QED
    BY <1>0, <1>1, <1>14, <2>2, <2>3 DEF Join, Unchanged
<1>20. CASE EnterLine(k)
  <2>1. req[k].at \in AskPoints \ {"stale?", "evict"} /\ mark' \in [Conns -> Nat]
    BY <1>0, <1>6, <1>20 DEF EnterLine, At
  <2>2. CASE Who(k) \notin Elems(line)
    <3>1. req' \in [Conns -> Requests]
      BY <1>6, <1>8, <1>20, <1>g, <2>1, <2>2 DEF EnterLine
    <3>2. line' \in Seq(Clients) /\ places' \in Seq(Nat) /\ Len(places') = Len(line')
      <4>1. Enter(Who(k), mark[k]) /\ Who(k) \in Clients /\ mark[k] \in Nat
        BY <1>0, <1>8, <1>20, <2>1, <2>2 DEF EnterLine
      <4>2. PICK n \in 0..Len(line) :
                   line' = With(line, n, Who(k)) /\ places' = With(places, n, mark[k])
        BY <4>1 DEF Enter
      <4>3. n \in 0..Len(places)
        BY <1>0, <4>2
      <4>4. With(line, n, Who(k)) \in Seq(Clients) /\ Len(With(line, n, Who(k))) = Len(line) + 1
        BY <1>0, <4>1, <4>2, WithType
      <4>5. /\ With(places, n, mark[k]) \in Seq(Nat)
            /\ Len(With(places, n, mark[k])) = Len(places) + 1
        <5>1. places \in Seq(Nat) /\ n \in 0..Len(places) /\ mark[k] \in Nat
          BY <1>0, <4>1, <4>3
        <5> DEFINE N == Nat
        <5>2. places \in Seq(N) /\ mark[k] \in N
          BY <5>1
        <5> HIDE DEF N
        <5>3. With(places, n, mark[k]) \in Seq(N) /\ Len(With(places, n, mark[k])) = Len(places) + 1
          BY <5>1, <5>2, WithType
        <5> QED
          BY <5>3 DEF N
      <4> QED
        BY <1>0, <4>2, <4>4, <4>5
    <3> QED
      BY <1>0, <1>1, <1>20, <2>1, <2>2, <3>1, <3>2 DEF EnterLine, Unchanged
  <2>3. CASE Who(k) \in Elems(line)
    BY <1>0, <1>1, <1>4, <1>8, <1>20, <2>1, <2>3 DEF EnterLine, Unchanged
  <2> QED
    BY <2>2, <2>3
<1>15. CASE StatusHeld(k) \/ StatusQueued(k)
  <2>1. req[k].at \in AskPoints \ {"stale?", "evict"}
    BY <1>6, <1>15 DEF StatusHeld, StatusQueued, At
  <2>2. \/ OnlyMoves(k, "place?")
        \/ \E r \in {"holding", "waiting", "gone"} : Reply(k, r) /\ UNCHANGED lock /\ Unchanged
    BY <1>15 DEF StatusHeld, StatusQueued
  <2>3. CASE OnlyMoves(k, "place?")
    BY <1>2, <1>6, <1>8, <2>1, <2>3
  <2>4. CASE \E r \in {"holding", "waiting", "gone"} :
               Reply(k, r) /\ UNCHANGED lock /\ Unchanged
    BY <1>0, <1>1, <1>4, <1>8, <2>1, <2>4 DEF Unchanged, lock
  <2> QED
    BY <2>2, <2>3, <2>4
<1>16. CASE ReleaseHeld(k)
  <2>1. req[k].at \in ReleasePoints /\ \E p \in {"free", "waits?"} : OnlyMoves(k, p)
    BY <1>7, <1>16 DEF ReleaseHeld, At
  <2> QED
    BY <1>3, <1>7, <2>1
<1>17. CASE Free(k)
  <2>1. (Promote \/ UNCHANGED lock) /\ Done(k) /\ Unchanged
    BY <1>17 DEF Free
  <2> QED
    BY <1>0, <1>1, <1>5, <2>1, PromoteType DEF Unchanged, lock
<1>18. CASE ReleaseQueued(k)
  <2>1. req[k].at \in ReleasePoints
    BY <1>7, <1>18 DEF ReleaseQueued, At
  <2>2. OnlyMoves(k, "leave") \/ (Done(k) /\ UNCHANGED lock /\ Unchanged)
    BY <1>18 DEF ReleaseQueued
  <2>3. CASE OnlyMoves(k, "leave")
    BY <1>3, <1>7, <2>1, <2>3
  <2>4. CASE Done(k) /\ UNCHANGED lock /\ Unchanged
    BY <1>0, <1>1, <1>5, <2>4 DEF Unchanged, lock
  <2> QED
    BY <2>2, <2>3, <2>4
<1>19. CASE LeaveLine(k)
  <2>1. /\ line' \in Seq(Clients) /\ places' \in Seq(Nat) /\ Len(places') = Len(line')
        /\ mark' = mark
    <3>1. line' \in Seq(Clients)
      BY <1>0, <1>19, WithoutType DEF LeaveLine
    <3> QED
      BY <1>0, <1>19, <3>1, NumberedType DEF LeaveLine, Renumber
  <2> QED
    BY <1>0, <1>1, <1>5, <1>19, <2>1 DEF LeaveLine, Unchanged
<1> QED
  BY <1>9, <1>10, <1>11, <1>12, <1>13, <1>14, <1>15, <1>16, <1>17, <1>18, <1>19, <1>20
  DEF Serve

\* The clients, and what else happens, keep the state well formed
LEMMA ClientsType ==
  ASSUME LockInv, [Next]_vars, ~\E k \in Conns : Serve(k)
  PROVE  TypeOK' /\ req' \in [Conns -> Requests] /\ Len(places') = Len(line')
<1>0. /\ TypeOK /\ req \in [Conns -> Requests] /\ line \in Seq(Clients)
      /\ phase \in [Clients -> Phases] /\ beat \in [Agents -> {"none", "sent", "dead"}]
      /\ landing \in Cards \cup {NoOne} /\ evicted \subseteq Clients
      /\ holder \in Clients \cup {NoOne} /\ stale \in BOOLEAN
      /\ tested \in [Clients -> Nat] /\ tries \in [Clients -> Nat] /\ base \in Nat
      /\ lapses \in Nat /\ pushes \in Nat /\ crashes \in Nat
      /\ places \in Seq(Nat) /\ mark \in [Conns -> Nat] /\ Len(places) = Len(line)
      /\ overtaken \subseteq Clients /\ blind \subseteq Clients
  BY DEF LockInv, TypeOK
<1>1. ASSUME req' \in [Conns -> Requests], phase' \in [Clients -> Phases],
             beat' \in [Agents -> {"none", "sent", "dead"}], landing' \in Cards \cup {NoOne},
             UNCHANGED <<lock, work, evicted, bounds>>
      PROVE  TypeOK' /\ req' \in [Conns -> Requests] /\ Len(places') = Len(line')
  BY <1>0, <1>1, RequestTypes DEF TypeOK, lock, work, bounds
<1>2. /\ \A c \in Clients : /\ [who |-> c, kind |-> "first", at |-> "stale?"] \in Requests
                              /\ [who |-> c, kind |-> "poll", at |-> "stale?"] \in Requests
                              /\ [who |-> c, kind |-> "release", at |-> "release?"] \in Requests
      /\ \A a \in Agents : [who |-> a, kind |-> "beat", at |-> "stale?"] \in Requests
      /\ [who |-> NoOne, kind |-> "watch", at |-> "stale?"] \in Requests
      /\ NoRequest \in Requests
  BY DEF Requests, AskPoints, ReleasePoints, Asks
<1>3. /\ \A s \in {"asking", "leaving", "synced", "merging", "holding", "gone",
           "dead"} : s \in Phases
      /\ \A c \in Clients, s \in Phases : [phase EXCEPT ![c] = s] \in [Clients -> Phases]
  BY <1>0 DEF Phases, Working
<1>4. ASSUME NEW c \in Clients, Request(c)
      PROVE  TypeOK' /\ req' \in [Conns -> Requests] /\ Len(places') = Len(line')
  <2>1. CASE Ask(c)
    <3>1. req' \in [Conns -> Requests]
      <4>1. ConnOf(c) \in Conns
        BY ConnsOf
      <4>2. \E r \in Requests : req' = [req EXCEPT ![ConnOf(c)] = r]
        <5>1. CASE Post(ConnOf(c), c, "first", "stale?")
          BY <1>2, <5>1 DEF Post
        <5>2. CASE Post(ConnOf(c), c, "poll", "stale?")
          BY <1>2, <5>2 DEF Post
        <5> QED
          BY <2>1, <5>1, <5>2 DEF Ask
      <4> QED
        BY <1>0, <4>1, <4>2, RequestsGo
    <3>2. phase' \in [Clients -> Phases] /\ landing' \in Cards \cup {NoOne}
      BY <1>0, <1>3, <2>1 DEF Ask, EnterIntegration
    <3> QED
      BY <1>0, <1>1, <2>1, <3>1, <3>2 DEF Ask, Unchanged
  <2>2. CASE Release(c)
    <3>1. req' \in [Conns -> Requests]
      BY <1>0, <1>2, <2>2, ConnsOf, RequestsGo DEF Release, Post
    <3> QED
      BY <1>0, <1>1, <2>2, <3>1 DEF Release
  <2>3. CASE c \in Agents /\ ServeBeat(c)
    <3>1. req' \in [Conns -> Requests]
      BY <1>0, <1>2, <2>3, RequestsGo DEF ServeBeat, Post, Conns
    <3> QED
      BY <1>0, <1>1, <2>3, <3>1 DEF ServeBeat
  <2> QED
    BY <1>4, <2>1, <2>2, <2>3 DEF Request
<1>5. ASSUME NEW c \in Clients, NEW s \in {"leaving", "synced", "merging", "holding", "gone",
             "dead"},
             Move(c, s), tested' \in [Clients -> Nat], tries' \in [Clients -> Nat], base' \in Nat,
             overtaken' \subseteq Clients, blind' \subseteq Clients
      PROVE  TypeOK' /\ req' \in [Conns -> Requests] /\ Len(places') = Len(line')
  BY <1>0, <1>3, <1>5, RequestTypes DEF Move, TypeOK, lock, bounds
<1>6. ASSUME NEW c \in Clients, Land(c)
      PROVE  TypeOK' /\ req' \in [Conns -> Requests] /\ Len(places') = Len(line')
  <2>1. tested' \in [Clients -> Nat]
    BY <1>0, <1>6 DEF Land, Sync, Check, Merge, Push, Fail, work
  <2>2. tries' \in [Clients -> Nat]
    <3>1. CASE Check(c)
      BY <1>0, <3>1 DEF Check
    <3>2. CASE Sync(c) \/ Merge(c) \/ Push(c) \/ Fail(c)
      BY <1>0, <3>2 DEF Sync, Merge, Push, Fail, work
    <3> QED
      BY <1>6, <3>1, <3>2 DEF Land
  <2>3. base' \in Nat
    <3>1. CASE Merge(c) \/ Push(c)
      BY <1>0, <3>1 DEF Merge, Push, FastForward
    <3>2. CASE Sync(c) \/ Check(c) \/ Fail(c)
      BY <1>0, <3>2 DEF Sync, Check, Fail, work
    <3> QED
      BY <1>6, <3>1, <3>2 DEF Land
  <2>5. overtaken' \subseteq Clients /\ blind' \subseteq Clients
    BY <1>0, <1>6 DEF Land, Sync, Check, Merge, Push, Fail, work
  <2>4. \E s \in {"leaving", "synced", "merging", "holding"} : Move(c, s)
    BY <1>6 DEF Land, Sync, Check, Verdict, Merge, Push, Fail
  <2> QED
    BY <1>5, <2>1, <2>2, <2>3, <2>4, <2>5
<1>7. ASSUME NEW a \in Agents, SendBeat(a) \/ Interrupt(a) \/ Kill(a)
      PROVE  TypeOK' /\ req' \in [Conns -> Requests] /\ Len(places') = Len(line')
  <2>1. CASE SendBeat(a)
    BY <1>0, <1>1, <2>1 DEF SendBeat
  <2>2. CASE Interrupt(a) \/ Kill(a)
    <3>1. UNCHANGED work /\ a \in Clients /\ \E s \in {"gone", "leaving", "dead"} : Move(a, s)
      BY <2>2 DEF Interrupt, Kill, Clients
    <3> QED
      BY <1>0, <1>5, <3>1 DEF work
  <2> QED
    BY <1>7, <2>1, <2>2
<1>8. CASE Watch
  <2>1. req' \in [Conns -> Requests]
    BY <1>0, <1>2, <1>8, RequestsGo DEF Watch, Post, Conns
  <2> QED
    BY <1>0, <1>1, <1>8, <2>1 DEF Watch
<1>9. CASE Lapse \/ PushByHand
  <2>1. /\ lapses' \in Nat /\ pushes' \in Nat /\ crashes' \in Nat /\ base' \in Nat
        /\ stale' \in BOOLEAN /\ overtaken' \subseteq Clients
    <3>1. CASE Lapse
      BY <1>0, <3>1 DEF Lapse, work
    <3>2. CASE PushByHand
      BY <1>0, <3>2 DEF PushByHand, lock
    <3> QED
      BY <1>9, <3>1, <3>2
  <2>2. UNCHANGED <<holder, line, places, mark, req, landing, phase, tested, tries, blind, beat,
                    evicted>>
    BY <1>9 DEF Lapse, PushByHand, lock, work
  <2> QED
    BY <1>0, <2>1, <2>2, RequestTypes DEF TypeOK
<1>10. CASE Crash
  <2>1. req' \in [Conns -> Requests]
    BY <1>2, <1>10 DEF Crash
  <2>2. phase' \in [Clients -> Phases]
    <3>1. \A c \in Clients : phase[c] \in Phases /\ {"dead", "gone"} \subseteq Phases
      BY <1>0, <1>3
    <3> QED
      BY <1>10, <3>1 DEF Crash
  <2>3. beat' \in [Agents -> {"none", "sent", "dead"}]
    BY <1>0, <1>10 DEF Crash
  <2>4. mark' \in [Conns -> Nat]
    BY <1>10 DEF Crash
  <2> QED
    BY <1>0, <1>10, <2>1, <2>2, <2>3, <2>4, RequestTypes DEF Crash, TypeOK, work
<1>11. CASE UNCHANGED vars
  BY <1>0, <1>1, <1>11 DEF vars, lock, work, bounds
<1> QED
  BY <1>4, <1>6, <1>7, <1>8, <1>9, <1>10, <1>11 DEF Next

-----------------------------------------------------------------------------
(* One landing at a time *)

\* What serving a request does to those who work: it sets to work only who holds the lock, and
\* takes the lock only from who does not work or is evicted
LEMMA ServeDoes ==
  ASSUME LockInv, NEW k \in Conns, Serve(k)
  PROVE  /\ \A h \in Conns : req'[h].kind = "release" =>
              req[h].kind = "release" /\ req'[h].who = req[h].who
         /\ \A c \in Clients :
              \/ phase'[c] = phase[c]
              \/ phase[c] = "asking" /\ phase'[c] \in {"waiting", "gone"}
              \/ phase[c] = "asking" /\ phase'[c] = "holding" /\ holder = c /\ holder' = c
              \/ phase[c] = "leaving" /\ phase'[c] = "gone"
         /\ \A c \in Clients : holder = c /\ c \in AtWork /\ c \notin evicted' => holder' = c
         /\ evicted \subseteq evicted' /\ UNCHANGED work
<1>0. /\ req \in [Conns -> Requests] /\ phase \in [Clients -> Phases] /\ NoOne \notin Clients
      /\ \A h \in Conns : Leaves(h)
  BY DEF LockInv, TypeOK
<1>1. ASSUME NEW p, req' = [req EXCEPT ![k] = NoRequest] \/ Goto(k, p)
      PROVE  \A h \in Conns : req'[h].kind = "release" =>
               req[h].kind = "release" /\ req'[h].who = req[h].who
  <2>1. NoRequest.kind # "release"
    BY DEF NoRequest
  <2>2. \A r \in Requests : [r EXCEPT !.at = p].kind = r.kind /\ [r EXCEPT !.at = p].who = r.who
    BY DEF Requests, NoRequest
  <2> QED
    BY <1>0, <1>1, <2>1, <2>2 DEF Goto
<1>2. ASSUME NEW p, OnlyMoves(k, p)
      PROVE  /\ \A h \in Conns : req'[h].kind = "release" =>
                  req[h].kind = "release" /\ req'[h].who = req[h].who
             /\ phase' = phase /\ holder' = holder /\ evicted' = evicted /\ UNCHANGED work
  BY <1>1, <1>2 DEF OnlyMoves, Unchanged, lock
<1>3. ASSUME NEW r, Reply(k, r), r \in {"waiting", "gone"} \/ (r = "holding" /\ holder = Who(k)),
             UNCHANGED holder, Unchanged
      PROVE  /\ \A h \in Conns : req'[h].kind = "release" =>
                  req[h].kind = "release" /\ req'[h].who = req[h].who
             /\ \A c \in Clients :
                  \/ phase'[c] = phase[c]
                  \/ phase[c] = "asking" /\ phase'[c] \in {"waiting", "gone"}
                  \/ phase[c] = "asking" /\ phase'[c] = "holding" /\ holder = c /\ holder' = c
             /\ evicted' = evicted /\ UNCHANGED work
  <2>1. req' = [req EXCEPT ![k] = NoRequest] /\ evicted' = evicted /\ UNCHANGED work
    BY <1>3 DEF Reply, Unchanged
  <2>2. \/ phase' = phase
        \/ phase[Who(k)] = "asking" /\ phase' = [phase EXCEPT ![Who(k)] = r]
    BY <1>3 DEF Reply
  <2> QED
    BY <1>0, <1>1, <1>3, <2>1, <2>2
<1>4. ASSUME Done(k), Unchanged
      PROVE  /\ \A h \in Conns : req'[h].kind = "release" =>
                  req[h].kind = "release" /\ req'[h].who = req[h].who
             /\ \A c \in Clients : \/ phase'[c] = phase[c]
                                   \/ phase[c] = "leaving" /\ phase'[c] = "gone"
             /\ evicted' = evicted /\ UNCHANGED work
  <2>1. req' = [req EXCEPT ![k] = NoRequest] /\ evicted' = evicted /\ UNCHANGED work
    BY <1>4 DEF Done, Unchanged
  <2>2. phase' = phase \/ (phase[Who(k)] = "leaving" /\ phase' = [phase EXCEPT ![Who(k)] = "gone"])
    BY <1>4 DEF Done
  <2> QED
    BY <1>0, <1>1, <2>1, <2>2
<1>5. CASE SelectStale(k)
  <2>1. (\E p \in Points : OnlyMoves(k, p))
        \/ /\ req' = [req EXCEPT ![k] = NoRequest]
           /\ UNCHANGED <<lock, phase>> /\ Unchanged
    BY <1>5 DEF SelectStale, Points
  <2> QED
    BY <1>1, <1>2, <2>1 DEF lock, Unchanged
<1>6. CASE Evict(k)
  <2>1. /\ req' = [req EXCEPT ![k] = NoRequest] \/ \E p \in Points : Goto(k, p)
        /\ UNCHANGED <<phase, work>> /\ evicted' = evicted \cup ({holder} \cap AtWork)
    BY <1>6 DEF Evict, Points
  <2> QED
    BY <1>1, <2>1
<1>7. CASE SelectHeld(k) \/ SelectQueued(k) \/ SelectCurrent(k) \/ ReleaseHeld(k)
  BY <1>2, <1>7 DEF SelectHeld, SelectQueued, SelectCurrent, ReleaseHeld
<1>8. CASE Heartbeat(k)
  BY <1>1, <1>8 DEF Heartbeat, Unchanged
<1>9. CASE Insert(k)
  <2>1. CASE FreeSlot
    BY <1>0, <1>1, <1>9, <2>1 DEF Insert, FreeSlot, Unchanged
  <2>2. CASE ~FreeSlot
    BY <1>3, <1>9, <2>2 DEF Insert, lock, Unchanged
  <2> QED
    BY <2>1, <2>2
<1>10. CASE Join(k)
  BY <1>1, <1>10 DEF Join, Unchanged
<1>16. CASE EnterLine(k)
  <2>1. CASE Who(k) \in Elems(line)
    BY <1>3, <1>16, <2>1 DEF EnterLine
  <2>2. CASE Who(k) \notin Elems(line)
    BY <1>1, <1>16, <2>2 DEF EnterLine, Unchanged
  <2> QED
    BY <2>1, <2>2
<1>11. CASE StatusHeld(k)
  BY <1>2, <1>3, <1>11 DEF StatusHeld, lock
<1>12. CASE StatusQueued(k)
  BY <1>3, <1>12 DEF StatusQueued, lock
<1>13. CASE Free(k)
  <2>1. Done(k) /\ Unchanged
    BY <1>13 DEF Free
  <2>2. req[k].kind = "release"
    BY <1>0, <1>13, RequestIs DEF Free, At, ReleasePoints
  <2>3. Who(k) \notin AtWork
    BY <1>0, <2>2 DEF Leaves, AtWork, Working
  <2>4. \A c \in Clients : holder = c /\ c \in AtWork => holder' = c
    BY <1>0, <1>13, <2>3 DEF Free, lock
  <2> QED
    BY <1>4, <2>1, <2>4
<1>14. CASE ReleaseQueued(k)
  BY <1>2, <1>4, <1>14 DEF ReleaseQueued, lock
<1>15. CASE LeaveLine(k)
  BY <1>4, <1>15 DEF LeaveLine
<1> QED
  BY <1>5, <1>6, <1>7, <1>8, <1>9, <1>10, <1>11, <1>12, <1>13, <1>14, <1>15, <1>16
  DEF Serve

\* The rest of the invariant survives a request that is served
LEMMA ServeKeeps ==
  ASSUME LockInv, NEW k \in Conns, Serve(k)
  PROVE  (\A h \in Conns : Leaves(h)') /\ WorkersHold' /\ MergesTested'
<1>0. /\ req \in [Conns -> Requests] /\ req' \in [Conns -> Requests]
      /\ (\A h \in Conns : Leaves(h)) /\ WorkersHold /\ MergesTested
  BY ServeType DEF LockInv
<1>1. ASSUME NEW h \in Conns
      PROVE  Leaves(h)'
  <2>1. SUFFICES ASSUME req'[h].kind = "release"
                 PROVE  phase'[req'[h].who] \in {"leaving", "gone", "dead"}
    BY DEF Leaves, Who
  <2>2. /\ req[h].kind = "release" /\ req'[h].who = req[h].who
        /\ phase[req[h].who] \in {"leaving", "gone", "dead"}
    BY <1>0, <2>1, ServeDoes DEF Leaves, Who
  <2>3. req[h].who \in Clients
    BY <1>0, <2>2 DEF Requests, NoRequest, Asks
  <2> QED
    BY <2>2, <2>3, ServeDoes
<1>2. WorkersHold'
  <2>1. SUFFICES ASSUME NEW c \in Clients, phase'[c] \in Working, c \notin evicted'
                 PROVE  holder' = c
    BY DEF WorkersHold, AtWork
  <2>2. CASE phase'[c] = phase[c]
    BY <1>0, <2>1, <2>2, ServeDoes DEF WorkersHold, AtWork
  <2>3. CASE phase'[c] # phase[c]
    BY <2>1, <2>3, ServeDoes DEF Working
  <2> QED
    BY <2>2, <2>3
<1>3. MergesTested'
  <2>1. SUFFICES ASSUME evicted' = {}, NEW c \in Clients
                 PROVE  /\ phase'[c] \in {"synced", "merging"} /\ c \notin overtaken'
                             => tested'[c] = base'
                        /\ phase'[c] = "merging" /\ c \notin blind' => tested'[c] = base'
    BY DEF MergesTested
  <2>2. /\ evicted = {} /\ UNCHANGED work
        /\ phase'[c] \in {"synced", "merging"} => phase[c] = phase'[c]
    BY <2>1, ServeDoes
  <2> QED
    BY <1>0, <2>1, <2>2 DEF MergesTested, work
<1> QED
  BY <1>1, <1>2, <1>3

\* What the clients do, and what else happens, changes neither the lock nor who was evicted,
\* sets nobody to work, and asks for a release only of the lease of who stopped working
LEMMA ClientsDo ==
  ASSUME LockInv, [Next]_vars, ~\E k \in Conns : Serve(k)
  PROVE  /\ UNCHANGED <<holder, line, evicted>>
         /\ \A c \in Clients : phase'[c] \in Working => phase[c] \in Working
         /\ \A c \in Clients : phase[c] \in {"leaving", "gone", "dead"} =>
              phase'[c] \in {"leaving", "gone", "dead"}
         /\ \A h \in Conns : req'[h].kind = "release" =>
              phase'[req'[h].who] \in {"leaving", "gone", "dead"}
<1>0. /\ req \in [Conns -> Requests] /\ phase \in [Clients -> Phases] /\ NoOne \notin Clients
      /\ \A h \in Conns : Leaves(h)
  BY DEF LockInv, TypeOK
<1>1. ASSUME req' = req, \A c \in Clients : phase[c] \in {"leaving", "gone", "dead"} =>
                           phase'[c] \in {"leaving", "gone", "dead"}
      PROVE  \A h \in Conns : req'[h].kind = "release" =>
               phase'[req'[h].who] \in {"leaving", "gone", "dead"}
  <2>1. SUFFICES ASSUME NEW h \in Conns, req[h].kind = "release"
                 PROVE  phase'[req[h].who] \in {"leaving", "gone", "dead"}
    BY <1>1
  <2>2. req[h].who \in Clients
    BY <1>0, <2>1 DEF Requests, NoRequest, Asks
  <2> QED
    BY <1>0, <1>1, <2>1, <2>2 DEF Leaves, Who
<1>2. ASSUME NEW k \in Conns, NEW c, NEW kind, NEW point, Post(k, c, kind, point),
             kind = "release" => phase[c] = "leaving" /\ phase' = phase,
             \A d \in Clients : phase[d] \in {"leaving", "gone", "dead"} =>
               phase'[d] \in {"leaving", "gone", "dead"}
      PROVE  \A h \in Conns : req'[h].kind = "release" =>
               phase'[req'[h].who] \in {"leaving", "gone", "dead"}
  <2>1. SUFFICES ASSUME NEW h \in Conns, req'[h].kind = "release"
                 PROVE  phase'[req'[h].who] \in {"leaving", "gone", "dead"}
    OBVIOUS
  <2>2. CASE h = k
    BY <1>0, <1>2, <2>1, <2>2 DEF Post
  <2>3. CASE h # k
    <3>1. req'[h] = req[h]
      BY <1>0, <1>2, <2>3 DEF Post
    <3>2. req[h].who \in Clients
      BY <1>0, <2>1, <3>1 DEF Requests, NoRequest, Asks
    <3> QED
      BY <1>0, <1>2, <2>1, <3>1, <3>2 DEF Leaves, Who
  <2> QED
    BY <2>2, <2>3
<1>3. ASSUME NEW c \in Clients, Request(c)
      PROVE  /\ UNCHANGED <<holder, line, evicted>>
             /\ \A d \in Clients : phase'[d] \in Working => phase[d] \in Working
             /\ \A d \in Clients : phase[d] \in {"leaving", "gone", "dead"} =>
                  phase'[d] \in {"leaving", "gone", "dead"}
             /\ \A h \in Conns : req'[h].kind = "release" =>
                  phase'[req'[h].who] \in {"leaving", "gone", "dead"}
  <2>1. CASE Ask(c)
    <3>1. /\ phase[c] \in {"new", "waiting"} /\ phase' = [phase EXCEPT ![c] = "asking"]
          /\ UNCHANGED <<holder, line, evicted>>
          /\ \E kind \in Asks : Post(ConnOf(c), c, kind, "stale?")
      BY <2>1 DEF Ask, Unchanged, lock, Asks
    <3>2. /\ \A d \in Clients : phase'[d] \in Working => phase[d] \in Working
          /\ \A d \in Clients : phase[d] \in {"leaving", "gone", "dead"} =>
               phase'[d] \in {"leaving", "gone", "dead"}
      BY <1>0, <3>1 DEF Working
    <3> QED
      BY <1>2, <3>1, <3>2, ConnsOf DEF Asks
  <2>2. CASE Release(c)
    <3>1. /\ phase[c] = "leaving" /\ phase' = phase /\ UNCHANGED <<holder, line, evicted>>
          /\ Post(ConnOf(c), c, "release", "release?")
      BY <2>2 DEF Release, lock
    <3> QED
      BY <1>2, <3>1, ConnsOf
  <2>3. CASE c \in Agents /\ ServeBeat(c)
    <3>1. /\ phase' = phase /\ UNCHANGED <<holder, line, evicted>>
          /\ Post("http", c, "beat", "stale?")
      BY <2>3 DEF ServeBeat, lock
    <3> QED
      BY <1>2, <3>1 DEF Conns
  <2> QED
    BY <1>3, <2>1, <2>2, <2>3 DEF Request
<1>4. ASSUME NEW c \in Clients, NEW s, Move(c, s),
             s \in {"leaving", "gone", "dead"} \/ (s \in Working /\ phase[c] \in Working)
      PROVE  /\ UNCHANGED <<holder, line, evicted>>
             /\ \A d \in Clients : phase'[d] \in Working => phase[d] \in Working
             /\ \A d \in Clients : phase[d] \in {"leaving", "gone", "dead"} =>
                  phase'[d] \in {"leaving", "gone", "dead"}
             /\ \A h \in Conns : req'[h].kind = "release" =>
                  phase'[req'[h].who] \in {"leaving", "gone", "dead"}
  <2>1. phase' = [phase EXCEPT ![c] = s] /\ req' = req /\ UNCHANGED <<holder, line, evicted>>
    BY <1>4 DEF Move, lock
  <2>2. /\ \A d \in Clients : phase'[d] \in Working => phase[d] \in Working
        /\ \A d \in Clients : phase[d] \in {"leaving", "gone", "dead"} =>
             phase'[d] \in {"leaving", "gone", "dead"}
    BY <1>0, <1>4, <2>1 DEF Working
  <2> QED
    BY <1>1, <2>1, <2>2
<1>5. CASE \E c \in Clients : Land(c)
  <2>1. \E c \in Clients, s \in {"leaving", "synced", "merging", "holding"} :
          Move(c, s) /\ phase[c] \in Working
    BY <1>5 DEF Land, Sync, Check, Verdict, Merge, Push, Fail, Working
  <2>2. {"synced", "merging", "holding"} \subseteq Working
    BY DEF Working
  <2> QED
    BY <1>4, <2>1, <2>2
<1>6. CASE \E a \in Agents : SendBeat(a) \/ Interrupt(a) \/ Kill(a)
  <2>1. \/ UNCHANGED <<holder, line, evicted, phase, req>>
        \/ \E a \in Agents, s \in {"gone", "leaving", "dead"} : Move(a, s)
    BY <1>6 DEF SendBeat, Interrupt, Kill, lock
  <2>2. CASE UNCHANGED <<holder, line, evicted, phase, req>>
    BY <1>1, <2>2
  <2>3. CASE \E a \in Agents, s \in {"gone", "leaving", "dead"} : Move(a, s)
    BY <1>4, <2>3 DEF Clients
  <2> QED
    BY <2>1, <2>2, <2>3
<1>7. CASE Watch
  <2>1. /\ phase' = phase /\ UNCHANGED <<holder, line, evicted>>
        /\ Post("http", NoOne, "watch", "stale?")
    BY <1>7 DEF Watch, lock
  <2> QED
    BY <1>2, <2>1 DEF Conns
<1>8. CASE Lapse \/ PushByHand \/ UNCHANGED vars
  <2>1. UNCHANGED <<holder, line, evicted, phase, req>>
    BY <1>8 DEF Lapse, PushByHand, vars, lock
  <2> QED
    BY <1>1, <2>1
<1>9. CASE Crash
  <2>1. /\ UNCHANGED <<holder, line, evicted>> /\ req' = [k \in Conns |-> NoRequest]
        /\ \A c \in Clients : phase'[c] \in {phase[c], "dead", "gone"}
    BY <1>0, <1>9 DEF Crash, lock
  <2>2. \A h \in Conns : req'[h].kind # "release"
    BY <2>1 DEF NoRequest
  <2>3. \A c \in Clients : phase'[c] \in Working => phase[c] \in Working
    BY <2>1 DEF Working
  <2> QED
    BY <2>1, <2>2, <2>3
<1> QED
  BY <1>3, <1>5, <1>6, <1>7, <1>8, <1>9 DEF Next

\* The only one at work on a base until somebody is evicted is its holder
LEMMA OneWorker ==
  ASSUME LockInv, evicted = {}, NEW c \in AtWork, NEW d \in AtWork
  PROVE  c = d
BY DEF LockInv, WorkersHold

\* The rest of the invariant survives what the clients do
LEMMA ClientsKeep ==
  ASSUME LockInv, [Next]_vars, ~\E k \in Conns : Serve(k)
  PROVE  (\A h \in Conns : Leaves(h)') /\ WorkersHold' /\ MergesTested'
<1>0. /\ phase \in [Clients -> Phases] /\ tested \in [Clients -> Nat] /\ base \in Nat
      /\ WorkersHold /\ MergesTested /\ UNCHANGED <<holder, line, evicted>>
  BY ClientsDo DEF LockInv, TypeOK
<1>1. (\A h \in Conns : Leaves(h)')
  BY ClientsDo DEF Leaves, Who
<1>2. WorkersHold'
  BY <1>0, ClientsDo DEF WorkersHold, AtWork
<1>3. MergesTested'
  <2>1. SUFFICES ASSUME evicted' = {}, NEW c \in Clients, phase'[c] \in {"synced", "merging"}
                 PROVE  /\ c \notin overtaken' => tested'[c] = base'
                        /\ phase'[c] = "merging" /\ c \notin blind' => tested'[c] = base'
    BY DEF MergesTested
  <2>2. evicted = {} /\ phase'[c] \in Working /\ c \in AtWork
    BY <1>0, <2>1, ClientsDo DEF Working, AtWork
  <2>3. ASSUME phase'[c] = phase[c], UNCHANGED work
        PROVE  /\ c \notin overtaken' => tested'[c] = base'
               /\ phase'[c] = "merging" /\ c \notin blind' => tested'[c] = base'
    BY <1>0, <2>1, <2>2, <2>3 DEF MergesTested, work
  <2>4. ASSUME NEW d \in Clients, NEW s \in {"gone", "leaving", "dead", "asking"},
               phase' = [phase EXCEPT ![d] = s]
        PROVE  phase'[c] = phase[c]
    BY <1>0, <2>1, <2>4
  <2>5. CASE \E d \in Clients : Land(d)
    <3>1. PICK d \in Clients : Land(d)
      BY <2>5
    <3>2. d \in AtWork
      BY <3>1 DEF Land, Sync, Check, Merge, Push, Fail, Working, AtWork
    <3>3. c = d
      BY <2>2, <3>2, OneWorker
    <3>4. Sync(c) \/ Check(c)
      <4>1. ~Merge(c) /\ ~Push(c) /\ ~Fail(c)
        BY <1>0, <2>1, <2>2 DEF Merge, Push, Fail, Move
      <4> QED
        BY <3>1, <3>3, <4>1 DEF Land
    <3>5. CASE Sync(c)
      <4>1. phase'[c] = "synced" /\ UNCHANGED base
        BY <1>0, <3>5 DEF Sync, Move
      <4> QED
        BY <1>0, <3>5, <4>1 DEF Sync
    <3>6. CASE Check(c)
      <4>1. phase[c] = "synced" /\ UNCHANGED <<tested, base, overtaken>>
        BY <3>6 DEF Check
      <4>2. c \notin overtaken' => tested'[c] = base'
        BY <1>0, <2>2, <4>1 DEF MergesTested
      <4>3. CASE Verdict(c, StillCurrent(c))
        <5>1. phase'[c] = "merging" => StillCurrent(c)
          BY <1>0, <4>3 DEF Verdict, Move
        <5> QED
          BY <4>1, <4>2, <5>1 DEF StillCurrent
      <4>4. CASE blind' = blind \cup {c}
        BY <4>2, <4>4
      <4> QED
        BY <3>6, <4>3, <4>4 DEF Check
    <3> QED
      BY <3>4, <3>5, <3>6
  <2>6. CASE \E d \in Clients : Request(d)
    <3>1. PICK d \in Clients : Request(d)
      BY <2>6
    <3>2. /\ UNCHANGED work
          /\ phase' = phase \/ phase' = [phase EXCEPT ![d] = "asking"]
      BY <3>1 DEF Request, Ask, Release, ServeBeat, Unchanged
    <3> QED
      BY <2>3, <2>4, <3>2
  <2>7. CASE \E a \in Agents : SendBeat(a) \/ Interrupt(a) \/ Kill(a)
    <3>1. /\ UNCHANGED work
          /\ \/ phase' = phase
             \/ \E a \in Clients, s \in {"gone", "leaving", "dead"} :
                  phase' = [phase EXCEPT ![a] = s]
      BY <2>7 DEF SendBeat, Interrupt, Kill, Move, Clients
    <3> QED
      BY <2>3, <2>4, <3>1
  <2>8. CASE PushByHand
    <3>1. phase[c] = "synced" /\ c \in overtaken' /\ phase'[c] = "synced"
      BY <2>1, <2>8 DEF PushByHand
    <3> QED
      BY <3>1
  <2>9. CASE Watch \/ Lapse \/ UNCHANGED vars
    BY <2>3, <2>9 DEF Watch, Lapse, vars
  <2>10. CASE Crash
    <3>1. UNCHANGED work
      BY <2>10 DEF Crash
    <3>2. phase'[c] = phase[c]
      BY <1>0, <2>10, <2>1 DEF Crash
    <3> QED
      BY <2>3, <3>1, <3>2
  <2> QED
    BY <2>5, <2>6, <2>7, <2>8, <2>9, <2>10 DEF Next
<1> QED
  BY <1>1, <1>2, <1>3

\* Every step keeps the invariant
LEMMA LockKept ==
  ASSUME LockInv, [Next]_vars
  PROVE  LockInv'
BY ServeType, ServeKeeps, ClientsType, ClientsKeep DEF LockInv

\* The invariant holds at first
LEMMA LockInit == Init => LockInv
<1> SUFFICES ASSUME Init PROVE LockInv
  OBVIOUS
<1>1. req \in [Conns -> Requests]
  BY DEF Init, Requests
<1>2. TypeOK
  <2>1. <<>> \in Seq(Clients) /\ <<>> \in Seq(Nat) /\ "new" \in Phases
    BY EmptySeq DEF Phases
  <2> QED
    BY <1>1, <2>1, RequestTypes DEF Init, TypeOK
<1>3. \A k \in Conns : Leaves(k)
  BY DEF Init, Leaves, NoRequest
<1>4. AtWork = {} /\ Len(places) = Len(line)
  BY DEF Init, AtWork, Working
<1> QED
  BY <1>1, <1>2, <1>3, <1>4 DEF LockInv, WorkersHold, MergesTested, AtWork, Working

\* The invariant holds throughout
LEMMA LockAlways == Spec => []LockInv
<1>1. LockInv /\ [Next]_vars => LockInv'
  BY LockKept
<1> QED
  BY <1>1, LockInit, PTL DEF Spec

\* The state stays well formed: the lock, the line and the requests half way through hold only
\* clients that exist (smortboard/store/api.py, landing_locks and landing_queue)
THEOREM TypeCorrect == Spec => []TypeOK
<1>1. LockInv => TypeOK
  BY DEF LockInv
<1> QED
  BY <1>1, LockAlways, PTL

\* Whatever two connections of the store write between each other's SELECTs, whoever dies and
\* however often the board restarts, two clients are at work on one base only where a lease of
\* a client at work was evicted (request_landing, _evict_stale_landing, release_landing)
THEOREM OnlyEvictionsOverlap == Spec => []OnlyEvictedOverlap
<1>1. LockInv => OnlyEvictedOverlap
  <2> SUFFICES ASSUME LockInv PROVE OnlyEvictedOverlap
    OBVIOUS
  <2>1. AtWork \ evicted \subseteq {holder}
    BY DEF LockInv, WorkersHold
  <2>2. IsFiniteSet({holder}) /\ Cardinality({holder}) = 1
    BY FS_Singleton
  <2>3. /\ Cardinality(AtWork \ evicted) <= Cardinality({holder})
        /\ IsFiniteSet(AtWork \ evicted)
    BY <2>1, <2>2, FS_Subset
  <2> QED
    BY <2>2, <2>3 DEF OnlyEvictedOverlap
<1> QED
  BY <1>1, LockAlways, PTL

\* Until a lease of a client at work is evicted, what lands was tested on the very base it lands
\* on, wherever one fetch was good: integrate's own before it merges, or the sync's, if nobody
\* pushed by hand since; and an agent's push is a fast forward (land_card.py, integrate.py,
\* land_cli.py)
THEOREM LandsOnlyTested == Spec => LandsTested
<1>1. LockInv /\ [Next]_vars =>
        [\A c \in Clients : Lands(c) /\ evicted = {} /\ c \notin blind \cap overtaken
           => tested[c] = base]_vars
  <2> SUFFICES ASSUME LockInv, [Next]_vars, NEW c \in Clients, Lands(c), evicted = {},
                      c \notin blind \cap overtaken
               PROVE  tested[c] = base
    OBVIOUS
  <2>0. /\ phase \in [Clients -> Phases] /\ MergesTested
    BY DEF LockInv, TypeOK
  <2>1. phase[c] \in Working /\ phase'[c] = "leaving" /\ base' # base
    BY DEF Lands
  <2>2. CASE \E d \in Clients : Land(d)
    <3>1. PICK d \in Clients : Land(d)
      BY <2>2
    <3>2. c = d
      BY <2>1, <3>1, OneWorker DEF Land, Sync, Check, Merge, Push, Fail, Working, AtWork
    <3>3. Merge(c) \/ Push(c)
      BY <2>1, <3>1, <3>2 DEF Land, Sync, Check, Fail, work
    <3>4. CASE Merge(c)
      BY <2>0, <3>4 DEF Merge, MergesTested
    <3>5. CASE Push(c)
      BY <2>1, <3>5 DEF Push, FastForward
    <3> QED
      BY <3>3, <3>4, <3>5
  <2>3. CASE PushByHand
    BY <2>1, <2>3 DEF PushByHand, Working
  <2>4. CASE \E k \in Conns : Serve(k)
    BY <2>1, <2>4, ServeDoes DEF work
  <2>5. CASE ~((\E d \in Clients : Land(d)) \/ PushByHand \/ \E k \in Conns : Serve(k))
    <3>1. UNCHANGED base
      <4>1. CASE \E d \in Clients : Request(d)
        BY <4>1 DEF Request, Ask, Release, ServeBeat, Unchanged, work
      <4>2. CASE \E a \in Agents : SendBeat(a) \/ Interrupt(a) \/ Kill(a)
        BY <4>2 DEF SendBeat, Interrupt, Kill, work
      <4>3. CASE Watch \/ Lapse \/ Crash \/ UNCHANGED vars
        BY <4>3 DEF Watch, Lapse, Crash, vars, work
      <4> QED
        BY <2>5, <4>1, <4>2, <4>3 DEF Next
    <3> QED
      BY <2>1, <3>1
  <2> QED
    BY <2>2, <2>3, <2>4, <2>5
<1> QED
  BY <1>1, LockAlways, PTL DEF Spec, LandsTested

-----------------------------------------------------------------------------
(* One connection: the landings of agents, through the one server *)

\* Agents alone use the one connection of the server.  What a SELECT saw then still stands at the
\* next statement, and nobody waits for a base that nobody holds
OneConnInv ==
  /\ LockInv /\ req["board"] = NoRequest
  /\ At("http", "evict") => holder # NoOne /\ stale
  /\ At("http", "join") \/ At("http", "enter") => holder # NoOne
  /\ holder = NoOne => line = <<>>

\* With one connection every step keeps that
LEMMA OneConnKept ==
  ASSUME Cards = {}, OneConnInv, [Next]_vars
  PROVE  OneConnInv'
<1>0. /\ LockInv /\ LockInv' /\ req["board"] = NoRequest /\ req \in [Conns -> Requests]
      /\ req' \in [Conns -> Requests] /\ line \in Seq(Clients) /\ NoOne \notin Clients
      /\ holder \in Clients \cup {NoOne}
      /\ \A c \in Clients : ConnOf(c) = "http"
  BY LockKept DEF OneConnInv, LockInv, TypeOK, ConnOf, Clients
<1>1. ASSUME NEW k \in Conns, Serve(k)
      PROVE  k = "http"
  BY <1>0, <1>1 DEF Conns, NoRequest, Serve, SelectStale, Evict, SelectHeld, Heartbeat,
       SelectQueued, SelectCurrent, Insert, Join, EnterLine, StatusHeld, StatusQueued,
       ReleaseHeld, Free, ReleaseQueued, LeaveLine, At
<1>a. ASSUME NEW p, Goto("http", p), p \notin {"evict", "join", "enter"}
      PROVE  /\ req'["board"] = NoRequest /\ ~At("http", "evict")' /\ ~At("http", "join")'
             /\ ~At("http", "enter")'
  <2>1. \A r \in Requests : [r EXCEPT !.at = p].at = p
    BY DEF Requests, NoRequest
  <2> QED
    BY <1>0, <1>a, <2>1 DEF Goto, At, Conns
<1>b. ASSUME req' = [req EXCEPT !["http"] = NoRequest]
      PROVE  /\ req'["board"] = NoRequest /\ ~At("http", "evict")' /\ ~At("http", "join")'
             /\ ~At("http", "enter")'
  BY <1>0, <1>b DEF At, Conns, NoRequest
<1>c. ASSUME NEW p, Goto("http", p)
      PROVE  req'["board"] = NoRequest
  BY <1>0, <1>c DEF Goto, Conns
<1>2. CASE Serve("http")
  <2>1. ASSUME NEW p, OnlyMoves("http", p), p \notin {"evict", "join", "enter"}
        PROVE  OneConnInv'
    BY <1>0, <1>a, <2>1 DEF OneConnInv, OnlyMoves, lock
  <2>2. ASSUME req' = [req EXCEPT !["http"] = NoRequest], UNCHANGED lock
        PROVE  OneConnInv'
    BY <1>0, <1>b, <2>2 DEF OneConnInv, lock
  <2>3. CASE SelectStale("http")
    <3>1. CASE holder # NoOne /\ stale
      BY <1>0, <1>c, <2>3, <3>1 DEF SelectStale, OnlyMoves, OneConnInv, lock
    <3>2. CASE ~(holder # NoOne /\ stale) /\ req["http"].kind = "watch"
      BY <2>2, <2>3, <3>2 DEF SelectStale
    <3>3. CASE ~(holder # NoOne /\ stale) /\ req["http"].kind # "watch"
      <4>1. \E p \in {"held?", "free?"} : OnlyMoves("http", p)
        BY <2>3, <3>3 DEF SelectStale
      <4> QED
        BY <2>1, <4>1
    <3> QED
      BY <3>1, <3>2, <3>3
  <2>4. CASE Evict("http")
    <3>1. /\ Promote
          /\ req' = [req EXCEPT !["http"] = NoRequest] \/ \E p \in {"held?",
               "free?"} : Goto("http", p)
      BY <2>4 DEF Evict, Drop
    <3>2. /\ req'["board"] = NoRequest /\ ~At("http", "evict")' /\ ~At("http", "join")'
             /\ ~At("http", "enter")'
      BY <1>a, <1>b, <3>1
    <3>3. holder' = NoOne => line' = <<>>
      BY <1>0, <3>1, PromoteType
    <3> QED
      BY <1>0, <3>2, <3>3 DEF OneConnInv
  <2>5. CASE SelectHeld("http") \/ SelectQueued("http") \/ ReleaseHeld("http")
    <3>1. \E p \in Points : OnlyMoves("http", p) /\ p \notin {"evict", "join", "enter"}
      BY <2>5 DEF SelectHeld, SelectQueued, ReleaseHeld, Points
    <3> QED
      BY <2>1, <3>1
  <2>6. CASE Heartbeat("http")
    BY <1>0, <1>a, <2>6 DEF Heartbeat, OneConnInv
  <2>7. CASE SelectCurrent("http")
    <3>1. CASE FreeSlot
      BY <2>1, <2>7, <3>1 DEF SelectCurrent
    <3>2. CASE ~FreeSlot
      <4>1. Goto("http", "join") /\ UNCHANGED lock
        BY <2>7, <3>2 DEF SelectCurrent, OnlyMoves
      <4>2. ~At("http", "evict")'
        <5>1. \A r \in Requests : [r EXCEPT !.at = "join"].at = "join"
          BY DEF Requests, NoRequest
        <5> QED
          BY <1>0, <4>1, <5>1 DEF Goto, At, Conns
      <4> QED
        BY <1>0, <1>c, <3>2, <4>1, <4>2 DEF OneConnInv, FreeSlot, lock
    <3> QED
      BY <3>1, <3>2
  <2>8. CASE Insert("http")
    <3>1. CASE FreeSlot
      <4>1. Goto("http", "granted?") /\ holder' = Who("http")
        BY <2>8, <3>1 DEF Insert
      <4>2. Who("http") \in Clients
        <5>1. req["http"].at \in AskPoints \ {"stale?", "evict"}
          BY <2>8 DEF Insert, At, AskPoints
        <5> QED
          BY <1>0, <5>1, RequestIs DEF Conns
      <4> QED
        BY <1>0, <1>a, <4>1, <4>2 DEF OneConnInv
    <3>2. CASE ~FreeSlot
      BY <2>2, <2>8, <3>2 DEF Insert, Reply
    <3> QED
      BY <3>1, <3>2
  <2>9. CASE Join("http")
    <3>1. Goto("http", "enter") /\ UNCHANGED <<holder, line>> /\ holder # NoOne
      BY <2>9 DEF Join, OneConnInv
    <3>2. ~At("http", "evict")'
      <4>1. \A r \in Requests : [r EXCEPT !.at = "enter"].at = "enter"
        BY DEF Requests, NoRequest
      <4> QED
        BY <1>0, <3>1, <4>1 DEF Goto, At, Conns
    <3> QED
      BY <1>0, <1>c, <3>1, <3>2 DEF OneConnInv
  <2>14. CASE EnterLine("http")
    <3>1. CASE Who("http") \in Elems(line)
      <4>1. req' = [req EXCEPT !["http"] = NoRequest] /\ UNCHANGED <<holder, line>>
        BY <2>14, <3>1 DEF EnterLine, Reply
      <4> QED
        BY <1>0, <1>b, <4>1 DEF OneConnInv
    <3>2. CASE Who("http") \notin Elems(line)
      <4>1. holder # NoOne /\ UNCHANGED holder /\ Goto("http", "granted?")
        BY <2>14, <3>2 DEF EnterLine, OneConnInv
      <4> QED
        BY <1>0, <1>a, <4>1 DEF OneConnInv
    <3> QED
      BY <3>1, <3>2
  <2>10. CASE StatusHeld("http") \/ StatusQueued("http")
    <3>1. \/ OnlyMoves("http", "place?")
          \/ req' = [req EXCEPT !["http"] = NoRequest] /\ UNCHANGED lock
      BY <2>10 DEF StatusHeld, StatusQueued, Reply
    <3> QED
      BY <2>1, <2>2, <3>1
  <2>11. CASE Free("http")
    <3>1. req' = [req EXCEPT !["http"] = NoRequest] /\ (Promote \/ UNCHANGED lock)
      BY <2>11 DEF Free, Done
    <3>2. CASE Promote
      BY <1>0, <1>b, <3>1, <3>2, PromoteType DEF OneConnInv
    <3> QED
      BY <2>2, <3>1, <3>2
  <2>12. CASE ReleaseQueued("http")
    <3>1. \/ OnlyMoves("http", "leave")
          \/ req' = [req EXCEPT !["http"] = NoRequest] /\ UNCHANGED lock
      BY <2>12 DEF ReleaseQueued, Done
    <3> QED
      BY <2>1, <2>2, <3>1
  <2>13. CASE LeaveLine("http")
    <3>1. req' = [req EXCEPT !["http"] = NoRequest] /\ UNCHANGED holder
      BY <2>13 DEF LeaveLine, Done
    <3>2. holder = NoOne => line' = line
      BY <2>13, EmptySeq DEF LeaveLine, OneConnInv, Elems
    <3> QED
      BY <1>0, <1>b, <3>1, <3>2 DEF OneConnInv
  <2> QED
    BY <1>2, <2>3, <2>4, <2>5, <2>6, <2>7, <2>8, <2>9, <2>10, <2>11, <2>12, <2>13, <2>14
    DEF Serve
<1>3. CASE ~\E k \in Conns : Serve(k)
  <2>0. UNCHANGED <<holder, line>> /\ (stale => stale')
    <3>1. UNCHANGED <<holder, line>>
      BY <1>0, <1>3, ClientsDo
    <3>2. stale => stale'
      BY <1>3 DEF Next, Request, Ask, Release, ServeBeat, Land, Sync, Check, Merge, Push, Fail,
           SendBeat, Interrupt, Kill, Move, Watch, Lapse, PushByHand, Crash, vars, lock
    <3> QED
      BY <3>1, <3>2
  <2>1. ASSUME NEW c, NEW kind, NEW p, Post("http", c, kind, p), p \notin {"evict", "join", "enter"}
        PROVE  OneConnInv'
    <3>1. req'["board"] = NoRequest /\ ~At("http", "evict")' /\ ~At("http", "join")'
             /\ ~At("http", "enter")'
      BY <1>0, <2>1 DEF Post, At, Conns
    <3> QED
      BY <1>0, <2>0, <3>1 DEF OneConnInv
  <2>2. ASSUME UNCHANGED req
        PROVE  OneConnInv'
    BY <1>0, <2>0, <2>2 DEF OneConnInv, At
  <2>3. CASE \E c \in Clients : Request(c)
    <3>1. PICK c \in Clients : Request(c)
      BY <2>3
    <3>2. \E kind \in {"first", "poll", "release", "beat"}, p \in {"stale?", "release?"} :
            Post("http", c, kind, p)
      BY <1>0, <3>1 DEF Request, Ask, Release, ServeBeat
    <3> QED
      BY <2>1, <3>2
  <2>4. CASE Watch
    BY <2>1, <2>4 DEF Watch
  <2>5. CASE Crash
    BY <1>0, <2>0, <2>5 DEF OneConnInv, Crash, At, Conns, NoRequest
  <2>6. CASE ~(Watch \/ Crash \/ \E c \in Clients : Request(c))
    BY <1>3, <2>2, <2>6 DEF Next, Land, Sync, Check, Merge, Push, Fail, SendBeat, Interrupt,
         Kill, Move, Lapse, PushByHand, vars
  <2> QED
    BY <2>3, <2>4, <2>5, <2>6
<1> QED
  BY <1>1, <1>2, <1>3

\* With one connection the waiters have the positions from one on, and what was read as the next
\* one still is
PlacesInTurn ==
  /\ places = [i \in 1..Len(line) |-> i]
  /\ At("http", "enter") => mark["http"] = Len(line) + 1

\* Then who enters the line enters it last
LEMMA EntersLast ==
  ASSUME OneConnInv, PlacesInTurn, At("http", "enter"), NEW e \in Clients, Enter(e, mark["http"])
  PROVE  /\ line' = Append(line, e)
         /\ places' = [i \in 1..Len(line') |-> i]
<1>0. line \in Seq(Clients) /\ Len(line) \in Nat
  BY LenProperties DEF OneConnInv, LockInv, TypeOK
<1>1. mark["http"] = Len(line) + 1 /\ \A i \in 1..Len(line) : places[i] = i
  BY DEF PlacesInTurn
<1>2. PICK n \in 0..Len(line) : /\ PlaceAt(n, Len(line) + 1) /\ line' = With(line, n, e)
                               /\ places' = With(places, n, Len(line) + 1)
  BY <1>1 DEF Enter
<1>3. n = Len(line)
  <2>1. CASE n < Len(line)
    <3>1. Len(line) \in (n + 1)..Len(line) /\ Len(line) \in 1..Len(line)
      BY <1>0, <1>2, <2>1
    <3>2. places[Len(line)] > Len(line) + 1
      BY <1>2, <3>1 DEF PlaceAt
    <3> QED
      BY <1>0, <1>1, <3>1, <3>2
  <2> QED
    BY <1>0, <1>2, <2>1
<1>4. line' = Append(line, e)
  <2>1. line' = [i \in 1..(Len(line) + 1) |-> IF i <= Len(line) THEN line[i] ELSE
                   IF i = Len(line) + 1 THEN e ELSE line[i - 1]]
    BY <1>2, <1>3 DEF With
  <2>2. \A i \in 1..(Len(line) + 1) : line'[i] = IF i <= Len(line) THEN line[i] ELSE e
    BY <1>0, <2>1
  <2>3. line' \in Seq(Clients) /\ Len(line') = Len(line) + 1
    BY <1>0, <1>2, WithType
  <2>4. /\ Append(line, e) \in Seq(Clients) /\ Len(Append(line, e)) = Len(line) + 1
        /\ \A i \in 1..Len(line) : Append(line, e)[i] = line[i]
        /\ Append(line, e)[Len(line) + 1] = e
    BY <1>0, AppendProperties
  <2>5. \A i \in 1..(Len(line) + 1) : line'[i] = Append(line, e)[i]
    <3>1. \A i \in 1..(Len(line) + 1) : i \in 1..Len(line) \/ i = Len(line) + 1
      BY <1>0
    <3> QED
      BY <1>0, <2>2, <2>4, <3>1
  <2> QED
    BY <2>3, <2>4, <2>5, SeqEqual
<1>5. places' = [i \in 1..Len(line') |-> i]
  <2>1. Len(line') = Len(line) + 1
    BY <1>0, <1>4, AppendProperties
  <2>2. Len(places) = Len(line)
    BY DEF OneConnInv, LockInv
  <2>3. places' = [i \in 1..(Len(line) + 1) |-> IF i <= Len(line) THEN places[i] ELSE
                     IF i = Len(line) + 1 THEN Len(line) + 1 ELSE places[i - 1]]
    BY <1>2, <1>3, <2>2 DEF With
  <2>4. \A i \in 1..(Len(line) + 1) :
          (IF i <= Len(line) THEN places[i] ELSE
             IF i = Len(line) + 1 THEN Len(line) + 1 ELSE places[i - 1]) = i
    BY <1>0, <1>1
  <2> QED
    BY <2>1, <2>3, <2>4
<1> QED
  BY <1>4, <1>5

\* With one connection every step keeps the positions in turn
LEMMA PlacesKept ==
  ASSUME Cards = {}, OneConnInv, PlacesInTurn, [Next]_vars
  PROVE  PlacesInTurn'
<1>0. /\ LockInv /\ req["board"] = NoRequest /\ req \in [Conns -> Requests]
      /\ line \in Seq(Clients) /\ mark \in [Conns -> Nat]
  BY DEF OneConnInv, LockInv, TypeOK
<1>1. ASSUME UNCHANGED <<line, places, mark>>, At("http", "enter")' => At("http", "enter")
      PROVE  PlacesInTurn'
  BY <1>1 DEF PlacesInTurn
<1>2. ASSUME NEW p, Goto("http", p), p # "enter"
      PROVE  ~At("http", "enter")'
  <2>1. \A r \in Requests : [r EXCEPT !.at = p].at = p
    BY DEF Requests, NoRequest
  <2> QED
    BY <1>0, <1>2, <2>1 DEF Goto, At, Conns
<1>3. ASSUME req' = [req EXCEPT !["http"] = NoRequest]
      PROVE  ~At("http", "enter")'
  BY <1>0, <1>3 DEF At, Conns, NoRequest
<1>4. ASSUME NEW k \in Conns, Serve(k)
      PROVE  PlacesInTurn'
  <2>0. k = "http"
    BY <1>0, <1>4 DEF Conns, NoRequest, Serve, SelectStale, Evict, SelectHeld, Heartbeat,
         SelectQueued, SelectCurrent, Insert, Join, EnterLine, StatusHeld, StatusQueued,
         ReleaseHeld, Free, ReleaseQueued, LeaveLine, At
  <2>1. CASE Join("http")
    <3>1. mark'["http"] = Len(line) + 1
      <4>1. CASE line = <<>>
        BY <1>0, <2>1, <4>1, EmptySeq DEF Join, Conns
      <4>2. CASE line # <<>>
        <5>1. Len(line) \in 1..Len(line)
          BY <1>0, <4>2, EmptySeq, LenProperties
        <5>2. places[Len(line)] = Len(line)
          BY <5>1 DEF PlacesInTurn
        <5> QED
          BY <1>0, <2>1, <4>2, <5>2 DEF Join, Conns
      <4> QED
        BY <4>1, <4>2
    <3> QED
      BY <2>1, <3>1 DEF Join, PlacesInTurn
  <2>2. CASE EnterLine("http")
    <3>1. CASE Who("http") \in Elems(line)
      <4>1. req' = [req EXCEPT !["http"] = NoRequest] /\ UNCHANGED <<line, places>>
        BY <2>2, <3>1 DEF EnterLine, Reply
      <4> QED
        BY <1>3, <4>1 DEF PlacesInTurn
    <3>2. CASE Who("http") \notin Elems(line)
      <4>1. /\ At("http", "enter") /\ Enter(Who("http"), mark["http"])
            /\ Goto("http", "granted?")
        BY <2>2, <3>2 DEF EnterLine
      <4>2. Who("http") \in Clients
        <5>1. req["http"].at \in AskPoints \ {"stale?", "evict"}
          BY <4>1 DEF At, AskPoints
        <5> QED
          BY <1>0, <5>1, RequestIs DEF Conns
      <4> QED
        BY <1>2, <4>1, <4>2, EntersLast DEF PlacesInTurn
    <3> QED
      BY <3>1, <3>2
  <2>3. CASE Evict("http")
    <3>1. /\ Renumber
          /\ \/ req' = [req EXCEPT !["http"] = NoRequest]
             \/ \E p \in {"held?", "free?"} : Goto("http", p)
      BY <2>3 DEF Evict, Drop, Promote
    <3> QED
      BY <1>2, <1>3, <3>1 DEF Renumber, PlacesInTurn
  <2>4. CASE Free("http") \/ LeaveLine("http")
    <3>1. /\ Renumber \/ UNCHANGED <<line, places, mark>>
          /\ req' = [req EXCEPT !["http"] = NoRequest]
      BY <2>4 DEF Free, LeaveLine, Done, Promote, lock
    <3> QED
      BY <1>3, <3>1 DEF Renumber, PlacesInTurn
  <2>5. CASE ~(Join("http") \/ EnterLine("http") \/ Evict("http") \/ Free("http")
               \/ LeaveLine("http"))
    <3>1. /\ UNCHANGED <<line, places, mark>>
          /\ \/ req' = [req EXCEPT !["http"] = NoRequest]
             \/ \E p \in Points \ {"enter"} : Goto("http", p)
      BY <1>4, <2>0, <2>5 DEF Serve, SelectStale, SelectHeld, Heartbeat, SelectQueued,
           SelectCurrent, Insert, StatusHeld, StatusQueued, ReleaseHeld, ReleaseQueued, Reply,
           Done, OnlyMoves, lock, Points
    <3> QED
      BY <1>1, <1>2, <1>3, <3>1
  <2> QED
    BY <2>0, <2>1, <2>2, <2>3, <2>4, <2>5
<1>5. CASE ~\E k \in Conns : Serve(k)
  <2>1. ASSUME NEW k \in Conns, NEW c, NEW kind, NEW p \in {"stale?", "release?"},
               Post(k, c, kind, p)
        PROVE  At("http", "enter")' => At("http", "enter")
    BY <1>0, <2>1 DEF Post, At, Conns
  <2>2. CASE \E c \in Clients : Request(c)
    <3>1. PICK c \in Clients : Request(c)
      BY <2>2
    <3>2. /\ UNCHANGED <<line, places, mark>>
          /\ \E k \in Conns, kind \in {"first", "poll", "release", "beat"},
               p \in {"stale?", "release?"} : Post(k, c, kind, p)
      BY <3>1, ConnsOf DEF Request, Ask, Release, ServeBeat, lock, Conns
    <3> QED
      BY <1>1, <2>1, <3>2
  <2>3. CASE Watch
    BY <1>1, <2>1, <2>3 DEF Watch, lock, Conns
  <2>4. CASE Crash
    BY <2>4 DEF Crash, At, Conns, NoRequest, PlacesInTurn
  <2>5. CASE ~(Watch \/ Crash \/ \E c \in Clients : Request(c))
    <3>1. UNCHANGED <<line, places, mark, req>>
      BY <1>5, <2>5 DEF Next, Land, Sync, Check, Verdict, Merge, Push, Fail, SendBeat, Interrupt,
           Kill, Move, Lapse, PushByHand, vars, lock
    <3> QED
      BY <1>1, <3>1 DEF At
  <2> QED
    BY <2>2, <2>3, <2>4, <2>5
<1> QED
  BY <1>4, <1>5

\* With one connection the lock is served in turn throughout
LEMMA OneConnAlways ==
  ASSUME Cards = {}
  PROVE  Spec => [](OneConnInv /\ PlacesInTurn)
<1>1. Init => OneConnInv /\ PlacesInTurn
  <2> SUFFICES ASSUME Init PROVE OneConnInv /\ PlacesInTurn
    OBVIOUS
  <2>1. LockInv
    BY LockInit
  <2> QED
    <3>1. places = [i \in 1..Len(line) |-> i]
      BY DEF Init
    <3> QED
      BY <2>1, <3>1 DEF Init, OneConnInv, PlacesInTurn, Conns, NoRequest, At
<1>2. OneConnInv /\ PlacesInTurn /\ [Next]_vars => OneConnInv' /\ PlacesInTurn'
  BY OneConnKept, PlacesKept
<1> QED
  BY <1>1, <1>2, PTL DEF Spec

\* Among agents, who all land through the one server, a client at work whose heartbeat is fresh
\* keeps the lock until it stops working, whoever asks, leaves, dies or is interrupted
\* (_evict_stale_landing, request_landing, release_landing)
THEOREM AgentsKeepTheLock ==
  ASSUME Cards = {}
  PROVE  Spec => LiveHolderKeepsIt
<1>1. OneConnInv /\ [Next]_vars =>
        [holder # NoOne /\ ~stale /\ holder \in AtWork => holder' = holder]_vars
  <2> SUFFICES ASSUME OneConnInv, [Next]_vars, holder # NoOne, ~stale, holder \in AtWork
               PROVE  holder' = holder
    OBVIOUS
  <2>0. LockInv /\ req \in [Conns -> Requests] /\ \A h \in Conns : Leaves(h)
    BY DEF OneConnInv, LockInv
  <2>1. CASE \E k \in Conns : Serve(k)
    <3>1. PICK k \in Conns : Serve(k)
      BY <2>1
    <3>2. CASE Evict(k)
      BY <3>2 DEF Evict, At, OneConnInv, Conns, NoRequest
    <3>3. CASE Free(k)
      <4>1. req[k].kind = "release"
        BY <2>0, <3>3, RequestIs DEF Free, At, ReleasePoints
      <4>2. Who(k) \notin AtWork
        BY <2>0, <4>1 DEF Leaves, AtWork, Working
      <4> QED
        BY <3>3, <4>2 DEF Free, lock
    <3>4. CASE ~Evict(k) /\ ~Free(k)
      BY <3>1, <3>4 DEF Serve, SelectStale, SelectHeld, Heartbeat, SelectQueued, SelectCurrent,
           Insert, FreeSlot, Join, EnterLine, StatusHeld, StatusQueued, ReleaseHeld, ReleaseQueued,
           LeaveLine, OnlyMoves, lock
    <3> QED
      BY <3>2, <3>3, <3>4
  <2>2. CASE ~\E k \in Conns : Serve(k)
    BY <2>0, <2>2, ClientsDo
  <2> QED
    BY <2>1, <2>2
<1> QED
  BY <1>1, OneConnAlways, PTL DEF Spec, LiveHolderKeepsIt

\* Who is before whom in a line
LEMMA AheadIs ==
  ASSUME NEW q \in Seq(Clients), NEW c, NEW d
  PROVE  <<d, c>> \in Ahead(q) <=> \E i, j \in 1..Len(q) : i < j /\ q[i] = d /\ q[j] = c
<1>1. ASSUME <<d, c>> \in Ahead(q)
      PROVE  \E i, j \in 1..Len(q) : i < j /\ q[i] = d /\ q[j] = c
  <2>1. PICK p \in (1..Len(q)) \X (1..Len(q)) :
               p[1] < p[2] /\ <<d, c>> = <<q[p[1]], q[p[2]]>>
    BY <1>1 DEF Ahead
  <2>2. p[1] \in 1..Len(q) /\ p[2] \in 1..Len(q) /\ q[p[1]] = d /\ q[p[2]] = c
    BY <2>1
  <2> QED
    BY <2>1, <2>2
<1>2. ASSUME NEW i \in 1..Len(q), NEW j \in 1..Len(q), i < j, q[i] = d, q[j] = c
      PROVE  <<d, c>> \in Ahead(q)
  <2>1. <<i, j>> \in {r \in (1..Len(q)) \X (1..Len(q)) : r[1] < r[2]}
    BY <1>2
  <2>2. <<d, c>> = <<q[<<i, j>>[1]], q[<<i, j>>[2]]>>
    BY <1>2
  <2> QED
    BY <2>1, <2>2 DEF Ahead
<1> QED
  BY <1>1, <1>2

\* What joining the line and being called from its head leave in place
LEMMA LineMoves ==
  ASSUME NEW q \in Seq(Clients)
  PROVE  /\ \A e \in Clients :
              /\ Append(q, e) \in Seq(Clients) /\ Len(Append(q, e)) = Len(q) + 1
              /\ \A i \in 1..Len(q) : Append(q, e)[i] = q[i]
              /\ Append(q, e)[Len(q) + 1] = e
         /\ q # <<>> =>
              /\ Tail(q) \in Seq(Clients) /\ Len(Tail(q)) = Len(q) - 1
              /\ \A i \in 1..(Len(q) - 1) : Tail(q)[i] = q[i + 1]
BY AppendProperties, HeadTailProperties

\* Joining the line, leaving it and being called from its head let nobody past another
LEMMA NobodyPasses ==
  ASSUME TypeOK, NEW c \in Elems(line), NEW d \in Clients,
         \/ line' = line
         \/ line # <<>> /\ line' = Tail(line)
         \/ \E i \in 1..Len(line) : line' = Without(i)
         \/ \E e \in Clients : e \notin Elems(line) /\ line' = Append(line, e),
         <<d, c>> \in Ahead(line')
  PROVE  <<d, c>> \in Ahead(line)
<1>0. /\ line \in Seq(Clients) /\ Len(line) \in Nat /\ DOMAIN line = 1..Len(line)
  BY LenProperties DEF TypeOK
<1>1. CASE line # <<>> /\ line' = Tail(line)
  <2>1. /\ line' \in Seq(Clients) /\ Len(line') = Len(line) - 1
        /\ \A i \in 1..(Len(line) - 1) : line'[i] = line[i + 1]
    BY <1>0, <1>1, LineMoves
  <2>2. PICK i, j \in 1..(Len(line) - 1) : i < j /\ line'[i] = d /\ line'[j] = c
    BY <2>1, AheadIs
  <2>3. i + 1 \in 1..Len(line) /\ j + 1 \in 1..Len(line) /\ i + 1 < j + 1
    BY <1>0, <2>2
  <2>4. line[i + 1] = d /\ line[j + 1] = c
    BY <2>1, <2>2
  <2> QED
    BY <1>0, <2>3, <2>4, AheadIs
<1>2. CASE \E i \in 1..Len(line) : line' = Without(i)
  <2>1. PICK h \in 1..Len(line) : line' = Without(h)
    BY <1>2
  <2>2. /\ line' \in Seq(Clients) /\ Len(line') = Len(line) - 1
    BY <1>0, <2>1, WithoutType
  <2>3. PICK i, j \in 1..(Len(line) - 1) : i < j /\ line'[i] = d /\ line'[j] = c
    BY <2>2, AheadIs
  <2> DEFINE Old(n) == IF n < h THEN n ELSE n + 1
  <2>4. \A n \in 1..(Len(line) - 1) : line'[n] = line[Old(n)]
    BY <2>1 DEF Without
  <2>5. Old(i) \in 1..Len(line) /\ Old(j) \in 1..Len(line) /\ Old(i) < Old(j)
    BY <1>0, <2>3
  <2>6. line[Old(i)] = d /\ line[Old(j)] = c
    BY <2>3, <2>4
  <2> HIDE DEF Old
  <2> QED
    BY <1>0, <2>5, <2>6, AheadIs
<1>3. CASE \E e \in Clients : e \notin Elems(line) /\ line' = Append(line, e)
  <2>1. PICK e \in Clients : e \notin Elems(line) /\ line' = Append(line, e)
    BY <1>3
  <2>2. /\ line' \in Seq(Clients) /\ Len(line') = Len(line) + 1 /\ line'[Len(line) + 1] = e
        /\ \A i \in 1..Len(line) : line'[i] = line[i]
    BY <1>0, <2>1, LineMoves
  <2>3. PICK i, j \in 1..(Len(line) + 1) : i < j /\ line'[i] = d /\ line'[j] = c
    BY <2>2, AheadIs
  <2>4. c # e
    BY <2>1
  <2>5. j # Len(line) + 1
    BY <2>2, <2>3, <2>4
  <2>6. i \in 1..Len(line) /\ j \in 1..Len(line)
    BY <1>0, <2>3, <2>5
  <2> QED
    BY <1>0, <2>2, <2>3, <2>6, AheadIs
<1> QED
  BY <1>1, <1>2, <1>3

\* Among agents the lock goes to whoever waits longest: it passes nobody by, and nobody gets ahead
\* of one who was in line before (request_landing, _promote_next_landing, release_landing)
THEOREM AgentsAreServedInTurn ==
  ASSUME Cards = {}
  PROVE  Spec => FirstComeFirstServed
<1>1. OneConnInv /\ PlacesInTurn /\ [Next]_vars =>
        [/\ holder' \notin {holder, NoOne} => line = <<>> \/ holder' = Head(line)
         /\ \A c \in Elems(line), d \in Clients :
              <<d, c>> \in Ahead(line') => <<d, c>> \in Ahead(line)]_vars
  <2> SUFFICES ASSUME OneConnInv, PlacesInTurn, [Next]_vars
               PROVE  /\ holder' \notin {holder, NoOne} => line = <<>> \/ holder' = Head(line)
                      /\ \A c \in Elems(line), d \in Clients :
                           <<d, c>> \in Ahead(line') => <<d, c>> \in Ahead(line)
    OBVIOUS
  <2>0. LockInv /\ TypeOK /\ line \in Seq(Clients) /\ req \in [Conns -> Requests]
    BY DEF OneConnInv, LockInv, TypeOK
  <2>1. ASSUME Promote
        PROVE  /\ holder' \notin {holder, NoOne} => line = <<>> \/ holder' = Head(line)
               /\ line' = line \/ (line # <<>> /\ line' = Tail(line))
    BY <2>1 DEF Promote
  <2>2. /\ holder' \notin {holder, NoOne} => line = <<>> \/ holder' = Head(line)
        /\ \/ line' = line
           \/ line # <<>> /\ line' = Tail(line)
           \/ \E i \in 1..Len(line) : line' = Without(i)
           \/ \E e \in Clients : e \notin Elems(line) /\ line' = Append(line, e)
    <3>1. CASE \E k \in Conns : Serve(k)
      <4>1. PICK k \in Conns : Serve(k)
        BY <3>1
      <4>2. CASE Evict(k)
        BY <2>1, <4>2 DEF Evict, Drop
      <4>3. CASE Free(k)
        BY <2>1, <4>3 DEF Free, lock
      <4>4. CASE Insert(k)
        BY <4>4 DEF Insert, FreeSlot, OneConnInv, lock
      <4>5. CASE EnterLine(k)
        <5>1. Who(k) \in Clients /\ k = "http"
          <6>1. req[k].at \in AskPoints \ {"stale?", "evict"}
            BY <4>5 DEF EnterLine, At, AskPoints
          <6>2. k = "http"
            BY <4>5 DEF EnterLine, At, OneConnInv, Conns, NoRequest
          <6> QED
            BY <2>0, <6>1, <6>2, RequestIs
        <5>2. CASE Who(k) \in Elems(line)
          BY <4>5, <5>2 DEF EnterLine
        <5>3. CASE Who(k) \notin Elems(line)
          <6>1. line' = Append(line, Who(k))
            BY <4>5, <5>1, <5>3, EntersLast DEF EnterLine
          <6> QED
            BY <4>5, <5>1, <5>3, <6>1 DEF EnterLine
        <5> QED
          BY <5>2, <5>3
      <4>6. CASE LeaveLine(k)
        BY <4>6 DEF LeaveLine
      <4>7. CASE ~(Evict(k) \/ Free(k) \/ Insert(k) \/ EnterLine(k) \/ LeaveLine(k))
        BY <4>1, <4>7 DEF Serve, SelectStale, SelectHeld, Heartbeat, SelectQueued, SelectCurrent,
             Join, StatusHeld, StatusQueued, ReleaseHeld, ReleaseQueued, OnlyMoves, lock
      <4> QED
        BY <4>2, <4>3, <4>4, <4>5, <4>6, <4>7
    <3>2. CASE ~\E k \in Conns : Serve(k)
      BY <2>0, <3>2, ClientsDo
    <3> QED
      BY <3>1, <3>2
  <2> QED
    BY <2>0, <2>2, NobodyPasses
<1> QED
  BY <1>1, OneConnAlways, PTL DEF Spec, FirstComeFirstServed
=============================================================================
