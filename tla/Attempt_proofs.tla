--------------------------- MODULE Attempt_proofs ---------------------------
(***************************************************************************)
(* That the attempts of a card are what Attempt says of them, for any      *)
(* number of threads, fix rounds, notes, commits and restarts: the types   *)
(* of their state, that they are the runs CardRun promises, and that a run *)
(* keeps to its gates: what was stopped opens nothing, what is opened was  *)
(* tested and approved as it is, and a worker is skipped only for what the *)
(* newest one left.                                                        *)
(*                                                                         *)
(* The proof of each invariant has one step per action.  What an action    *)
(* does to the runs, the log and the row is stated once, in StepsGo,       *)
(* LogGoesOn, RowGoes and RunGoes, and cited from there on.  The gates     *)
(* have inductive invariants of their own on top of CoreInv: StopInv,      *)
(* VetInv, LeftInv; the refinement has RowInv.  The hypotheses leave out   *)
(* what the code does not guard against, a run that begins under the last  *)
(* one's leave, a sweep that rebases the branch meanwhile, an end that the *)
(* locked database never hears of: with them TLC finds these properties    *)
(* violated.                                                               *)
(***************************************************************************)
EXTENDS Attempt, SequenceTheorems, WellFoundedInduction, TLAPS

USE AttemptConstants DEF AttemptConstants, registry, past, bounds

\* The heads that steps make are heads
LEMMA HeadTypes ==
  /\ NoHead \in Heads
  /\ \A w \in 0..MaxCommits, b \in 0..MaxMoves : [work |-> w, base |-> b] \in Heads
  /\ \A h \in Heads : Contains(h) => h.work \in 1..MaxCommits /\ h.base \in 0..MaxMoves
  /\ \A h \in Heads, b \in 0..MaxMoves : [h EXCEPT !.base = b] \in Heads
BY DEF Heads, NoHead, Contains

\* A run and an attempt are well formed when they begin
LEMMA NewTypes == NoRun \in RunState /\ NewAttempt \in Record
BY HeadTypes DEF NoRun, RunState, NewAttempt, Record, NoFingerprint, Fingerprint, Unjudged,
  Verdicts, Results, Stages, Live, Before

\* The card is well formed at first
LEMMA InitType == Init => TypeOK
<1> SUFFICES ASSUME Init PROVE TypeOK
  OBVIOUS
<1>1. log \in Seq(Record)
  BY DEF Init
<1>2. /\ run \in [Threads -> RunState]
      /\ \A t \in Threads : run[t].at = "idle" /\ run[t].agent = "none"
  BY NewTypes DEF Init, NoRun
<1>3. judged \in [Heads -> Verdicts]
  BY DEF Init, Unjudged, Verdicts
<1>4. row \in Row
  BY DEF Init, Reasons, Row
<1>5. /\ notes \in 0..acts /\ env \in {0, 1} /\ head \in Heads /\ base \in 0..MaxMoves
      /\ told \in 0..MaxActs /\ left \in Heads /\ sweep \in Heads
      /\ acts \in 0..MaxActs /\ commits \in 0..MaxCommits /\ crashes \in 0..MaxCrashes
  BY HeadTypes DEF Init
<1> QED
  BY <1>1, <1>2, <1>3, <1>4, <1>5 DEF Init, TypeOK

\* The part of TypeOK that is about the threads
RunsTyped == /\ run \in [Threads -> RunState]
             /\ \A t \in Threads : run[t].at \in {"worker", "reviewer"} <=> run[t].agent # "none"

\* The states of an agent process
Agents == {"none", "unknown", "running", "killed"}

\* A run stays well formed under each update that some step makes of it ...
LEMMA StateFields ==
  ASSUME NEW r \in RunState
  PROVE  /\ \A s \in Stages : [r EXCEPT !.at = s] \in RunState
         /\ \A s \in Stages, a \in Agents : [r EXCEPT !.at = s, !.agent = a] \in RunState
         /\ \A o \in Results : [r EXCEPT !.at = "ended", !.agent = "none",
              !.result = o] \in RunState
         /\ \A s \in Stages, n \in 0..MaxActs, e \in {0, 1} :
              [r EXCEPT !.at = s, !.notes = n, !.env = e] \in RunState
         /\ \A s \in Stages, b \in BOOLEAN : [r EXCEPT !.at = s, !.reuse = b] \in RunState
         /\ \A s \in Stages, a \in Agents, h \in Heads :
              [r EXCEPT !.at = s, !.agent = a, !.from = h] \in RunState
         /\ \A a \in Agents : [r EXCEPT !.agent = a] \in RunState
         /\ \A s \in Stages, h \in Heads : [r EXCEPT !.at = s, !.green = h] \in RunState
         /\ \A s \in Stages, a \in Agents, n \in 0..MaxFixRounds :
              [r EXCEPT !.at = s, !.agent = a, !.fixes = n] \in RunState
         /\ \A x \in {"in time", "late"}, a \in Agents :
              [r EXCEPT !.asked = x, !.agent = a] \in RunState
<1>0. "ended" \in Stages
  BY DEF Stages, Live
<1>1. \A s \in Stages : [r EXCEPT !.at = s] \in RunState
  BY <1>0 DEF RunState, Agents
<1>2. \A s \in Stages, a \in Agents : [r EXCEPT !.at = s, !.agent = a] \in RunState
  BY <1>0 DEF RunState, Agents
<1>3. \A o \in Results : [r EXCEPT !.at = "ended", !.agent = "none", !.result = o] \in RunState
  BY <1>0 DEF RunState, Agents
<1>4. \A s \in Stages, n \in 0..MaxActs, e \in {0, 1} :
              [r EXCEPT !.at = s, !.notes = n, !.env = e] \in RunState
  BY <1>0 DEF RunState, Agents
<1>5. \A s \in Stages, b \in BOOLEAN : [r EXCEPT !.at = s, !.reuse = b] \in RunState
  BY <1>0 DEF RunState, Agents
<1>6. \A s \in Stages, a \in Agents, h \in Heads :
              [r EXCEPT !.at = s, !.agent = a, !.from = h] \in RunState
  BY <1>0 DEF RunState, Agents
<1>7. \A a \in Agents : [r EXCEPT !.agent = a] \in RunState
  BY <1>0 DEF RunState, Agents
<1>8. \A s \in Stages, h \in Heads : [r EXCEPT !.at = s, !.green = h] \in RunState
  BY <1>0 DEF RunState, Agents
<1>9. \A s \in Stages, a \in Agents, n \in 0..MaxFixRounds :
              [r EXCEPT !.at = s, !.agent = a, !.fixes = n] \in RunState
  BY <1>0 DEF RunState, Agents
<1>10. \A x \in {"in time", "late"}, a \in Agents :
              [r EXCEPT !.asked = x, !.agent = a] \in RunState
  BY <1>0 DEF RunState, Agents
<1> QED
  BY <1>1, <1>2, <1>3, <1>4, <1>5, <1>6, <1>7, <1>8, <1>9, <1>10, Zenon

\* ... and so do the runs under an update of one of them
LEMMA RunFields ==
  ASSUME run \in [Threads -> RunState], NEW t \in Threads
  PROVE  /\ \A s \in Stages : [run EXCEPT ![t].at = s] \in [Threads -> RunState]
         /\ \A s \in Stages, a \in Agents : [run EXCEPT ![t].at = s, ![t].agent = a]
              \in [Threads -> RunState]
         /\ \A o \in Results : [run EXCEPT ![t].at = "ended", ![t].agent = "none",
              ![t].result = o] \in [Threads -> RunState]
         /\ \A s \in Stages, n \in 0..MaxActs, e \in {0, 1} :
              [run EXCEPT ![t].at = s, ![t].notes = n, ![t].env = e] \in [Threads -> RunState]
         /\ \A s \in Stages, b \in BOOLEAN : [run EXCEPT ![t].at = s, ![t].reuse = b]
              \in [Threads -> RunState]
         /\ \A s \in Stages, a \in Agents, h \in Heads :
              [run EXCEPT ![t].at = s, ![t].agent = a, ![t].from = h] \in [Threads -> RunState]
         /\ \A a \in Agents : [run EXCEPT ![t].agent = a] \in [Threads -> RunState]
         /\ \A s \in Stages, h \in Heads : [run EXCEPT ![t].at = s, ![t].green = h]
              \in [Threads -> RunState]
         /\ \A s \in Stages, a \in Agents, n \in 0..MaxFixRounds :
              [run EXCEPT ![t].at = s, ![t].agent = a, ![t].fixes = n] \in [Threads -> RunState]
         /\ \A x \in {"in time", "late"}, a \in Agents :
              [run EXCEPT ![t].asked = x, ![t].agent = a] \in [Threads -> RunState]
BY StateFields, ZenonT(30)

\* A run goes on to a stage that has an agent exactly if it comes with one
Fits(s, a) == s \in {"worker", "reviewer"} <=> a # "none"

\* The updates of a run that keep its stage and its agent in step
LEMMA RunsMove ==
  ASSUME RunsTyped, NEW t \in Threads
  PROVE  /\ run' = [run EXCEPT ![t] = NoRun] => RunsTyped'
         /\ \A s \in Stages, a \in Agents :
              Fits(s, a) /\ run' = [run EXCEPT ![t].at = s, ![t].agent = a]
                => RunsTyped'
         /\ \A o \in Results :
              run' = [run EXCEPT ![t].at = "ended", ![t].agent = "none", ![t].result = o]
                => RunsTyped'
         /\ \A s \in Stages, a \in Agents, h \in Heads :
              Fits(s, a) /\ run' = [run EXCEPT ![t].at = s, ![t].agent = a, ![t].from = h]
                => RunsTyped'
         /\ \A s \in Stages, a \in Agents, n \in 0..MaxFixRounds :
              Fits(s, a) /\ run' = [run EXCEPT ![t].at = s, ![t].agent = a, ![t].fixes = n]
                => RunsTyped'
         /\ \A s \in Stages :
              Fits(s, run[t].agent) /\ run' = [run EXCEPT ![t].at = s]
                => RunsTyped'
         /\ \A s \in {"prepared"}, n \in 0..MaxActs, e \in {0, 1} :
              run[t].agent = "none" /\ run' = [run EXCEPT ![t].at = s, ![t].notes = n, ![t].env = e]
                => RunsTyped'
         /\ \A s \in {"testing", "brief"}, r \in BOOLEAN :
              run[t].agent = "none" /\ run' = [run EXCEPT ![t].at = s, ![t].reuse = r]
                => RunsTyped'
         /\ \A s \in {"reading", "reviewed", "synced"}, h \in Heads :
              run[t].agent = "none" /\ run' = [run EXCEPT ![t].at = s, ![t].green = h]
                => RunsTyped'
         /\ \A a \in Agents :
              Fits(run[t].at, a) /\ run' = [run EXCEPT ![t].agent = a]
                => RunsTyped'
         /\ \A x \in {"in time", "late"}, a \in Agents :
              Fits(run[t].at, a) /\ run' = [run EXCEPT ![t].asked = x, ![t].agent = a]
                => RunsTyped'
<1>a. run \in [Threads -> RunState] /\ \A u \in Threads : Fits(run[u].at, run[u].agent)
  BY DEF RunsTyped, Fits
<1>c. ASSUME run' \in [Threads -> RunState], \A u \in Threads \ {t} : run'[u] = run[u],
             NEW s, NEW a, run'[t].at = s, run'[t].agent = a, Fits(s, a)
      PROVE  RunsTyped'
  BY <1>a, <1>c DEF RunsTyped, Fits
<1>d. run' = [run EXCEPT ![t] = NoRun] => RunsTyped'
  BY <1>a, <1>c, NewTypes DEF Fits, NoRun
<1> HIDE DEF Fits
<1>1. \A s \in Stages, a \in Agents :
        Fits(s, a) /\ run' = [run EXCEPT ![t].at = s, ![t].agent = a]
          => RunsTyped'
  <2> SUFFICES ASSUME NEW s \in Stages, NEW a \in Agents,
                      Fits(s, a), run' = [run EXCEPT ![t].at = s, ![t].agent = a]
               PROVE  RunsTyped'
    OBVIOUS
  <2>1. run' \in [Threads -> RunState]
    BY <1>a, RunFields, Zenon
  <2>2. \A u \in Threads \ {t} : run'[u] = run[u]
    BY <1>a
  <2>3. run'[t].at = s /\ run'[t].agent = a
    BY <1>a DEF RunState
  <2> QED
    BY <1>a, <1>c, <2>1, <2>2, <2>3
<1>2. \A o \in Results :
        run' = [run EXCEPT ![t].at = "ended", ![t].agent = "none", ![t].result = o]
          => RunsTyped'
  <2> SUFFICES ASSUME NEW o \in Results,
                      run' = [run EXCEPT ![t].at = "ended", ![t].agent = "none", ![t].result = o]
               PROVE  RunsTyped'
    OBVIOUS
  <2>1. run' \in [Threads -> RunState]
    BY <1>a, RunFields, Zenon
  <2>2. \A u \in Threads \ {t} : run'[u] = run[u]
    BY <1>a
  <2>3. run'[t].at = "ended" /\ run'[t].agent = "none"
    BY <1>a, ZenonT(30) DEF RunState
  <2> QED
    BY <1>a, <1>c, <2>1, <2>2, <2>3 DEF Fits
<1>3. \A s \in Stages, a \in Agents, h \in Heads :
        Fits(s, a) /\ run' = [run EXCEPT ![t].at = s, ![t].agent = a, ![t].from = h]
          => RunsTyped'
  <2> SUFFICES ASSUME NEW s \in Stages, NEW a \in Agents, NEW h \in Heads,
                      Fits(s, a), run' = [run EXCEPT ![t].at = s, ![t].agent = a, ![t].from = h]
               PROVE  RunsTyped'
    OBVIOUS
  <2>1. run' \in [Threads -> RunState]
    BY <1>a, RunFields, Zenon
  <2>2. \A u \in Threads \ {t} : run'[u] = run[u]
    BY <1>a
  <2>3. run'[t].at = s /\ run'[t].agent = a
    BY <1>a DEF RunState
  <2> QED
    BY <1>a, <1>c, <2>1, <2>2, <2>3
<1>4. \A s \in Stages, a \in Agents, n \in 0..MaxFixRounds :
        Fits(s, a) /\ run' = [run EXCEPT ![t].at = s, ![t].agent = a, ![t].fixes = n]
          => RunsTyped'
  <2> SUFFICES ASSUME NEW s \in Stages, NEW a \in Agents, NEW n \in 0..MaxFixRounds,
                      Fits(s, a), run' = [run EXCEPT ![t].at = s, ![t].agent = a, ![t].fixes = n]
               PROVE  RunsTyped'
    OBVIOUS
  <2>1. run' \in [Threads -> RunState]
    BY <1>a, RunFields, ZenonT(30)
  <2>2. \A u \in Threads \ {t} : run'[u] = run[u]
    BY <1>a
  <2>3. run'[t].at = s /\ run'[t].agent = a
    BY <1>a DEF RunState
  <2> QED
    BY <1>a, <1>c, <2>1, <2>2, <2>3
<1>5. \A s \in Stages :
        Fits(s, run[t].agent) /\ run' = [run EXCEPT ![t].at = s]
          => RunsTyped'
  <2> SUFFICES ASSUME NEW s \in Stages,
                      Fits(s, run[t].agent), run' = [run EXCEPT ![t].at = s]
               PROVE  RunsTyped'
    OBVIOUS
  <2>1. run' \in [Threads -> RunState]
    BY <1>a, RunFields, Zenon
  <2>2. \A u \in Threads \ {t} : run'[u] = run[u]
    BY <1>a
  <2>3. run'[t].at = s /\ run'[t].agent = run[t].agent
    BY <1>a DEF RunState
  <2> QED
    BY <1>a, <1>c, <2>1, <2>2, <2>3
<1>6. \A s \in {"prepared"}, n \in 0..MaxActs, e \in {0, 1} :
        run[t].agent = "none" /\ run' = [run EXCEPT ![t].at = s, ![t].notes = n, ![t].env = e]
          => RunsTyped'
  <2> SUFFICES ASSUME NEW s \in {"prepared"}, NEW n \in 0..MaxActs, NEW e \in {0, 1},
                      run[t].agent = "none", run' = [run EXCEPT ![t].at = s, ![t].notes = n,
                        ![t].env = e]
               PROVE  RunsTyped'
    OBVIOUS
  <2>1. run' \in [Threads -> RunState]
    BY <1>a, RunFields, ZenonT(30) DEF Stages, Live, Before
  <2>2. \A u \in Threads \ {t} : run'[u] = run[u]
    BY <1>a
  <2>3. run'[t].at = s /\ run'[t].agent = run[t].agent
    BY <1>a DEF RunState
  <2> QED
    BY <1>a, <1>c, <2>1, <2>2, <2>3 DEF Fits
<1>7. \A s \in {"testing", "brief"}, r \in BOOLEAN :
        run[t].agent = "none" /\ run' = [run EXCEPT ![t].at = s, ![t].reuse = r]
          => RunsTyped'
  <2> SUFFICES ASSUME NEW s \in {"testing", "brief"}, NEW r \in BOOLEAN,
                      run[t].agent = "none", run' = [run EXCEPT ![t].at = s, ![t].reuse = r]
               PROVE  RunsTyped'
    OBVIOUS
  <2>1. run' \in [Threads -> RunState]
    BY <1>a, RunFields, Zenon DEF Stages, Live, Before
  <2>2. \A u \in Threads \ {t} : run'[u] = run[u]
    BY <1>a
  <2>3. run'[t].at = s /\ run'[t].agent = run[t].agent
    BY <1>a, ZenonT(30) DEF RunState
  <2> QED
    BY <1>a, <1>c, <2>1, <2>2, <2>3 DEF Fits
<1>8. \A s \in {"reading", "reviewed", "synced"}, h \in Heads :
        run[t].agent = "none" /\ run' = [run EXCEPT ![t].at = s, ![t].green = h]
          => RunsTyped'
  <2> SUFFICES ASSUME NEW s \in {"reading", "reviewed", "synced"}, NEW h \in Heads,
                      run[t].agent = "none", run' = [run EXCEPT ![t].at = s, ![t].green = h]
               PROVE  RunsTyped'
    OBVIOUS
  <2>1. run' \in [Threads -> RunState]
    BY <1>a, RunFields, Zenon DEF Stages, Live, Before
  <2>2. \A u \in Threads \ {t} : run'[u] = run[u]
    BY <1>a
  <2>3. run'[t].at = s /\ run'[t].agent = run[t].agent
    BY <1>a DEF RunState
  <2> QED
    BY <1>a, <1>c, <2>1, <2>2, <2>3 DEF Fits
<1>9. \A a \in Agents :
        Fits(run[t].at, a) /\ run' = [run EXCEPT ![t].agent = a]
          => RunsTyped'
  <2> SUFFICES ASSUME NEW a \in Agents,
                      Fits(run[t].at, a), run' = [run EXCEPT ![t].agent = a]
               PROVE  RunsTyped'
    OBVIOUS
  <2>1. run' \in [Threads -> RunState]
    BY <1>a, RunFields, Zenon
  <2>2. \A u \in Threads \ {t} : run'[u] = run[u]
    BY <1>a
  <2>3. run'[t].at = run[t].at /\ run'[t].agent = a
    BY <1>a, ZenonT(30) DEF RunState
  <2> QED
    BY <1>a, <1>c, <2>1, <2>2, <2>3
<1>10. \A x \in {"in time", "late"}, a \in Agents :
        Fits(run[t].at, a) /\ run' = [run EXCEPT ![t].asked = x, ![t].agent = a]
          => RunsTyped'
  <2> SUFFICES ASSUME NEW x \in {"in time", "late"}, NEW a \in Agents,
                      Fits(run[t].at, a), run' = [run EXCEPT ![t].asked = x, ![t].agent = a]
               PROVE  RunsTyped'
    OBVIOUS
  <2>1. run' \in [Threads -> RunState]
    BY <1>a, RunFields, Zenon DEF Stages, Live, Before
  <2>2. \A u \in Threads \ {t} : run'[u] = run[u]
    BY <1>a
  <2>3. run'[t].at = run[t].at /\ run'[t].agent = a
    BY <1>a DEF RunState
  <2> QED
    BY <1>a, <1>c, <2>1, <2>2, <2>3
<1> QED
  BY <1>d, <1>1, <1>2, <1>3, <1>4, <1>5, <1>6, <1>7, <1>8, <1>9, <1>10

\* A run that has set out works on a branch
HasBranch ==
  \A t \in Threads :
    run[t].at \notin {"idle", "registered", "prepared", "ended", "finished"} => head # NoHead

\* What is fetched back from a clone is a head, and within the bound
LEMMA FetchedTypes ==
  ASSUME TypeOK, head # NoHead
  PROVE  \A h \in Fetched : /\ h \in Heads /\ h # NoHead
                            /\ h # head => commits + 1 \in 0..MaxCommits
BY DEF TypeOK, Fetched, Heads, NoHead

\* What a rebase makes of the branch is a head
LEMMA RebasedTypes ==
  ASSUME TypeOK
  PROVE  \A h \in Rebased : h \in Heads /\ h # NoHead
<1>1. CASE head = NoHead
  <2>1. base \in 0..MaxMoves /\ Rebased = [work : {0}, base : 0..base]
    BY <1>1 DEF TypeOK, Rebased
  <2>2. \A h \in [work : {0}, base : 0..base] : h = [work |-> 0,
          base |-> h.base] /\ h.base \in 0..MaxMoves
    BY <2>1
  <2> QED
    BY <2>1, <2>2 DEF Heads, NoHead
<1>2. CASE head # NoHead
  <2>1. base \in 0..MaxMoves /\ head \in [work : 0..MaxCommits, base : 0..MaxMoves]
    BY <1>2 DEF TypeOK, Heads
  <2>2. /\ [head EXCEPT !.base = base] \in [work : 0..MaxCommits, base : 0..MaxMoves]
        /\ [head EXCEPT !.base = base].base = base
    BY <2>1
  <2>3. Rebased = {head} \cup {[head EXCEPT !.base = base]}
    BY <1>2 DEF Rebased
  <2>4. base # -1 /\ NoHead.base = -1
    BY <2>1 DEF NoHead
  <2> QED
    BY <1>2, <2>1, <2>2, <2>3, <2>4 DEF Heads
<1> QED
  BY <1>1, <1>2

\* A step of a thread keeps the runs well formed
LEMMA RunsType ==
  ASSUME TypeOK, NEW t \in Threads, Step(t) \/ Break(t) \/ Start(t) \/ Answer(t)
  PROVE  RunsTyped'
<1> USE DEF Refuse, Block, StopShort, EndsAs, Goto, Apart, Keeps, Judge, Note, Register, Summary,
        Stages, Live, Before, Results, Fits, Agents
<1>0. RunsTyped /\ head \in Heads /\ base \in 0..MaxMoves /\ notes \in 0..MaxActs /\ env \in {0,1}
  BY DEF TypeOK, RunsTyped
<1>a. /\ run[t].at \notin {"worker", "reviewer"} <=> run[t].agent = "none"
      /\ run[t].at \in Stages /\ run[t].fixes \in 0..MaxFixRounds /\ run[t].from \in Heads
  BY <1>0 DEF RunsTyped, RunState
<1>1. CASE Prepare(t)
  <2>1. \/ run' = [run EXCEPT ![t].at = "ended", ![t].agent = "none", ![t].result = "refused"]
        \/ run' = [run EXCEPT ![t].at = "prepared", ![t].notes = notes, ![t].env = env]
    BY <1>1 DEF Prepare
  <2>2. run[t].agent = "none"
    BY <1>a, <1>1 DEF Prepare
  <2>3. CASE run' = [run EXCEPT ![t].at = "prepared", ![t].notes = notes, ![t].env = env]
    BY <1>0, <2>2, <2>3, RunsMove, ZenonT(30)
  <2>4. CASE run' = [run EXCEPT ![t].at = "ended", ![t].agent = "none", ![t].result = "refused"]
    BY <1>0, <2>4, RunsMove, ZenonT(30)
  <2> QED
    BY <2>1, <2>3, <2>4
<1>2. CASE RebaseFails(t)
  BY <1>0, <1>2, RunsMove, ZenonT(30) DEF RebaseFails
<1>3. CASE SetOut(t)
  <2>1. \/ \E o \in Results :
             run' = [run EXCEPT ![t].at = "ended", ![t].agent = "none", ![t].result = o]
        \/ \E s \in {"testing", "brief"}, r \in BOOLEAN :
             run' = [run EXCEPT ![t].at = s, ![t].reuse = r]
    BY <1>3 DEF SetOut
  <2>2. run[t].agent = "none"
    BY <1>a, <1>3 DEF SetOut
  <2> QED
    BY <1>0, <2>1, <2>2, RunsMove, Zenon
<1>4. CASE Work(t)
  BY <1>0, <1>4, RunsMove, ZenonT(30) DEF Work
<1>5. CASE Known(t)
  BY <1>0, <1>a, <1>5, RunsMove, ZenonT(30) DEF Known
<1>6. CASE WorkerStopped(t)
  BY <1>0, <1>6, RunsMove, ZenonT(30) DEF WorkerStopped
<1>7. CASE WorkerEnds(t)
  BY <1>0, <1>7, RunsMove, ZenonT(30) DEF WorkerEnds
<1>8. CASE GateRefuses(t)
  BY <1>0, <1>8, RunsMove, ZenonT(30) DEF GateRefuses
<1>9. CASE TestGate(t)
  <2>1. \/ \E o \in Results :
             run' = [run EXCEPT ![t].at = "ended", ![t].agent = "none", ![t].result = o]
        \/ \E s \in {"reviewed", "reading"} : run' = [run EXCEPT ![t].at = s, ![t].green = head]
    BY <1>9 DEF TestGate
  <2>2. run[t].agent = "none"
    BY <1>a, <1>9 DEF TestGate
  <2> QED
    BY <1>0, <2>1, <2>2, RunsMove, Zenon
<1>10. CASE Review(t)
  BY <1>0, <1>10, RunsMove, ZenonT(30) DEF Review
<1>11. CASE ReviewerStopped(t)
  BY <1>0, <1>11, RunsMove, ZenonT(30) DEF ReviewerStopped
<1>12. CASE ReviewerFails(t)
  BY <1>0, <1>12, RunsMove, ZenonT(30) DEF ReviewerFails
<1>13. CASE Approves(t)
  BY <1>0, <1>13, RunsMove, ZenonT(30) DEF Approves
<1>14. CASE Rejects(t)
  <2>1. \/ \E o \in Results :
             run' = [run EXCEPT ![t].at = "ended", ![t].agent = "none", ![t].result = o]
        \/ \E n \in 0..MaxFixRounds :
             run' = [run EXCEPT ![t].at = "brief", ![t].agent = "none", ![t].fixes = n]
    BY <1>0, <1>a, <1>14 DEF Rejects, Counted, RunsTyped
  <2> QED
    BY <1>0, <2>1, RunsMove, Zenon
<1>15. CASE LastCheck(t)
  BY <1>0, <1>15, RunsMove, ZenonT(30) DEF LastCheck
<1>16. CASE Sync(t)
  <2>1. Merged \in Heads
    BY <1>0, HeadTypes DEF Merged
  <2>2. \/ \E o \in Results :
             run' = [run EXCEPT ![t].at = "ended", ![t].agent = "none", ![t].result = o]
        \/ run' = [run EXCEPT ![t].at = "synced", ![t].agent = "none"]
        \/ run' = [run EXCEPT ![t].at = "synced", ![t].green = Merged]
    BY <1>16 DEF Sync, NeedsRetest
  <2>3. run[t].agent = "none"
    BY <1>a, <1>16 DEF Sync
  <2> QED
    BY <1>0, <2>1, <2>2, <2>3, RunsMove, Zenon
<1>17. CASE Checking(t)
  BY <1>0, <1>17, RunsMove, ZenonT(30) DEF Checking
<1>18. CASE Open(t)
  BY <1>0, <1>18, RunsMove, ZenonT(30) DEF Open
<1>19. CASE Finish(t)
  BY <1>0, <1>19, RunsMove, ZenonT(30) DEF Finish
<1>20. CASE Cleanup(t)
  BY <1>0, <1>20, RunsMove, ZenonT(30) DEF Cleanup
<1>21. CASE Break(t)
  BY <1>0, <1>21, RunsMove, ZenonT(30) DEF Break
<1>22. CASE Start(t)
  BY <1>0, <1>a, <1>22, RunsMove, ZenonT(30) DEF Start, FreeThreads
<1>23. CASE Answer(t)
  BY <1>0, <1>a, <1>23, RunsMove, ZenonT(30) DEF Answer, FreeThreads
<1> QED
  BY <1>1, <1>2, <1>3, <1>4, <1>5, <1>6, <1>7, <1>8, <1>9, <1>10, <1>11, <1>12, <1>13, <1>14,
     <1>15, <1>16, <1>17, <1>18, <1>19, <1>20, <1>21, <1>22, <1>23 DEF Step

\* The record of an attempt stays well formed under each update of it
LEMMA RecordFields ==
  ASSUME NEW a \in Record
  PROVE  /\ \A fp \in Fingerprint, k \in BOOLEAN : [a EXCEPT !.fp = fp, !.skipped = k] \in Record
         /\ \A h \in Heads : [a EXCEPT !.reached = TRUE, !.last = h] \in Record
         /\ \A v \in [Heads -> Verdicts] : [a EXCEPT !.verdict = v] \in Record
         /\ \A g \in {"passed", "failed"} : [a EXCEPT !.gate = g] \in Record
         /\ \A o \in Results : [a EXCEPT !.ended = o] \in Record
         /\ \A h \in Heads, k \in Heads, v \in Verdicts :
              [a EXCEPT !.last = h, !.verdict[k] = v] \in Record
<1>1. \A fp \in Fingerprint, k \in BOOLEAN : [a EXCEPT !.fp = fp, !.skipped = k] \in Record
  BY DEF Record
<1>2. \A h \in Heads : [a EXCEPT !.reached = TRUE, !.last = h] \in Record
  BY DEF Record
<1>3. \A v \in [Heads -> Verdicts] : [a EXCEPT !.verdict = v] \in Record
  BY DEF Record
<1>4. \A g \in {"passed", "failed"} : [a EXCEPT !.gate = g] \in Record
  BY DEF Record
<1>5. \A o \in Results : [a EXCEPT !.ended = o] \in Record
  BY DEF Record
<1>6. \A k \in Heads, v \in Verdicts : [a.verdict EXCEPT ![k] = v] \in [Heads -> Verdicts]
  BY DEF Record
<1>7. \A h \in Heads, k \in Heads, v \in Verdicts :
        [a EXCEPT !.last = h, !.verdict[k] = v] \in Record
  BY <1>6 DEF Record
<1> QED
  BY <1>1, <1>2, <1>3, <1>4, <1>5, <1>7

\* So does the log, under an update of its newest record
LEMMA LogFields ==
  ASSUME log \in Seq(Record)
  PROVE  /\ Append(log, NewAttempt) \in Seq(Record)
         /\ \A fp \in Fingerprint, k \in BOOLEAN :
              [log EXCEPT ![Now].fp = fp, ![Now].skipped = k] \in Seq(Record)
         /\ \A h \in Heads : [log EXCEPT ![Now].reached = TRUE, ![Now].last = h] \in Seq(Record)
         /\ \A v : (Now > 0 => v \in [Heads -> Verdicts])
                   => [log EXCEPT ![Now]["verdict"] = v] \in Seq(Record)
         /\ \A g \in {"passed", "failed"} : [log EXCEPT ![Now]["gate"] = g] \in Seq(Record)
         /\ \A o \in Results : [log EXCEPT ![Now]["ended"] = o] \in Seq(Record)
         /\ \A k \in Heads :
              [log EXCEPT ![Now].last = NoHead, ![Now].verdict[k] = "rejected"] \in Seq(Record)
<1>1. Append(log, NewAttempt) \in Seq(Record)
  BY NewTypes
<1>2. CASE Now = 0
  <2>1. \A x : \A i \in {Now} : [log EXCEPT ![i] = x] = log
    BY <1>2 DEF Now
  <2> QED
    BY <1>1, <1>2, <2>1 DEF Now
<1>3. CASE Now > 0
  <2>1. Now \in 1..Len(log) /\ log[Now] \in Record
    BY <1>3, ElementOfSeq DEF Now
  <2>2. \A r \in Record : [log EXCEPT ![Now] = r] \in Seq(Record)
    BY <2>1, ExceptSeq
  <2> DEFINE a == log[Now]
  <2>3. /\ \A fp \in Fingerprint, k \in BOOLEAN :
             [log EXCEPT ![Now].fp = fp, ![Now].skipped = k] \in Seq(Record)
        /\ \A h \in Heads : [log EXCEPT ![Now].reached = TRUE, ![Now].last = h] \in Seq(Record)
    BY <2>1, <2>2, RecordFields
  <2>4. /\ \A v \in [Heads -> Verdicts] : [log EXCEPT ![Now]["verdict"] = v] \in Seq(Record)
        /\ \A g \in {"passed", "failed"} : [log EXCEPT ![Now]["gate"] = g] \in Seq(Record)
        /\ \A o \in Results : [log EXCEPT ![Now]["ended"] = o] \in Seq(Record)
    BY <2>1, <2>2, RecordFields
  <2>5. \A k \in Heads :
             [log EXCEPT ![Now].last = NoHead, ![Now].verdict[k] = "rejected"] \in Seq(Record)
    <3> SUFFICES ASSUME NEW k \in Heads
                 PROVE  [log EXCEPT ![Now].last = NoHead, ![Now].verdict[k] = "rejected"]
                          \in Seq(Record)
      OBVIOUS
    <3> DEFINE r == [log[Now] EXCEPT !.last = NoHead, !.verdict[k] = "rejected"]
    <3>1. r \in Record
      BY <2>1, RecordFields, HeadTypes DEF Verdicts
    <3>2. [log EXCEPT ![Now].last = NoHead, ![Now].verdict[k] = "rejected"]
            = [log EXCEPT ![Now] = r]
      BY <2>1
    <3> QED
      BY <2>2, <3>1, <3>2
  <2> QED
    BY <1>1, <1>3, <2>3, <2>4, <2>5
<1>4. Now \in Nat
  BY LenProperties DEF Now
<1>5. Now = 0 \/ Now > 0
  BY <1>4
<1> QED
  BY <1>2, <1>3, <1>5, Zenon

\* A step of a thread keeps the log well formed
LEMMA LogType ==
  ASSUME TypeOK, HasBranch, NEW t \in Threads, Step(t) \/ Break(t) \/ Start(t) \/ Answer(t)
  PROVE  log' \in Seq(Record)
<1> USE DEF Refuse, Block, StopShort, EndsAs, Goto, Apart, Keeps, Judge, Note, Register, Summary,
        Verdicts, Results
<1>0. /\ log \in Seq(Record) /\ head \in Heads /\ base \in 0..MaxMoves /\ env \in {0, 1}
      /\ run[t].from \in Heads /\ run[t].notes \in 0..MaxActs /\ run[t].env \in {0, 1}
      /\ run[t].result \in Results
  BY DEF TypeOK, RunState
<1>a. ASSUME Now > 0, NEW h \in Heads, NEW v \in Verdicts
      PROVE  [log[Now].verdict EXCEPT ![h] = v] \in [Heads -> Verdicts]
  <2>1. log[Now] \in Record
    BY <1>0, <1>a, ElementOfSeq DEF Now
  <2>2. log[Now].verdict \in [Heads -> Verdicts]
    BY <2>1 DEF Record
  <2> QED
    BY <2>2
<1>c. \A v \in Verdicts :
        [log EXCEPT ![Now]["verdict"] = [log[Now].verdict EXCEPT ![run[t].from] = v]]
          \in Seq(Record)
  BY <1>0, <1>a, LogFields
<1>b. \A h \in Fetched : head # NoHead => h \in Heads
  BY FetchedTypes
<1>1. CASE Prepare(t)
  BY <1>0, <1>1, LogFields, HeadTypes DEF Prepare
<1>2. CASE RebaseFails(t)
  BY <1>0, <1>2, LogFields, HeadTypes DEF RebaseFails
<1>3. CASE SetOut(t)
  <2>1. PICK h \in Rebased, k \in BOOLEAN :
          LET fp == [head |-> h, base |-> base, notes |-> run[t].notes, env |-> run[t].env] IN
          log' = log \/ log' = [log EXCEPT ![Now].fp = fp, ![Now].skipped = k]
    BY <1>3 DEF SetOut
  <2>2. [head |-> h, base |-> base, notes |-> run[t].notes, env |-> run[t].env] \in Fingerprint
    BY <1>0, RebasedTypes DEF Fingerprint
  <2> QED
    BY <1>0, <2>1, <2>2, LogFields, ZenonT(30)
<1>4. CASE Work(t)
  BY <1>0, <1>4, LogFields, HeadTypes DEF Work
<1>5. CASE Known(t)
  BY <1>0, <1>5, LogFields, HeadTypes DEF Known
<1>6. CASE WorkerStopped(t)
  BY <1>0, <1>6, LogFields, HeadTypes DEF WorkerStopped
<1>7. CASE WorkerEnds(t)
  BY <1>0, <1>b, <1>7, LogFields, HeadTypes, ZenonT(30) DEF WorkerEnds, HasBranch
<1>8. CASE GateRefuses(t)
  BY <1>0, <1>8, LogFields, HeadTypes DEF GateRefuses
<1>9. CASE TestGate(t)
  BY <1>0, <1>9, LogFields, HeadTypes DEF TestGate
<1>10. CASE Review(t)
  BY <1>0, <1>10, LogFields, HeadTypes DEF Review
<1>11. CASE ReviewerStopped(t)
  <2>1. \/ log' = log
        \/ \E v \in Verdicts :
             log' = [log EXCEPT ![Now]["verdict"] = [log[Now].verdict EXCEPT ![run[t].from] = v]]
    BY <1>11 DEF ReviewerStopped
  <2> QED
    BY <1>0, <1>c, <2>1
<1>12. CASE ReviewerFails(t)
  BY <1>0, <1>12, LogFields, HeadTypes DEF ReviewerFails
<1>13. CASE Approves(t)
  BY <1>0, <1>a, <1>13, LogFields, HeadTypes DEF Approves
<1>14. CASE Rejects(t)
  <2>1. \/ log' = [log EXCEPT ![Now].last = NoHead, ![Now].verdict[run[t].from] = "rejected"]
        \/ log' = [log EXCEPT ![Now]["verdict"] =
                                [log[Now].verdict EXCEPT ![run[t].from] = "rejected"]]
    BY <1>14 DEF Rejects
  <2> QED
    BY <1>0, <1>c, <2>1, LogFields, HeadTypes
<1>15. CASE LastCheck(t)
  BY <1>0, <1>15, LogFields, HeadTypes DEF LastCheck
<1>16. CASE Sync(t)
  BY <1>0, <1>16, LogFields, HeadTypes DEF Sync
<1>17. CASE Checking(t)
  BY <1>0, <1>17, LogFields, HeadTypes DEF Checking
<1>18. CASE Open(t)
  BY <1>0, <1>18, LogFields, HeadTypes DEF Open
<1>19. CASE Finish(t)
  BY <1>0, <1>19, LogFields, HeadTypes DEF Finish
<1>20. CASE Cleanup(t)
  BY <1>0, <1>20, LogFields, HeadTypes DEF Cleanup
<1>21. CASE Break(t)
  BY <1>0, <1>21, LogFields, HeadTypes DEF Break
<1>22. CASE Start(t)
  BY <1>0, <1>22, LogFields, HeadTypes DEF Start
<1>23. CASE Answer(t)
  BY <1>0, <1>23, LogFields, HeadTypes DEF Answer
<1> QED
  BY <1>1, <1>2, <1>3, <1>4, <1>5, <1>6, <1>7, <1>8, <1>9, <1>10, <1>11, <1>12, <1>13, <1>14,
     <1>15, <1>16, <1>17, <1>18, <1>19, <1>20, <1>21, <1>22, <1>23 DEF Step

\* The part of TypeOK that is about neither the threads nor the log
RestTyped ==
  /\ row \in Row
  /\ notes \in 0..acts /\ env \in {0, 1} /\ head \in Heads /\ base \in 0..MaxMoves
  /\ current \in Threads \cup {NoThread} /\ handle \in Threads \cup {NoThread}
  /\ stopping \in BOOLEAN /\ sweep \in Heads
  /\ told \in 0..MaxActs /\ left \in Heads /\ judged \in [Heads -> Verdicts]
  /\ acts \in 0..MaxActs /\ commits \in 0..MaxCommits /\ crashes \in 0..MaxCrashes

\* The updates of the row that steps make
LEMMA RowFields ==
  ASSUME row \in Row
  PROVE  /\ \A r \in Reasons, f \in BOOLEAN : [row EXCEPT !.reason = r, !.flag = f] \in Row
         /\ \A f \in BOOLEAN : [row EXCEPT !.flag = f] \in Row
         /\ \A x \in {"todo", "doing", "checking", "accepted"} : [row EXCEPT !.status = x] \in Row
         /\ [status |-> "doing", reason |-> "none", flag |-> FALSE] \in Row
BY DEF Row, Reasons

\* A step of a thread keeps the rest well formed
LEMMA RestType ==
  ASSUME TypeOK, HasBranch, NEW t \in Threads, Step(t) \/ Break(t) \/ Start(t) \/ Answer(t)
  PROVE  RestTyped'
<1> USE DEF Refuse, Block, StopShort, EndsAs, Goto, Apart, Keeps, Judge, Note, Register, Summary,
        Verdicts, Reasons
<1>0. RestTyped /\ run[t].from \in Heads /\ run[t].notes \in 0..MaxActs
  BY DEF TypeOK, RestTyped, RunState
<1>a. \A h \in Fetched : head # NoHead => h \in Heads /\ (h # head => commits + 1 \in 0..MaxCommits)
  BY FetchedTypes
<1>b. \A h \in Heads, v \in Verdicts : [judged EXCEPT ![h] = v] \in [Heads -> Verdicts]
  BY <1>0 DEF RestTyped
<1>c. \A h \in Rebased : h \in Heads
  BY RebasedTypes
<1>1. CASE Prepare(t)
  BY <1>0, <1>1, HeadTypes, RowFields DEF Prepare, RestTyped
<1>2. CASE RebaseFails(t)
  BY <1>0, <1>2, HeadTypes, RowFields DEF RebaseFails, RestTyped
<1>3. CASE SetOut(t)
  BY <1>0, <1>c, <1>3, HeadTypes, RowFields DEF SetOut, RestTyped
<1>4. CASE Work(t)
  BY <1>0, <1>4, HeadTypes, RowFields DEF Work, RestTyped
<1>5. CASE Known(t)
  BY <1>0, <1>5, HeadTypes, RowFields DEF Known, RestTyped
<1>6. CASE WorkerStopped(t)
  BY <1>0, <1>a, <1>6, HeadTypes, RowFields DEF HasBranch, WorkerStopped, RestTyped
<1>7. CASE WorkerEnds(t)
  BY <1>0, <1>a, <1>7, HeadTypes, RowFields DEF HasBranch, WorkerEnds, RestTyped
<1>8. CASE GateRefuses(t)
  BY <1>0, <1>8, HeadTypes, RowFields DEF GateRefuses, RestTyped
<1>9. CASE TestGate(t)
  BY <1>0, <1>9, HeadTypes, RowFields DEF TestGate, RestTyped
<1>10. CASE Review(t)
  BY <1>0, <1>10, HeadTypes, RowFields DEF Review, RestTyped
<1>11. CASE ReviewerStopped(t)
  <2>1. row' \in Row
    BY <1>0, <1>11, RowFields DEF ReviewerStopped, RestTyped
  <2>2. judged' \in [Heads -> Verdicts]
    BY <1>0, <1>b, <1>11 DEF ReviewerStopped, RestTyped
  <2>3. left' \in Heads /\ told' = told
    BY <1>0, <1>11, HeadTypes DEF ReviewerStopped, RestTyped
  <2> QED
    BY <1>0, <1>11, <2>1, <2>2, <2>3 DEF ReviewerStopped, RestTyped
<1>12. CASE ReviewerFails(t)
  BY <1>0, <1>12, HeadTypes, RowFields DEF ReviewerFails, RestTyped
<1>13. CASE Approves(t)
  BY <1>0, <1>b, <1>13, HeadTypes, RowFields DEF Approves, RestTyped
<1>14. CASE Rejects(t)
  <2>1. row' \in Row
    BY <1>0, <1>14, RowFields DEF Rejects, RestTyped
  <2>2. judged' \in [Heads -> Verdicts]
    BY <1>0, <1>b, <1>14 DEF Rejects, RestTyped
  <2>3. left' \in Heads /\ told' = told
    BY <1>0, <1>14, HeadTypes DEF Rejects, RestTyped
  <2> QED
    BY <1>0, <1>14, <2>1, <2>2, <2>3 DEF Rejects, RestTyped
<1>15. CASE LastCheck(t)
  BY <1>0, <1>15, HeadTypes, RowFields DEF LastCheck, RestTyped
<1>16. CASE Sync(t)
  <2>1. head' \in Heads /\ row' \in Row
    BY <1>0, <1>16, HeadTypes, RowFields DEF Sync, Merged, RestTyped
  <2> QED
    BY <1>0, <1>16, <2>1 DEF Sync, RestTyped
<1>17. CASE Checking(t)
  BY <1>0, <1>17, HeadTypes, RowFields DEF Checking, RestTyped
<1>18. CASE Open(t)
  BY <1>0, <1>18, HeadTypes, RowFields DEF Open, RestTyped
<1>19. CASE Finish(t)
  BY <1>0, <1>19, HeadTypes, RowFields DEF Finish, RestTyped
<1>20. CASE Cleanup(t)
  BY <1>0, <1>20, HeadTypes, RowFields DEF Cleanup, Cleared, RestTyped
<1>21. CASE Break(t)
  BY <1>0, <1>21, HeadTypes, RowFields DEF Break, RestTyped
<1>22. CASE Start(t)
  BY <1>0, <1>22, HeadTypes, RowFields DEF Start, RestTyped
<1>23. CASE Answer(t)
  <2>1. row' \in Row
    BY <1>0, <1>23, RowFields DEF Answer, RestTyped
  <2>3. head' \in Heads
    BY <1>0, <1>23, HeadTypes DEF Answer, RestTyped
  <2>2. notes' \in 0..acts' /\ acts' \in 0..MaxActs
    BY <1>0, <1>23 DEF Answer, RestTyped
  <2> QED
    BY <1>0, <1>23, <2>1, <2>2, <2>3 DEF Answer, RestTyped
<1> QED
  BY <1>1, <1>2, <1>3, <1>4, <1>5, <1>6, <1>7, <1>8, <1>9, <1>10, <1>11, <1>12, <1>13, <1>14,
     <1>15, <1>16, <1>17, <1>18, <1>19, <1>20, <1>21, <1>22, <1>23 DEF Step

\* What is done apart from the threads keeps the types
LEMMA OthersType ==
  ASSUME TypeOK, Stop \/ WriteNote \/ Edit \/ Accept \/ MoveBase \/ SweepReads \/ SweepEnds \/ Crash
  PROVE  TypeOK'
<1>0. RestTyped /\ RunsTyped /\ log \in Seq(Record)
  BY DEF TypeOK, RestTyped, RunsTyped
<1>a. ASSUME RestTyped', RunsTyped', log' = log
      PROVE  TypeOK'
  BY <1>0, <1>a DEF TypeOK, RestTyped, RunsTyped
<1>b. UNCHANGED run => RunsTyped'
  BY <1>0 DEF RunsTyped
<1>1. CASE Stop
  <2>7. acts < MaxActs /\ acts' = acts + 1 /\ notes' = notes
    BY <1>1 DEF Stop
  <2>6. acts' \in 0..MaxActs /\ notes' \in 0..acts'
    <3>1. acts \in 0..MaxActs /\ notes \in 0..acts /\ MaxActs \in Nat
      BY <1>0 DEF RestTyped
    <3> QED
      BY <2>7, <3>1
  <2>1. current \in Threads /\ run[current].agent \in Agents
    BY <1>0, <1>1 DEF Stop, LiveRun, RestTyped, RunsTyped, RunState, Agents
  <2>2. PICK x \in {"in time", "late"}, a \in Agents :
          /\ run' = [run EXCEPT ![current].asked = x, ![current].agent = a]
          /\ a # "none" <=> run[current].agent # "none"
    BY <1>1, <2>1 DEF Stop, Agents
  <2>3. Fits(run[current].at, a)
    BY <1>0, <2>1, <2>2 DEF RunsTyped, Fits
  <2>4. RunsTyped'
    BY <1>0, <2>1, <2>2, <2>3, RunsMove
  <2>5. RestTyped'
    BY <1>0, <1>1, <2>6 DEF Stop, RestTyped, Marked
  <2> QED
    BY <1>1, <1>a, <2>4, <2>5 DEF Stop
<1>2. CASE WriteNote
  <2>a. acts' \in 0..MaxActs /\ notes' \in 0..acts' /\ base' \in 0..MaxMoves
    BY <1>0, <1>2 DEF WriteNote, RestTyped, Act1
  <2>b. env' \in {0, 1} /\ row' \in Row
    BY <1>0, <1>2, RowFields DEF WriteNote, RestTyped
  <2>1. RestTyped'
    BY <1>0, <1>2, <2>a, <2>b DEF WriteNote, RestTyped
  <2> QED
    BY <1>2, <1>a, <1>b, <2>1 DEF WriteNote
<1>3. CASE Edit
  <2>a. acts' \in 0..MaxActs /\ notes' \in 0..acts' /\ base' \in 0..MaxMoves
    BY <1>0, <1>3 DEF Edit, RestTyped, Act1
  <2>b. env' \in {0, 1} /\ row' \in Row
    <3>1. env' = 1 - env /\ (env = 0 \/ env = 1) /\ row' = row
      BY <1>0, <1>3 DEF Edit, RestTyped
    <3> QED
      BY <1>0, <3>1 DEF RestTyped
  <2>1. RestTyped'
    BY <1>0, <1>3, <2>a, <2>b DEF Edit, RestTyped
  <2> QED
    BY <1>3, <1>a, <1>b, <2>1 DEF Edit
<1>4. CASE Accept
  <2>a. acts' \in 0..MaxActs /\ notes' \in 0..acts' /\ base' \in 0..MaxMoves
    BY <1>0, <1>4 DEF Accept, RestTyped, Act1
  <2>b. env' \in {0, 1} /\ row' \in Row
    BY <1>0, <1>4, RowFields DEF Accept, RestTyped
  <2>1. RestTyped'
    BY <1>0, <1>4, <2>a, <2>b DEF Accept, RestTyped
  <2> QED
    BY <1>4, <1>a, <1>b, <2>1 DEF Accept
<1>5. CASE MoveBase
  <2>a. acts' \in 0..MaxActs /\ notes' \in 0..acts' /\ base' \in 0..MaxMoves
    BY <1>0, <1>5 DEF MoveBase, RestTyped, Act1
  <2>b. env' \in {0, 1} /\ row' \in Row
    BY <1>0, <1>5, RowFields DEF MoveBase, RestTyped
  <2>1. RestTyped'
    BY <1>0, <1>5, <2>a, <2>b DEF MoveBase, RestTyped
  <2> QED
    BY <1>5, <1>a, <1>b, <2>1 DEF MoveBase
<1>6. CASE SweepReads
  <2>1. RestTyped'
    BY <1>0, <1>6, HeadTypes, RowFields DEF SweepReads, RestTyped, Act1, Reasons
  <2> QED
    BY <1>6, <1>a, <1>b, <2>1 DEF SweepReads
<1>7. CASE SweepEnds
  <2>1. RestTyped'
    BY <1>0, <1>7, HeadTypes, RowFields DEF SweepEnds, RestTyped, Act1, Reasons
  <2> QED
    BY <1>7, <1>a, <1>b, <2>1 DEF SweepEnds
<1>8. CASE Crash
  <2>1. RunsTyped'
    BY <1>8, NewTypes DEF Crash, RunsTyped, NoRun
  <2>2. row' \in Row
    BY <1>0, <1>8, RowFields DEF Crash, RestTyped, Reasons
  <2>4. crashes' \in 0..MaxCrashes
    BY <1>0, <1>8 DEF Crash, RestTyped
  <2>3. RestTyped'
    BY <1>0, <1>8, <2>2, <2>4, HeadTypes DEF Crash, RestTyped
  <2> QED
    BY <1>8, <1>a, <2>1, <2>3 DEF Crash
<1> QED
  BY <1>1, <1>2, <1>3, <1>4, <1>5, <1>6, <1>7, <1>8

\* Every step keeps the types
LEMMA StepType ==
  ASSUME TypeOK, HasBranch, [Next]_vars
  PROVE  TypeOK'
<1>1. CASE \E t \in Threads : Start(t) \/ Answer(t) \/ Step(t) \/ Break(t)
  BY <1>1, RunsType, LogType, RestType DEF TypeOK, RunsTyped, RestTyped
<1>2. CASE UNCHANGED vars
  BY <1>2 DEF vars, TypeOK
<1> QED
  BY <1>1, <1>2, OthersType DEF Next

\* What a step makes of the run of a thread, and that it leaves the others alone
Becomes(t, at, agent, asOf, from, reuse, green, asked, result) ==
  /\ \A u \in Threads \ {t} : run'[u] = run[u]
  /\ run'[t].at = at /\ run'[t].agent = agent /\ run'[t].notes = asOf /\ run'[t].from = from
  /\ run'[t].reuse = reuse /\ run'[t].green = green /\ run'[t].asked = asked
  /\ run'[t].result = result

\* What each update of the runs makes of the fields that the invariants read
LEMMA RunsBecome ==
  ASSUME run \in [Threads -> RunState], NEW t \in Threads
  PROVE  /\ run' = [run EXCEPT ![t] = NoRun]
              => Becomes(t, "idle", "none", 0, NoHead, FALSE, NoHead, "no", "none")
         /\ \A s, a : run' = [run EXCEPT ![t].at = s, ![t].agent = a]
              => Becomes(t, s, a, run[t].notes, run[t].from, run[t].reuse, run[t].green,
                run[t].asked, run[t].result)
         /\ \A o : run' = [run EXCEPT ![t].at = "ended", ![t].agent = "none", ![t].result = o]
              => Becomes(t, "ended", "none", run[t].notes, run[t].from, run[t].reuse,
                run[t].green, run[t].asked, o)
         /\ \A s, a, h : run' = [run EXCEPT ![t].at = s, ![t].agent = a, ![t].from = h]
              => Becomes(t, s, a, run[t].notes, h, run[t].reuse, run[t].green, run[t].asked,
                run[t].result)
         /\ \A s, a, n : run' = [run EXCEPT ![t].at = s, ![t].agent = a, ![t].fixes = n]
              => Becomes(t, s, a, run[t].notes, run[t].from, run[t].reuse, run[t].green,
                run[t].asked, run[t].result)
         /\ \A s : run' = [run EXCEPT ![t].at = s]
              => Becomes(t, s, run[t].agent, run[t].notes, run[t].from, run[t].reuse,
                run[t].green, run[t].asked, run[t].result)
         /\ \A s, n, e : run' = [run EXCEPT ![t].at = s, ![t].notes = n, ![t].env = e]
              => Becomes(t, s, run[t].agent, n, run[t].from, run[t].reuse, run[t].green,
                run[t].asked, run[t].result)
         /\ \A s, r : run' = [run EXCEPT ![t].at = s, ![t].reuse = r]
              => Becomes(t, s, run[t].agent, run[t].notes, run[t].from, r, run[t].green,
                run[t].asked, run[t].result)
         /\ \A s, h : run' = [run EXCEPT ![t].at = s, ![t].green = h]
              => Becomes(t, s, run[t].agent, run[t].notes, run[t].from, run[t].reuse, h,
                run[t].asked, run[t].result)
         /\ \A a : run' = [run EXCEPT ![t].agent = a]
              => Becomes(t, run[t].at, a, run[t].notes, run[t].from, run[t].reuse, run[t].green,
                run[t].asked, run[t].result)
         /\ \A x, a : run' = [run EXCEPT ![t].asked = x, ![t].agent = a]
              => Becomes(t, run[t].at, a, run[t].notes, run[t].from, run[t].reuse, run[t].green,
                x, run[t].result)
<1>a. run[t] \in RunState
  OBVIOUS
<1>1. run' = [run EXCEPT ![t] = NoRun]
        => Becomes(t, "idle", "none", 0, NoHead, FALSE, NoHead, "no", "none")
  <2> SUFFICES ASSUME run' = [run EXCEPT ![t] = NoRun]
               PROVE  Becomes(t, "idle", "none", 0, NoHead, FALSE, NoHead, "no", "none")
    OBVIOUS
  <2>1. run'[t] = NoRun /\ \A u \in Threads \ {t} : run'[u] = run[u]
    OBVIOUS
  <2> QED
    BY <1>a, <2>1 DEF RunState, Becomes, NoRun
<1>2. \A s, a : run' = [run EXCEPT ![t].at = s, ![t].agent = a]
        => Becomes(t, s, a, run[t].notes, run[t].from, run[t].reuse, run[t].green, run[t].asked,
          run[t].result)
  <2> SUFFICES ASSUME NEW s, NEW a, run' = [run EXCEPT ![t].at = s, ![t].agent = a]
               PROVE  Becomes(t, s, a, run[t].notes, run[t].from, run[t].reuse, run[t].green,
                        run[t].asked, run[t].result)
    OBVIOUS
  <2>1. run'[t] = [run[t] EXCEPT !.at = s, !.agent = a] /\ \A u \in Threads \ {t} : run'[u] = run[u]
    OBVIOUS
  <2> QED
    BY <1>a, <2>1 DEF RunState, Becomes
<1>3. \A o : run' = [run EXCEPT ![t].at = "ended", ![t].agent = "none", ![t].result = o]
        => Becomes(t, "ended", "none", run[t].notes, run[t].from, run[t].reuse, run[t].green,
          run[t].asked, o)
  <2> SUFFICES ASSUME NEW o, run' = [run EXCEPT ![t].at = "ended", ![t].agent = "none",
                      ![t].result = o]
               PROVE  Becomes(t, "ended", "none", run[t].notes, run[t].from, run[t].reuse,
                        run[t].green, run[t].asked, o)
    OBVIOUS
  <2>1. run'[t] = [run[t] EXCEPT !.at = "ended", !.agent = "none",
          !.result = o] /\ \A u \in Threads \ {t} : run'[u] = run[u]
    OBVIOUS
  <2> QED
    BY <1>a, <2>1 DEF RunState, Becomes
<1>4. \A s, a, h : run' = [run EXCEPT ![t].at = s, ![t].agent = a, ![t].from = h]
        => Becomes(t, s, a, run[t].notes, h, run[t].reuse, run[t].green, run[t].asked,
          run[t].result)
  <2> SUFFICES ASSUME NEW s, NEW a, NEW h, run' = [run EXCEPT ![t].at = s, ![t].agent = a,
                      ![t].from = h]
               PROVE  Becomes(t, s, a, run[t].notes, h, run[t].reuse, run[t].green, run[t].asked,
                        run[t].result)
    OBVIOUS
  <2>1. run'[t] = [run[t] EXCEPT !.at = s, !.agent = a,
          !.from = h] /\ \A u \in Threads \ {t} : run'[u] = run[u]
    OBVIOUS
  <2> QED
    BY <1>a, <2>1 DEF RunState, Becomes
<1>5. \A s, a, n : run' = [run EXCEPT ![t].at = s, ![t].agent = a, ![t].fixes = n]
        => Becomes(t, s, a, run[t].notes, run[t].from, run[t].reuse, run[t].green, run[t].asked,
          run[t].result)
  <2> SUFFICES ASSUME NEW s, NEW a, NEW n, run' = [run EXCEPT ![t].at = s, ![t].agent = a,
                      ![t].fixes = n]
               PROVE  Becomes(t, s, a, run[t].notes, run[t].from, run[t].reuse, run[t].green,
                        run[t].asked, run[t].result)
    OBVIOUS
  <2>1. run'[t] = [run[t] EXCEPT !.at = s, !.agent = a,
          !.fixes = n] /\ \A u \in Threads \ {t} : run'[u] = run[u]
    OBVIOUS
  <2> QED
    BY <1>a, <2>1 DEF RunState, Becomes
<1>6. \A s : run' = [run EXCEPT ![t].at = s]
        => Becomes(t, s, run[t].agent, run[t].notes, run[t].from, run[t].reuse, run[t].green,
          run[t].asked, run[t].result)
  <2> SUFFICES ASSUME NEW s, run' = [run EXCEPT ![t].at = s]
               PROVE  Becomes(t, s, run[t].agent, run[t].notes, run[t].from, run[t].reuse,
                        run[t].green, run[t].asked, run[t].result)
    OBVIOUS
  <2>1. run'[t] = [run[t] EXCEPT !.at = s] /\ \A u \in Threads \ {t} : run'[u] = run[u]
    OBVIOUS
  <2> QED
    BY <1>a, <2>1 DEF RunState, Becomes
<1>7. \A s, n, e : run' = [run EXCEPT ![t].at = s, ![t].notes = n, ![t].env = e]
        => Becomes(t, s, run[t].agent, n, run[t].from, run[t].reuse, run[t].green, run[t].asked,
          run[t].result)
  <2> SUFFICES ASSUME NEW s, NEW n, NEW e, run' = [run EXCEPT ![t].at = s, ![t].notes = n,
                      ![t].env = e]
               PROVE  Becomes(t, s, run[t].agent, n, run[t].from, run[t].reuse, run[t].green,
                        run[t].asked, run[t].result)
    OBVIOUS
  <2>1. run'[t] = [run[t] EXCEPT !.at = s, !.notes = n,
          !.env = e] /\ \A u \in Threads \ {t} : run'[u] = run[u]
    OBVIOUS
  <2> QED
    BY <1>a, <2>1 DEF RunState, Becomes
<1>8. \A s, r : run' = [run EXCEPT ![t].at = s, ![t].reuse = r]
        => Becomes(t, s, run[t].agent, run[t].notes, run[t].from, r, run[t].green, run[t].asked,
          run[t].result)
  <2> SUFFICES ASSUME NEW s, NEW r, run' = [run EXCEPT ![t].at = s, ![t].reuse = r]
               PROVE  Becomes(t, s, run[t].agent, run[t].notes, run[t].from, r, run[t].green,
                        run[t].asked, run[t].result)
    OBVIOUS
  <2>1. run'[t] = [run[t] EXCEPT !.at = s, !.reuse = r] /\ \A u \in Threads \ {t} : run'[u] = run[u]
    OBVIOUS
  <2> QED
    BY <1>a, <2>1 DEF RunState, Becomes
<1>9. \A s, h : run' = [run EXCEPT ![t].at = s, ![t].green = h]
        => Becomes(t, s, run[t].agent, run[t].notes, run[t].from, run[t].reuse, h, run[t].asked,
          run[t].result)
  <2> SUFFICES ASSUME NEW s, NEW h, run' = [run EXCEPT ![t].at = s, ![t].green = h]
               PROVE  Becomes(t, s, run[t].agent, run[t].notes, run[t].from, run[t].reuse, h,
                        run[t].asked, run[t].result)
    OBVIOUS
  <2>1. run'[t] = [run[t] EXCEPT !.at = s, !.green = h] /\ \A u \in Threads \ {t} : run'[u] = run[u]
    OBVIOUS
  <2> QED
    BY <1>a, <2>1 DEF RunState, Becomes
<1>10. \A a : run' = [run EXCEPT ![t].agent = a]
        => Becomes(t, run[t].at, a, run[t].notes, run[t].from, run[t].reuse, run[t].green,
          run[t].asked, run[t].result)
  <2> SUFFICES ASSUME NEW a, run' = [run EXCEPT ![t].agent = a]
               PROVE  Becomes(t, run[t].at, a, run[t].notes, run[t].from, run[t].reuse,
                        run[t].green, run[t].asked, run[t].result)
    OBVIOUS
  <2>1. run'[t] = [run[t] EXCEPT !.agent = a] /\ \A u \in Threads \ {t} : run'[u] = run[u]
    OBVIOUS
  <2> QED
    BY <1>a, <2>1 DEF RunState, Becomes
<1>11. \A x, a : run' = [run EXCEPT ![t].asked = x, ![t].agent = a]
        => Becomes(t, run[t].at, a, run[t].notes, run[t].from, run[t].reuse, run[t].green, x,
          run[t].result)
  <2> SUFFICES ASSUME NEW x, NEW a, run' = [run EXCEPT ![t].asked = x, ![t].agent = a]
               PROVE  Becomes(t, run[t].at, a, run[t].notes, run[t].from, run[t].reuse,
                        run[t].green, x, run[t].result)
    OBVIOUS
  <2>1. run'[t] = [run[t] EXCEPT !.asked = x,
          !.agent = a] /\ \A u \in Threads \ {t} : run'[u] = run[u]
    OBVIOUS
  <2> QED
    BY <1>a, <2>1 DEF RunState, Becomes
<1> QED
  BY <1>1, <1>2, <1>3, <1>4, <1>5, <1>6, <1>7, <1>8, <1>9, <1>10, <1>11

\* A run goes on to another stage, and all it knows stays ...
Goes(t, s, a) ==
  Becomes(t, s, a, run[t].notes, run[t].from, run[t].reuse, run[t].green, run[t].asked,
          run[t].result)
\* ... or it ends, with one of these results
Ended(t, results) ==
  \E o \in results :
    Becomes(t, "ended", "none", run[t].notes, run[t].from, run[t].reuse, run[t].green,
            run[t].asked, o)
\* how a run may end before its pull request: stopped only if it is
Short == {"refused", "blocked"} \cup IF stopping THEN {"stopped"} ELSE {}

\* From which stage to which each action of a thread goes
LEMMA StepsGo ==
  ASSUME TypeOK, NEW t \in Threads
  PROVE  /\ Prepare(t) =>
              /\ run[t].at = "registered"
              /\ \/ Ended(t, {"refused"})
                 \/ Becomes(t, "prepared", run[t].agent, notes, run[t].from, run[t].reuse,
                      run[t].green, run[t].asked, run[t].result)
         /\ RebaseFails(t) =>
              /\ run[t].at = "prepared"
              /\ Ended(t, Short)
         /\ SetOut(t) =>
              /\ run[t].at = "prepared"
              /\ \/ Ended(t, {"blocked"})
                 \/ \E s \in {"testing", "brief"}, r \in BOOLEAN :
                            Becomes(t, s, run[t].agent, run[t].notes, run[t].from, r, run[t].green,
                            run[t].asked, run[t].result)
         /\ Work(t) =>
              /\ run[t].at = "brief"
              /\ Becomes(t, "worker", "unknown", run[t].notes, head, run[t].reuse, run[t].green,
                            run[t].asked, run[t].result)
         /\ Known(t) =>
              /\ run[t].agent = "unknown"
              /\ Goes(t, run[t].at, "running")
         /\ WorkerStopped(t) =>
              /\ run[t].at = "worker"
              /\ Ended(t, {"stopped"}) /\ stopping
         /\ WorkerEnds(t) =>
              /\ run[t].at = "worker"
              /\ \/ Ended(t, Short)
                 \/ Goes(t, "testing", "none")
         /\ GateRefuses(t) =>
              /\ run[t].at = "testing"
              /\ Ended(t, Short)
         /\ TestGate(t) =>
              /\ run[t].at = "testing"
              /\ \/ Ended(t, Short)
                 \/ \E s \in {"reading", "reviewed"} :
                            Becomes(t, s, run[t].agent, run[t].notes, run[t].from, run[t].reuse,
                              head,
                            run[t].asked, run[t].result)
         /\ Review(t) =>
              /\ run[t].at = "reading"
              /\ \/ Ended(t, Short)
                 \/ Becomes(t, "reviewer", "unknown", run[t].notes, head, run[t].reuse,
                      run[t].green,
                            run[t].asked, run[t].result)
         /\ ReviewerStopped(t) =>
              /\ run[t].at = "reviewer"
              /\ Ended(t, Short)
         /\ ReviewerFails(t) =>
              /\ run[t].at = "reviewer"
              /\ Ended(t, Short)
         /\ Approves(t) =>
              /\ run[t].at = "reviewer"
              /\ Goes(t, "reviewed", "none")
         /\ Rejects(t) =>
              /\ run[t].at = "reviewer"
              /\ \/ Ended(t, Short)
                 \/ Goes(t, "brief", "none")
         /\ LastCheck(t) =>
              /\ run[t].at = "reviewed"
              /\ \/ Ended(t, Short)
                 \/ Goes(t, "opening", "none") /\ ~stopping
         /\ Sync(t) =>
              /\ run[t].at = "opening"
              /\ \/ Ended(t, Short)
                 \/ Goes(t, "synced", "none")
                 \/ Becomes(t, "synced", run[t].agent, run[t].notes, run[t].from, run[t].reuse,
                      Merged,
                            run[t].asked, run[t].result) /\ head' = Merged
         /\ Checking(t) =>
              /\ run[t].at = "synced"
              /\ Goes(t, "pushing", "none")
         /\ Open(t) =>
              /\ run[t].at = "pushing"
              /\ Ended(t, {"blocked", "opened", "refused"})
         /\ Finish(t) =>
              /\ run[t].at = "ended"
              /\ Goes(t, "finished", "none")
         /\ Cleanup(t) =>
              /\ run[t].at = "finished"
              /\ Becomes(t, "idle", "none", 0, NoHead, FALSE, NoHead, "no", "none")
         /\ Break(t) =>
              /\ run[t].at \in Live \ {"ended"}
              /\ Ended(t, Short)
         /\ Start(t) =>
              /\ run[t].at = "idle"
              /\ Goes(t, "registered", run[t].agent)
         /\ Answer(t) =>
              /\ run[t].at = "idle"
              /\ Goes(t, "registered", run[t].agent)
<1> USE DEF Refuse, Block, StopShort, EndsAs, Goto, Apart, Keeps, Judge, Note, Register, Summary,
            Goes, Ended, Short, Look
<1>0. run \in [Threads -> RunState]
  BY DEF TypeOK
<1>1. ASSUME Prepare(t)
      PROVE  /\ run[t].at = "registered"
             /\ \/ Ended(t, {"refused"})
                \/ Becomes(t, "prepared", run[t].agent, notes, run[t].from, run[t].reuse,
                     run[t].green, run[t].asked, run[t].result)
  BY <1>0, <1>1, RunsBecome, Zenon DEF Prepare
<1>2. ASSUME RebaseFails(t)
      PROVE  /\ run[t].at = "prepared"
             /\ Ended(t, Short)
  BY <1>0, <1>2, RunsBecome, ZenonT(30) DEF RebaseFails
<1>3. ASSUME SetOut(t)
      PROVE  /\ run[t].at = "prepared"
             /\ \/ Ended(t, {"blocked"})
                \/ \E s \in {"testing", "brief"}, r \in BOOLEAN :
                           Becomes(t, s, run[t].agent, run[t].notes, run[t].from, r, run[t].green,
                           run[t].asked, run[t].result)
  BY <1>0, <1>3, RunsBecome, Zenon DEF SetOut, Approved
<1>4. ASSUME Work(t)
      PROVE  /\ run[t].at = "brief"
             /\ Becomes(t, "worker", "unknown", run[t].notes, head, run[t].reuse, run[t].green,
                           run[t].asked, run[t].result)
  BY <1>0, <1>4, RunsBecome DEF Work
<1>5. ASSUME Known(t)
      PROVE  /\ run[t].agent = "unknown"
             /\ Goes(t, run[t].at, "running")
  BY <1>0, <1>5, RunsBecome DEF Known
<1>6. ASSUME WorkerStopped(t)
      PROVE  /\ run[t].at = "worker"
             /\ Ended(t, {"stopped"}) /\ stopping
  BY <1>0, <1>6, RunsBecome, ZenonT(30) DEF WorkerStopped
<1>7. ASSUME WorkerEnds(t)
      PROVE  /\ run[t].at = "worker"
             /\ \/ Ended(t, Short)
                \/ Goes(t, "testing", "none")
  BY <1>0, <1>7, RunsBecome, Zenon DEF WorkerEnds
<1>8. ASSUME GateRefuses(t)
      PROVE  /\ run[t].at = "testing"
             /\ Ended(t, Short)
  BY <1>0, <1>8, RunsBecome, ZenonT(30) DEF GateRefuses
<1>9. ASSUME TestGate(t)
      PROVE  /\ run[t].at = "testing"
             /\ \/ Ended(t, Short)
                \/ \E s \in {"reading", "reviewed"} :
                           Becomes(t, s, run[t].agent, run[t].notes, run[t].from, run[t].reuse,
                             head,
                           run[t].asked, run[t].result)
  BY <1>0, <1>9, RunsBecome, ZenonT(30) DEF TestGate
<1>10. ASSUME Review(t)
      PROVE  /\ run[t].at = "reading"
             /\ \/ Ended(t, Short)
                \/ Becomes(t, "reviewer", "unknown", run[t].notes, head, run[t].reuse, run[t].green,
                           run[t].asked, run[t].result)
  BY <1>0, <1>10, RunsBecome, Zenon DEF Review
<1>11. ASSUME ReviewerStopped(t)
      PROVE  /\ run[t].at = "reviewer"
             /\ Ended(t, Short)
  BY <1>0, <1>11, RunsBecome, ZenonT(30) DEF ReviewerStopped
<1>12. ASSUME ReviewerFails(t)
      PROVE  /\ run[t].at = "reviewer"
             /\ Ended(t, Short)
  BY <1>0, <1>12, RunsBecome, Zenon DEF ReviewerFails
<1>13. ASSUME Approves(t)
      PROVE  /\ run[t].at = "reviewer"
             /\ Goes(t, "reviewed", "none")
  BY <1>0, <1>13, RunsBecome, ZenonT(30) DEF Approves
<1>14. ASSUME Rejects(t)
      PROVE  /\ run[t].at = "reviewer"
             /\ \/ Ended(t, Short)
                \/ Goes(t, "brief", "none")
  BY <1>0, <1>14, RunsBecome, ZenonT(30) DEF Rejects, Counted
<1>15. ASSUME LastCheck(t)
      PROVE  /\ run[t].at = "reviewed"
             /\ \/ Ended(t, Short)
                \/ Goes(t, "opening", "none") /\ ~stopping
  BY <1>0, <1>15, RunsBecome, ZenonT(30) DEF LastCheck
<1>16. ASSUME Sync(t)
      PROVE  /\ run[t].at = "opening"
             /\ \/ Ended(t, Short)
                \/ Goes(t, "synced", "none")
                \/ Becomes(t, "synced", run[t].agent, run[t].notes, run[t].from, run[t].reuse,
                     Merged,
                           run[t].asked, run[t].result) /\ head' = Merged
  BY <1>0, <1>16, RunsBecome, Zenon DEF Sync, NeedsRetest
<1>17. ASSUME Checking(t)
      PROVE  /\ run[t].at = "synced"
             /\ Goes(t, "pushing", "none")
  BY <1>0, <1>17, RunsBecome, ZenonT(30) DEF Checking
<1>18. ASSUME Open(t)
      PROVE  /\ run[t].at = "pushing"
             /\ Ended(t, {"blocked", "opened", "refused"})
  BY <1>0, <1>18, RunsBecome, Zenon DEF Open
<1>19. ASSUME Finish(t)
      PROVE  /\ run[t].at = "ended"
             /\ Goes(t, "finished", "none")
  BY <1>0, <1>19, RunsBecome DEF Finish
<1>20. ASSUME Cleanup(t)
      PROVE  /\ run[t].at = "finished"
             /\ Becomes(t, "idle", "none", 0, NoHead, FALSE, NoHead, "no", "none")
  BY <1>0, <1>20, RunsBecome, ZenonT(30) DEF Cleanup
<1>21. ASSUME Break(t)
      PROVE  /\ run[t].at \in Live \ {"ended"}
             /\ Ended(t, Short)
  BY <1>0, <1>21, RunsBecome, Zenon DEF Break
<1>22. ASSUME Start(t)
      PROVE  /\ run[t].at = "idle"
             /\ Goes(t, "registered", run[t].agent)
  BY <1>0, <1>22, RunsBecome DEF Start, FreeThreads
<1>23. ASSUME Answer(t)
      PROVE  /\ run[t].at = "idle"
             /\ Goes(t, "registered", run[t].agent)
  BY <1>0, <1>23, RunsBecome DEF Answer, FreeThreads
<1> QED
  BY <1>1, <1>2, <1>3, <1>4, <1>5, <1>6, <1>7, <1>8, <1>9, <1>10, <1>11, <1>12, <1>13, <1>14,
     <1>15, <1>16, <1>17, <1>18, <1>19, <1>20, <1>21, <1>22, <1>23, ZenonT(30)

-----------------------------------------------------------------------------
(* What the newest run and the card's row say of each other *)

\* The stages between setting out and opening
Working == Live \ {"registered", "pushing", "ended"}

\* no run but the newest is alive
OneLive == \A t \in Threads : run[t].at \in Live => t = current

\* the card is in doing until both gates passed, then in checking, and flagged at the end; what
\* is blocked is flagged, and only a card whose run is alive looks like one that a dead board
\* left mid-run
RowFollows ==
  /\ \A t \in Threads :
       /\ run[t].at \in Working =>
            /\ row.status = "doing"
            /\ row.reason = "none" => ~row.flag /\ Now > 0 /\ log[Now].ended = "none"
       /\ run[t].at = "pushing" => row.status = "checking"
       /\ run[t].at = "ended" => row.flag
  /\ row.reason # "none" => row.flag
  /\ (\A t \in Threads : run[t].at \notin Live) => ~Orphaned

\* The inductive invariant that the types need, and the one of the refinement
CoreInv == TypeOK /\ HasBranch /\ OneLive
RowInv == CoreInv /\ RowFollows

\* A branch that is there stays there, and every run that sets out has one
LEMMA HeadStays ==
  ASSUME TypeOK, HasBranch, [Next]_vars
  PROVE  /\ head # NoHead => head' # NoHead
         /\ \A t \in Threads : SetOut(t) => head' # NoHead
<1>0. base \in 0..MaxMoves /\ head \in Heads
  BY DEF TypeOK
<1>1. /\ \A h \in Rebased : h # NoHead
      /\ \A h \in Fetched : head # NoHead => h # NoHead
  BY RebasedTypes, FetchedTypes
<1>2. [work |-> 0, base |-> base] # NoHead
  BY <1>0 DEF NoHead
<1>3. head # NoHead => [head EXCEPT !.base = base] # NoHead
  <2>1. ASSUME head # NoHead
        PROVE  [head EXCEPT !.base = base].base = base
    BY <1>0, <2>1 DEF Heads
  <2>2. base # -1 /\ NoHead.base = -1
    BY <1>0 DEF NoHead
  <2> QED
    BY <2>1, <2>2
<1>4. \A t \in Threads : SetOut(t) => head' \in Rebased
  BY DEF SetOut
<1>5. \A t \in Threads : WorkerStopped(t) \/ WorkerEnds(t) => head' \in Fetched
  BY DEF WorkerStopped, WorkerEnds
<1>6. \A t \in Threads : Answer(t) => head' = head \/ head' = [work |-> 0, base |-> base]
  BY DEF Answer
<1>7. \A t \in Threads : Sync(t) => head' = head \/ head' = [head EXCEPT !.base = base]
  BY DEF Sync, Merged
<1>8. \A t \in Threads :
        Step(t) \/ Break(t) \/ Start(t) =>
          head' = head \/ SetOut(t) \/ WorkerStopped(t) \/ WorkerEnds(t) \/ Sync(t)
  BY DEF Step, Break, Start, Prepare, RebaseFails, Work, Known, GateRefuses, TestGate, Review,
         ReviewerStopped, ReviewerFails, Approves, Rejects, LastCheck, Checking, Open, Finish,
         Cleanup
<1>9. ASSUME Stop \/ WriteNote \/ Edit \/ Accept \/ MoveBase \/ SweepReads \/ SweepEnds \/ Crash
      PROVE  head' = head \/ head' = [head EXCEPT !.base = base]
  BY <1>9 DEF Stop, WriteNote, Edit, Accept, MoveBase, SweepReads, SweepEnds, Crash
<1> QED
  BY <1>1, <1>2, <1>3, <1>4, <1>5, <1>6, <1>7, <1>8, <1>9 DEF Next, vars

\* What a step makes of the newest attempt in the log, and that it leaves the others alone
Edited(fp, skipped, reached, last, verdict, ended) ==
  /\ Now' = Now /\ \A i \in 1..Now : i # Now => log'[i] = log[i]
  /\ Now > 0 => /\ log'[Now].fp = fp /\ log'[Now].skipped = skipped
                /\ log'[Now].reached = reached /\ log'[Now].last = last
                /\ log'[Now].verdict = verdict /\ log'[Now].ended = ended
\* No more of the newest record changes than its gate and its end
Unedited == Edited(log[Now].fp, log[Now].skipped, log[Now].reached, log[Now].last,
                   log[Now].verdict, log[Now].ended)

\* An edit of some fields of the newest attempt, field by field
LEMMA LogBecomes ==
  ASSUME log \in Seq(Record)
  PROVE  /\ log' = log => Unedited
         /\ \A fp, k : log' = [log EXCEPT ![Now].fp = fp, ![Now].skipped = k]
              => Edited(fp, k, log[Now].reached, log[Now].last, log[Now].verdict, log[Now].ended)
         /\ \A h : log' = [log EXCEPT ![Now].reached = TRUE, ![Now].last = h]
              => Edited(log[Now].fp, log[Now].skipped, TRUE, h, log[Now].verdict, log[Now].ended)
         /\ \A v : log' = [log EXCEPT ![Now]["verdict"] = v]
              => Edited(log[Now].fp, log[Now].skipped, log[Now].reached, log[Now].last, v,
                log[Now].ended)
         /\ \A g : log' = [log EXCEPT ![Now]["gate"] = g]
              => Edited(log[Now].fp, log[Now].skipped, log[Now].reached, log[Now].last,
                log[Now].verdict, log[Now].ended)
         /\ \A o : log' = [log EXCEPT ![Now]["ended"] = o]
              => Edited(log[Now].fp, log[Now].skipped, log[Now].reached, log[Now].last,
                log[Now].verdict, o)
         /\ \A h : log' = [log EXCEPT ![Now].last = NoHead, ![Now].verdict[h] = "rejected"]
              => Edited(log[Now].fp, log[Now].skipped, log[Now].reached, NoHead,
                [log[Now].verdict EXCEPT ![h] = "rejected"], log[Now].ended)
<1>0. Now \in Nat /\ Len(log) = Now /\ DOMAIN log = 1..Now
  BY LenProperties DEF Now
<1>1. Now > 0 => log[Now] \in Record
  BY <1>0, ElementOfSeq
<1>2. \A x : LET l == [log EXCEPT ![Now] = x] IN
        /\ Len(l) = Now /\ \A i \in 1..Now : i # Now => l[i] = log[i]
        /\ Now > 0 => l[Now] = x
  <2> SUFFICES ASSUME NEW x
               PROVE  LET l == [log EXCEPT ![Now] = x] IN
                        /\ Len(l) = Now /\ \A i \in 1..Now : i # Now => l[i] = log[i]
                        /\ Now > 0 => l[Now] = x
    OBVIOUS
  <2> DEFINE l == [log EXCEPT ![Now] = x]
  <2>1. l = [i \in 1..Now |-> IF i = Now THEN x ELSE log[i]]
    BY <1>0
  <2>2. Len(l) = Now
    BY <1>0, <2>1
  <2> QED
    BY <1>0, <2>1, <2>2
<1>3. log' = log => Unedited
  BY <1>0 DEF Unedited, Edited, Now
<1>4. \A fp, k : log' = [log EXCEPT ![Now].fp = fp, ![Now].skipped = k]
        => Edited(fp, k, log[Now].reached, log[Now].last, log[Now].verdict, log[Now].ended)
  <2> SUFFICES ASSUME NEW fp, NEW k, log' = [log EXCEPT ![Now].fp = fp, ![Now].skipped = k]
               PROVE  Edited(fp, k, log[Now].reached, log[Now].last, log[Now].verdict,
                        log[Now].ended)
    OBVIOUS
  <2>1. log' = [log EXCEPT ![Now] = [log[Now] EXCEPT !.fp = fp, !.skipped = k]]
    OBVIOUS
  <2>2. /\ Len(log') = Now /\ \A i \in 1..Now : i # Now => log'[i] = log[i]
        /\ Now > 0 => log'[Now] = [log[Now] EXCEPT !.fp = fp, !.skipped = k]
    BY <1>2, <2>1
  <2> QED
    BY <1>1, <2>2 DEF Record, Edited, Now
<1>5. \A h : log' = [log EXCEPT ![Now].reached = TRUE, ![Now].last = h]
        => Edited(log[Now].fp, log[Now].skipped, TRUE, h, log[Now].verdict, log[Now].ended)
  <2> SUFFICES ASSUME NEW h, log' = [log EXCEPT ![Now].reached = TRUE, ![Now].last = h]
               PROVE  Edited(log[Now].fp, log[Now].skipped, TRUE, h, log[Now].verdict,
                        log[Now].ended)
    OBVIOUS
  <2>1. log' = [log EXCEPT ![Now] = [log[Now] EXCEPT !.reached = TRUE, !.last = h]]
    OBVIOUS
  <2>2. /\ Len(log') = Now /\ \A i \in 1..Now : i # Now => log'[i] = log[i]
        /\ Now > 0 => log'[Now] = [log[Now] EXCEPT !.reached = TRUE, !.last = h]
    BY <1>2, <2>1
  <2> QED
    BY <1>1, <2>2 DEF Record, Edited, Now
<1>6. \A v : log' = [log EXCEPT ![Now]["verdict"] = v]
        => Edited(log[Now].fp, log[Now].skipped, log[Now].reached, log[Now].last, v, log[Now].ended)
  <2> SUFFICES ASSUME NEW v, log' = [log EXCEPT ![Now]["verdict"] = v]
               PROVE  Edited(log[Now].fp, log[Now].skipped, log[Now].reached, log[Now].last, v,
                        log[Now].ended)
    OBVIOUS
  <2>1. log' = [log EXCEPT ![Now] = [log[Now] EXCEPT !.verdict = v]]
    OBVIOUS
  <2>2. /\ Len(log') = Now /\ \A i \in 1..Now : i # Now => log'[i] = log[i]
        /\ Now > 0 => log'[Now] = [log[Now] EXCEPT !.verdict = v]
    BY <1>2, <2>1
  <2> QED
    BY <1>1, <2>2 DEF Record, Edited, Now
<1>7. \A g : log' = [log EXCEPT ![Now]["gate"] = g]
        => Edited(log[Now].fp, log[Now].skipped, log[Now].reached, log[Now].last,
          log[Now].verdict, log[Now].ended)
  <2> SUFFICES ASSUME NEW g, log' = [log EXCEPT ![Now]["gate"] = g]
               PROVE  Edited(log[Now].fp, log[Now].skipped, log[Now].reached, log[Now].last,
                        log[Now].verdict, log[Now].ended)
    OBVIOUS
  <2>1. log' = [log EXCEPT ![Now] = [log[Now] EXCEPT !.gate = g]]
    OBVIOUS
  <2>2. /\ Len(log') = Now /\ \A i \in 1..Now : i # Now => log'[i] = log[i]
        /\ Now > 0 => log'[Now] = [log[Now] EXCEPT !.gate = g]
    BY <1>2, <2>1
  <2> QED
    BY <1>1, <2>2 DEF Record, Edited, Now
<1>8. \A o : log' = [log EXCEPT ![Now]["ended"] = o]
        => Edited(log[Now].fp, log[Now].skipped, log[Now].reached, log[Now].last,
          log[Now].verdict, o)
  <2> SUFFICES ASSUME NEW o, log' = [log EXCEPT ![Now]["ended"] = o]
               PROVE  Edited(log[Now].fp, log[Now].skipped, log[Now].reached, log[Now].last,
                        log[Now].verdict, o)
    OBVIOUS
  <2>1. log' = [log EXCEPT ![Now] = [log[Now] EXCEPT !.ended = o]]
    OBVIOUS
  <2>2. /\ Len(log') = Now /\ \A i \in 1..Now : i # Now => log'[i] = log[i]
        /\ Now > 0 => log'[Now] = [log[Now] EXCEPT !.ended = o]
    BY <1>2, <2>1
  <2> QED
    BY <1>1, <2>2 DEF Record, Edited, Now
<1>9. \A h : log' = [log EXCEPT ![Now].last = NoHead, ![Now].verdict[h] = "rejected"]
        => Edited(log[Now].fp, log[Now].skipped, log[Now].reached, NoHead,
          [log[Now].verdict EXCEPT ![h] = "rejected"], log[Now].ended)
  <2> SUFFICES ASSUME NEW h, log' = [log EXCEPT ![Now].last = NoHead,
                      ![Now].verdict[h] = "rejected"]
               PROVE  Edited(log[Now].fp, log[Now].skipped, log[Now].reached, NoHead,
                        [log[Now].verdict EXCEPT ![h] = "rejected"], log[Now].ended)
    OBVIOUS
  <2>1. log' = [log EXCEPT ![Now] = [log[Now] EXCEPT !.last = NoHead, !.verdict[h] = "rejected"]]
    OBVIOUS
  <2>2. /\ Len(log') = Now /\ \A i \in 1..Now : i # Now => log'[i] = log[i]
        /\ Now > 0 => log'[Now] = [log[Now] EXCEPT !.last = NoHead, !.verdict[h] = "rejected"]
    BY <1>2, <2>1
  <2> QED
    BY <1>1, <2>2 DEF Record, Edited, Now
<1> QED
  BY <1>3, <1>4, <1>5, <1>6, <1>7, <1>8, <1>9

\* What the threads do to the end of the newest attempt, but for the start and the end of a run
LEMMA LogGoesOn ==
  ASSUME TypeOK, NEW t \in Threads, Step(t) \/ Break(t) \/ Start(t) \/ Answer(t)
  PROVE  /\ ~Prepare(t) => Now' = Now
         /\ ~Prepare(t) /\ ~Finish(t) /\ Now > 0 => log'[Now].ended = log[Now].ended
         /\ Prepare(t) => \/ log' = log /\ run'[t].at = "ended"
                          \/ Now' > 0 /\ log'[Now'].ended = "none"
<1>0. log \in Seq(Record) /\ Now \in Nat
  BY LenProperties DEF TypeOK, Now
<1>1. ASSUME Prepare(t)
      PROVE  \/ log' = log /\ run'[t].at = "ended"
             \/ Now' > 0 /\ log'[Now'].ended = "none"
  <2>1. CASE log' = Append(log, NewAttempt)
    BY <1>0, <2>1, NewTypes DEF Now, NewAttempt
  <2>2. CASE row.status = "accepted"
    <3>1. log' = log /\ EndsAs(t, "refused")
      BY <1>1, <2>2 DEF Prepare, Refuse
    <3> QED
      BY <3>1, RunsBecome DEF TypeOK, EndsAs, Becomes
  <2> QED
    BY <1>1, <2>1, <2>2 DEF Prepare
<1>2. ASSUME Step(t) \/ Break(t) \/ Start(t) \/ Answer(t), ~Prepare(t)
      PROVE  Now' = Now /\ (~Finish(t) /\ Now > 0 => log'[Now].ended = log[Now].ended)
  <2>1. SetOut(t) => \/ log' = log
                     \/ \E fp, k : log' = [log EXCEPT ![Now].fp = fp, ![Now].skipped = k]
    BY DEF SetOut
  <2>2. WorkerEnds(t) => \/ log' = log
                         \/ \E h : log' = [log EXCEPT ![Now].reached = TRUE, ![Now].last = h]
    BY DEF WorkerEnds, Summary
  <2>3. TestGate(t) \/ Sync(t) => log' = log \/ \E g : log' = [log EXCEPT ![Now]["gate"] = g]
    BY DEF TestGate, Sync, Note
  <2>4. ReviewerStopped(t) \/ Approves(t) \/ Rejects(t) =>
          \/ log' = log
          \/ \E v : log' = [log EXCEPT ![Now]["verdict"] = v]
          \/ \E h : log' = [log EXCEPT ![Now].last = NoHead, ![Now].verdict[h] = "rejected"]
    BY DEF ReviewerStopped, Approves, Rejects, Judge, Note
  <2>5. Finish(t) => log' = log \/ \E o : log' = [log EXCEPT ![Now]["ended"] = o]
    BY DEF Finish, Note
  <2>6. \/ log' = log \/ SetOut(t) \/ WorkerEnds(t) \/ TestGate(t) \/ Sync(t)
        \/ ReviewerStopped(t) \/ Approves(t) \/ Rejects(t) \/ Finish(t)
    BY <1>2 DEF Step, Break, Start, Answer, RebaseFails, Work, Known, WorkerStopped,
                GateRefuses, Review, ReviewerFails, LastCheck, Checking, Open, Cleanup
  <2> QED
    BY <1>0, <2>1, <2>2, <2>3, <2>4, <2>5, <2>6, LogBecomes DEF Edited, Unedited
<1> QED
  BY <1>1, <1>2

\* A stop marks the newest run, and may kill its agent; nothing else about the runs changes
LEMMA StopMarks ==
  ASSUME TypeOK, Stop
  PROVE  /\ current \in Threads
         /\ \E x \in {"in time", "late"}, a \in {run[current].agent, "killed"} :
              /\ Becomes(current, run[current].at, a, run[current].notes, run[current].from,
                         run[current].reuse, run[current].green, x, run[current].result)
              /\ x = "in time" <=> run[current].at \in Before
<1>1. current \in Threads
  BY NoThread \notin Threads DEF Stop, LiveRun, TypeOK
<1>2. PICK x \in {"in time", "late"}, a \in {run[current].agent, "killed"} :
        /\ run' = [run EXCEPT ![current].asked = x, ![current].agent = a]
        /\ x = "in time" <=> run[current].at \in Before
  BY DEF Stop
<1>3. run \in [Threads -> RunState]
  BY DEF TypeOK
<1> QED
  BY <1>1, <1>2, <1>3, RunsBecome

\* The newest run stays the only one alive
LEMMA OneLiveStays ==
  ASSUME TypeOK, OneLive, [Next]_vars
  PROVE  OneLive'
<1>1. ASSUME NEW t \in Threads, Start(t) \/ Answer(t)
      PROVE  OneLive'
  <2>1. /\ run[t].at = "idle" /\ run'[t].at = "registered" /\ current' = t
        /\ \A u \in Threads \ {t} : run'[u] = run[u]
    BY <1>1, StepsGo DEF Start, Answer, Register, Goes, Becomes
  <2>2. \A u \in Threads : run[u].at \notin Live
    BY <1>1, NoThread \notin Threads DEF Start, Answer, CanStart, LiveRun, OneLive
  <2> QED
    BY <2>1, <2>2 DEF OneLive
<1>2. ASSUME NEW t \in Threads, Step(t) \/ Break(t)
      PROVE  OneLive'
  <2>1. current' = current
    BY <1>2 DEF Step, Break, Prepare, RebaseFails, SetOut, Work, Known, WorkerStopped, WorkerEnds,
                GateRefuses, TestGate, Review, ReviewerStopped, ReviewerFails, Approves, Rejects,
                LastCheck, Sync, Checking, Open, Finish, Cleanup, Apart
  <2>2. /\ \A u \in Threads \ {t} : run'[u] = run[u]
        /\ run'[t].at \in Live => run[t].at \in Live
    BY <1>2, StepsGo, ZenonT(30) DEF Step, Goes, Ended, Becomes, Live, Before
  <2> QED
    BY <2>1, <2>2 DEF OneLive
<1>3. ASSUME Stop
      PROVE  OneLive' /\ \A u \in Threads : run'[u].at = run[u].at
  <2>1. current' = current /\ current \in Threads
    BY <1>3, NoThread \notin Threads DEF Stop, LiveRun, TypeOK
  <2>2. \A u \in Threads : run'[u].at = run[u].at
    BY <1>3, StopMarks DEF Becomes
  <2> QED
    BY <2>1, <2>2 DEF OneLive
<1>4. ASSUME Crash
      PROVE  OneLive'
  BY <1>4 DEF Crash, OneLive, NoRun, Live, Before
<1>5. ASSUME WriteNote \/ Edit \/ Accept \/ MoveBase \/ SweepReads \/ SweepEnds \/ UNCHANGED vars
      PROVE  OneLive'
  BY <1>5 DEF WriteNote, Edit, Accept, MoveBase, SweepReads, SweepEnds, vars, OneLive
<1> QED
  BY <1>1, <1>2, <1>3, <1>4, <1>5 DEF Next

\* Every run that has set out keeps a branch to work on
LEMMA HasBranchStays ==
  ASSUME TypeOK, HasBranch, [Next]_vars
  PROVE  HasBranch'
<1> DEFINE Out == Stages \ {"idle", "registered", "prepared", "ended", "finished"}
<1>0. head # NoHead => head' # NoHead
  BY HeadStays
<1>a. /\ run \in [Threads -> RunState] /\ \A t \in Threads : run[t].at \in Stages
      /\ \A t \in Threads : run[t].at \in Out => head # NoHead
  BY DEF TypeOK, HasBranch, RunState
<1>b. ASSUME \A t \in Threads : run'[t].at \in Out => run[t].at \in Out \/ head' # NoHead
      PROVE  HasBranch'
  BY <1>0, <1>a, <1>b, StepType DEF HasBranch, TypeOK, RunState
<1>1. ASSUME NEW t \in Threads, Start(t) \/ Answer(t) \/ Step(t) \/ Break(t)
      PROVE  HasBranch'
  <2>1. /\ \A u \in Threads \ {t} : run'[u] = run[u]
        /\ run'[t].at \in Out => run[t].at \in Out \/ SetOut(t)
    BY <1>1, StepsGo, ZenonT(30) DEF Step, Goes, Ended, Becomes, Stages, Live, Before
  <2> QED
    BY <1>b, <2>1, HeadStays
<1>2. ASSUME Stop
      PROVE  HasBranch'
  BY <1>2, <1>b, StopMarks DEF Becomes
<1>3. ASSUME Crash
      PROVE  HasBranch'
  BY <1>3, <1>b DEF Crash, NoRun
<1>4. ASSUME WriteNote \/ Edit \/ Accept \/ MoveBase \/ SweepReads \/ SweepEnds \/ UNCHANGED vars
      PROVE  HasBranch'
  BY <1>4, <1>b DEF WriteNote, Edit, Accept, MoveBase, SweepReads, SweepEnds, vars
<1> QED
  BY <1>1, <1>2, <1>3, <1>4 DEF Next

\* What a step of a run makes of the card's row
Flagging == \E r \in Reasons : row' = [row EXCEPT !.reason = r, !.flag = TRUE]

\* Each way to end a run calls the operator
LEMMA FlaggingFlags ==
  ASSUME row \in Row, Flagging
  PROVE  row'.flag /\ row'.status = row.status
BY DEF Flagging, Row

\* What a step of a run makes of the row, by the stage the run goes to
LEMMA RowGoes ==
  ASSUME "locked" \notin Happens, TypeOK, NEW t \in Threads, Step(t) \/ Break(t)
  PROVE  \/ Flagging /\ run'[t].at = "ended"
         \/ /\ row' = row
            /\ \/ run'[t].at # "ended" /\ run'[t].at # "pushing" /\ ~Prepare(t)
               \/ row.reason # "none" /\ run'[t].at = "ended"
         \/ /\ Prepare(t) /\ run'[t].at = "prepared"
            /\ row' = [status |-> "doing", reason |-> "none", flag |-> FALSE]
            /\ log' = Append(log, NewAttempt)
         \/ /\ Checking(t) /\ row'.status = "checking" /\ row'.reason = row.reason
            /\ row'.flag = row.flag
<1>0. row \in Row /\ run \in [Threads -> RunState]
  BY DEF TypeOK
<1> DEFINE Flagged == Flagging /\ run'[t].at = "ended"
<1>1. /\ Refuse(t) => Flagged
      /\ \A r \in Reasons : Block(t, r) => Flagged
      /\ StopShort(t) => Flagged
      /\ \A o : EndsAs(t, o) => run'[t].at = "ended"
  <2>1. [row EXCEPT !.flag = TRUE] = [row EXCEPT !.reason = row.reason, !.flag = TRUE]
        /\ row.reason \in Reasons
    BY <1>0 DEF Row
  <2>2. ASSUME NEW o, EndsAs(t, o)
        PROVE  run'[t].at = "ended"
    <3>1. Becomes(t, "ended", "none", run[t].notes, run[t].from, run[t].reuse, run[t].green,
                  run[t].asked, o)
      BY <1>0, <2>2, RunsBecome DEF EndsAs
    <3> QED
      BY <3>1 DEF Becomes
  <2> QED
    BY <2>1, <2>2 DEF Refuse, Block, StopShort, Flagging
<1> HIDE DEF Flagged
<1>2. ASSUME Prepare(t)
      PROVE  \/ Flagged
             \/ /\ run'[t].at = "prepared" /\ log' = Append(log, NewAttempt)
                /\ row' = [status |-> "doing", reason |-> "none", flag |-> FALSE]
  <2>1. \/ Refuse(t)
        \/ /\ row' = [status |-> "doing", reason |-> "none", flag |-> FALSE]
           /\ log' = Append(log, NewAttempt)
           /\ run' = [run EXCEPT ![t].at = "prepared", ![t].notes = notes, ![t].env = env]
    BY <1>2 DEF Prepare
  <2>2. run' = [run EXCEPT ![t].at = "prepared", ![t].notes = notes, ![t].env = env]
          => run'[t].at = "prepared"
    BY <1>0
  <2> QED
    BY <1>1, <2>1, <2>2
<1>3. ASSUME Open(t)
      PROVE  \/ Flagged
             \/ row' = row /\ row.reason # "none" /\ run'[t].at = "ended"
  <2>1. CASE row.reason # "none" /\ EndsAs(t, "blocked") /\ UNCHANGED row
    BY <1>1, <2>1
  <2>2. CASE EndsAs(t, "opened") /\ row' = [row EXCEPT !.flag = TRUE]
    <3>1. row.reason \in Reasons
          /\ row' = [row EXCEPT !.reason = row.reason, !.flag = TRUE]
      BY <1>0, <2>2 DEF Row
    <3> QED
      BY <1>1, <2>2, <3>1 DEF Flagged, Flagging
  <2> QED
    BY <1>1, <1>3, <2>1, <2>2 DEF Open
<1>4. ASSUME Checking(t)
      PROVE  row'.status = "checking" /\ row'.reason = row.reason /\ row'.flag = row.flag
  BY <1>0, <1>4 DEF Checking, Row
<1> DEFINE Stays == row' = row /\ run'[t].at \notin {"ended", "pushing"}
           Flags == Refuse(t) \/ (\E r \in Reasons : Block(t, r)) \/ StopShort(t)
           Moves(s) == \/ Goto(t, s)
                       \/ \E r : run' = [run EXCEPT ![t].at = s, ![t].reuse = r]
                       \/ \E h : run' = [run EXCEPT ![t].at = s, ![t].green = h]
                       \/ \E a, h : run' = [run EXCEPT ![t].at = s, ![t].agent = a, ![t].from = h]
                       \/ \E a, n : run' = [run EXCEPT ![t].at = s, ![t].agent = a, ![t].fixes = n]
<1>5. ASSUME NEW s, Moves(s)
      PROVE  run'[t].at = s
  BY <1>0, <1>5, ZenonT(30) DEF Goto, RunState
<1> HIDE DEF Moves
<1>6. ASSUME RebaseFails(t) \/ WorkerStopped(t) \/ GateRefuses(t) \/ ReviewerFails(t)
               \/ ReviewerStopped(t) \/ Break(t)
      PROVE  Flags
  BY <1>6 DEF Reasons, RebaseFails, WorkerStopped, GateRefuses, ReviewerFails, ReviewerStopped,
     Break
<1>7. ASSUME Known(t)
      PROVE  Stays
  <2>1. run[t].at \in {"worker", "reviewer"} /\ run'[t].at = run[t].at
    BY <1>7, StepsGo DEF Goes, Becomes, TypeOK
  <2> QED
    BY <1>7, <2>1 DEF Known
<1>8. ASSUME Work(t)
      PROVE  Flags \/ (row' = row /\ \E s \in {"worker"} : Moves(s))
  BY <1>8 DEF Work, Moves
<1>9. ASSUME Approves(t)
      PROVE  Flags \/ (row' = row /\ \E s \in {"reviewed"} : Moves(s))
  BY <1>9 DEF Approves, Moves
<1>10. ASSUME Finish(t)
      PROVE  Flags \/ (row' = row /\ \E s \in {"finished"} : Moves(s))
  BY <1>10 DEF Finish, Moves
<1>11. ASSUME SetOut(t)
      PROVE  Flags \/ (row' = row /\ \E s \in {"testing", "brief"} : Moves(s))
  <2>1. \/ Block(t, "TESTS_FAILED")
         \/ /\ row' = row
            /\ \E s \in {"testing", "brief"}, r \in BOOLEAN :
                 run' = [run EXCEPT ![t].at = s, ![t].reuse = r]
    BY <1>11 DEF Reasons, SetOut
  <2> QED
    BY <2>1 DEF Moves, Reasons
<1>12. ASSUME WorkerEnds(t)
      PROVE  Flags \/ (row' = row /\ \E s \in {"testing"} : Moves(s))
  <2>1. \/ Refuse(t) \/ (\E r \in Reasons : Block(t, r))
         \/ (row' = row /\ Goto(t, "testing"))
    BY <1>12 DEF Reasons, WorkerEnds
  <2> QED
    BY <2>1 DEF Moves
<1>13. ASSUME TestGate(t)
      PROVE  Flags \/ (row' = row /\ \E s \in {"reading", "reviewed"} : Moves(s))
  <2>1. \/ StopShort(t) \/ Block(t, "TESTS_FAILED")
         \/ /\ row' = row
            /\ \E s \in {"reading", "reviewed"} :
                 run' = [run EXCEPT ![t].at = s, ![t].green = head]
    BY <1>13 DEF Reasons, TestGate
  <2> QED
    BY <2>1 DEF Moves, Reasons
<1>14. ASSUME Review(t)
      PROVE  Flags \/ (row' = row /\ \E s \in {"reviewer"} : Moves(s))
  <2>1. \/ Refuse(t)
         \/ (row' = row /\ run' = [run EXCEPT ![t].at = "reviewer", ![t].agent = "unknown",
                                            ![t].from = head])
    BY <1>14 DEF Review
  <2> QED
    BY <2>1 DEF Moves
<1>15. ASSUME Rejects(t)
      PROVE  Flags \/ (row' = row /\ \E s \in {"brief"} : Moves(s))
  <2>1. \/ Block(t, "REVIEW_REJECTED")
         \/ (row' = row /\ run' = [run EXCEPT ![t].at = "brief", ![t].agent = "none",
                                            ![t].fixes = Counted(@)])
    BY <1>15 DEF Reasons, Rejects
  <2> QED
    BY <2>1 DEF Moves, Reasons
<1>16. ASSUME LastCheck(t)
      PROVE  Flags \/ (row' = row /\ \E s \in {"opening"} : Moves(s))
  <2>1. \/ StopShort(t) \/ (row' = row /\ Goto(t, "opening"))
    BY <1>16 DEF LastCheck
  <2> QED
    BY <2>1 DEF Moves
<1>17. ASSUME Sync(t)
      PROVE  Flags \/ (row' = row /\ \E s \in {"synced"} : Moves(s))
  <2>1. \/ Refuse(t) \/ (\E r \in Reasons : Block(t, r))
         \/ (row' = row /\ Goto(t, "synced"))
         \/ (row' = row /\ run' = [run EXCEPT ![t].at = "synced", ![t].green = head'])
    BY <1>17 DEF Reasons, Sync, NeedsRetest
  <2> QED
    BY <2>1 DEF Moves
<1>18. ASSUME Cleanup(t)
      PROVE  Stays
  <2>1. run'[t].at = "idle"
    BY <1>0, <1>18 DEF Cleanup, NoRun
  <2> QED
    BY <1>18, <2>1 DEF Cleanup
<1> QED
  BY <1>1, <1>2, <1>3, <1>4, <1>5, <1>6, <1>7, <1>8, <1>9, <1>10, <1>11, <1>12, <1>13, <1>14,
     <1>15, <1>16, <1>17, <1>18 DEF Flagged, Step

\* From where to where a step takes a run, its leave apart
LEMMA RunGoes ==
  ASSUME TypeOK, NEW t \in Threads, Step(t) \/ Break(t), ~Cleanup(t)
  PROVE  /\ run[t].at \in Live
         /\ run'[t].at \in Working => run[t].at \in Working \/ Prepare(t)
         /\ run'[t].at = "pushing" => Checking(t)
         /\ run'[t].at = "ended" => run[t].at # "ended"
         /\ \/ run'[t].at \in Working \cup {"pushing", "ended"}
            \/ Finish(t) /\ run[t].at = "ended" /\ run'[t].at = "finished"
         /\ Checking(t) => run[t].at = "synced" /\ run'[t].at = "pushing"
         /\ Prepare(t) => run[t].at = "registered"
         /\ \A u \in Threads \ {t} : run'[u] = run[u]
<1> DEFINE To(s) == run'[t].at = s /\ \A u \in Threads \ {t} : run'[u] = run[u]
<1>0. \A s, a, n, h, r, g, x, o : Becomes(t, s, a, n, h, r, g, x, o) => To(s)
  BY DEF Becomes
<1>1. /\ \A R : Ended(t, R) => To("ended")
      /\ \A s, a : Goes(t, s, a) => To(s)
  BY <1>0 DEF Ended, Goes
<1> HIDE DEF To
<1>c. Checking(t) => run[t].at = "synced" /\ To("pushing")
  BY <1>0, <1>1, StepsGo
<1>d. Prepare(t) => run[t].at = "registered"
  BY StepsGo
<1>2. CASE Known(t)
  <2>1. run[t].at \in {"worker", "reviewer"} /\ To(run[t].at)
    BY <1>0, <1>1, <1>2, StepsGo DEF TypeOK
  <2> QED
    BY <1>2, <1>c, <1>d, <2>1 DEF To, Working, Live, Before
<1>3. CASE Prepare(t)
  <2>1. run[t].at = "registered" /\ (To("ended") \/ To("prepared"))
    BY <1>0, <1>1, <1>3, StepsGo
  <2> QED
    BY <1>3, <1>c, <1>d, <2>1 DEF To, Working, Live, Before
<1>4. CASE Checking(t)
  BY <1>4, <1>c, <1>d DEF To, Working, Live, Before
<1>5. CASE Finish(t)
  <2>1. run[t].at = "ended" /\ To("finished")
    BY <1>0, <1>1, <1>5, StepsGo
  <2> QED
    BY <1>5, <1>c, <1>d, <2>1 DEF To, Working, Live, Before
<1>6. CASE Break(t) \/ Open(t)
  <2>1. run[t].at \in Live \ {"ended"} /\ To("ended")
    BY <1>0, <1>1, <1>6, StepsGo DEF Live
  <2> QED
    BY <1>6, <1>c, <1>d, <2>1 DEF To, Working, Live, Before
<1>7. CASE /\ Step(t) /\ ~Known(t) /\ ~Prepare(t) /\ ~Checking(t) /\ ~Finish(t) /\ ~Open(t)
  <2>1. /\ run[t].at \in Working
        /\ To("ended") \/ \E s \in Working : To(s)
    BY <1>0, <1>1, <1>7, StepsGo DEF Step, Working, Live, Before
  <2> QED
    BY <1>7, <1>c, <1>d, <2>1 DEF To, Working, Live, Before
<1> QED
  BY <1>2, <1>3, <1>4, <1>5, <1>6, <1>7

\* The row keeps up with the newest run
LEMMA RowFollowsStays ==
  ASSUME "locked" \notin Happens, RowInv, [Next]_vars
  PROVE  RowFollows'
<1>0. TypeOK /\ OneLive /\ RowFollows
  BY DEF RowInv, CoreInv
<1>1. ASSUME NEW t \in Threads, Start(t) \/ Answer(t)
      PROVE  RowFollows'
  <2>1. /\ run'[t].at = "registered" /\ \A u \in Threads \ {t} : run'[u] = run[u]
        /\ \A u \in Threads : run[u].at \notin Live
    <3>1. \A u \in Threads : run[u].at \notin Live
      BY <1>0, <1>1, NoThread \notin Threads DEF Start, Answer, CanStart, LiveRun, OneLive
    <3>2. run'[t].at = "registered" /\ \A u \in Threads \ {t} : run'[u] = run[u]
      BY <1>0, <1>1, StepsGo DEF Goes, Becomes
    <3> QED
      BY <3>1, <3>2
  <2>2. row'.reason # "none" => row'.flag
    BY <1>0, <1>1 DEF Start, Answer, RowFollows, TypeOK, Row
  <2>3. \A u \in Threads : run'[u].at \notin Working \cup {"pushing", "ended"}
    BY <2>1 DEF Working, Live, Before
  <2> QED
    BY <2>1, <2>2, <2>3 DEF RowFollows, Live, Before
<1>2. ASSUME NEW t \in Threads, Cleanup(t)
      PROVE  RowFollows'
  <2>1. /\ row' = row /\ log' = log /\ run[t].at = "finished" /\ run'[t].at = "idle"
        /\ \A u \in Threads \ {t} : run'[u] = run[u]
    BY <1>0, <1>2, StepsGo DEF Cleanup, Becomes
  <2>2. Orphaned' = Orphaned
    BY <2>1 DEF Orphaned, Now
  <2>3. \A u \in Threads : run'[u].at \in Live <=> run[u].at \in Live
    BY <2>1 DEF Live, Before
  <2>4. \A u \in Threads : run'[u].at \in Live => run'[u] = run[u]
    BY <2>1 DEF Live, Before
  <2> QED
    BY <1>0, <2>1, <2>2, <2>3, <2>4 DEF RowFollows, Now, Live, Working
<1>3. ASSUME NEW t \in Threads, Step(t) \/ Break(t), ~Cleanup(t)
      PROVE  RowFollows'
  <2>1. /\ run[t].at \in Live
        /\ run'[t].at \in Working => run[t].at \in Working \/ Prepare(t)
        /\ run'[t].at = "pushing" => Checking(t)
        /\ \/ run'[t].at \in Live
           \/ Finish(t) /\ run[t].at = "ended" /\ run'[t].at = "finished"
        /\ Checking(t) => run[t].at = "synced" /\ run'[t].at = "pushing"
        /\ \A u \in Threads \ {t} : run'[u] = run[u]
    BY <1>0, <1>3, RunGoes DEF Working, Live, Before
  <2>2. \A u \in Threads \ {t} : run'[u].at \notin Live
    BY <1>0, <2>1 DEF OneLive
  <2> DEFINE At == /\ run'[t].at \in Working =>
                        /\ row'.status = "doing"
                        /\ row'.reason = "none"
                             => ~row'.flag /\ Now' > 0 /\ log'[Now'].ended = "none"
                   /\ run'[t].at = "pushing" => row'.status = "checking"
                   /\ run'[t].at = "ended" => row'.flag
                   /\ row'.reason # "none" => row'.flag
                   /\ run'[t].at \notin Live => ~Orphaned'
  <2>3. At => RowFollows'
    BY <2>2 DEF RowFollows, Working, Live
  <2>4. /\ run[t].at \in Working =>
             /\ row.status = "doing"
             /\ row.reason = "none" => ~row.flag /\ Now > 0 /\ log[Now].ended = "none"
        /\ run[t].at = "ended" => row.flag
        /\ row.reason # "none" => row.flag
    BY <1>0 DEF RowFollows
  <2>5. CASE row'.flag /\ run'[t].at = "ended"
    BY <2>3, <2>5 DEF Working, Live, Before
  <2>6. CASE row' = row /\ row.reason # "none" /\ run'[t].at = "ended"
    BY <2>3, <2>4, <2>6 DEF Working, Live, Before
  <2>7. CASE row' = row /\ run'[t].at # "ended" /\ run'[t].at # "pushing" /\ ~Prepare(t)
    <3>1. CASE Finish(t)
      <4>1. run[t].at = "ended" /\ run'[t].at = "finished"
        BY <1>0, <3>1, StepsGo DEF Goes, Becomes
      <4>2. ~Orphaned'
        BY <2>4, <2>7, <4>1 DEF Orphaned
      <4> QED
        BY <2>3, <2>4, <2>7, <4>1, <4>2 DEF Working, Live, Before
    <3>2. CASE ~Finish(t)
      <4>1. Now' = Now /\ (Now > 0 => log'[Now].ended = log[Now].ended)
        BY <1>0, <1>3, <2>7, <3>2, LogGoesOn
      <4> QED
        BY <2>1, <2>3, <2>4, <2>7, <3>2, <4>1
    <3> QED
      BY <3>1, <3>2
  <2>8. CASE /\ run'[t].at = "prepared" /\ log' = Append(log, NewAttempt)
             /\ row' = [status |-> "doing", reason |-> "none", flag |-> FALSE]
    <3>1. Now' > 0 /\ log'[Now'].ended = "none"
      <4>1. log \in Seq(Record) /\ NewAttempt \in Record /\ Now \in Nat
        BY <1>0, NewTypes, LenProperties DEF TypeOK, Now
      <4> QED
        BY <2>8, <4>1 DEF Now, NewAttempt
    <3> QED
      BY <2>3, <2>8, <3>1 DEF Live, Before
  <2>9. CASE /\ Checking(t) /\ row'.status = "checking" /\ row'.reason = row.reason
             /\ row'.flag = row.flag
    BY <2>1, <2>3, <2>4, <2>9 DEF Working, Live, Before
  <2> QED
    BY <1>0, <1>3, <2>5, <2>6, <2>7, <2>8, <2>9, RowGoes, FlaggingFlags DEF TypeOK
<1>4. ASSUME UNCHANGED <<row, log>>, \A u \in Threads : run'[u].at = run[u].at
      PROVE  RowFollows'
  BY <1>0, <1>4 DEF RowFollows, Orphaned, Now
<1>5. ASSUME Stop
      PROVE  RowFollows'
  <2>1. UNCHANGED <<row, log>> /\ \A u \in Threads : run'[u].at = run[u].at
    BY <1>0, <1>5, StopMarks DEF Stop, Becomes
  <2> QED
    BY <1>4, <2>1
<1>6. ASSUME WriteNote \/ Edit \/ MoveBase \/ SweepReads \/ UNCHANGED vars
      PROVE  RowFollows'
  <2>1. UNCHANGED <<row, log, run>>
    BY <1>6 DEF WriteNote, Edit, MoveBase, SweepReads, vars, registry
  <2> QED
    BY <1>4, <2>1
<1>7. ASSUME Accept
      PROVE  RowFollows'
  <2>1. \A u \in Threads : run[u].at \notin Live
    BY <1>0, <1>7, NoThread \notin Threads DEF Accept, LiveRun, OneLive
  <2>2. run' = run /\ log' = log /\ row'.status = "accepted" /\ row'.reason = row.reason
        /\ row'.flag = row.flag
    BY <1>0, <1>7 DEF Accept, registry, TypeOK, Row
  <2> QED
    BY <1>0, <2>1, <2>2 DEF RowFollows, Orphaned, Live, Working
<1>8. ASSUME SweepEnds
      PROVE  RowFollows'
  <2>1. CASE row' = row
    <3>1. UNCHANGED <<row, log, run>>
      BY <1>8, <2>1 DEF SweepEnds, registry
    <3> QED
      BY <1>4, <3>1
  <2>2. CASE row' = [row EXCEPT !.reason = "OUTDATED", !.flag = TRUE]
    <3>1. /\ row'.reason = "OUTDATED" /\ row'.flag /\ row'.status = row.status
          /\ run' = run
      BY <1>0, <1>8, <2>2 DEF SweepEnds, registry, TypeOK, Row
    <3> QED
      BY <1>0, <3>1 DEF RowFollows, Orphaned
  <2> QED
    BY <1>8, <2>1, <2>2 DEF SweepEnds
<1>9. ASSUME Crash
      PROVE  RowFollows'
  <2>1. \A u \in Threads : run'[u].at = "idle"
    BY <1>9 DEF Crash, NoRun
  <2>2. /\ ~Orphaned' /\ (row'.reason # "none" => row'.flag)
    <3>1. CASE Orphaned
      <4>1. row'.reason = "CRASH" /\ row'.flag
        BY <1>0, <1>9, <3>1 DEF Crash, TypeOK, Row
      <4> QED
        BY <4>1 DEF Orphaned
    <3>2. CASE ~Orphaned
      <4>1. row' = row /\ log' = log
        BY <1>9, <3>2 DEF Crash
      <4> QED
        BY <1>0, <3>2, <4>1 DEF Orphaned, Now, RowFollows
    <3> QED
      BY <3>1, <3>2
  <2> QED
    BY <2>1, <2>2 DEF RowFollows, Working, Live, Before
<1> QED
  BY <1>1, <1>2, <1>3, <1>5, <1>6, <1>7, <1>8, <1>9 DEF Next

\* At first no card has a run, and no row to keep up with one.
LEMMA RowInit == Init => RowInv
<1> SUFFICES ASSUME Init PROVE RowInv
  OBVIOUS
<1>1. \A t \in Threads : run[t].at = "idle"
  BY DEF Init, NoRun
<1> QED
  BY <1>1, InitType
     DEF RowInv, CoreInv, HasBranch, OneLive, RowFollows, Init, Working, Live, Before, Orphaned

\* The invariant of the newest run
LEMMA CoreInvariant == Spec => []CoreInv
<1>1. Init => CoreInv
  BY RowInit DEF RowInv
<1>2. ASSUME CoreInv, [Next]_vars PROVE CoreInv'
  BY <1>2, StepType, HasBranchStays, OneLiveStays DEF CoreInv
<1> QED
  BY <1>1, <1>2, PTL DEF Spec

\* The invariant of the newest run and the card's row, which needs every end to be written
LEMMA RowInvariant ==
  ASSUME "locked" \notin Happens
  PROVE  Spec => []RowInv
<1>1. RowInv /\ [Next]_vars => RowInv'
  BY StepType, HasBranchStays, OneLiveStays, RowFollowsStays DEF RowInv, CoreInv
<1> QED
  BY <1>1, RowInit, PTL DEF Spec

\* Every field of the run, the log and the row keeps its type, and an agent is at work exactly
\* while the worker or the reviewer is
THEOREM TypeCorrect == Spec => []TypeOK
<1>1. CoreInv => TypeOK
  BY DEF CoreInv
<1> QED
  BY <1>1, CoreInvariant, PTL

-----------------------------------------------------------------------------
(* The runs in detail are the runs the scheduler reckons with *)

\* The stage of the newest run, as the refinement mapping has it
StageIn(c, r) == IF c = NoThread THEN "off" ELSE StageOf(r[c].at)

\* The stage CardRun sees is that of the run that is alive, if one is
LEMMA StagesOf ==
  ASSUME NEW r \in [Threads -> RunState], NEW c \in Threads \cup {NoThread},
         \A t \in Threads : r[t].at \in Live => t = c
  PROVE  /\ (\A t \in Threads : r[t].at \notin Live) => StageIn(c, r) = "off"
         /\ \A t \in Threads :
              /\ r[t].at = "registered" => StageIn(c, r) = "registered"
              /\ r[t].at \in Working => StageIn(c, r) = "working"
              /\ r[t].at = "pushing" => StageIn(c, r) = "opening"
              /\ r[t].at = "ended" => StageIn(c, r) = "ended"
<1>0. NoThread \notin Threads /\ \A t \in Threads : r[t].at \in Stages
  BY DEF RunState
<1>1. /\ StageOf("idle") = "off" /\ StageOf("finished") = "off"
      /\ StageOf("registered") = "registered" /\ StageOf("pushing") = "opening"
      /\ StageOf("ended") = "ended" /\ \A s \in Working : StageOf(s) = "working"
  BY DEF StageOf, Working, Live, Before
<1>2. ASSUME \A t \in Threads : r[t].at \notin Live
      PROVE  StageIn(c, r) = "off"
  <2>1. c # NoThread => r[c].at \in {"idle", "finished"}
    BY <1>0, <1>2 DEF Stages
  <2> QED
    BY <1>1, <2>1 DEF StageIn
<1>3. ASSUME NEW t \in Threads, r[t].at \in Live
      PROVE  StageIn(c, r) = StageOf(r[t].at)
  BY <1>0, <1>3 DEF StageIn
<1> QED
  BY <1>1, <1>2, <1>3 DEF Working, Live, Before

\* What the stages allow CardRun to do
LEMMA PromiseMoves ==
  ASSUME NEW s, NEW s1, s = StageIn(current, run), s1 = StageIn(current', run'), row \in Row
  PROVE  /\ s1 = s /\ row' = row => [Promise!Next]_Promise!vars
         /\ s = "off" /\ s1 = "registered" /\ row' = row => [Promise!Next]_Promise!vars
         /\ s = "off" /\ s1 = "registered" /\ row' = [row EXCEPT !.reason = "none", !.flag = FALSE]
              => [Promise!Next]_Promise!vars
         /\ (/\ s = "registered" /\ s1 = "working"
             /\ row' = [status |-> "doing", reason |-> "none", flag |-> FALSE])
              => [Promise!Next]_Promise!vars
         /\ s = "working" /\ s1 = "opening" /\ row' = [row EXCEPT !.status = "checking"]
              => [Promise!Next]_Promise!vars
         /\ s \in {"registered", "working", "opening"} /\ s1 = "ended" /\ Flagging
              => [Promise!Next]_Promise!vars
         /\ s = "ended" /\ s1 = "off" /\ row' = row => [Promise!Next]_Promise!vars
         /\ s1 = s /\ row' = [row EXCEPT !.reason = "OUTDATED", !.flag = TRUE]
              => [Promise!Next]_Promise!vars
         /\ (/\ s = "off" /\ s1 = s /\ row.status = "checking"
             /\ row' = [row EXCEPT !.status = "accepted"])
              => [Promise!Next]_Promise!vars
         /\ (/\ s \in {"working", "registered"} /\ s1 = "off"
             /\ row.status = "doing" /\ row.reason = "none"
             /\ row' = [row EXCEPT !.reason = "CRASH", !.flag = TRUE])
              => [Promise!Next]_Promise!vars
         /\ s # "off" /\ s1 = "off" /\ ~(s = "working" /\ row.reason = "none") /\ row' = row
              => [Promise!Next]_Promise!vars
<1> USE DEF StageIn, Promise!Next, Promise!vars
<1>1. s1 = s /\ row' = row => [Promise!Next]_Promise!vars
  OBVIOUS
<1>2. s = "off" /\ s1 = "registered" /\ row' = row => [Promise!Next]_Promise!vars
  BY DEF Promise!Start
<1>3. s = "off" /\ s1 = "registered" /\ row' = [row EXCEPT !.reason = "none", !.flag = FALSE]
        => [Promise!Next]_Promise!vars
  BY DEF Promise!Start
<1>4. (/\ s = "registered" /\ s1 = "working"
       /\ row' = [status |-> "doing", reason |-> "none", flag |-> FALSE])
        => [Promise!Next]_Promise!vars
  BY DEF Promise!Begin
<1>5. s = "working" /\ s1 = "opening" /\ row' = [row EXCEPT !.status = "checking"]
        => [Promise!Next]_Promise!vars
  BY DEF Promise!Opening
<1>6. s \in {"registered", "working", "opening"} /\ s1 = "ended" /\ Flagging
        => [Promise!Next]_Promise!vars
  BY DEF Promise!End, Promise!Flagged, Flagging
<1>7. s = "ended" /\ s1 = "off" /\ row' = row => [Promise!Next]_Promise!vars
  BY DEF Promise!Leave
<1>8. s1 = s /\ row' = [row EXCEPT !.reason = "OUTDATED", !.flag = TRUE]
        => [Promise!Next]_Promise!vars
  BY DEF Promise!Outdated, Promise!Flagged, Reasons
<1>9. s = "off" /\ s1 = s /\ row.status = "checking" /\ row' = [row EXCEPT !.status = "accepted"]
        => [Promise!Next]_Promise!vars
  BY DEF Promise!Accept
<1>10. (/\ s \in {"working", "registered"} /\ s1 = "off"
        /\ row.status = "doing" /\ row.reason = "none"
        /\ row' = [row EXCEPT !.reason = "CRASH", !.flag = TRUE])
         => [Promise!Next]_Promise!vars
  BY DEF Promise!Die, Promise!LooksAtWork, Promise!Flagged
<1>11. s # "off" /\ s1 = "off" /\ ~(s = "working" /\ row.reason = "none") /\ row' = row
         => [Promise!Next]_Promise!vars
  BY DEF Promise!Die
<1> QED
  BY <1>1, <1>2, <1>3, <1>4, <1>5, <1>6, <1>7, <1>8, <1>9, <1>10, <1>11

\* A step of a run is a step of CardRun, or none
LEMMA StepKeepsPromise ==
  ASSUME "locked" \notin Happens, RowInv, RowInv', NEW t \in Threads, Step(t) \/ Break(t)
  PROVE  [Promise!Next]_Promise!vars
<1> DEFINE s == StageIn(current, run)
           s1 == StageIn(current', run')
<1>0. /\ TypeOK /\ row \in Row /\ OneLive
      /\ row.reason # "none" => row.flag
  BY DEF RowInv, CoreInv, TypeOK, RowFollows
<1>1. /\ (\A u \in Threads : run[u].at \notin Live) => s = "off"
      /\ \A u \in Threads :
           /\ run[u].at = "registered" => s = "registered"
           /\ run[u].at \in Working => s = "working"
           /\ run[u].at = "pushing" => s = "opening"
           /\ run[u].at = "ended" => s = "ended"
  BY StagesOf DEF RowInv, CoreInv, TypeOK, OneLive
<1>2. /\ (\A u \in Threads : run'[u].at \notin Live) => s1 = "off"
      /\ \A u \in Threads :
           /\ run'[u].at = "registered" => s1 = "registered"
           /\ run'[u].at \in Working => s1 = "working"
           /\ run'[u].at = "pushing" => s1 = "opening"
           /\ run'[u].at = "ended" => s1 = "ended"
  BY StagesOf DEF RowInv, CoreInv, TypeOK, OneLive
<1>3. s = StageIn(current, run) /\ s1 = StageIn(current', run')
  OBVIOUS
<1> HIDE DEF s, s1
<1>4. CASE Cleanup(t)
  <2>1. /\ row' = row /\ run[t].at = "finished" /\ run'[t].at = "idle"
        /\ \A u \in Threads \ {t} : run'[u] = run[u]
    BY <1>0, <1>4, StepsGo DEF Cleanup, Becomes
  <2>2. CASE \E u \in Threads : run[u].at \in Live
    <3>1. PICK u \in Threads : run[u].at \in Live
      BY <2>2
    <3>2. run'[u].at = run[u].at
      BY <2>1, <3>1 DEF Live, Before
    <3>3. s1 = s
      BY <1>1, <1>2, <3>1, <3>2 DEF Working
    <3> QED
      BY <1>0, <1>3, <2>1, <3>3, PromiseMoves
  <2>3. CASE \A u \in Threads : run[u].at \notin Live
    <3>1. \A u \in Threads : run'[u].at \notin Live
      BY <2>1, <2>3 DEF Live, Before
    <3>2. s1 = s
      BY <1>1, <1>2, <2>3, <3>1
    <3> QED
      BY <1>0, <1>3, <2>1, <3>2, PromiseMoves
  <2> QED
    BY <2>2, <2>3
<1>5. CASE ~Cleanup(t)
  <2>1. /\ run[t].at \in Live
        /\ run'[t].at \in Working => run[t].at \in Working \/ Prepare(t)
        /\ run'[t].at = "ended" => run[t].at # "ended"
        /\ \/ run'[t].at \in Working \cup {"pushing", "ended"}
           \/ run[t].at = "ended" /\ run'[t].at = "finished"
        /\ Checking(t) => run[t].at = "synced" /\ run'[t].at = "pushing"
        /\ Prepare(t) => run[t].at = "registered"
        /\ \A u \in Threads \ {t} : run'[u] = run[u]
    BY <1>0, <1>5, RunGoes
  <2>2. CASE run'[t].at = "ended" /\ Flagging
    <3>1. s \in {"registered", "working", "opening"} /\ s1 = "ended"
      BY <1>1, <1>2, <2>1, <2>2 DEF Working
    <3> QED
      BY <1>0, <1>3, <2>2, <3>1, PromiseMoves
  <2>3. CASE run'[t].at = "ended" /\ row' = row /\ row.reason # "none"
    <3>1. row.reason \in Reasons /\ row' = [row EXCEPT !.reason = row.reason, !.flag = TRUE]
      BY <1>0, <2>3 DEF Row
    <3> QED
      BY <2>2, <2>3, <3>1 DEF Flagging
  <2>4. CASE row' = row /\ run'[t].at # "ended" /\ run'[t].at # "pushing" /\ ~Prepare(t)
    <3>1. CASE run'[t].at \in Working
      <4>1. s = "working" /\ s1 = "working"
        BY <1>1, <1>2, <2>1, <2>4, <3>1
      <4> QED
        BY <1>0, <1>3, <2>4, <4>1, PromiseMoves
    <3>2. CASE run[t].at = "ended" /\ run'[t].at = "finished"
      <4>1. \A u \in Threads : run'[u].at \notin Live
        BY <1>0, <2>1, <3>2 DEF OneLive, Live, Before
      <4>2. s = "ended" /\ s1 = "off"
        BY <1>1, <1>2, <3>2, <4>1
      <4> QED
        BY <1>0, <1>3, <2>4, <4>2, PromiseMoves
    <3> QED
      BY <2>1, <2>4, <3>1, <3>2
  <2>5. CASE /\ Prepare(t) /\ run'[t].at = "prepared"
             /\ row' = [status |-> "doing", reason |-> "none", flag |-> FALSE]
    <3>1. s = "registered" /\ s1 = "working"
      BY <1>1, <1>2, <2>1, <2>5 DEF Working, Live, Before
    <3> QED
      BY <1>0, <1>3, <2>5, <3>1, PromiseMoves
  <2>6. CASE Checking(t)
    <3>1. s = "working" /\ s1 = "opening"
      BY <1>1, <1>2, <2>1, <2>6 DEF Working, Live, Before
    <3> QED
      BY <1>0, <1>3, <2>6, <3>1, PromiseMoves DEF Checking
  <2> QED
    BY <1>0, <2>2, <2>3, <2>4, <2>5, <2>6, RowGoes
<1> QED
  BY <1>4, <1>5

\* So is whatever else happens
LEMMA OthersKeepPromise ==
  ASSUME RowInv, RowInv', [Next]_vars,
         ~\E t \in Threads : Step(t) \/ Break(t)
  PROVE  [Promise!Next]_Promise!vars
<1> DEFINE s == StageIn(current, run)
           s1 == StageIn(current', run')
<1>0. /\ TypeOK /\ row \in Row /\ OneLive
      /\ row.reason # "none" => row.flag
  BY DEF RowInv, CoreInv, TypeOK, RowFollows
<1>1. /\ (\A u \in Threads : run[u].at \notin Live) => s = "off"
      /\ \A u \in Threads :
           /\ run[u].at = "registered" => s = "registered"
           /\ run[u].at \in Working => s = "working"
           /\ run[u].at = "pushing" => s = "opening"
           /\ run[u].at = "ended" => s = "ended"
  BY StagesOf DEF RowInv, CoreInv, TypeOK, OneLive
<1>2. /\ (\A u \in Threads : run'[u].at \notin Live) => s1 = "off"
      /\ \A u \in Threads : run'[u].at = "registered" => s1 = "registered"
  BY StagesOf DEF RowInv, CoreInv, TypeOK, OneLive
<1>3. s = StageIn(current, run) /\ s1 = StageIn(current', run')
  OBVIOUS
<1>4. UNCHANGED current /\ (\A u \in Threads : run'[u].at = run[u].at) => s1 = s
  <2>1. current \in Threads \cup {NoThread}
    BY <1>0 DEF TypeOK
  <2> QED
    BY <2>1 DEF StageIn
<1> HIDE DEF s, s1
<1>5. ~LiveRun => s = "off"
  <2>1. ~LiveRun => \A u \in Threads : run[u].at \notin Live
    BY <1>0, NoThread \notin Threads DEF LiveRun, OneLive
  <2> QED
    BY <1>1, <2>1
<1>6. ASSUME NEW t \in Threads, Start(t) \/ Answer(t)
      PROVE  [Promise!Next]_Promise!vars
  <2>1. run'[t].at = "registered" /\ ~LiveRun
    BY <1>0, <1>6, StepsGo DEF Start, Answer, CanStart, Goes, Becomes
  <2>2. s = "off" /\ s1 = "registered"
    BY <1>2, <1>5, <2>1
  <2>3. row' = row \/ row' = [row EXCEPT !.reason = "none", !.flag = FALSE]
    BY <1>6 DEF Start, Answer
  <2> QED
    BY <1>0, <1>3, <2>2, <2>3, PromiseMoves
<1>7. ASSUME Stop
      PROVE  [Promise!Next]_Promise!vars
  <2>1. row' = row /\ current' = current /\ \A u \in Threads : run'[u].at = run[u].at
    BY <1>0, <1>7, StopMarks DEF Stop, Becomes
  <2> QED
    BY <1>0, <1>3, <1>4, <2>1, PromiseMoves
<1>8. ASSUME WriteNote \/ Edit \/ MoveBase \/ SweepReads \/ UNCHANGED vars
      PROVE  [Promise!Next]_Promise!vars
  <2>1. UNCHANGED <<row, run, current>>
    BY <1>8 DEF WriteNote, Edit, MoveBase, SweepReads, vars, registry
  <2> QED
    BY <1>0, <1>3, <1>4, <2>1, PromiseMoves
<1>9. ASSUME Accept
      PROVE  [Promise!Next]_Promise!vars
  <2>1. /\ UNCHANGED <<run, current>> /\ ~LiveRun /\ row.status = "checking"
        /\ row' = [row EXCEPT !.status = "accepted"]
    BY <1>9 DEF Accept, registry
  <2> QED
    BY <1>0, <1>3, <1>4, <1>5, <2>1, PromiseMoves
<1>10. ASSUME SweepEnds
       PROVE  [Promise!Next]_Promise!vars
  <2>1. /\ UNCHANGED <<run, current>>
        /\ row' = row \/ row' = [row EXCEPT !.reason = "OUTDATED", !.flag = TRUE]
    BY <1>10 DEF SweepEnds, registry
  <2> QED
    BY <1>0, <1>3, <1>4, <2>1, PromiseMoves
<1>11. ASSUME Crash
       PROVE  [Promise!Next]_Promise!vars
  <2>1. s1 = "off"
    <3>1. \A u \in Threads : run'[u].at \notin Live
      BY <1>11 DEF Crash, NoRun, Live, Before
    <3> QED
      BY <1>2, <3>1
  <2>2. CASE \A u \in Threads : run[u].at \notin Live
    <3>1. row' = row
      BY <1>11, <2>2 DEF Crash, RowInv, RowFollows
    <3> QED
      BY <1>0, <1>1, <1>3, <2>1, <2>2, <3>1, PromiseMoves
  <2>3. ASSUME NEW u \in Threads, run[u].at \in Live
        PROVE  [Promise!Next]_Promise!vars
    <3>1. s \in {"registered", "working", "opening", "ended"}
      BY <1>1, <2>3 DEF Working
    <3>2. CASE Orphaned
      <4>1. /\ row' = [row EXCEPT !.reason = "CRASH", !.flag = TRUE]
            /\ row.status = "doing" /\ row.reason = "none" /\ ~row.flag
        BY <1>11, <3>2 DEF Crash, Orphaned
      <4>2. run[u].at # "pushing" /\ run[u].at # "ended"
        BY <4>1 DEF RowInv, CoreInv, RowFollows
      <4>3. s \in {"registered", "working"}
        BY <1>1, <2>3, <4>2 DEF Working
      <4> QED
        BY <1>0, <1>3, <2>1, <4>1, <4>3, PromiseMoves
    <3>3. CASE ~Orphaned
      <4>1. row' = row
        BY <1>11, <3>3 DEF Crash
      <4>2. s = "working" => run[u].at \in Working
        BY <1>1, <2>3 DEF Working
      <4>3. ~(s = "working" /\ row.reason = "none")
        BY <3>3, <4>2 DEF RowInv, CoreInv, RowFollows, Orphaned
      <4> QED
        BY <1>0, <1>3, <2>1, <3>1, <4>1, <4>3, PromiseMoves
    <3> QED
      BY <3>2, <3>3
  <2> QED
    BY <2>2, <2>3
<1> QED
  BY <1>6, <1>7, <1>8, <1>9, <1>10, <1>11 DEF Next

\* One run of the card at a time, checking only after both gates, and never an end with nobody
\* called: the runs in detail implement what the scheduler takes a run to be, whatever the
\* operator, the sweep, an overlapping start or a dying board do, as long as a run's end can be
\* written
THEOREM RunsKeepPromise ==
  ASSUME "locked" \notin Happens
  PROVE  Spec => KeepsPromise
<1>1. ASSUME Init PROVE Promise!Init
  BY <1>1 DEF Init, Promise!Init
<1>2. ASSUME RowInv, RowInv', [Next]_vars
      PROVE  [Promise!Next]_Promise!vars
  BY <1>2, StepKeepsPromise, OthersKeepPromise
<1> QED
  BY <1>1, <1>2, RowInvariant, PTL DEF Spec, KeepsPromise, Promise!Spec

-----------------------------------------------------------------------------
(* Stopping a run, as long as none starts before the one before it has left *)

\* no run starts while another has its marks to clear
Alone == \A t, u \in Threads : run[t].at # "idle" /\ run[u].at # "idle" => t = u

\* the mark is there for the run it was set for, and a run that was marked in time does not get
\* past its last look at the mark
StopIsHeard ==
  /\ stopping => \E t \in Threads : run[t].at # "idle" /\ run[t].asked # "no"
  /\ \A t \in Threads :
       /\ run[t].at = "idle" => run[t].asked = "no"
       /\ run[t].asked = "in time" /\ run[t].at # "finished" =>
            run[t].at \in Before \cup {"ended"} /\ stopping
       /\ run[t].result # "none" => run[t].at \in {"ended", "finished"}

\* The inductive invariant of the stop
StopInv == CoreInv /\ Alone /\ StopIsHeard /\ StoppedOpensNothing /\ StopsOnRequest
           /\ KilledIsNoCrash

\* What a step of a run makes of a stop: it looks at the mark and leaves it alone
LEMMA StepsHearStop ==
  ASSUME TypeOK, NEW t \in Threads, Step(t) \/ Break(t), ~Cleanup(t)
  PROVE  /\ stopping' = stopping
         /\ run'[t].asked = run[t].asked
         /\ run'[t].agent = "killed" => run[t].agent = "killed"
         /\ \/ run'[t].result = run[t].result /\ run'[t].at # "idle"
            \/ /\ run'[t].at = "ended"
               /\ run'[t].result = "stopped" => stopping
               /\ run'[t].result = "opened" => run[t].at = "pushing"
         /\ run[t].at \in Before /\ stopping => run'[t].at \in Before \cup {"ended"}
         /\ run[t].at = "ended" => run'[t].at = "finished"
<1> DEFINE To(s) == /\ run'[t].at = s /\ run'[t].result = run[t].result
                    /\ run'[t].asked = run[t].asked
                    /\ run'[t].agent = "killed" => run[t].agent = "killed"
           Off(R) == /\ run'[t].at = "ended" /\ run'[t].result \in R
                     /\ run'[t].asked = run[t].asked /\ run'[t].agent = "none"
<1>0. /\ \A R : Ended(t, R) => Off(R)
      /\ \A s, a : Goes(t, s, a) /\ a # "killed" => To(s)
      /\ \A s, n, h, r, g : Becomes(t, s, run[t].agent, n, h, r, g, run[t].asked, run[t].result)
           => To(s)
      /\ \A s, n, h, r, g : Becomes(t, s, "unknown", n, h, r, g, run[t].asked, run[t].result)
           => To(s)
  BY DEF Ended, Goes, Becomes
<1> HIDE DEF To, Off
<1>1. /\ \A s : To(s) => /\ run'[t].at = s /\ run'[t].result = run[t].result
                         /\ run'[t].asked = run[t].asked
                         /\ run'[t].agent = "killed" => run[t].agent = "killed"
      /\ \A R : Off(R) => /\ run'[t].at = "ended" /\ run'[t].result \in R
                          /\ run'[t].asked = run[t].asked /\ run'[t].agent = "none"
  BY DEF To, Off
<1>2. stopping' = stopping
  BY DEF Step, Break, Prepare, RebaseFails, SetOut, Work, Known, WorkerStopped, WorkerEnds,
         GateRefuses, TestGate, Review, ReviewerStopped, ReviewerFails, Approves, Rejects,
         LastCheck, Sync, Checking, Open, Finish, Keeps
<1>3. CASE Known(t)
  <2>1. run[t].at \in {"worker", "reviewer"} /\ To(run[t].at)
    BY <1>0, <1>3, StepsGo DEF TypeOK
  <2> QED
    BY <1>1, <1>2, <2>1 DEF Before
<1>4. CASE Finish(t)
  <2>1. run[t].at = "ended" /\ To("finished")
    BY <1>0, <1>4, StepsGo
  <2> QED
    BY <1>1, <1>2, <2>1 DEF Before
<1>5. CASE Open(t)
  <2>1. run[t].at = "pushing" /\ Off({"blocked", "opened", "refused"})
    BY <1>0, <1>5, StepsGo
  <2> QED
    BY <1>1, <1>2, <2>1 DEF Before
<1>6. CASE LastCheck(t)
  <2>1. run[t].at = "reviewed" /\ (Off(Short) \/ (To("opening") /\ ~stopping))
    BY <1>0, <1>6, StepsGo
  <2> QED
    BY <1>1, <1>2, <2>1 DEF Before, Short
<1>7. CASE Sync(t) \/ Checking(t)
  <2>1. run[t].at \in {"opening", "synced"} /\ (Off(Short) \/ To("synced") \/ To("pushing"))
    BY <1>0, <1>7, StepsGo
  <2> QED
    BY <1>1, <1>2, <2>1 DEF Before, Short
<1>8. CASE /\ Step(t) \/ Break(t)
           /\ ~Known(t) /\ ~Finish(t) /\ ~Open(t) /\ ~LastCheck(t) /\ ~Sync(t) /\ ~Checking(t)
  <2>1. {"refused"} \subseteq Short /\ {"blocked"} \subseteq Short
    BY DEF Short
  <2>2. \A R : R \subseteq Short /\ Off(R) => Off(Short)
    BY DEF Off
  <2>3. ReviewerStopped(t) \/ WorkerStopped(t) => Off(Short)
    BY <1>0, StepsGo DEF Off, Short
  <2>4. /\ run[t].at # "ended"
        /\ Off(Short) \/ \E s \in Before : To(s)
    BY <1>0, <1>8, <2>1, <2>2, <2>3, StepsGo DEF Step, Before
  <2> QED
    BY <1>1, <1>2, <2>4 DEF Before, Short
<1> QED
  BY <1>3, <1>4, <1>5, <1>6, <1>7, <1>8

\* The invariant of stopping is kept
LEMMA StopInvStays ==
  ASSUME "handover" \notin Happens, StopInv, [Next]_vars
  PROVE  StopInv'
<1>0. TypeOK /\ Alone /\ StopIsHeard /\ CoreInv'
  BY StepType, HasBranchStays, OneLiveStays DEF StopInv, CoreInv
<1> DEFINE Heard == /\ Alone /\ StopIsHeard /\ StoppedOpensNothing /\ StopsOnRequest
                    /\ KilledIsNoCrash
<1>a. Heard
  BY DEF StopInv
<1>b. Heard' => StopInv'
  BY <1>0 DEF StopInv
<1> HIDE DEF Heard
<1>1. ASSUME NEW t \in Threads, Start(t) \/ Answer(t)
      PROVE  Heard'
  <2>1. /\ \A u \in Threads : run[u].at = "idle"
        /\ stopping' = stopping
    BY <1>1 DEF Start, Answer, CanStart, FreeThreads, Register
  <2>2. /\ run'[t].at = "registered" /\ run'[t].asked = run[t].asked
        /\ run'[t].result = run[t].result /\ run'[t].agent = run[t].agent
        /\ \A u \in Threads \ {t} : run'[u] = run[u]
    BY <1>0, <1>1, StepsGo DEF Goes, Becomes
  <2>3. /\ ~stopping
        /\ \A u \in Threads : /\ run[u].asked = "no" /\ run[u].result = "none"
                              /\ run[u].agent = "none"
    BY <1>0, <2>1 DEF StopIsHeard, TypeOK
  <2>4. \A u \in Threads : /\ run'[u].at = (IF u = t THEN "registered" ELSE "idle")
                           /\ run'[u].asked = "no"
                           /\ run'[u].result = "none" /\ run'[u].agent = "none"
    BY <2>1, <2>2, <2>3
  <2> QED
    BY <2>1, <2>3, <2>4 DEF Heard, Alone, StopIsHeard, StoppedOpensNothing, StopsOnRequest,
                            KilledIsNoCrash
<1>2. ASSUME NEW t \in Threads, Cleanup(t)
      PROVE  Heard'
  <2>1. \A u \in Threads : u # t => run[u].at = "idle"
    <3>1. run[t].at = "finished"
      BY <1>2 DEF Cleanup
    <3> QED
      BY <1>0, <3>1 DEF Alone
  <2>2. \A u \in Threads : run[u].at = "idle" => /\ run[u].asked = "no" /\ run[u].result = "none"
                                                 /\ run[u].agent = "none"
    BY <1>0 DEF StopIsHeard, TypeOK
  <2>3. /\ run'[t].at = "idle" /\ run'[t].asked = "no" /\ run'[t].result = "none"
        /\ run'[t].agent = "none" /\ stopping' = FALSE
        /\ \A u \in Threads \ {t} : run'[u] = run[u]
    BY <1>0, <1>2, StepsGo DEF Becomes, Cleanup, Cleared
  <2>4. \A u \in Threads : /\ run'[u].at = "idle" /\ run'[u].asked = "no"
                           /\ run'[u].result = "none" /\ run'[u].agent = "none"
    BY <2>1, <2>2, <2>3
  <2> QED
    BY <2>3, <2>4 DEF Heard, Alone, StopIsHeard, StoppedOpensNothing, StopsOnRequest,
                      KilledIsNoCrash
<1>3. ASSUME NEW t \in Threads, Step(t) \/ Break(t), ~Cleanup(t)
      PROVE  Heard'
  <2>1. /\ run[t].at # "idle" /\ run[t].at # "finished"
        /\ \A u \in Threads \ {t} : run'[u] = run[u]
    BY <1>0, <1>3, RunGoes DEF Live, Before
  <2>2. \A u \in Threads \ {t} : run[u].at = "idle"
    BY <1>0, <2>1 DEF Alone
  <2>3. stopping => run[t].asked # "no"
    BY <1>0, <2>2 DEF StopIsHeard
  <2>4. run[t].asked = "in time" => run[t].at \in Before \cup {"ended"} /\ stopping
    BY <1>0, <2>1 DEF StopIsHeard
  <2>5. /\ stopping' = stopping
        /\ run'[t].asked = run[t].asked
        /\ run'[t].agent = "killed" => run[t].agent = "killed"
        /\ \/ run'[t].result = run[t].result /\ run'[t].at # "idle"
           \/ /\ run'[t].at = "ended"
              /\ run'[t].result = "stopped" => stopping
              /\ run'[t].result = "opened" => run[t].at = "pushing"
        /\ run[t].at \in Before /\ stopping => run'[t].at \in Before \cup {"ended"}
        /\ run[t].at = "ended" => run'[t].at = "finished"
    BY <1>0, <1>3, StepsHearStop
  <2>6. Alone'
    BY <2>1, <2>2 DEF Alone
  <2>7. StopIsHeard'
    <3>1. stopping' => run'[t].at # "idle" /\ run'[t].asked # "no"
      BY <2>3, <2>5
    <3>2. /\ run'[t].at # "idle"
          /\ run'[t].asked = "in time" /\ run'[t].at # "finished" =>
               run'[t].at \in Before \cup {"ended"} /\ stopping'
      BY <2>4, <2>5
    <3>3. run'[t].result # "none" => run'[t].at \in {"ended", "finished"}
      <4>1. run[t].result # "none" => run[t].at = "ended"
        BY <1>0, <2>1 DEF StopIsHeard
      <4> QED
        BY <2>5, <4>1
    <3> QED
      BY <1>0, <2>1, <2>2, <3>1, <3>2, <3>3 DEF StopIsHeard
  <2>8. StoppedOpensNothing' /\ StopsOnRequest' /\ KilledIsNoCrash'
    <3>1. /\ run[t].asked = "in time" => run[t].result # "opened"
          /\ run[t].result = "stopped" => run[t].asked # "no"
          /\ run[t].agent = "killed" => stopping
      BY <1>a DEF Heard, StoppedOpensNothing, StopsOnRequest, KilledIsNoCrash
    <3>2. /\ run'[t].asked = "in time" => run'[t].result # "opened"
          /\ run'[t].result = "stopped" => run'[t].asked # "no"
          /\ run'[t].agent = "killed" => stopping'
      BY <2>3, <2>4, <2>5, <3>1 DEF Before
    <3> QED
      BY <1>a, <2>1, <2>5, <3>2 DEF Heard, StoppedOpensNothing, StopsOnRequest, KilledIsNoCrash
  <2> QED
    BY <2>6, <2>7, <2>8 DEF Heard
<1>4. ASSUME Stop
      PROVE  Heard'
  <2>1. /\ current \in Threads /\ run[current].at \in Live /\ stopping' = TRUE
    BY <1>0, <1>4, StopMarks DEF Stop, LiveRun, Marked
  <2>2. /\ \A u \in Threads \ {current} : run'[u] = run[u]
        /\ run'[current].at = run[current].at /\ run'[current].result = run[current].result
        /\ run'[current].asked \in {"in time", "late"}
        /\ run'[current].asked = "in time" => run[current].at \in Before
    BY <1>0, <1>4, StopMarks DEF Becomes
  <2>3. \A u \in Threads \ {current} : run[u].at = "idle"
    BY <1>0, <2>1 DEF Alone, Live, Before
  <2>4. run[current].result = "opened" => run[current].at = "ended"
    BY <1>0, <2>1 DEF StopIsHeard, Live, Before
  <2>5. Alone'
    BY <1>0, <2>1, <2>2 DEF Alone
  <2>6. StopIsHeard'
    BY <1>0, <2>1, <2>2, <2>3 DEF StopIsHeard, Live, Before
  <2>7. StoppedOpensNothing'
    BY <1>a, <2>1, <2>2, <2>4 DEF Heard, StoppedOpensNothing, Before
  <2>8. StopsOnRequest' /\ KilledIsNoCrash'
    BY <1>a, <2>1, <2>2 DEF Heard, StopsOnRequest, KilledIsNoCrash
  <2> QED
    BY <2>5, <2>6, <2>7, <2>8 DEF Heard
<1>5. ASSUME Crash
      PROVE  Heard'
  <2>1. /\ stopping' = FALSE
        /\ \A u \in Threads : /\ run'[u].at = "idle" /\ run'[u].asked = "no"
                              /\ run'[u].result = "none" /\ run'[u].agent = "none"
    BY <1>5 DEF Crash, NoRun
  <2> QED
    BY <2>1 DEF Heard, Alone, StopIsHeard, StoppedOpensNothing, StopsOnRequest, KilledIsNoCrash
<1>6. ASSUME WriteNote \/ Edit \/ Accept \/ MoveBase \/ SweepReads \/ SweepEnds \/ UNCHANGED vars
      PROVE  Heard'
  <2>1. UNCHANGED <<run, stopping>>
    BY <1>6 DEF WriteNote, Edit, Accept, MoveBase, SweepReads, SweepEnds, vars, registry
  <2> QED
    BY <1>a, <2>1 DEF Heard, Alone, StopIsHeard, StoppedOpensNothing, StopsOnRequest,
                      KilledIsNoCrash
<1> QED
  BY <1>b, <1>1, <1>2, <1>3, <1>4, <1>5, <1>6 DEF Next

\* Where no run starts before the one before it has left, the registry's mark is for the run that
\* goes on, and it stands as long as its agent is dying of it
LEMMA StopsAreHeard ==
  ASSUME "handover" \notin Happens
  PROVE  Spec => [](StoppedOpensNothing /\ StopsOnRequest /\ KilledIsNoCrash)
<1>1. ASSUME Init PROVE StopInv
  <2>1. /\ stopping = FALSE
        /\ \A t \in Threads : /\ run[t].at = "idle" /\ run[t].asked = "no"
                              /\ run[t].result = "none" /\ run[t].agent = "none"
    BY <1>1 DEF Init, NoRun
  <2>2. CoreInv
    BY <1>1, <2>1, InitType
       DEF CoreInv, HasBranch, OneLive, RowFollows, Init, Working, Live, Before, Orphaned
  <2> QED
    BY <2>1, <2>2
       DEF StopInv, Alone, StopIsHeard, StoppedOpensNothing, StopsOnRequest, KilledIsNoCrash
<1>2. ASSUME StopInv, [Next]_vars PROVE StopInv'
  BY <1>2, StopInvStays
<1>3. StopInv => StoppedOpensNothing /\ StopsOnRequest /\ KilledIsNoCrash
  BY DEF StopInv
<1> QED
  BY <1>1, <1>2, <1>3, PTL DEF Spec

\* Where no run starts before the one before it has left: a run that was stopped before it looked
\* at the mark for the last time opens nothing, whichever step it was stopped in
THEOREM NoStoppedRunOpens ==
  ASSUME "handover" \notin Happens
  PROVE  Spec => []StoppedOpensNothing
<1>1. Spec => [](StoppedOpensNothing /\ StopsOnRequest /\ KilledIsNoCrash)
  BY StopsAreHeard
<1> QED
  BY <1>1, PTL

\* Under the same condition no run takes the mark of another one for its own
THEOREM OnlyStoppedRunsStop ==
  ASSUME "handover" \notin Happens
  PROVE  Spec => []StopsOnRequest
<1>1. Spec => [](StoppedOpensNothing /\ StopsOnRequest /\ KilledIsNoCrash)
  BY StopsAreHeard
<1> QED
  BY <1>1, PTL

\* Under the same condition an agent that was killed on purpose finds the mark when its end is read
THEOREM NoKillIsACrash ==
  ASSUME "handover" \notin Happens
  PROVE  Spec => []KilledIsNoCrash
<1>1. Spec => [](StoppedOpensNothing /\ StopsOnRequest /\ KilledIsNoCrash)
  BY StopsAreHeard
<1> QED
  BY <1>1, PTL

-----------------------------------------------------------------------------
(* What is opened was tested and approved, as long as the sweep stays away *)

\* The stages a run reaches only past its tests, and past its reviewer
Gated == {"reading", "reviewer", "reviewed", "opening", "synced", "pushing"}
Reviewed == {"reviewed", "opening", "synced", "pushing"}
\* Somebody approved of the newest work of this head, be it on an older base
WorkApproved(h, j) == \E b \in 0..MaxMoves : j[[work |-> h.work, base |-> b]] = "approved"

\* what a run has come to know of the branch holds of the head h, on the verdicts j
Vetted(r, h, j) ==
  /\ r.at \in {"worker", "reviewer"} => r.from = h
  /\ r.at \in Gated \cup {"testing"} => Contains(h)
  /\ r.at \in Gated => r.green = h
  /\ r.at \in Reviewed => WorkApproved(h, j)
  /\ r.reuse => r.at \in Reviewed \cup {"testing", "ended", "finished"}
  /\ r.reuse /\ r.at = "testing" => WorkApproved(h, j)

\* Every run knows the branch as it is: no sweep is under way that moves it
HeadIsVetted == sweep = NoHead /\ \A t \in Threads : Vetted(run[t], head, judged)

\* the newest verdict on a head in the log is the newest there was, and an attempt that has yet
\* to set out has none
LogIsJudged ==
  /\ \A h \in Heads, j \in 1..Now :
       log[j].verdict[h] # "none" /\ (\A k \in (j + 1)..Now : log[k].verdict[h] = "none")
         => judged[h] = log[j].verdict[h]
  /\ \A t \in Threads : run[t].at = "prepared" => Now > 0 /\ log[Now] = NewAttempt

\* The inductive invariant of the gates
VetInv == CoreInv /\ HeadIsVetted /\ LogIsJudged

\* Every set of numbers that is not empty has a least one
LEMMA LeastOf ==
  ASSUME NEW S \in SUBSET Nat, S # {}
  PROVE  \E m \in S : \A k \in S : m <= k
<1> DEFINE R == OpToRel(<, Nat)
<1>1. IsWellFoundedOn(R, Nat)
  BY NatLessThanWellFounded
<1>2. \A m, n \in Nat : m < n => <<m, n>> \in R
  BY DEF OpToRel
<1> HIDE DEF R
<1>3. S \subseteq Nat /\ S # {}
  OBVIOUS
<1>4. \E m \in S : \A k \in S : ~ (<<k, m>> \in R)
  BY ONLY <1>1, <1>3, WFMin, Zenon
<1>5. PICK m \in S : \A k \in S : ~ (<<k, m>> \in R)
  BY <1>4
<1>6. \A k \in S : ~(k < m)
  BY <1>2, <1>5, Zenon
<1> QED
  BY <1>6

\* The newest of some attempts is one of them, and none of them is newer
LEMMA LatestIs ==
  ASSUME NEW n \in Nat, NEW I \in SUBSET (1..n), I # {}
  PROVE  Latest(I) \in I /\ \A j \in I : j <= Latest(I)
<1> DEFINE D == {n - i : i \in I}
<1>1. D \in SUBSET Nat /\ D # {}
  <2>1. \A i \in I : n - i \in Nat
    OBVIOUS
  <2> QED
    BY <2>1
<1>2. PICK d \in D : \A k \in D : d <= k
  BY <1>1, LeastOf
<1>3. PICK i \in I : d = n - i
  BY <1>2
<1>4. \A j \in I : j <= i
  <2> TAKE j \in I
  <2>1. n - j \in D
    OBVIOUS
  <2>2. n - i <= n - j
    BY <1>2, <1>3, <2>1
  <2>3. i \in 1..n /\ j \in 1..n
    OBVIOUS
  <2> QED
    BY <2>2, <2>3
<1> QED
  BY <1>4 DEF Latest

\* What a step makes of the verdicts: nothing, an attempt with none, or a reviewer's verdict on
\* the head it was given
LEMMA VerdictsGo ==
  ASSUME TypeOK, NEW t \in Threads, Step(t) \/ Break(t) \/ Start(t) \/ Answer(t)
  PROVE  \/ /\ judged' = judged /\ Now' = Now
            /\ \A i \in 1..Now : log'[i].verdict = log[i].verdict
         \/ Prepare(t) /\ judged' = judged /\ log' = Append(log, NewAttempt)
         \/ /\ run[t].at = "reviewer" /\ Now' = Now
            /\ \A i \in 1..Now : i # Now => log'[i].verdict = log[i].verdict
            /\ \E v \in {"approved", "rejected"} :
                 /\ judged' = [judged EXCEPT ![run[t].from] = v]
                 /\ Now > 0 => log'[Now].verdict = [log[Now].verdict EXCEPT ![run[t].from] = v]
                 /\ run'[t].at = "reviewed" => v = "approved"
<1>0. log \in Seq(Record) /\ Now \in Nat
  BY LenProperties DEF TypeOK, Now
<1>1. CASE Prepare(t)
  <2>1. judged' = judged
    BY <1>1 DEF Prepare, past
  <2>2. CASE log' = Append(log, NewAttempt)
    BY <1>1, <2>1, <2>2
  <2>3. CASE log' = log
    BY <2>1, <2>3 DEF Now
  <2> QED
    BY <1>1, <2>2, <2>3 DEF Prepare
<1>2. CASE ReviewerStopped(t) \/ Approves(t) \/ Rejects(t)
  <2>1. run[t].at = "reviewer" /\ (Rejects(t) => run'[t].at # "reviewed")
        /\ (ReviewerStopped(t) => run'[t].at # "reviewed")
    BY <1>2, StepsGo DEF Goes, Ended, Becomes
  <2>2. \/ log' = log /\ judged' = judged
        \/ \E v \in {"approved", "rejected"} :
             /\ judged' = [judged EXCEPT ![run[t].from] = v]
             /\ \/ log' = [log EXCEPT ![Now]["verdict"] =
                                         [log[Now].verdict EXCEPT ![run[t].from] = v]]
                \/ /\ log' = [log EXCEPT ![Now].last = NoHead,
                                         ![Now].verdict[run[t].from] = "rejected"]
                   /\ v = "rejected"
             /\ Approves(t) => v = "approved"
    <3>1. CASE ReviewerStopped(t)
      <4>1. ~Approves(t)
        BY <3>1 DEF ReviewerStopped, Approves
      <4> QED
        BY <3>1, <4>1 DEF ReviewerStopped, Judge, Note, past
    <3>2. CASE Approves(t)
      BY <3>2 DEF Approves, Judge, Note
    <3>3. CASE Rejects(t)
      <4>1. ~Approves(t)
        BY <2>1, <3>3, StepsGo DEF Goes, Becomes
      <4> QED
        BY <3>3, <4>1 DEF Rejects, Judge, Note
    <3> QED
      BY <1>2, <3>1, <3>2, <3>3
  <2>3. CASE log' = log /\ judged' = judged
    BY <2>3 DEF Now
  <2>4. ASSUME NEW v \in {"approved", "rejected"},
               judged' = [judged EXCEPT ![run[t].from] = v],
               \/ log' = [log EXCEPT ![Now]["verdict"] =
                                         [log[Now].verdict EXCEPT ![run[t].from] = v]]
               \/ /\ log' = [log EXCEPT ![Now].last = NoHead,
                                         ![Now].verdict[run[t].from] = "rejected"]
                  /\ v = "rejected",
               Approves(t) => v = "approved"
        PROVE  /\ run[t].at = "reviewer" /\ Now' = Now
               /\ \A i \in 1..Now : i # Now => log'[i].verdict = log[i].verdict
               /\ judged' = [judged EXCEPT ![run[t].from] = v]
               /\ Now > 0 => log'[Now].verdict = [log[Now].verdict EXCEPT ![run[t].from] = v]
               /\ run'[t].at = "reviewed" => v = "approved"
    <3>1. /\ Now' = Now /\ \A i \in 1..Now : i # Now => log'[i] = log[i]
          /\ Now > 0 => log'[Now].verdict = [log[Now].verdict EXCEPT ![run[t].from] = v]
      BY <1>0, <2>4, LogBecomes DEF Edited
    <3> QED
      BY <1>2, <2>1, <2>4, <3>1
  <2> QED
    BY <2>2, <2>3, <2>4
<1>3. CASE /\ ~Prepare(t) /\ ~ReviewerStopped(t) /\ ~Approves(t) /\ ~Rejects(t)
  <2>1. judged' = judged
    BY <1>3 DEF Step, Break, Start, Answer, RebaseFails, SetOut, Work, Known, WorkerStopped,
                WorkerEnds, GateRefuses, TestGate, Review, ReviewerFails, LastCheck, Sync,
                Checking, Open, Finish, Cleanup, past, Summary
  <2>2. \/ log' = log
        \/ \E fp, k : log' = [log EXCEPT ![Now].fp = fp, ![Now].skipped = k]
        \/ \E h : log' = [log EXCEPT ![Now].reached = TRUE, ![Now].last = h]
        \/ \E g : log' = [log EXCEPT ![Now]["gate"] = g]
        \/ \E o : log' = [log EXCEPT ![Now]["ended"] = o]
    <3>1. SetOut(t) => \/ log' = log
                       \/ \E fp, k : log' = [log EXCEPT ![Now].fp = fp, ![Now].skipped = k]
      BY DEF SetOut
    <3>2. WorkerEnds(t) => \/ log' = log
                           \/ \E h : log' = [log EXCEPT ![Now].reached = TRUE, ![Now].last = h]
      BY DEF WorkerEnds, Summary
    <3>3. TestGate(t) \/ Sync(t) => log' = log \/ \E g : log' = [log EXCEPT ![Now]["gate"] = g]
      BY DEF TestGate, Sync, Note
    <3>4. Finish(t) => log' = log \/ \E o : log' = [log EXCEPT ![Now]["ended"] = o]
      BY DEF Finish, Note
    <3>5. \/ log' = log \/ SetOut(t) \/ WorkerEnds(t) \/ TestGate(t) \/ Sync(t) \/ Finish(t)
      BY <1>3 DEF Step, Break, Start, Answer, RebaseFails, Work, Known, WorkerStopped,
                  GateRefuses, Review, ReviewerFails, LastCheck, Checking, Open, Cleanup
    <3> QED
      BY <3>1, <3>2, <3>3, <3>4, <3>5
  <2>3. Now' = Now /\ \A i \in 1..Now : log'[i].verdict = log[i].verdict
    <3> DEFINE Same == Now' = Now /\ \A i \in 1..Now : log'[i].verdict = log[i].verdict
    <3>1. \A fp, k, r, h, o : Edited(fp, k, r, h, log[Now].verdict, o) => Same
      <4> SUFFICES ASSUME NEW fp, NEW k, NEW r, NEW h, NEW o,
                          Edited(fp, k, r, h, log[Now].verdict, o)
                   PROVE  Same
        OBVIOUS
      <4> QED
        BY <1>0 DEF Edited
    <3> HIDE DEF Same
    <3>2. Same
      BY <1>0, <2>2, <3>1, LogBecomes DEF Unedited
    <3> QED
      BY <3>2 DEF Same
  <2> QED
    BY <2>1, <2>3
<1> QED
  BY <1>1, <1>2, <1>3

\* The verdict an attempt finds in the log, as it sets out, is the newest there was
LEMMA VerdictIsNewest ==
  ASSUME TypeOK, LogIsJudged, NEW t \in Threads, run[t].at = "prepared",
         NEW h \in Heads, NEW i \in Int, Verdict(i, h) # "none"
  PROVE  Verdict(i, h) = judged[h]
<1> DEFINE with == {j \in Previous : j >= i /\ log[j].verdict[h] # "none"}
<1>1. Now \in Nat /\ Previous \subseteq 1..Now
  BY LenProperties DEF TypeOK, Now, Previous
<1>2. with # {} /\ Verdict(i, h) = log[Latest(with)].verdict[h]
  BY DEF Verdict
<1>3. Latest(with) \in with /\ \A j \in with : j <= Latest(with)
  <2>1. with \in SUBSET (1..Now)
    BY <1>1
  <2> HIDE DEF with
  <2> QED
    BY <1>1, <1>2, <2>1, LatestIs
<1> DEFINE l == Latest(with)
<1>4. l \in 1..Now /\ l >= i /\ log[l].verdict[h] # "none"
  BY <1>1, <1>3
<1>5. \A k \in (l + 1)..Now : log[k].verdict[h] = "none"
  <2> TAKE k \in (l + 1)..Now
  <2>1. CASE k = Now
    BY <2>1 DEF LogIsJudged, NewAttempt, Unjudged
  <2>2. CASE k # Now
    <3>1. k \in Previous /\ k >= i /\ ~(k <= l)
      BY <1>1, <1>4, <2>2 DEF Previous
    <3> QED
      BY <1>3, <3>1
  <2> QED
    BY <2>1, <2>2
<1> QED
  BY <1>2, <1>4, <1>5 DEF LogIsJudged

\* An attempt that takes up an approval takes up the newest verdict on the head it has
LEMMA ApprovedIsJudged ==
  ASSUME TypeOK, LogIsJudged, NEW t \in Threads, run[t].at = "prepared",
         NEW fp, fp.head \in Heads, MayResume(fp), Approved(fp)
  PROVE  judged[fp.head] = "approved"
<1> DEFINE i == Latest(Workers)
<1>1. i \in Int
  <2>1. Now \in Nat /\ Workers \in SUBSET (1..Now)
    BY LenProperties DEF TypeOK, Now, Previous, Workers
  <2>2. Workers # {}
    BY DEF MayResume
  <2>3. Latest(Workers) \in Workers
    BY <2>1, <2>2, LatestIs
  <2>4. Latest(Workers) \in 1..Now
    BY <2>1, <2>3
  <2> QED
    BY <2>1, <2>4
<1>2. Verdict(i, fp.head) # "none" /\ Verdict(i, fp.head) # "rejected"
  BY DEF MayResume, Approved
<1>3. judged[fp.head] = Verdict(i, fp.head)
  BY <1>1, <1>2, VerdictIsNewest
<1> QED
  BY <1>2, <1>3 DEF TypeOK, Verdicts

\* Where an attempt sets out, what it takes over from an earlier one holds of its head
LEMMA SetsOutVetted ==
  ASSUME TypeOK, LogIsJudged, NEW t \in Threads, SetOut(t)
  PROVE  \/ Ended(t, {"blocked"})
         \/ \E s \in {"testing", "brief"}, r \in BOOLEAN :
              /\ Becomes(t, s, run[t].agent, run[t].notes, run[t].from, r, run[t].green,
                         run[t].asked, run[t].result)
              /\ s = "testing" => Contains(head')
              /\ r => s = "testing" /\ judged[head'] = "approved" /\ head' \in Heads
<1>0. run \in [Threads -> RunState] /\ run[t].at = "prepared" /\ judged' = judged
  BY DEF TypeOK, SetOut, past
<1>1. PICK h \in Rebased :
        LET fp == [head |-> h, base |-> base, notes |-> run[t].notes, env |-> run[t].env]
            reused == head # NoHead
            skip == reused /\ Contains(h) /\ MayResume(fp) IN
        /\ head' = h
        /\ IF reused /\ Repeats(fp) THEN Block(t, "TESTS_FAILED") /\ UNCHANGED log
           ELSE /\ log' = [log EXCEPT ![Now].fp = fp, ![Now].skipped = skip]
                /\ run' = [run EXCEPT ![t].at = IF skip THEN "testing" ELSE "brief",
                                      ![t].reuse = skip /\ Approved(fp)]
                /\ UNCHANGED row
  BY DEF SetOut
<1> DEFINE fp == [head |-> h, base |-> base, notes |-> run[t].notes, env |-> run[t].env]
           skip == head # NoHead /\ Contains(h) /\ MayResume(fp)
<1>2. fp.head = h /\ h \in Heads
  BY RebasedTypes DEF TypeOK
<1>3. skip /\ Approved(fp) => judged[h] = "approved"
  <2> HIDE DEF fp
  <2> QED
    BY <1>0, <1>2, ApprovedIsJudged
<1>4. skip => Contains(h)
  OBVIOUS
<1>5. \/ Block(t, "TESTS_FAILED")
      \/ run' = [run EXCEPT ![t].at = IF skip THEN "testing" ELSE "brief",
                            ![t].reuse = skip /\ Approved(fp)]
  BY <1>1
<1>6. head' = h
  BY <1>1
<1> HIDE DEF skip, fp
<1>7. CASE Block(t, "TESTS_FAILED")
  BY <1>0, <1>7, RunsBecome DEF Block, EndsAs, Ended
<1>8. CASE run' = [run EXCEPT ![t].at = IF skip THEN "testing" ELSE "brief",
                              ![t].reuse = skip /\ Approved(fp)]
  <2> DEFINE s == IF skip THEN "testing" ELSE "brief"
             r == skip /\ Approved(fp)
  <2>1. run' = [run EXCEPT ![t].at = s, ![t].reuse = r]
    BY <1>8
  <2>2. s \in {"testing", "brief"} /\ r \in BOOLEAN /\ (s = "testing" <=> skip)
        /\ (r => skip /\ judged[h] = "approved")
    BY <1>3
  <2> HIDE DEF s, r
  <2>3. Becomes(t, s, run[t].agent, run[t].notes, run[t].from, r, run[t].green,
                run[t].asked, run[t].result)
    BY <1>0, <2>1, RunsBecome
  <2> QED
    BY <1>2, <1>4, <1>6, <2>2, <2>3
<1> QED
  BY <1>5, <1>7, <1>8

\* A run that steps still knows of its branch what it knew, and what it has found out
LEMMA RunStaysVetted ==
  ASSUME CoreInv, HeadIsVetted, LogIsJudged, NEW t \in Threads, Step(t) \/ Break(t)
  PROVE  Vetted(run'[t], head', judged')
<1> DEFINE Goal == Vetted(run'[t], head', judged')
<1>0. /\ TypeOK /\ HasBranch /\ run \in [Threads -> RunState] /\ head \in Heads
      /\ judged \in [Heads -> Verdicts] /\ run[t].from \in Heads
  BY DEF CoreInv, TypeOK, RunState
<1>1. /\ run[t].at \in {"worker", "reviewer"} => run[t].from = head
      /\ run[t].at \in Gated \cup {"testing"} => Contains(head)
      /\ run[t].at \in Gated => run[t].green = head
      /\ run[t].at \in Reviewed => WorkApproved(head, judged)
      /\ run[t].reuse => run[t].at \in Reviewed \cup {"testing", "ended", "finished"}
      /\ run[t].reuse /\ run[t].at = "testing" => WorkApproved(head, judged)
  BY DEF HeadIsVetted, Vetted
<1>a. \A R : Ended(t, R) => Goal
  BY DEF Ended, Becomes, Vetted, Gated, Reviewed
<1>b. \A a, n, h, g, x, o : \A s \in {"prepared", "brief", "registered"} :
        Becomes(t, s, a, n, h, FALSE, g, x, o) => Goal
  BY DEF Becomes, Vetted, Gated, Reviewed
<1>c. \A h \in Heads : Contains(h) /\ judged'[h] = "approved" => WorkApproved(h, judged')
  <2> SUFFICES ASSUME NEW h \in Heads, Contains(h), judged'[h] = "approved"
               PROVE  WorkApproved(h, judged')
    OBVIOUS
  <2>1. h.base \in 0..MaxMoves /\ [work |-> h.work, base |-> h.base] = h
    BY HeadTypes DEF Heads, NoHead, Contains
  <2> QED
    BY <2>1 DEF WorkApproved
<1>d. run[t].reuse \in BOOLEAN
  BY <1>0 DEF RunState
<1>2. CASE Prepare(t)
  <2>1. run[t].reuse = FALSE
    BY <1>0, <1>1, <1>2, <1>d, StepsGo DEF Reviewed
  <2> QED
    <3>1. \/ Ended(t, {"refused"})
          \/ Becomes(t, "prepared", run[t].agent, notes, run[t].from, run[t].reuse, run[t].green,
                     run[t].asked, run[t].result)
      BY <1>0, <1>2, StepsGo
    <3> QED
      BY <1>a, <1>b, <2>1, <3>1
<1>3. CASE RebaseFails(t) \/ WorkerStopped(t) \/ GateRefuses(t) \/ ReviewerStopped(t)
           \/ ReviewerFails(t) \/ Open(t) \/ Break(t)
  BY <1>0, <1>3, <1>a, StepsGo
<1>4. CASE SetOut(t)
  <2>1. judged' = judged /\ run[t].at = "prepared"
    BY <1>4 DEF SetOut, past
  <2>2. CASE Ended(t, {"blocked"})
    BY <1>a, <2>2
  <2>3. ASSUME NEW s \in {"testing", "brief"}, NEW r \in BOOLEAN,
               Becomes(t, s, run[t].agent, run[t].notes, run[t].from, r, run[t].green,
                       run[t].asked, run[t].result),
               s = "testing" => Contains(head'),
               r => s = "testing" /\ judged[head'] = "approved" /\ head' \in Heads
        PROVE  Goal
    <3>1. r => Contains(head') /\ WorkApproved(head', judged')
      BY <1>c, <2>1, <2>3
    <3> QED
      BY <2>3, <3>1 DEF Goal, Becomes, Vetted, Gated, Reviewed
  <2> QED
    BY <1>0, <1>4, <2>2, <2>3, SetsOutVetted
<1>5. CASE Work(t)
  <2>1. head' = head /\ run[t].at = "brief"
        /\ Becomes(t, "worker", "unknown", run[t].notes, head, run[t].reuse, run[t].green,
                   run[t].asked, run[t].result)
    BY <1>0, <1>5, StepsGo DEF Work
  <2> QED
    BY <1>1, <2>1 DEF Goal, Becomes, Vetted, Gated, Reviewed
<1>6. CASE Known(t)
  <2>1. head' = head /\ judged' = judged /\ Goes(t, run[t].at, "running")
    BY <1>0, <1>6, StepsGo DEF Known, past
  <2> QED
    BY <1>1, <2>1 DEF Goal, Goes, Becomes, Vetted
<1>7. CASE WorkerEnds(t)
  <2>1. run[t].at = "worker"
    BY <1>7 DEF WorkerEnds
  <2>2. Contains(head') \/ Ended(t, Short)
    <3>1. \/ Contains(head') \/ Refuse(t) \/ \E r : Block(t, r)
      BY <1>7 DEF WorkerEnds
    <3> QED
      BY <1>0, <3>1, RunsBecome DEF Refuse, Block, EndsAs, Ended, Short
  <2> QED
    BY <1>0, <1>1, <1>7, <1>a, <2>1, <2>2, StepsGo
       DEF Goal, Goes, Becomes, Vetted, Gated, Reviewed
<1>8. CASE TestGate(t)
  <2>1. /\ head' = head /\ judged' = judged /\ run[t].at = "testing"
        /\ \/ Refuse(t) \/ (\E r : Block(t, r)) \/ StopShort(t)
           \/ run' = [run EXCEPT ![t].at = IF run[t].reuse THEN "reviewed" ELSE "reading",
                                 ![t].green = head]
    BY <1>8 DEF TestGate, past
  <2>2. CASE run' = [run EXCEPT ![t].at = IF run[t].reuse THEN "reviewed" ELSE "reading",
                                ![t].green = head]
    <3>1. Becomes(t, IF run[t].reuse THEN "reviewed" ELSE "reading", run[t].agent, run[t].notes,
                  run[t].from, run[t].reuse, head, run[t].asked, run[t].result)
      BY <1>0, <2>2, RunsBecome
    <3>2. CASE run[t].reuse
      BY <1>1, <2>1, <3>1, <3>2 DEF Goal, Becomes, Vetted, Gated, Reviewed
    <3>3. CASE ~run[t].reuse
      BY <1>1, <2>1, <3>1, <3>3 DEF Goal, Becomes, Vetted, Gated, Reviewed
    <3> QED
      BY <3>2, <3>3
  <2>3. CASE Refuse(t) \/ (\E r : Block(t, r)) \/ StopShort(t)
    <3>1. \E o : EndsAs(t, o)
      BY <2>3 DEF Refuse, Block, StopShort
    <3>2. \E o : Ended(t, {o})
      BY <1>0, <3>1, RunsBecome DEF EndsAs, Ended
    <3> QED
      BY <1>a, <3>2
  <2> QED
    BY <2>1, <2>2, <2>3
<1>9. CASE Review(t)
  <2>1. head' = head /\ judged' = judged /\ run[t].at = "reading"
    BY <1>9 DEF Review, past
  <2>2. \/ Ended(t, Short)
        \/ Becomes(t, "reviewer", "unknown", run[t].notes, head, run[t].reuse, run[t].green,
                   run[t].asked, run[t].result)
    BY <1>0, <1>9, StepsGo
  <2> QED
    BY <1>1, <1>a, <2>1, <2>2 DEF Goal, Becomes, Vetted, Gated, Reviewed
<1>10. CASE Approves(t)
  <2>1. /\ head' = head /\ judged' = [judged EXCEPT ![run[t].from] = "approved"]
        /\ run[t].at = "reviewer" /\ Goes(t, "reviewed", "none")
    BY <1>0, <1>10, StepsGo DEF Approves, Judge
  <2>2. Contains(head) /\ run[t].from = head /\ run[t].green = head /\ ~run[t].reuse
    BY <1>1, <2>1 DEF Gated, Reviewed
  <2>3. WorkApproved(head, judged')
    <3>1. judged'[head] = "approved"
      BY <1>0, <2>1, <2>2
    <3> QED
      BY <1>0, <1>c, <2>2, <3>1
  <2> QED
    BY <2>1, <2>2, <2>3 DEF Goal, Goes, Becomes, Vetted, Gated, Reviewed
<1>11. CASE Rejects(t)
  <2>1. run[t].at = "reviewer" /\ (Ended(t, Short) \/ Goes(t, "brief", "none"))
    BY <1>0, <1>11, StepsGo
  <2>2. run[t].reuse = FALSE
    BY <1>1, <1>d, <2>1 DEF Reviewed
  <2> QED
    BY <1>a, <1>b, <2>1, <2>2 DEF Goes
<1>12. CASE LastCheck(t)
  <2>1. head' = head /\ judged' = judged /\ run[t].at = "reviewed"
    BY <1>12 DEF LastCheck, past
  <2>2. Ended(t, Short) \/ Goes(t, "opening", "none")
    BY <1>0, <1>12, StepsGo
  <2> QED
    BY <1>1, <1>a, <2>1, <2>2 DEF Goal, Goes, Becomes, Vetted, Gated, Reviewed
<1>13. CASE Sync(t)
  <2>1. judged' = judged /\ run[t].at = "opening"
    BY <1>13 DEF Sync, past
  <2>2. \/ Ended(t, Short)
        \/ head' = head /\ Goes(t, "synced", "none")
        \/ /\ head' = Merged
           /\ Becomes(t, "synced", run[t].agent, run[t].notes, run[t].from, run[t].reuse, Merged,
                      run[t].asked, run[t].result)
    <3>1. \/ head' = head /\ Goto(t, "synced")
          \/ Refuse(t) \/ \E r : Block(t, r)
          \/ head' = Merged /\ run' = [run EXCEPT ![t].at = "synced", ![t].green = head']
      BY <1>13 DEF Sync, NeedsRetest
    <3> QED
      BY <1>0, <3>1, RunsBecome DEF Refuse, Block, EndsAs, Ended, Short, Goto, Goes
  <2>3. /\ Contains(head) /\ run[t].green = head /\ WorkApproved(head, judged)
    BY <1>1, <2>1 DEF Gated, Reviewed
  <2>4. CASE head' = head /\ Goes(t, "synced", "none")
    BY <1>1, <2>1, <2>3, <2>4 DEF Goal, Goes, Becomes, Vetted, Gated, Reviewed
  <2>5. CASE /\ head' = Merged
             /\ Becomes(t, "synced", run[t].agent, run[t].notes, run[t].from, run[t].reuse,
                        Merged, run[t].asked, run[t].result)
    <3>1. head'.work = head.work
      BY <1>0, <2>5 DEF Merged, Heads, NoHead
    <3>2. Contains(head') /\ WorkApproved(head', judged')
      BY <2>1, <2>3, <3>1 DEF Contains, WorkApproved
    <3> QED
      BY <2>5, <3>2 DEF Goal, Becomes, Vetted, Gated, Reviewed
  <2> QED
    BY <1>a, <2>2, <2>4, <2>5
<1>14. CASE Checking(t)
  <2>1. head' = head /\ judged' = judged /\ run[t].at = "synced"
    BY <1>14 DEF Checking, past
  <2>2. Goes(t, "pushing", "none")
    BY <1>0, <1>14, StepsGo
  <2> QED
    BY <1>1, <2>1, <2>2 DEF Goal, Goes, Becomes, Vetted, Gated, Reviewed
<1>15. CASE Finish(t)
  <2>1. Goes(t, "finished", "none")
    BY <1>0, <1>15, StepsGo
  <2> QED
    BY <2>1 DEF Goal, Goes, Becomes, Vetted, Gated, Reviewed
<1>16. CASE Cleanup(t)
  <2>1. Becomes(t, "idle", "none", 0, NoHead, FALSE, NoHead, "no", "none")
    BY <1>0, <1>16, StepsGo
  <2> QED
    BY <2>1 DEF Goal, Becomes, Vetted, Gated, Reviewed
<1>17. Goal
  BY <1>2, <1>3, <1>4, <1>5, <1>6, <1>7, <1>8, <1>9, <1>10, <1>11, <1>12, <1>13, <1>14, <1>15,
     <1>16 DEF Step
<1> QED
  BY <1>17 DEF Goal

\* The verdicts in the log stay in step with the newest verdicts
LEMMA LogStaysJudged ==
  ASSUME CoreInv, LogIsJudged, [Next]_vars
  PROVE  LogIsJudged'
<1> DEFINE Newest == \A h \in Heads, j \in 1..Now :
             log[j].verdict[h] # "none"
             /\ (\A k \in (j + 1)..Now : log[k].verdict[h] = "none")
               => judged[h] = log[j].verdict[h]
           Fresh == \A t \in Threads : run[t].at = "prepared" => Now > 0 /\ log[Now] = NewAttempt
<1>0. /\ TypeOK /\ OneLive /\ log \in Seq(Record) /\ Now \in Nat /\ run \in [Threads -> RunState]
      /\ judged \in [Heads -> Verdicts]
  BY LenProperties DEF CoreInv, TypeOK, Now
<1>1. Newest /\ Fresh
  BY DEF LogIsJudged
<1>2. Newest' /\ Fresh' => LogIsJudged'
  BY DEF LogIsJudged
<1>a. \A j \in 1..Now : log[j] \in Record
  BY <1>0, ElementOfSeq DEF Now
<1>3. ASSUME judged' = judged, Now' = Now, \A i \in 1..Now : log'[i].verdict = log[i].verdict
      PROVE  Newest'
  <2>1. 1..Now' = 1..Now /\ \A j \in 1..Now : (j + 1)..Now' = (j + 1)..Now
    BY <1>3
  <2>2. \A j \in 1..Now : \A k \in (j + 1)..Now : k \in 1..Now
    BY <1>0
  <2>3. ASSUME NEW h \in Heads, NEW j \in 1..Now, log'[j].verdict[h] # "none",
               \A k \in (j + 1)..Now : log'[k].verdict[h] = "none"
        PROVE  judged'[h] = log'[j].verdict[h]
    <3>1. log[j].verdict[h] # "none" /\ \A k \in (j + 1)..Now : log[k].verdict[h] = "none"
      BY <1>3, <2>2, <2>3
    <3> QED
      BY <1>1, <1>3, <3>1
  <2> QED
    BY <1>3, <2>1, <2>3
<1>4. ASSUME judged' = judged, log' = Append(log, NewAttempt)
      PROVE  Newest' /\ Now' = Now + 1 /\ log'[Now'] = NewAttempt
  <2>1. /\ Now' = Now + 1 /\ log'[Now'] = NewAttempt
        /\ \A i \in 1..Now : log'[i] = log[i]
    BY <1>0, <1>4, NewTypes DEF Now
  <2>2. \A h \in Heads : log'[Now'].verdict[h] = "none"
    BY <2>1 DEF NewAttempt, Unjudged
  <2> HIDE DEF Newest
  <2>3. ASSUME NEW h \in Heads, NEW j \in 1..Now', log'[j].verdict[h] # "none",
               \A k \in (j + 1)..Now' : log'[k].verdict[h] = "none"
        PROVE  judged'[h] = log'[j].verdict[h]
    <3>1. j \in 1..Now /\ \A k \in (j + 1)..Now : k \in (j + 1)..Now' /\ k \in 1..Now
      BY <1>0, <2>1, <2>2, <2>3
    <3>2. log[j].verdict[h] # "none" /\ \A k \in (j + 1)..Now : log[k].verdict[h] = "none"
      BY <2>1, <2>3, <3>1
    <3> QED
      BY <1>1, <1>4, <2>1, <3>1, <3>2 DEF Newest
  <2> QED
    BY <2>1, <2>3 DEF Newest
<1>5. ASSUME NEW g \in Heads, NEW v \in {"approved", "rejected"}, Now' = Now,
             \A i \in 1..Now : i # Now => log'[i].verdict = log[i].verdict,
             judged' = [judged EXCEPT ![g] = v],
             Now > 0 => log'[Now].verdict = [log[Now].verdict EXCEPT ![g] = v]
      PROVE  Newest'
  <2> HIDE DEF Newest
  <2>1. ASSUME NEW h \in Heads, NEW j \in 1..Now, log'[j].verdict[h] # "none",
               \A k \in (j + 1)..Now : log'[k].verdict[h] = "none"
        PROVE  judged'[h] = log'[j].verdict[h]
    <3>1. Now > 0 /\ Now \in 1..Now
      BY <1>0
    <3>2. log[Now].verdict \in [Heads -> Verdicts]
      BY <1>a, <3>1 DEF Record
    <3>3. /\ log'[Now].verdict[g] = v
          /\ \A x \in Heads : x # g => log'[Now].verdict[x] = log[Now].verdict[x]
      BY <1>5, <3>1, <3>2
    <3>4. CASE h = g
      <4>1. j = Now
        BY <1>0, <2>1, <3>1, <3>3, <3>4
      <4> QED
        BY <1>0, <1>5, <3>3, <3>4, <4>1
    <3>5. CASE h # g
      <4>1. \A k \in 1..Now : log'[k].verdict[h] = log[k].verdict[h]
        BY <1>5, <3>3, <3>5
      <4>2. log[j].verdict[h] # "none" /\ \A k \in (j + 1)..Now : log[k].verdict[h] = "none"
        BY <1>0, <2>1, <4>1
      <4>3. judged'[h] = judged[h]
        BY <1>0, <1>5, <3>5
      <4> QED
        BY <1>1, <2>1, <4>1, <4>2, <4>3 DEF Newest
    <3> QED
      BY <3>4, <3>5
  <2> QED
    BY <1>5, <2>1 DEF Newest
<1> HIDE DEF Newest
<1>6. ASSUME NEW t \in Threads, Step(t) \/ Break(t) \/ Start(t) \/ Answer(t)
      PROVE  Newest'
  <2>1. run[t].from \in Heads
    BY <1>0 DEF RunState
  <2> QED
    BY <1>3, <1>4, <1>5, <1>6, <2>1, <1>0, VerdictsGo
<1>7. ASSUME NEW t \in Threads, Start(t) \/ Answer(t)
      PROVE  Fresh'
  <2>1. log' = log /\ run'[t].at = "registered" /\ \A u \in Threads \ {t} : run'[u] = run[u]
    BY <1>0, <1>7, StepsGo DEF Start, Answer, Goes, Becomes
  <2> QED
    BY <1>1, <2>1 DEF Now
<1>8. ASSUME NEW t \in Threads, Cleanup(t)
      PROVE  Fresh'
  <2>1. log' = log /\ run'[t].at = "idle" /\ \A u \in Threads \ {t} : run'[u] = run[u]
    BY <1>0, <1>8, StepsGo DEF Cleanup, Becomes
  <2> QED
    BY <1>1, <2>1 DEF Now
<1>9. ASSUME NEW t \in Threads, Step(t) \/ Break(t), ~Cleanup(t)
      PROVE  Fresh'
  <2>1. /\ run[t].at \in Live /\ \A u \in Threads \ {t} : run'[u] = run[u]
    BY <1>0, <1>9, RunGoes
  <2>2. \A u \in Threads \ {t} : run'[u].at # "prepared"
    BY <1>0, <2>1 DEF OneLive, Live, Before
  <2>3. CASE ~Prepare(t)
    <3>1. run'[t].at # "prepared"
      <4>1. run[t].agent = "unknown" => run[t].at \in {"worker", "reviewer"}
        BY <1>0 DEF TypeOK
      <4> QED
        BY <1>0, <1>9, <2>3, <4>1, StepsGo DEF Step, Goes, Ended, Becomes
    <3> QED
      BY <2>2, <3>1
  <2>4. CASE Prepare(t) /\ log' = Append(log, NewAttempt)
    <3>1. judged' = judged
      BY <2>4 DEF Prepare, past
    <3>2. Now' = Now + 1 /\ log'[Now'] = NewAttempt
      BY <1>4, <2>4, <3>1
    <3> QED
      BY <1>0, <2>2, <3>2
  <2>5. CASE Prepare(t) /\ Refuse(t)
    <3>1. run'[t].at = "ended"
      BY <1>0, <2>5, RunsBecome DEF Refuse, EndsAs, Becomes
    <3> QED
      BY <2>2, <3>1
  <2> QED
    BY <2>3, <2>4, <2>5 DEF Prepare
<1>10. ASSUME Stop
       PROVE  Newest' /\ Fresh'
  <2>1. log' = log /\ judged' = judged /\ \A u \in Threads : run'[u].at = run[u].at
    BY <1>0, <1>10, StopMarks DEF Stop, Becomes, past
  <2> QED
    BY <1>1, <1>3, <2>1 DEF Now
<1>11. ASSUME WriteNote \/ Edit \/ Accept \/ MoveBase \/ SweepReads \/ SweepEnds \/ UNCHANGED vars
       PROVE  Newest' /\ Fresh'
  <2>1. UNCHANGED <<log, judged, run>>
    BY <1>11 DEF WriteNote, Edit, Accept, MoveBase, SweepReads, SweepEnds, vars, registry, past
  <2> QED
    BY <1>1, <1>3, <2>1 DEF Now
<1>12. ASSUME Crash
       PROVE  Newest' /\ Fresh'
  <2>1. log' = log /\ judged' = judged /\ \A u \in Threads : run'[u].at = "idle"
    BY <1>12 DEF Crash, NoRun, past
  <2> QED
    BY <1>1, <1>3, <2>1 DEF Now
<1> QED
  BY <1>2, <1>6, <1>7, <1>8, <1>9, <1>10, <1>11, <1>12 DEF Next

\* The invariant of what is opened is kept
LEMMA VetInvStays ==
  ASSUME "sweep" \notin Happens, VetInv, [Next]_vars
  PROVE  VetInv'
<1>0. /\ TypeOK /\ OneLive /\ CoreInv' /\ LogIsJudged' /\ HeadIsVetted /\ LogIsJudged /\ CoreInv
  BY StepType, HasBranchStays, OneLiveStays, LogStaysJudged
     DEF VetInv, CoreInv
<1>1. sweep' = NoHead
  <2>1. sweep = NoHead /\ ~SweepReads /\ ~SweepEnds
    BY <1>0 DEF HeadIsVetted, SweepReads, SweepEnds
  <2>2. ASSUME NEW t \in Threads, Step(t) \/ Break(t) \/ Start(t) \/ Answer(t)
        PROVE  sweep' = sweep
    BY <2>2 DEF Step, Break, Start, Answer, Prepare, RebaseFails, SetOut, Work, Known,
                WorkerStopped, WorkerEnds, GateRefuses, TestGate, Review, ReviewerStopped,
                ReviewerFails, Approves, Rejects, LastCheck, Sync, Checking, Open, Finish,
                Cleanup, Apart
  <2>3. Stop \/ WriteNote \/ Edit \/ Accept \/ MoveBase \/ Crash \/ UNCHANGED vars
          => sweep' = NoHead
    BY <2>1 DEF Stop, WriteNote, Edit, Accept, MoveBase, Crash, vars
  <2> QED
    BY <2>1, <2>2, <2>3 DEF Next
<1>2. \A r, h, j, g, i : r.at \notin Live /\ Vetted(r, h, j) => Vetted(r, g, i)
  BY DEF Vetted, Gated, Reviewed, Live, Before
<1>3. \A t \in Threads : Vetted(run[t], head, judged)
  BY <1>0 DEF HeadIsVetted
<1>4. (\A t \in Threads : Vetted(run'[t], head', judged')) => VetInv'
  BY <1>0, <1>1 DEF VetInv, HeadIsVetted
<1>5. ASSUME NEW t \in Threads, Step(t) \/ Break(t)
      PROVE  VetInv'
  <2>1. Vetted(run'[t], head', judged')
    BY <1>0, <1>5, RunStaysVetted
  <2>2. ASSUME NEW u \in Threads \ {t}
        PROVE  Vetted(run'[u], head', judged')
    <3>1. CASE Cleanup(t)
      <4>1. run'[u] = run[u] /\ head' = head /\ judged' = judged
        BY <1>0, <2>2, <3>1, StepsGo DEF Becomes, Cleanup, past
      <4> QED
        BY <1>3, <4>1
    <3>2. CASE ~Cleanup(t)
      <4>1. run'[u] = run[u] /\ run[t].at \in Live
        BY <1>0, <1>5, <2>2, <3>2, RunGoes
      <4>2. run[u].at \notin Live
        BY <1>0, <2>2, <4>1 DEF OneLive
      <4> QED
        BY <1>2, <1>3, <4>1, <4>2
    <3> QED
      BY <3>1, <3>2
  <2> QED
    BY <1>4, <2>1, <2>2
<1>6. ASSUME NEW t \in Threads, Start(t) \/ Answer(t)
      PROVE  VetInv'
  <2>1. \A u \in Threads : run[u].at \notin Live
    BY <1>0, <1>6, NoThread \notin Threads DEF Start, Answer, CanStart, LiveRun, OneLive
  <2>2. /\ run[t].at = "idle" /\ run'[t].at = "registered" /\ run'[t].reuse = run[t].reuse
        /\ \A u \in Threads \ {t} : run'[u] = run[u]
    BY <1>0, <1>6, StepsGo DEF Goes, Becomes
  <2>3. ~run[t].reuse
    BY <1>3, <2>2 DEF Vetted, Reviewed
  <2>4. Vetted(run'[t], head', judged')
    BY <2>2, <2>3 DEF Vetted, Gated, Reviewed
  <2> QED
    BY <1>2, <1>3, <1>4, <2>1, <2>2, <2>4
<1>7. ASSUME Stop
      PROVE  VetInv'
  <2>1. /\ head' = head /\ judged' = judged
        /\ \A u \in Threads : /\ run'[u].at = run[u].at /\ run'[u].from = run[u].from
                              /\ run'[u].green = run[u].green /\ run'[u].reuse = run[u].reuse
    BY <1>0, <1>7, StopMarks DEF Stop, Becomes, past
  <2>2. \A u \in Threads : Vetted(run'[u], head, judged)
    BY <1>3, <2>1 DEF Vetted
  <2> QED
    BY <1>4, <2>1, <2>2
<1>8. ASSUME Crash
      PROVE  VetInv'
  <2>1. \A u \in Threads : run'[u].at = "idle" /\ ~run'[u].reuse
    BY <1>8 DEF Crash, NoRun
  <2> QED
    BY <1>4, <2>1 DEF Vetted, Gated, Reviewed
<1>9. ASSUME WriteNote \/ Edit \/ Accept \/ MoveBase \/ UNCHANGED vars
      PROVE  VetInv'
  <2>1. UNCHANGED <<run, head, judged>>
    BY <1>9 DEF WriteNote, Edit, Accept, MoveBase, vars, registry, past
  <2> QED
    BY <1>3, <1>4, <2>1
<1>10. ~SweepReads /\ ~SweepEnds
  BY <1>0 DEF HeadIsVetted, SweepReads, SweepEnds
<1> QED
  BY <1>5, <1>6, <1>7, <1>8, <1>9, <1>10 DEF Next

\* Where no sweep rebases the branch under a run: what is opened had its tests pass on the very
\* head it has, and its newest commit was approved, even if a run before it was still leaving
THEOREM WhatIsOpenedIsVetted ==
  ASSUME "sweep" \notin Happens
  PROVE  Spec => OpenedIsVetted
<1> DEFINE IsVetted == \A t \in Threads : run[t].at = "pushing" /\ run'[t].result = "opened" =>
             /\ run[t].green = head
             /\ \E b \in 0..MaxMoves : judged[[work |-> head.work, base |-> b]] = "approved"
<1>1. ASSUME Init PROVE VetInv
  <2>1. \A t \in Threads : run[t].at = "idle" /\ ~run[t].reuse
    BY <1>1 DEF Init, NoRun
  <2>2. CoreInv
    BY <1>1, <2>1, InitType
       DEF CoreInv, HasBranch, OneLive, RowFollows, Init, Working, Live, Before, Orphaned
  <2>3. Now = 0 /\ sweep = NoHead
    BY <1>1 DEF Init, Now
  <2> QED
    BY <2>1, <2>2, <2>3 DEF VetInv, HeadIsVetted, LogIsJudged, Vetted, Gated, Reviewed
<1>2. ASSUME VetInv, [Next]_vars PROVE VetInv'
  BY <1>2, VetInvStays
<1>3. VetInv => IsVetted
  BY DEF VetInv, HeadIsVetted, Vetted, WorkApproved, Gated, Reviewed
<1>4. VetInv /\ [Next]_vars => [IsVetted]_vars
  BY <1>3
<1> QED
  BY <1>1, <1>2, <1>4, PTL DEF Spec, OpenedIsVetted

-----------------------------------------------------------------------------
(* What a skipped worker leaves to the tests, as long as the sweep stays away *)

\* The stages where what the worker left is yet to pass
Untested == {"testing", "reading", "reviewer"}

\* no attempt since had a worker
Newest(i) == log[i].reached /\ \A j \in (i + 1)..Now : ~log[j].reached
\* the newest verdict since on what its worker left is a rejection
Rejected(i) ==
  \E j \in i..Now :
    /\ log[j].verdict[log[i].last] = "rejected"
    /\ \A k \in (j + 1)..Now : log[k].verdict[log[i].last] = "none"
\* what its worker left may be taken up by a later attempt
Stands(i) ==
  /\ Newest(i) /\ Started(log[i]) /\ log[i].last # NoHead
  /\ \A j \in (i + 1)..Now : Started(log[j]) => log[j].skipped
  /\ ~Rejected(i)

\* What stands in the log is what the newest worker left, and knew
LogIsLeft == \A i \in 1..Now : Stands(i) => told = log[i].fp.notes /\ left = log[i].last

\* a worker that is sent off leaves nothing of an earlier one standing, and what is under test
\* is what the newest one left, whichever attempt it was of
KnowsLeft(t) ==
  /\ run[t].at \in {"brief", "worker"} => \A i \in 1..Now : ~Stands(i)
  /\ run[t].at \in {"brief", "worker"} \cup Untested => Now > 0 /\ log[Now].fp.notes = run[t].notes
  /\ run[t].at = "worker" => told = run[t].notes
  /\ run[t].at \in Untested =>
       \A i \in 1..Now : Newest(i) => /\ told = log[i].fp.notes /\ left = log[i].last
                                      /\ log[i].last \in {NoHead, head}

\* The inductive invariant of the skipped worker
LeftInv == VetInv /\ LogIsLeft /\ \A t \in Threads : KnowsLeft(t)

\* A step that changes no more of the log than a gate or an end
KeptLog ==
  /\ Now' = Now
  /\ \A i \in 1..Now : /\ log'[i].fp = log[i].fp /\ log'[i].skipped = log[i].skipped
                       /\ log'[i].reached = log[i].reached /\ log'[i].last = log[i].last
                       /\ log'[i].verdict = log[i].verdict

\* What stood, stands after such a step
LEMMA StandsKept ==
  ASSUME Now \in Nat, KeptLog
  PROVE  \A i \in 1..Now : (Newest(i)' <=> Newest(i)) /\ (Stands(i)' <=> Stands(i))
<1> SUFFICES ASSUME NEW i \in 1..Now
             PROVE  (Newest(i)' <=> Newest(i)) /\ (Stands(i)' <=> Stands(i))
  OBVIOUS
<1>1. /\ \A j \in (i + 1)..Now : j \in 1..Now
      /\ \A j \in i..Now : j \in 1..Now /\ \A k \in (j + 1)..Now : k \in 1..Now
  OBVIOUS
<1>2. Newest(i)' <=> Newest(i)
  BY <1>1 DEF Newest, KeptLog
<1>3. Rejected(i)' <=> Rejected(i)
  BY <1>1 DEF Rejected, KeptLog
<1>4. (\A j \in (i + 1)..Now' : Started(log'[j]) => log'[j].skipped)
        <=> (\A j \in (i + 1)..Now : Started(log[j]) => log[j].skipped)
  BY <1>1 DEF Started, KeptLog
<1>5. /\ Started(log'[i]) <=> Started(log[i])
      /\ log'[i].last # NoHead <=> log[i].last # NoHead
  BY DEF Started, KeptLog
<1> QED
  BY <1>2, <1>3, <1>4, <1>5 DEF Stands

\* What an attempt that skips its worker takes up is what the newest worker left and was told
LEMMA ResumesWhatWasLeft ==
  ASSUME TypeOK, LogIsJudged, LogIsLeft, NEW t \in Threads, run[t].at = "prepared",
         NEW fp, fp.head \in Heads, MayResume(fp)
  PROVE  /\ told = fp.notes /\ left = fp.head
         /\ \A i \in 1..Now : Newest(i) =>
              /\ i # Now /\ told = log[i].fp.notes /\ left = log[i].last /\ log[i].last = fp.head
<1> DEFINE i == Latest(Workers)
           h == fp.head
<1>1. /\ Now \in Nat /\ Now > 0 /\ log[Now] = NewAttempt
  BY LenProperties DEF TypeOK, Now, LogIsJudged
<1>2. /\ Workers # {} /\ LeftAt(log[i], fp) /\ Started(log[i]) /\ SameNotes(log[i], fp)
      /\ LaterSkipped(i) /\ Verdict(i, h) # "rejected"
  BY DEF MayResume
<1>3. i \in Workers /\ \A j \in Workers : j <= i
  <2>1. Workers \in SUBSET (1..Now)
    BY <1>1 DEF Workers, Previous
  <2> QED
    BY <1>1, <1>2, <2>1, LatestIs
<1>4. i \in 1..(Now - 1) /\ log[i].reached
  BY <1>3 DEF Workers, Previous
<1> HIDE DEF i
<1>5. \A k \in 1..Now : Newest(k) => k = i
  <2> SUFFICES ASSUME NEW k \in 1..Now, Newest(k)
               PROVE  k = i
    OBVIOUS
  <2>1. k # Now
    BY <1>1 DEF Newest, NewAttempt
  <2>2. k \in Workers /\ k <= i
    BY <1>1, <1>3, <2>1 DEF Newest, Workers, Previous
  <2>3. ~(k < i)
    BY <1>1, <1>4 DEF Newest
  <2> QED
    BY <1>4, <2>2, <2>3
<1>6. Stands(i)
  <2>1. Newest(i)
    <3> SUFFICES ASSUME NEW j \in (i + 1)..Now, log[j].reached
                 PROVE  FALSE
      BY <1>4 DEF Newest
    <3>1. j # Now
      BY <1>1 DEF NewAttempt
    <3>2. j \in Workers
      BY <1>1, <1>4, <3>1 DEF Workers, Previous
    <3> QED
      BY <1>1, <1>3, <1>4, <3>2
  <2>2. \A j \in (i + 1)..Now : Started(log[j]) => log[j].skipped
    <3> SUFFICES ASSUME NEW j \in (i + 1)..Now, Started(log[j])
                 PROVE  log[j].skipped
      OBVIOUS
    <3>1. j # Now
      BY <1>1 DEF NewAttempt, Started
    <3>2. j \in Later(i)
      BY <1>1, <1>4, <3>1 DEF Later, Previous
    <3> QED
      BY <1>2, <3>2 DEF LaterSkipped
  <2>3. log[i].last = h /\ log[i].last # NoHead
    BY <1>2 DEF LeftAt
  <2>4. ~Rejected(i)
    <3> SUFFICES ASSUME NEW j \in i..Now, log[j].verdict[h] = "rejected",
                        \A k \in (j + 1)..Now : log[k].verdict[h] = "none"
                 PROVE  FALSE
      BY <2>3 DEF Rejected
    <3> DEFINE with == {k \in Previous : k >= i /\ log[k].verdict[h] # "none"}
    <3>1. j # Now
      BY <1>1 DEF NewAttempt, Unjudged
    <3>2. j \in with /\ with \in SUBSET (1..Now)
      BY <1>1, <1>4, <3>1 DEF Previous
    <3>3. Verdict(i, h) = log[Latest(with)].verdict[h]
      BY <3>2 DEF Verdict
    <3> DEFINE l == Latest(with)
    <3>4. l \in with /\ j <= l
      <4> HIDE DEF with
      <4> QED
        BY <1>1, <3>2, LatestIs
    <3>5. l \in 1..Now /\ log[l].verdict[h] # "none"
      BY <3>2, <3>4
    <3>6. l = j
      <4> HIDE DEF l, with
      <4> QED
        BY <1>1, <1>4, <3>4, <3>5
    <3> QED
      BY <1>2, <3>3, <3>6
  <2> QED
    BY <1>2, <2>1, <2>2, <2>3, <2>4 DEF Stands
<1>7. told = log[i].fp.notes /\ left = log[i].last
  BY <1>1, <1>4, <1>6 DEF LogIsLeft
<1>8. log[i].last = h /\ log[i].fp.notes = fp.notes
  BY <1>2 DEF LeftAt, SameNotes
<1> QED
  BY <1>1, <1>4, <1>5, <1>7, <1>8

\* An edit of no more than a gate or an end keeps the rest of the log
LEMMA EditsKeepLog ==
  ASSUME log \in Seq(Record),
         \/ log' = log
         \/ \E g : log' = [log EXCEPT ![Now]["gate"] = g]
         \/ \E o : log' = [log EXCEPT ![Now]["ended"] = o]
  PROVE  KeptLog
<1>1. \A o : Edited(log[Now].fp, log[Now].skipped, log[Now].reached, log[Now].last,
                    log[Now].verdict, o) => KeptLog
  BY LenProperties DEF Edited, KeptLog, Now
<1> QED
  BY <1>1, LogBecomes DEF Unedited

\* A step of a run keeps what the newest worker left and was told in step with the log
LEMMA RunKnowsLeft ==
  ASSUME LeftInv, NEW t \in Threads, Step(t) \/ Break(t)
  PROVE  LogIsLeft' /\ KnowsLeft(t)'
<1>0. /\ TypeOK /\ run \in [Threads -> RunState] /\ log \in Seq(Record) /\ Now \in Nat
      /\ LogIsJudged /\ LogIsLeft /\ head \in Heads /\ base \in 0..MaxMoves /\ HeadIsVetted
      /\ run[t].notes \in 0..MaxActs
  BY LenProperties DEF LeftInv, VetInv, CoreInv, TypeOK, Now, RunState
<1>1. /\ run[t].at \in {"brief", "worker"} => \A i \in 1..Now : ~Stands(i)
      /\ run[t].at \in {"brief", "worker"} \cup Untested =>
           Now > 0 /\ log[Now].fp.notes = run[t].notes
      /\ run[t].at = "worker" => told = run[t].notes
      /\ run[t].at \in Untested =>
           \A i \in 1..Now : Newest(i) => /\ told = log[i].fp.notes /\ left = log[i].last
                                          /\ log[i].last \in {NoHead, head}
  BY DEF LeftInv, KnowsLeft
<1>kept. ASSUME KeptLog, told' = told, left' = left,
             run'[t].at \in {"brief", "worker"}
               => run'[t].at = run[t].at /\ run'[t].notes = run[t].notes,
             run'[t].at \in Untested =>
               run[t].at \in Untested /\ head' = head /\ run'[t].notes = run[t].notes
      PROVE  LogIsLeft' /\ KnowsLeft(t)'
  <2>1. \A i \in 1..Now : (Newest(i)' <=> Newest(i)) /\ (Stands(i)' <=> Stands(i))
    BY <1>0, <1>kept, StandsKept
  <2>2. LogIsLeft'
    BY <1>0, <1>kept, <2>1 DEF LogIsLeft, KeptLog
  <2>3. Now > 0 => Now \in 1..Now
    BY <1>0
  <2>4. run'[t].at \in {"brief", "worker"} => \A i \in 1..Now' : ~Stands(i)'
    BY <1>1, <1>kept, <2>1 DEF KeptLog
  <2>5. run'[t].at \in {"brief", "worker"} \cup Untested =>
          Now' > 0 /\ log'[Now'].fp.notes = run'[t].notes
    BY <1>1, <1>kept, <2>3 DEF KeptLog
  <2>6. run'[t].at = "worker" => told' = run'[t].notes
    BY <1>1, <1>kept
  <2>7. run'[t].at \in Untested =>
          \A i \in 1..Now' : Newest(i)' => /\ told' = log'[i].fp.notes /\ left' = log'[i].last
                                           /\ log'[i].last \in {NoHead, head'}
    BY <1>1, <1>kept, <2>1 DEF KeptLog
  <2> QED
    BY <2>2, <2>4, <2>5, <2>6, <2>7 DEF KnowsLeft
<1>away. ASSUME LogIsLeft', run'[t].at \notin {"brief", "worker"} \cup Untested
        PROVE  LogIsLeft' /\ KnowsLeft(t)'
  BY <1>away DEF KnowsLeft, Untested
<1>2. CASE \/ RebaseFails(t) \/ Known(t) \/ WorkerStopped(t) \/ GateRefuses(t) \/ TestGate(t)
           \/ Review(t) \/ ReviewerFails(t) \/ LastCheck(t) \/ Sync(t) \/ Checking(t) \/ Open(t)
           \/ Finish(t) \/ Cleanup(t) \/ Break(t)
  <2>1. told' = told /\ left' = left
    BY <1>2 DEF RebaseFails, Known, WorkerStopped, GateRefuses, TestGate, Review, ReviewerFails,
                LastCheck, Sync, Checking, Open, Finish, Cleanup, Break, past
  <2>2. KeptLog
    <3>1. TestGate(t) \/ Sync(t) => log' = log \/ \E g : log' = [log EXCEPT ![Now]["gate"] = g]
      BY DEF TestGate, Sync, Note
    <3>2. Finish(t) => log' = log \/ \E o : log' = [log EXCEPT ![Now]["ended"] = o]
      BY DEF Finish, Note
    <3>3. ~TestGate(t) /\ ~Sync(t) /\ ~Finish(t) => log' = log
      BY <1>2 DEF RebaseFails, Known, WorkerStopped, GateRefuses, Review, ReviewerFails,
                  LastCheck, Checking, Open, Cleanup, Break
    <3> QED
      BY <1>0, <3>1, <3>2, <3>3, EditsKeepLog
  <2>3. /\ run'[t].at \in {"brief", "worker"} =>
             run'[t].at = run[t].at /\ run'[t].notes = run[t].notes
        /\ run'[t].at \in Untested => run[t].at \in Untested /\ run'[t].notes = run[t].notes
    <3> DEFINE Ok == /\ run'[t].at \in {"brief", "worker"} =>
                          run'[t].at = run[t].at /\ run'[t].notes = run[t].notes
                     /\ run'[t].at \in Untested =>
                          run[t].at \in Untested /\ run'[t].notes = run[t].notes
    <3>1. \A R : Ended(t, R) => Ok
      BY DEF Ended, Becomes, Untested
    <3>2. Known(t) => Ok
      <4>1. Known(t) => Goes(t, run[t].at, "running")
        BY <1>0, StepsGo
      <4> QED
        BY <4>1 DEF Goes, Becomes
    <3>3. TestGate(t) => Ok
      <4>1. TestGate(t) => /\ run[t].at = "testing"
                           /\ \/ Ended(t, Short)
                              \/ \E s \in {"reading", "reviewed"} :
                                   Becomes(t, s, run[t].agent, run[t].notes, run[t].from,
                                           run[t].reuse, head, run[t].asked, run[t].result)
        BY <1>0, StepsGo
      <4> QED
        BY <3>1, <4>1 DEF Becomes, Untested
    <3>4. Review(t) => Ok
      <4>1. Review(t) => /\ run[t].at = "reading"
                         /\ \/ Ended(t, Short)
                            \/ Becomes(t, "reviewer", "unknown", run[t].notes, head,
                                       run[t].reuse, run[t].green, run[t].asked, run[t].result)
        BY <1>0, StepsGo
      <4> QED
        BY <3>1, <4>1 DEF Becomes, Untested
    <3>5. LastCheck(t) \/ Sync(t) \/ Checking(t) \/ Finish(t) \/ Cleanup(t) => Ok
      <4>1. LastCheck(t) \/ Sync(t) \/ Checking(t) \/ Finish(t) \/ Cleanup(t) =>
              \/ Ended(t, Short)
              \/ run'[t].at \in {"opening", "synced", "pushing", "finished", "idle"}
        BY <1>0, StepsGo DEF Goes, Becomes
      <4> QED
        BY <3>1, <4>1 DEF Untested
    <3>6. RebaseFails(t) \/ WorkerStopped(t) \/ GateRefuses(t) \/ ReviewerFails(t) \/ Open(t)
            \/ Break(t) => Ok
      BY <1>0, <3>1, StepsGo
    <3>7. Ok
      BY <1>2, <3>2, <3>3, <3>4, <3>5, <3>6
    <3> QED
      BY <3>7
  <2>4. run'[t].at \in Untested => head' = head
    <3>1. WorkerStopped(t) \/ Sync(t) => run'[t].at \notin Untested
      BY <1>0, StepsGo DEF Goes, Ended, Becomes, Untested
    <3>2. ~WorkerStopped(t) /\ ~Sync(t) => head' = head
      BY <1>2 DEF RebaseFails, Known, GateRefuses, TestGate, Review, ReviewerFails, LastCheck,
                  Checking, Open, Finish, Cleanup, Break
    <3> QED
      BY <3>1, <3>2
  <2> QED
    BY <1>kept, <2>1, <2>2, <2>3, <2>4
<1>3. CASE Prepare(t)
  <2>1. told' = told /\ left' = left /\ run'[t].at \notin {"brief", "worker"} \cup Untested
    <3>1. run'[t].at \in {"ended", "prepared"}
      BY <1>0, <1>3, StepsGo DEF Ended, Becomes
    <3> QED
      BY <1>3, <3>1 DEF Prepare, past, Untested
  <2>2. CASE log' = log
    <3>1. KeptLog
      BY <2>2 DEF KeptLog, Now
    <3> QED
      BY <1>kept, <2>1, <3>1
  <2>3. CASE log' = Append(log, NewAttempt)
    <3>1. /\ Now' = Now + 1 /\ log'[Now + 1] = NewAttempt
          /\ \A i \in 1..Now : log'[i] = log[i]
      BY <1>0, <2>3, NewTypes DEF Now
    <3>2. ASSUME NEW i \in 1..Now', Stands(i)'
          PROVE  i \in 1..Now /\ Stands(i)
      <4>1. i # Now + 1
        BY <3>1, <3>2 DEF Stands, Newest, NewAttempt
      <4>2. i \in 1..Now /\ \A j \in i..Now : /\ j \in 1..Now /\ j \in i..Now'
                                              /\ \A k \in (j + 1)..Now : k \in 1..Now
        BY <1>0, <3>1, <4>1
      <4>3. \A j \in (i + 1)..Now : j \in i..Now /\ j \in (i + 1)..Now'
        BY <1>0, <3>1, <4>2
      <4>4. Newest(i) /\ Started(log[i]) /\ log[i].last # NoHead
        BY <3>1, <3>2, <4>2, <4>3 DEF Stands, Newest
      <4>5. \A j \in (i + 1)..Now : Started(log[j]) => log[j].skipped
        BY <3>1, <3>2, <4>2, <4>3 DEF Stands
      <4>6. Rejected(i) => Rejected(i)'
        <5> SUFFICES ASSUME NEW j \in i..Now, log[j].verdict[log[i].last] = "rejected",
                            \A k \in (j + 1)..Now : log[k].verdict[log[i].last] = "none"
                     PROVE  Rejected(i)'
          BY DEF Rejected
        <5>1. log[i].last \in Heads
          <6>1. log[i] \in Record
            BY <1>0, <4>2, ElementOfSeq DEF Now
          <6> QED
            BY <6>1 DEF Record
        <5>2. \A k \in (j + 1)..Now' : log'[k].verdict[log'[i].last] = "none"
          <6> SUFFICES ASSUME NEW k \in (j + 1)..Now'
                       PROVE  log'[k].verdict[log'[i].last] = "none"
            OBVIOUS
          <6>1. CASE k = Now + 1
            BY <3>1, <4>2, <5>1, <6>1 DEF NewAttempt, Unjudged
          <6>2. CASE k # Now + 1
            <7>1. k \in (j + 1)..Now /\ k \in 1..Now
              BY <1>0, <3>1, <4>2, <6>2
            <7> QED
              BY <3>1, <4>2, <7>1
          <6> QED
            BY <6>1, <6>2
        <5> QED
          BY <3>1, <4>2, <5>2 DEF Rejected
      <4> QED
        BY <3>2, <4>2, <4>4, <4>5, <4>6 DEF Stands
    <3>3. LogIsLeft'
      BY <1>0, <2>1, <3>1, <3>2 DEF LogIsLeft
    <3> QED
      BY <1>away, <2>1, <3>3
  <2> QED
    BY <1>3, <2>2, <2>3 DEF Prepare
<1>4. CASE Work(t)
  <2>1. /\ log' = log /\ told' = run[t].notes /\ run[t].at = "brief"
        /\ run'[t].at = "worker" /\ run'[t].notes = run[t].notes
    BY <1>0, <1>4, StepsGo DEF Work, Becomes
  <2>2. \A i \in 1..Now : ~Stands(i)'
    <3>1. KeptLog
      BY <2>1 DEF KeptLog, Now
    <3> QED
      BY <1>0, <1>1, <2>1, <3>1, StandsKept
  <2>3. Now' = Now
    BY <2>1 DEF Now
  <2> QED
    BY <1>1, <2>1, <2>2, <2>3 DEF LogIsLeft, KnowsLeft, Untested
<1>5. CASE SetOut(t)
  <2>1. run[t].at = "prepared" /\ told' = told /\ left' = left
    BY <1>5 DEF SetOut, past
  <2>2. PICK h \in Rebased :
          LET fp == [head |-> h, base |-> base, notes |-> run[t].notes, env |-> run[t].env]
              reused == head # NoHead
              skip == reused /\ Contains(h) /\ MayResume(fp) IN
          /\ head' = h
          /\ IF reused /\ Repeats(fp) THEN Block(t, "TESTS_FAILED") /\ UNCHANGED log
             ELSE /\ log' = [log EXCEPT ![Now].fp = fp, ![Now].skipped = skip]
                  /\ run' = [run EXCEPT ![t].at = IF skip THEN "testing" ELSE "brief",
                                        ![t].reuse = skip /\ Approved(fp)]
                  /\ UNCHANGED row
    BY <1>5 DEF SetOut
  <2> DEFINE fp == [head |-> h, base |-> base, notes |-> run[t].notes, env |-> run[t].env]
             skip == head # NoHead /\ Contains(h) /\ MayResume(fp)
  <2>3. /\ fp.head = h /\ fp.notes = run[t].notes /\ h \in Heads /\ head' = h
        /\ fp # NoFingerprint
    <3>1. fp.notes # NoFingerprint.notes
      BY <1>0 DEF NoFingerprint
    <3> QED
      BY <1>0, <2>2, <3>1, RebasedTypes
  <2>4. \/ Block(t, "TESTS_FAILED") /\ log' = log
        \/ /\ log' = [log EXCEPT ![Now].fp = fp, ![Now].skipped = skip]
           /\ run' = [run EXCEPT ![t].at = IF skip THEN "testing" ELSE "brief",
                                 ![t].reuse = skip /\ Approved(fp)]
    BY <2>2
  <2>5. skip => /\ told = fp.notes /\ left = fp.head
                /\ \A i \in 1..Now : Newest(i) =>
                     /\ i # Now /\ told = log[i].fp.notes /\ left = log[i].last
                     /\ log[i].last = fp.head
    <3> HIDE DEF fp
    <3> QED
      BY <1>0, <2>1, <2>3, ResumesWhatWasLeft
  <2>6. skip \in BOOLEAN
    OBVIOUS
  <2> HIDE DEF fp, skip
  <2>7. CASE Block(t, "TESTS_FAILED") /\ log' = log
    <3>1. run'[t].at = "ended"
      BY <1>0, <2>7, RunsBecome DEF Block, EndsAs, Becomes
    <3>2. KeptLog
      BY <2>7 DEF KeptLog, Now
    <3> QED
      BY <1>kept, <2>1, <3>1, <3>2 DEF Untested
  <2>8. CASE /\ log' = [log EXCEPT ![Now].fp = fp, ![Now].skipped = skip]
             /\ run' = [run EXCEPT ![t].at = IF skip THEN "testing" ELSE "brief",
                                   ![t].reuse = skip /\ Approved(fp)]
    <3>1. /\ Now > 0 /\ Now \in 1..Now /\ log[Now] = NewAttempt
          /\ log[Now].reached = FALSE /\ ~Started(log[Now])
      <4>1. Now > 0 /\ log[Now] = NewAttempt
        BY <1>0, <2>1 DEF LogIsJudged
      <4>2. Now \in 1..Now
        BY <1>0, <4>1
      <4> QED
        BY <4>1, <4>2 DEF NewAttempt, Started
    <3>2. /\ Now' = Now /\ \A i \in 1..Now : i # Now => log'[i] = log[i]
          /\ log'[Now].fp = fp /\ log'[Now].skipped = skip /\ log'[Now].reached = FALSE
          /\ log'[Now].last = log[Now].last /\ log'[Now].verdict = log[Now].verdict
      <4>1. Edited(fp, skip, log[Now].reached, log[Now].last, log[Now].verdict, log[Now].ended)
        BY <1>0, <2>8, LogBecomes
      <4> QED
        BY <3>1, <4>1 DEF Edited
    <3>3. /\ run'[t].at = (IF skip THEN "testing" ELSE "brief") /\ run'[t].notes = run[t].notes
      <4> DEFINE s == IF skip THEN "testing" ELSE "brief"
                 r == skip /\ Approved(fp)
      <4>1. run' = [run EXCEPT ![t].at = s, ![t].reuse = r]
        BY <2>8
      <4> HIDE DEF s, r
      <4>2. Becomes(t, s, run[t].agent, run[t].notes, run[t].from, r, run[t].green,
                    run[t].asked, run[t].result)
        BY <1>0, <4>1, RunsBecome
      <4> QED
        BY <4>2 DEF Becomes, s
    <3>4. \A i \in 1..Now : Newest(i)' <=> Newest(i)
      <4>1. \A i \in 1..Now : log'[i].reached = log[i].reached
        BY <3>1, <3>2
      <4>2. \A i \in 1..Now : \A j \in (i + 1)..Now : j \in 1..Now
        BY <1>0
      <4> QED
        BY <3>2, <4>1, <4>2 DEF Newest
    <3>5. ASSUME NEW i \in 1..Now, Stands(i)'
          PROVE  i # Now /\ Stands(i) /\ skip
      <4>1. i # Now
        BY <3>1, <3>2, <3>5 DEF Stands, Newest
      <4>2. Now \in (i + 1)..Now
        BY <1>0, <4>1
      <4>3. skip
        BY <2>3, <3>2, <3>5, <4>2 DEF Stands, Started
      <4>4. \A j \in i..Now : j \in 1..Now /\ \A k \in (j + 1)..Now : k \in 1..Now
        BY <1>0
      <4>5. \A j \in 1..Now : log'[j].verdict = log[j].verdict /\ log'[j].last = log[j].last
        BY <3>2
      <4>6. Rejected(i) => Rejected(i)'
        BY <3>2, <4>4, <4>5 DEF Rejected
      <4>7. Newest(i) /\ Started(log[i]) /\ log[i].last # NoHead
        BY <3>2, <3>4, <3>5, <4>1 DEF Stands
      <4>8. \A j \in (i + 1)..Now : Started(log[j]) => log[j].skipped
        <5> SUFFICES ASSUME NEW j \in (i + 1)..Now, Started(log[j])
                     PROVE  log[j].skipped
          OBVIOUS
        <5>1. j # Now /\ j \in 1..Now
          BY <1>0, <3>1
        <5> QED
          BY <3>2, <3>5, <5>1 DEF Stands
      <4> QED
        BY <3>5, <4>1, <4>3, <4>6, <4>7, <4>8 DEF Stands
    <3>6. LogIsLeft'
      BY <1>0, <2>1, <3>2, <3>5 DEF LogIsLeft
    <3>7. CASE skip
      <4>1. \A i \in 1..Now : Newest(i)' =>
              /\ told' = log'[i].fp.notes /\ left' = log'[i].last /\ log'[i].last = head'
        BY <2>1, <2>3, <2>5, <3>2, <3>4, <3>7
      <4>2. Now' > 0 /\ log'[Now'].fp.notes = run'[t].notes
        BY <2>3, <3>1, <3>2, <3>3
      <4>3. run'[t].at = "testing"
        BY <3>3, <3>7
      <4> QED
        BY <3>2, <3>6, <4>1, <4>2, <4>3 DEF KnowsLeft
    <3>8. CASE ~skip
      <4>1. \A i \in 1..Now' : ~Stands(i)'
        BY <3>2, <3>5, <3>8
      <4>2. Now' > 0 /\ log'[Now'].fp.notes = run'[t].notes
        BY <2>3, <3>1, <3>2, <3>3
      <4>3. run'[t].at = "brief"
        BY <3>3, <3>8
      <4> QED
        BY <3>6, <4>1, <4>2, <4>3 DEF KnowsLeft, Untested
    <3> QED
      BY <3>7, <3>8
  <2> QED
    BY <2>4, <2>7, <2>8
<1>6. CASE WorkerEnds(t)
  <2>1. run[t].at = "worker" /\ Now > 0 /\ Now \in 1..Now
    BY <1>0, <1>1, <1>6 DEF WorkerEnds
  <2>2. run'[t].at \in {"ended", "testing"} /\ run'[t].notes = run[t].notes
    BY <1>0, <1>6, StepsGo DEF Goes, Ended, Becomes
  <2>3. \/ /\ log' = log /\ told' = told /\ left' = left /\ run'[t].at = "ended"
        \/ \E last \in {head', NoHead} : Summary(t, last)
    <3>1. \/ \E r : Block(t, r) /\ log' = log /\ told' = told /\ left' = left
          \/ Refuse(t) /\ log' = log /\ told' = told /\ left' = left
          \/ \E last \in {head', NoHead} : Summary(t, last)
      BY <1>6 DEF WorkerEnds, past
    <3> QED
      <4>1. ASSUME NEW o, EndsAs(t, o)
            PROVE  run'[t].at = "ended"
        <5>1. Becomes(t, "ended", "none", run[t].notes, run[t].from, run[t].reuse,
                      run[t].green, run[t].asked, o)
          BY <1>0, <4>1, RunsBecome DEF EndsAs
        <5> QED
          BY <5>1 DEF Becomes
      <4> QED
        BY <3>1, <4>1 DEF Block, Refuse
  <2>4. CASE log' = log /\ told' = told /\ left' = left /\ run'[t].at = "ended"
    <3>1. KeptLog
      BY <2>4 DEF KeptLog, Now
    <3> QED
      BY <1>kept, <2>4, <3>1 DEF Untested
  <2>5. ASSUME NEW last \in {head', NoHead}, Summary(t, last)
        PROVE  LogIsLeft' /\ KnowsLeft(t)'
    <3>1. /\ Now' = Now /\ log'[Now].fp = log[Now].fp /\ log'[Now].reached = TRUE
          /\ log'[Now].last = last
      BY <1>0, <2>1, <2>5, LogBecomes DEF Summary, Edited
    <3>2. told' = told /\ left' = last
      BY <2>5 DEF Summary
    <3>3. \A i \in 1..Now : Newest(i)' => i = Now
      <4> SUFFICES ASSUME NEW i \in 1..Now, Newest(i)', i # Now
                   PROVE  FALSE
        OBVIOUS
      <4>1. Now \in (i + 1)..Now
        BY <1>0
      <4> QED
        BY <3>1, <4>1 DEF Newest
    <3>4. told' = log'[Now].fp.notes
      BY <1>1, <2>1, <3>1, <3>2
    <3>5. LogIsLeft'
      BY <3>1, <3>2, <3>3, <3>4 DEF LogIsLeft, Stands
    <3>6. \A i \in 1..Now' : Newest(i)' =>
            /\ told' = log'[i].fp.notes /\ left' = log'[i].last
            /\ log'[i].last \in {NoHead, head'}
      BY <2>5, <3>1, <3>2, <3>3, <3>4
    <3>7. Now' > 0 /\ log'[Now'].fp.notes = run'[t].notes
      BY <1>1, <2>1, <2>2, <3>1
    <3> QED
      BY <2>2, <3>5, <3>6, <3>7 DEF KnowsLeft
  <2> QED
    BY <2>3, <2>4, <2>5
<1>7. CASE ReviewerStopped(t) \/ Approves(t) \/ Rejects(t)
  <2>1. run[t].at = "reviewer" /\ run[t].from = head
    BY <1>0, <1>7 DEF ReviewerStopped, Approves, Rejects, HeadIsVetted, Vetted
  <2>2. /\ Now > 0 /\ Now \in 1..Now /\ log[Now].fp.notes = run[t].notes
        /\ \A i \in 1..Now : Newest(i) => /\ told = log[i].fp.notes /\ left = log[i].last
                                          /\ log[i].last \in {NoHead, head}
    BY <1>0, <1>1, <2>1 DEF Untested
  <2>3. /\ run'[t].at \notin Untested \cup {"worker"} /\ run'[t].notes = run[t].notes
        /\ run'[t].at = "brief" => Rejects(t)
    <3>1. /\ ReviewerStopped(t) => Ended(t, Short)
          /\ Approves(t) => Goes(t, "reviewed", "none")
          /\ Rejects(t) => Ended(t, Short) \/ Goes(t, "brief", "none")
      BY <1>0, StepsGo
    <3> QED
      BY <1>7, <3>1 DEF Goes, Ended, Becomes, Untested
  <2> DEFINE HasGiven(v) == /\ Now' = Now /\ \A i \in 1..Now : i # Now => log'[i] = log[i]
                            /\ log'[Now].fp = log[Now].fp /\ log'[Now].reached = log[Now].reached
                            /\ log'[Now].skipped = log[Now].skipped
                            /\ log'[Now].verdict = [log[Now].verdict EXCEPT ![head] = v]
                            /\ told' = told
                            /\ log'[Now].last \in {log[Now].last, NoHead}
  <2>4. \/ log' = log /\ told' = told /\ left' = left /\ run'[t].at = "ended"
        \/ HasGiven("approved") /\ log'[Now].last = log[Now].last /\ left' = left /\ ~Rejects(t)
        \/ HasGiven("rejected")
    <3>1. \A v : Note("verdict", [log[Now].verdict EXCEPT ![head] = v]) =>
            Edited(log[Now].fp, log[Now].skipped, log[Now].reached, log[Now].last,
                   [log[Now].verdict EXCEPT ![head] = v], log[Now].ended)
      BY <1>0, LogBecomes DEF Note
    <3>2. \A v : Judge(head, v) => HasGiven(v) /\ log'[Now].last = log[Now].last
      BY <2>2, <3>1 DEF Judge, Edited
    <3>3. Judge(head, "approved") => left' = left
      BY DEF Judge
    <3>4. CASE ReviewerStopped(t)
      <4>1. run'[t].at = "ended" /\ ~Rejects(t)
        BY <1>0, <3>4, StepsGo DEF Ended, Becomes, ReviewerStopped, Rejects
      <4>2. \/ Judge(head, "approved") \/ Judge(head, "rejected")
            \/ log' = log /\ told' = told /\ left' = left
        BY <2>1, <3>4 DEF ReviewerStopped, past
      <4> QED
        BY <3>2, <3>3, <4>1, <4>2
    <3>5. CASE Approves(t)
      <4>1. run'[t].at = "reviewed" /\ ~Rejects(t)
        <5>1. run'[t].at = "reviewed"
          BY <1>0, <3>5, StepsGo DEF Goes, Becomes
        <5>2. Rejects(t) => run'[t].at # "reviewed"
          BY <1>0, StepsGo DEF Goes, Ended, Becomes
        <5> QED
          BY <5>1, <5>2
      <4>2. Judge(head, "approved")
        BY <2>1, <3>5 DEF Approves
      <4> QED
        BY <3>2, <3>3, <4>1, <4>2
    <3>6. CASE Rejects(t)
      <4>1. CASE Judge(head, "rejected")
        BY <3>2, <4>1
      <4>2. CASE /\ log' = [log EXCEPT ![Now].last = NoHead, ![Now].verdict[head] = "rejected"]
                 /\ told' = told
        <5>1. Edited(log[Now].fp, log[Now].skipped, log[Now].reached, NoHead,
                     [log[Now].verdict EXCEPT ![head] = "rejected"], log[Now].ended)
          BY <1>0, <4>2, LogBecomes
        <5> QED
          BY <2>2, <4>2, <5>1 DEF Edited
      <4> QED
        BY <2>1, <3>6, <4>1, <4>2 DEF Rejects
    <3> QED
      BY <1>7, <3>4, <3>5, <3>6
  <2>5. CASE log' = log /\ told' = told /\ left' = left /\ run'[t].at = "ended"
    <3>1. KeptLog
      BY <2>5 DEF KeptLog, Now
    <3> QED
      BY <1>kept, <2>5, <3>1 DEF Untested
  <2>6. \A v : HasGiven(v) => \A i \in 1..Now : Newest(i)' => Newest(i)
    <3> SUFFICES ASSUME NEW v, HasGiven(v), NEW i \in 1..Now, Newest(i)'
                 PROVE  Newest(i)
      OBVIOUS
    <3>1. \A j \in 1..Now : log'[j].reached = log[j].reached
      OBVIOUS
    <3>2. \A j \in (i + 1)..Now : j \in 1..Now
      BY <1>0
    <3> QED
      BY <3>1, <3>2 DEF Newest
  <2>7. CASE HasGiven("approved") /\ log'[Now].last = log[Now].last /\ left' = left /\ ~Rejects(t)
    <3>1. \A i \in 1..Now : log'[i].fp = log[i].fp /\ log'[i].last = log[i].last
      BY <2>7
    <3>2. LogIsLeft'
      BY <2>2, <2>6, <2>7, <3>1 DEF LogIsLeft, Stands
    <3> QED
      BY <1>away, <2>3, <2>7, <3>2
  <2>8. CASE HasGiven("rejected")
    <3>1. log'[Now].verdict[head] = "rejected"
      <4>1. log[Now] \in Record
        BY <1>0, <2>2, ElementOfSeq DEF Now
      <4> QED
        BY <1>0, <2>8, <4>1 DEF Record
    <3>2. ASSUME NEW i \in 1..Now, Stands(i)'
          PROVE  FALSE
      <4>1. log'[i].last = head
        <5>1. log'[i].last # NoHead /\ log'[i].last \in {log[i].last, NoHead} /\ Newest(i)
          BY <2>6, <2>8, <3>2 DEF Stands
        <5> QED
          BY <2>2, <5>1
      <4>2. Now \in i..Now /\ \A k \in (Now + 1)..Now : FALSE
        BY <1>0
      <4>3. Rejected(i)'
        BY <2>8, <3>1, <4>1, <4>2 DEF Rejected
      <4> QED
        BY <3>2, <4>3 DEF Stands
    <3>3. LogIsLeft'
      BY <2>8, <3>2 DEF LogIsLeft
    <3>4. Now' > 0 /\ log'[Now'].fp.notes = run'[t].notes
      BY <2>2, <2>3, <2>8
    <3> QED
      BY <2>3, <2>8, <3>2, <3>3, <3>4 DEF KnowsLeft, Untested
  <2> QED
    BY <2>4, <2>5, <2>7, <2>8
<1> QED
  BY <1>2, <1>3, <1>4, <1>5, <1>6, <1>7 DEF Step

\* What the newest worker left and was told stays known, as long as the sweep stays away
LEMMA LeftInvStays ==
  ASSUME "sweep" \notin Happens, LeftInv, [Next]_vars
  PROVE  LeftInv'
<1>0. /\ TypeOK /\ OneLive /\ VetInv' /\ VetInv /\ HeadIsVetted /\ LogIsLeft /\ Now \in Nat
      /\ run \in [Threads -> RunState]
      /\ \A t \in Threads : KnowsLeft(t)
  BY VetInvStays, LenProperties DEF LeftInv, VetInv, CoreInv, TypeOK, Now
<1>1. ASSUME NEW t \in Threads, run'[t].at \notin {"brief", "worker"} \cup Untested
      PROVE  KnowsLeft(t)'
  BY <1>1 DEF KnowsLeft, Untested
<1>2. \A t \in Threads : run[t].at \notin Live => run[t].at \notin {"brief", "worker"} \cup Untested
  BY DEF Live, Before, Untested
<1>3. ASSUME UNCHANGED <<log, told, left>>
      PROVE  /\ LogIsLeft'
             /\ \A t \in Threads :
                  run'[t].at = run[t].at /\ run'[t].notes = run[t].notes /\ head' = head
                    => KnowsLeft(t)'
  <2>1. Now' = Now /\ KeptLog
    BY <1>3 DEF Now, KeptLog
  <2>2. \A i \in 1..Now : (Newest(i)' <=> Newest(i)) /\ (Stands(i)' <=> Stands(i))
    BY <1>0, <2>1, StandsKept
  <2>3. LogIsLeft'
    BY <1>0, <1>3, <2>1, <2>2 DEF LogIsLeft
  <2>4. \A t \in Threads :
          run'[t].at = run[t].at /\ run'[t].notes = run[t].notes /\ head' = head
            => KnowsLeft(t)'
    <3> SUFFICES ASSUME NEW t \in Threads, run'[t].at = run[t].at,
                        run'[t].notes = run[t].notes, head' = head
                 PROVE  KnowsLeft(t)'
      OBVIOUS
    <3> QED
      BY <1>0, <1>3, <2>1, <2>2 DEF KnowsLeft
  <2> QED
    BY <2>3, <2>4
<1>4. LogIsLeft' /\ (\A t \in Threads : KnowsLeft(t)') => LeftInv'
  BY <1>0 DEF LeftInv
<1>5. ASSUME NEW t \in Threads, Step(t) \/ Break(t)
      PROVE  LeftInv'
  <2>1. LogIsLeft' /\ KnowsLeft(t)'
    BY <1>5, RunKnowsLeft
  <2>2. ASSUME NEW u \in Threads \ {t}
        PROVE  KnowsLeft(u)'
    <3>1. CASE Cleanup(t)
      <4>1. run'[u] = run[u] /\ UNCHANGED <<log, told, left>> /\ head' = head
        BY <1>0, <2>2, <3>1, StepsGo DEF Becomes, Cleanup, past
      <4> QED
        BY <1>3, <4>1
    <3>2. CASE ~Cleanup(t)
      <4>1. run'[u] = run[u] /\ run[t].at \in Live
        BY <1>0, <1>5, <2>2, <3>2, RunGoes
      <4>2. run[u].at \notin Live
        BY <1>0, <2>2, <4>1 DEF OneLive
      <4> QED
        BY <1>1, <1>2, <4>1, <4>2
    <3> QED
      BY <3>1, <3>2
  <2> QED
    BY <1>4, <2>1, <2>2
<1>6. ASSUME NEW t \in Threads, Start(t) \/ Answer(t)
      PROVE  LeftInv'
  <2>1. \A u \in Threads : run[u].at \notin Live
    BY <1>0, <1>6, NoThread \notin Threads DEF Start, Answer, CanStart, LiveRun, OneLive
  <2>2. /\ run'[t].at = "registered" /\ \A u \in Threads \ {t} : run'[u] = run[u]
    BY <1>0, <1>6, StepsGo DEF Goes, Becomes
  <2>3. UNCHANGED <<log, told, left>>
    BY <1>6 DEF Start, Answer, past
  <2>4. \A u \in Threads : run'[u].at \notin {"brief", "worker"} \cup Untested
    BY <1>2, <2>1, <2>2 DEF Untested
  <2> QED
    BY <1>1, <1>3, <1>4, <2>3, <2>4
<1>7. ASSUME Stop
      PROVE  LeftInv'
  <2>1. UNCHANGED <<log, told, left, head>>
    BY <1>7 DEF Stop, past
  <2>2. \A u \in Threads : run'[u].at = run[u].at /\ run'[u].notes = run[u].notes
    BY <1>0, <1>7, StopMarks DEF Becomes
  <2> QED
    BY <1>3, <1>4, <2>1, <2>2
<1>8. ASSUME Crash
      PROVE  LeftInv'
  <2>1. \A u \in Threads : run'[u].at = "idle"
    BY <1>8 DEF Crash, NoRun
  <2>2. UNCHANGED <<log, told, left>>
    BY <1>8 DEF Crash, past
  <2>3. \A u \in Threads : run'[u].at \notin {"brief", "worker"} \cup Untested
    BY <2>1 DEF Untested
  <2> QED
    BY <1>1, <1>3, <1>4, <2>2, <2>3
<1>9. ASSUME WriteNote \/ Edit \/ Accept \/ MoveBase \/ UNCHANGED vars
      PROVE  LeftInv'
  <2>1. UNCHANGED <<log, told, left>> /\ head' = head /\ run' = run
    BY <1>9 DEF WriteNote, Edit, Accept, MoveBase, vars, registry, past
  <2> QED
    BY <1>3, <1>4, <2>1
<1>10. ~SweepReads /\ ~SweepEnds
  BY <1>0 DEF HeadIsVetted, SweepReads, SweepEnds
<1> QED
  BY <1>5, <1>6, <1>7, <1>8, <1>9, <1>10 DEF Next

\* A run that skips its worker takes up what the newest worker left and was told
LEMMA SkipsTakeUpWhatWasLeft ==
  ASSUME LeftInv, NEW t \in Threads, SetOut(t), run'[t].at = "testing"
  PROVE  told = run[t].notes /\ left = head'
<1>0. /\ TypeOK /\ run \in [Threads -> RunState] /\ head \in Heads /\ base \in 0..MaxMoves
      /\ LogIsJudged /\ LogIsLeft
  BY DEF LeftInv, VetInv, CoreInv, TypeOK
<1>1. run[t].at = "prepared"
  BY DEF SetOut
<1>2. PICK h \in Rebased :
        LET fp == [head |-> h, base |-> base, notes |-> run[t].notes, env |-> run[t].env]
            reused == head # NoHead
            skip == reused /\ Contains(h) /\ MayResume(fp) IN
        /\ head' = h
        /\ IF reused /\ Repeats(fp) THEN Block(t, "TESTS_FAILED") /\ UNCHANGED log
           ELSE /\ log' = [log EXCEPT ![Now].fp = fp, ![Now].skipped = skip]
                /\ run' = [run EXCEPT ![t].at = IF skip THEN "testing" ELSE "brief",
                                      ![t].reuse = skip /\ Approved(fp)]
                /\ UNCHANGED row
  BY DEF SetOut
<1> DEFINE fp == [head |-> h, base |-> base, notes |-> run[t].notes, env |-> run[t].env]
           skip == head # NoHead /\ Contains(h) /\ MayResume(fp)
           r == skip /\ Approved(fp)
           s == IF skip THEN "testing" ELSE "brief"
<1>3. fp.head = h /\ fp.notes = run[t].notes /\ h \in Heads /\ head' = h
  BY <1>0, <1>2, RebasedTypes
<1>4. Block(t, "TESTS_FAILED") \/ run' = [run EXCEPT ![t].at = s, ![t].reuse = r]
  BY <1>2
<1>5. ASSUME Block(t, "TESTS_FAILED")
      PROVE  run'[t].at = "ended"
  BY <1>0, <1>5, RunsBecome DEF Block, EndsAs, Becomes
<1>6. ASSUME run' = [run EXCEPT ![t].at = s, ![t].reuse = r]
      PROVE  run'[t].at = s
  <2> HIDE DEF s, r
  <2>1. Becomes(t, s, run[t].agent, run[t].notes, run[t].from, r, run[t].green,
                run[t].asked, run[t].result)
    BY <1>0, <1>6, RunsBecome
  <2> QED
    BY <2>1 DEF Becomes
<1>7. skip
  BY <1>4, <1>5, <1>6
<1>8. MayResume(fp)
  BY <1>7
<1> HIDE DEF fp
<1> QED
  BY <1>0, <1>1, <1>3, <1>8, ResumesWhatWasLeft

\* Only setting out takes a run from "prepared" to "testing"
LEMMA OnlySetOutSkips ==
  ASSUME TypeOK, [Next]_vars, NEW t \in Threads,
         run[t].at = "prepared", run'[t].at = "testing"
  PROVE  SetOut(t)
<1>0. run \in [Threads -> RunState]
  BY DEF TypeOK
<1>1. ASSUME NEW u \in Threads, Step(u) \/ Break(u) \/ Start(u) \/ Answer(u)
      PROVE  u = t /\ (Step(t) \/ Break(t))
  <2>1. ASSUME Start(u) \/ Answer(u)
        PROVE  FALSE
    BY <1>0, <2>1, StepsGo DEF Goes, Becomes
  <2>2. \A v \in Threads \ {u} : run'[v] = run[v]
    <3>1. CASE Cleanup(u)
      BY <1>0, <3>1, StepsGo DEF Becomes
    <3>2. CASE ~Cleanup(u)
      BY <1>1, <2>1, <3>2, RunGoes
    <3> QED
      BY <3>1, <3>2
  <2> QED
    BY <1>1, <2>1, <2>2
<1>2. ASSUME Stop \/ Crash \/ WriteNote \/ Edit \/ Accept \/ MoveBase \/ SweepReads \/ SweepEnds
               \/ UNCHANGED vars
      PROVE  FALSE
  <2>1. ASSUME Stop PROVE FALSE
    BY <1>0, <2>1, StopMarks DEF Becomes
  <2>2. ASSUME Crash PROVE FALSE
    BY <2>2 DEF Crash, NoRun
  <2>3. ASSUME run' = run PROVE FALSE
    BY <2>3
  <2> QED
    BY <1>2, <2>1, <2>2, <2>3
       DEF WriteNote, Edit, Accept, MoveBase, SweepReads, SweepEnds, vars, registry
<1>3. Step(t) \/ Break(t)
  BY <1>1, <1>2 DEF Next
<1>4. ~Break(t)
  <2>1. ASSUME Break(t) PROVE FALSE
    BY <1>0, <2>1, StepsGo DEF Ended, Becomes
  <2> QED
    BY <2>1
<1>5. ASSUME Step(t), ~SetOut(t)
      PROVE  FALSE
  <2>1. ~Known(t) /\ ~RebaseFails(t)
    <3>1. ~Known(t)
      BY <1>0 DEF Known, TypeOK
    <3>2. RebaseFails(t) => run'[t].at = "ended"
      BY <1>0, StepsGo DEF Ended, Becomes
    <3> QED
      BY <3>1, <3>2
  <2> QED
    BY <1>5, <2>1 DEF Step, Prepare, Work, WorkerStopped, WorkerEnds, GateRefuses,
              TestGate, Review, ReviewerStopped, ReviewerFails, Approves, Rejects, LastCheck,
              Sync, Checking, Open, Finish, Cleanup
<1> QED
  BY <1>3, <1>4, <1>5

\* Where no sweep rebases the branch under a run: a worker is skipped only when the newest one
\* was told of every note there was, and left this very head with no fault found in it since
THEOREM SkipsAreJustified ==
  ASSUME "sweep" \notin Happens
  PROVE  Spec => SkipIsJustified
<1> DEFINE Skips == \A t \in Threads : run[t].at = "prepared" /\ run'[t].at = "testing" =>
                      told = run[t].notes /\ left = head'
<1>1. ASSUME Init PROVE LeftInv
  <2>1. \A t \in Threads : run[t].at = "idle" /\ ~run[t].reuse
    BY <1>1 DEF Init, NoRun
  <2>2. CoreInv
    BY <1>1, <2>1, InitType
       DEF CoreInv, HasBranch, OneLive, RowFollows, Init, Working, Live, Before, Orphaned
  <2>3. Now = 0 /\ sweep = NoHead
    BY <1>1 DEF Init, Now
  <2>4. VetInv
    BY <2>1, <2>2, <2>3 DEF VetInv, HeadIsVetted, LogIsJudged, Vetted, Gated, Reviewed
  <2> QED
    BY <2>1, <2>3, <2>4 DEF LeftInv, LogIsLeft, KnowsLeft, Untested
<1>2. ASSUME LeftInv, [Next]_vars PROVE LeftInv'
  BY <1>2, LeftInvStays
<1>3. LeftInv /\ [Next]_vars => [Skips]_vars
  BY OnlySetOutSkips, SkipsTakeUpWhatWasLeft DEF LeftInv, VetInv, CoreInv
<1> QED
  BY <1>1, <1>2, <1>3, PTL DEF Spec, SkipIsJustified
=============================================================================
