-------------------------------- MODULE Cards --------------------------------
(***************************************************************************)
(* The cards of one board and the order they ask for, and everyone who     *)
(* rewrites them: the operator through the one HTTP thread (Store.         *)
(* set_dependencies, delete_card, restore_card in smortboard/store/api.py),*)
(* a fold that merges todo cards (consolidate.py), a mission control turn  *)
(* that adds cards (orchestrator.py), and the ticks and runs that take     *)
(* them to work.  Each has a connection of its own to one sqlite file and  *)
(* commits call by call: a fold of two cards is some six transactions.     *)
(*                                                                         *)
(* A call that fails inside its transaction leaves it open, as the store   *)
(* never rolls back.  A thread closes its connection; the HTTP thread's    *)
(* lives on, and holds the database's one write lock until that thread's   *)
(* next write commits both.                                                *)
(***************************************************************************)
EXTENDS Integers, FiniteSets

CONSTANTS
  Originals, Fresh,     \* cards on the board at first, ids for cards to come
  NoCard,
  Happens,              \* what else may happen, see Happening
  MaxGroups,            \* bound: groups in a fold's proposal
  MaxHappened,          \* bound: requests, turns, runs and crashes beside one fold
  MaxEdges              \* bound: cards a turn adds, dependencies that it or a PATCH names

\* patch, delete, restore: the operator's requests; fold, turn: the two model turns;
\* run: a tick starts a card; crash: the board process dies
Happening == {"run", "patch", "delete", "restore", "fold", "turn", "crash"}

ASSUME CardsConstants ==
  /\ IsFiniteSet(Originals) /\ IsFiniteSet(Fresh) /\ Originals \cap Fresh = {}
  /\ NoCard \notin Originals \cup Fresh
  /\ Happens \subseteq Happening /\ MaxGroups \in Nat /\ MaxHappened \in Nat
  /\ MaxEdges \in Nat

Ids == Originals \cup Fresh

VARIABLES
  status,         \* the rows of cards: their status, "none" without a row
  deps,           \* card_deps: <<card, the card it depends on>>
  task,           \* the ledger task a card carries, named after the card it was written for
  backups,        \* card_backups
  open,           \* the transaction the HTTP connection was left in
  patch,          \* a PATCH that has passed set_dependencies' checks
  fold, turn,     \* the two model turns; fold.since is history: runs begun meanwhile
  live,           \* the run registry: cards about to run, and running
  wanted,         \* history: the order that was asked for
  standsIn,       \* history: the merged card that stands for a folded one
  unchecked,      \* history: edges written without a check for cycles
  mishap,         \* history: a fold or turn died half way, or the operator's write met one
  happened        \* bound

rows == <<status, deps, task, backups>>
past == <<wanted, standsIn, unchecked, mishap>>
vars == <<rows, open, patch, fold, turn, live, past, happened>>

Edges == Ids \X Ids
Statuses == {"todo", "doing", "blocked", "accepted"}
OnBoard == {c \in Ids : status[c] # "none"}
Unused == {c \in Fresh : status[c] = "none" /\ \A b \in backups : b.card # c}
\* _new_id
NewId == CHOOSE n \in Unused : TRUE
Touching(c, es) == {e \in es : c \in {e[1], e[2]}}
From(c, es) == {e \in es : e[1] = c}
Needs(c, es) == {e[2] : e \in From(c, es)}

\* the cards a walk along es from cs comes to
Reach(cs, es) ==
  LET walk[n \in 0..Cardinality(Ids)] ==
        IF n = 0 THEN cs
        ELSE LET near == walk[n - 1] IN near \cup {e[2] : e \in {x \in es : x[1] \in near}}
  IN walk[Cardinality(Ids)]
OnCycle(c, es) == c \in Reach(Needs(c, es), es)
Acyclic(es) == \A e \in es : ~OnCycle(e[1], es)

NoTxn == [held |-> FALSE, card |-> NoCard, deps |-> {}]
NoPatch == [card |-> NoCard, deps |-> {}]
NoFold == [at |-> "idle", read |-> {}, used |-> {}, group |-> {}, left |-> {}, edges |-> {},
           groups |-> 0, since |-> {}]
NoTurn == [at |-> "idle", mine |-> {}, edges |-> {}]
Backup == [card : Ids, status : Statuses, deps : SUBSET Edges]

TypeOK ==
  /\ status \in [Ids -> Statuses \cup {"none"}]
  /\ deps \subseteq OnBoard \X OnBoard
  /\ task \in [Ids -> Originals \cup {NoCard}]
  /\ \A c, d \in OnBoard : task[c] = task[d] /\ task[c] # NoCard => c = d
  /\ \A b \in backups : b \in Backup /\ \A a \in backups : a.card = b.card => a = b
  /\ open.held \in BOOLEAN /\ open.card \in Ids \cup {NoCard} /\ open.deps \subseteq Edges
  /\ patch.card \in Ids \cup {NoCard} /\ patch.deps \subseteq Ids
  /\ fold.at \in {"idle", "thinking", "folding", "deleting", "linking"}
  /\ turn.at \in {"idle", "creating", "linking"}
  /\ live \in [Ids -> {"no", "starting", "running"}]
  /\ wanted \cup unchecked \subseteq Edges
  /\ standsIn \in [Ids -> Ids] /\ mishap \in BOOLEAN
  /\ happened \in 0..MaxHappened

\* a board on which every edge was checked
Init ==
  /\ status = [c \in Ids |-> IF c \in Originals THEN "todo" ELSE "none"]
  /\ deps \in {es \in SUBSET (Originals \X Originals) : Acyclic(es)}
  /\ task = [c \in Ids |-> IF c \in Originals THEN c ELSE NoCard]
  /\ backups = {}
  /\ open = NoTxn /\ patch = NoPatch /\ fold = NoFold /\ turn = NoTurn
  /\ live = [c \in Ids |-> "no"]
  /\ wanted = deps /\ standsIn = [c \in Ids |-> c] /\ unchecked = {}
  /\ mishap = FALSE /\ happened = 0

Happened(what) ==
  what \in Happens /\ happened < MaxHappened /\ happened' = happened + 1

-----------------------------------------------------------------------------
(* the store's calls *)

\* another connection writes only while nobody holds the write lock
MayWrite == ~open.held
\* what the HTTP connection reads: its own uncommitted writes too
Mine == IF open.card = NoCard THEN deps
        ELSE (deps \ From(open.card, deps)) \cup open.deps

\* mutant of DeleteRow: the row goes with no backup
DeleteForGood(c, es) ==
  /\ status' = [status EXCEPT ![c] = "none"]
  /\ deps' = es \ Touching(c, es)
  /\ UNCHANGED <<task, backups>>
\* _backup_card, then the rows
DeleteRow(c, es) ==
  /\ backups' = backups \cup {[card |-> c, status |-> status[c], deps |-> Touching(c, es)]}
  /\ status' = [status EXCEPT ![c] = "none"]
  /\ deps' = es \ Touching(c, es)
  /\ UNCHANGED task

\* a ledger task sits on one card only
MayCarry(t) == t = NoCard \/ \A c \in OnBoard : task[c] # t
\* create_card: t is the ledger task it takes over
CreateRow(c, t) ==
  /\ status' = [status EXCEPT ![c] = "todo"]
  /\ task' = [task EXCEPT ![c] = t]
  /\ UNCHANGED <<deps, backups>>

\* add_dependency checks nothing, and fails when either row is gone
MayAdd(e) == {e[1], e[2]} \subseteq OnBoard
AddEdge(e) ==
  /\ deps' = deps \cup {e}
  /\ unchecked' = (IF e \in deps THEN unchecked ELSE unchecked \cup {e})
  /\ UNCHANGED <<status, task, backups>>

\* mutant of MakesCycle: only a card that depends straight back is found
MakesShortCycle(c, ds) == \E d \in ds : <<d, c>> \in Mine
\* _check_no_dependency_cycle
MakesCycle(c, ds) == c \in Reach(ds, Mine \ From(c, Mine))

-----------------------------------------------------------------------------
(* the operator: requests are served one at a time *)

Asks(what) == patch = NoPatch /\ Happened(what)
\* a write while a fold or a turn is half way
Meets == mishap' = (mishap \/ fold.at \in {"deleting", "linking"} \/ turn.at = "linking")

\* set_dependencies: the checks,
PatchChecked(c) ==
  /\ Asks("patch") /\ c \in OnBoard
  /\ \E ds \in SUBSET (OnBoard \ {c}) :
       /\ ds # Needs(c, Mine) /\ Cardinality(ds) <= MaxEdges /\ ~MakesCycle(c, ds)
       /\ patch' = [card |-> c, deps |-> ds]
  /\ UNCHANGED <<rows, open, fold, turn, live, past>>

\* and the write, which leaves its transaction open when a row is gone by now
PatchWritten ==
  /\ patch # NoPatch /\ patch' = NoPatch
  /\ LET c == patch.card
         given == {c} \X patch.deps
         kept == {e \in given : e[2] \in OnBoard}
     IN IF c \in OnBoard /\ kept = given
        THEN /\ deps' = (Mine \ From(c, Mine)) \cup given
             /\ open' = NoTxn
             /\ wanted' = (wanted \ From(c, wanted)) \cup given
             /\ unchecked' = unchecked \ From(c, Mine)
             /\ Meets
        ELSE \E written \in SUBSET kept :          \* those before the one that fails
               /\ open' = [held |-> TRUE, card |-> IF c \in OnBoard THEN c ELSE NoCard,
                           deps |-> IF c \in OnBoard THEN written ELSE {}]
               /\ mishap' = TRUE
               /\ UNCHANGED <<deps, wanted, unchecked>>
  /\ UNCHANGED <<status, task, backups, fold, turn, live, standsIn, happened>>

Delete(c) ==
  /\ Asks("delete") /\ c \in OnBoard
  /\ DeleteRow(c, Mine) /\ open' = NoTxn
  /\ wanted' = wanted \ Touching(c, wanted) /\ Meets
  /\ UNCHANGED <<patch, fold, turn, live, standsIn, unchecked>>

Taken(b) == b.card \in OnBoard \/ ~MayCarry(task[b.card])
Restore(b) ==
  /\ Asks("restore")
  /\ IF Taken(b)
     THEN /\ open' = [open EXCEPT !.held = TRUE]
          /\ UNCHANGED <<rows, past>>
     ELSE LET whole == OnBoard \cup {b.card}
              back == {e \in b.deps : {e[1], e[2]} \subseteq whole}
          IN /\ status' = [status EXCEPT ![b.card] = b.status]
             /\ deps' = Mine \cup back
             /\ backups' = backups \ {b}
             /\ open' = NoTxn
             /\ unchecked' = unchecked \cup (back \ Mine)
             /\ wanted' = wanted \cup back /\ Meets
             /\ UNCHANGED <<task, standsIn>>
  /\ UNCHANGED <<patch, fold, turn, live>>

-----------------------------------------------------------------------------
(* a fold: run_fold_turn, apply_folds, _fold *)

FoldWrites == MayWrite /\ UNCHANGED <<open, patch, turn, live, happened>>
Todo == {c \in OnBoard : status[c] = "todo"}

FoldStarts ==
  /\ "fold" \in Happens /\ fold.at = "idle" /\ fold.groups = 0 /\ Cardinality(Todo) > 1
  /\ fold' = [fold EXCEPT !.at = "thinking"]
  /\ UNCHANGED <<rows, open, patch, turn, live, past, happened>>

\* the proposal arrives and the board is read once; or the model's run failed
FoldReads ==
  /\ fold.at = "thinking"
  /\ \/ fold' = [fold EXCEPT !.at = "folding", !.read = Todo]
     \/ fold' = [NoFold EXCEPT !.groups = MaxGroups]
  /\ UNCHANGED <<rows, open, patch, turn, live, past, happened>>

\* mutant of Foldable: whatever is on the board
AnyStatus == OnBoard \ fold.used
\* the next group: its cards are read again for their edges, not for their status
Foldable == fold.read \ fold.used
FoldTakes(group) ==
  /\ fold.at = "folding" /\ fold.groups < MaxGroups
  /\ Cardinality(group) > 1
  /\ group \subseteq OnBoard                     \* else NotFoundError, see FoldDies
  /\ fold' = [fold EXCEPT !.at = "deleting", !.group = group, !.left = group,
                          !.edges = UNION {Touching(c, deps) : c \in group}]
  /\ UNCHANGED <<rows, open, patch, turn, live, past, happened>>

FoldDeletes(c) ==
  /\ fold.at = "deleting" /\ c \in OnBoard /\ FoldWrites
  /\ DeleteRow(c, deps)
  /\ fold' = [fold EXCEPT !.left = @ \ {c}]
  /\ mishap' = (mishap \/ Touching(c, turn.edges) # {})  \* the turn will not find the row
  /\ UNCHANGED <<wanted, standsIn, unchecked>>

\* mutant of Moved: those who depend on the group are forgotten
MovedOut(n) == {<<n, e[2]>> : e \in {x \in fold.edges : x[2] \notin fold.group}}
\* the merged card; the edges that lead out of the group and into it become its own
Moved(n) ==
  LET out == {e \in fold.edges : e[2] \notin fold.group}
      in == {e \in fold.edges : e[1] \notin fold.group}
  IN {<<n, e[2]>> : e \in out} \cup {<<e[1], n>> : e \in in}

InPlace(c, n) == IF c \in fold.group THEN n ELSE c
FoldCreates ==
  /\ fold.at = "deleting" /\ fold.left = {} /\ Unused # {} /\ FoldWrites
  /\ \E c \in fold.group : MayCarry(task[c]) /\ CreateRow(NewId, task[c])
  /\ fold' = [fold EXCEPT !.at = "linking", !.edges = Moved(NewId)]
  /\ wanted' = {<<InPlace(e[1], NewId), InPlace(e[2], NewId)>> : e \in wanted} \ {<<NewId, NewId>>}
  /\ standsIn' = [c \in Ids |-> InPlace(standsIn[c], NewId)]
  /\ UNCHANGED <<unchecked, mishap>>

FoldLinks(e) ==
  /\ fold.at = "linking" /\ MayAdd(e) /\ FoldWrites
  /\ AddEdge(e)
  /\ fold' = [fold EXCEPT !.edges = @ \ {e}]
  /\ UNCHANGED <<wanted, standsIn, mishap>>

FoldNext ==
  /\ fold.at = "linking" /\ fold.edges = {}
  /\ fold' = [fold EXCEPT !.at = "folding", !.used = @ \cup fold.group, !.group = {},
                          !.groups = @ + 1]
  /\ UNCHANGED <<rows, open, patch, turn, live, past, happened>>

FoldEnds ==
  /\ fold.at = "folding" /\ fold' = [NoFold EXCEPT !.groups = MaxGroups]
  /\ UNCHANGED <<rows, open, patch, turn, live, past, happened>>

\* a row it counted on is gone, or the database stays locked: the thread ends there
FoldDies ==
  /\ \/ fold.at = "folding" /\ fold.groups < MaxGroups /\ Foldable \ OnBoard # {}
     \/ fold.at = "deleting" /\ fold.left \ OnBoard # {}
     \/ fold.at = "deleting" /\ fold.left = {} /\ \E c \in fold.group : ~MayCarry(task[c])
     \/ fold.at = "linking" /\ \E e \in fold.edges : ~MayAdd(e)
     \/ open.held /\ (fold.at = "deleting" \/ (fold.at = "linking" /\ fold.edges # {}))
  /\ fold' = [NoFold EXCEPT !.groups = MaxGroups]
  /\ mishap' = (mishap \/ fold.at # "folding")
  /\ UNCHANGED <<rows, open, patch, turn, live, wanted, standsIn, unchecked, happened>>

-----------------------------------------------------------------------------
(* a mission control turn: run_orchestrator_turn *)

TurnWrites == MayWrite /\ UNCHANGED <<open, patch, fold, live, happened>>

TurnStarts ==
  /\ Happened("turn") /\ turn = NoTurn /\ Unused # {}
  /\ turn' = [turn EXCEPT !.at = "creating"]
  /\ UNCHANGED <<rows, open, patch, fold, live, past>>

TurnCreates ==
  /\ turn.at = "creating" /\ Cardinality(turn.mine) < MaxEdges /\ Unused # {} /\ TurnWrites
  /\ CreateRow(NewId, NoCard)
  /\ turn' = [turn EXCEPT !.mine = @ \cup {NewId}]
  /\ UNCHANGED past

\* its cards are on the board: the titles they depend on are looked up, its own first
TurnLooks ==
  /\ turn.at = "creating" /\ turn.mine # {}
  /\ \E es \in SUBSET {e \in turn.mine \X (OnBoard \cup turn.mine) : e[1] # e[2]} :
       /\ Cardinality(es) <= MaxEdges
       /\ turn' = [turn EXCEPT !.at = "linking", !.edges = es]
       /\ wanted' = wanted \cup {e \in es : MayAdd(e)}
  /\ UNCHANGED <<rows, open, patch, fold, live, standsIn, unchecked, mishap, happened>>

TurnLinks(e) ==
  /\ turn.at = "linking" /\ MayAdd(e) /\ TurnWrites
  /\ AddEdge(e)
  /\ turn' = [turn EXCEPT !.edges = @ \ {e}]
  /\ mishap' = (mishap \/ {e[1], e[2]} \cap fold.left # {})  \* the fold has read its edges already
  /\ UNCHANGED <<wanted, standsIn>>

TurnEnds ==
  /\ turn.at = "linking" /\ turn.edges = {} /\ turn' = NoTurn
  /\ UNCHANGED <<rows, open, patch, fold, live, past, happened>>

TurnDies ==
  /\ \/ open.held /\ turn.at # "idle"
     \/ turn.at = "linking" /\ \E e \in turn.edges : ~MayAdd(e)
  /\ turn' = NoTurn /\ mishap' = TRUE
  /\ UNCHANGED <<rows, open, patch, fold, live, wanted, standsIn, unchecked, happened>>

-----------------------------------------------------------------------------
(* ticks, runs, decisions *)

\* mutant of DependencyWait: a run that ended is enough
EndedWait(c) == \E d \in Needs(c, deps) : status[d] \notin {"blocked", "accepted"}
\* a tick takes a queued card once all it depends on is accepted
DependencyWait(c) == \E d \in Needs(c, deps) : status[d] # "accepted"
TickStarts(c) ==
  /\ status[c] = "todo" /\ live[c] = "no" /\ ~DependencyWait(c)
  /\ Happened("run")
  /\ live' = [live EXCEPT ![c] = "starting"]
  /\ UNCHANGED <<rows, open, patch, fold, turn, past>>

\* the row is gone, or locked: the run ends on that error
RunBegins(c) ==
  /\ live[c] = "starting"
  /\ \/ /\ status[c] # "none" /\ MayWrite
        /\ status' = [status EXCEPT ![c] = "doing"]
        /\ live' = [live EXCEPT ![c] = "running"]
        /\ fold' = [fold EXCEPT !.since =
                      IF fold.at \in {"idle", "thinking"} THEN {} ELSE @ \cup {c}]
     \/ /\ status[c] = "none" \/ open.held
        /\ live' = [live EXCEPT ![c] = "no"]
        /\ UNCHANGED <<status, fold>>
  /\ UNCHANGED <<deps, task, backups, open, patch, turn, past, happened>>

RunEnds(c) ==
  /\ live[c] = "running" /\ live' = [live EXCEPT ![c] = "no"]
  /\ \/ status[c] # "none" /\ MayWrite /\ status' = [status EXCEPT ![c] = "blocked"]
     \/ (status[c] = "none" \/ open.held) /\ UNCHANGED status
  /\ UNCHANGED <<deps, task, backups, open, patch, fold, turn, past, happened>>

\* a write of the HTTP thread: whatever it had open goes with it
Accept(c) ==
  /\ patch = NoPatch /\ status[c] = "blocked" /\ live[c] = "no"
  /\ status' = [status EXCEPT ![c] = "accepted"]
  /\ deps' = Mine /\ open' = NoTxn
  /\ UNCHANGED <<task, backups, patch, fold, turn, live, past, happened>>

\* open transactions roll back; recover_orphaned_runs blocks the cards left doing
Crash ==
  /\ Happened("crash")
  /\ status' = [c \in Ids |-> IF status[c] = "doing" THEN "blocked" ELSE status[c]]
  /\ open' = NoTxn /\ patch' = NoPatch /\ turn' = NoTurn
  /\ fold' = [NoFold EXCEPT !.groups = IF fold.at = "idle" THEN fold.groups ELSE MaxGroups]
  /\ live' = [c \in Ids |-> "no"]
  /\ mishap' = (mishap \/ fold.at \in {"deleting", "linking"} \/ turn.at # "idle")
  /\ UNCHANGED <<deps, task, backups, wanted, standsIn, unchecked>>

Operator ==
  \/ \E c \in Ids : PatchChecked(c) \/ Delete(c) \/ Accept(c)
  \/ PatchWritten
  \/ \E b \in backups : Restore(b)
Fold ==
  \/ FoldStarts \/ FoldReads \/ FoldCreates \/ FoldNext \/ FoldEnds \/ FoldDies
  \/ \E group \in SUBSET Foldable : FoldTakes(group)
  \/ \E c \in fold.left : FoldDeletes(c)
  \/ \E e \in fold.edges : FoldLinks(e)
Turn ==
  \/ TurnStarts \/ TurnCreates \/ TurnLooks \/ TurnEnds \/ TurnDies
  \/ \E e \in turn.edges : TurnLinks(e)
Runs == \E c \in Ids : TickStarts(c) \/ RunBegins(c) \/ RunEnds(c)

Next == Operator \/ Fold \/ Turn \/ Runs \/ Crash
Spec == Init /\ [][Next]_vars

-----------------------------------------------------------------------------
(* properties *)

\* set_dependencies refuses every cycle, also while a fold or a turn adds edges between its
\* check and its write: what closes a cycle is always an edge that add_dependency or
\* restore_card wrote without a check.
CyclesAreUnchecked == Acyclic(deps \ unchecked)

\* Once nobody is half way, the rows hold exactly the order that was asked for: the operator's,
\* the turn's, and for a merged card that of all it stands for.  Excepted is the board on which
\* a fold or turn died half way or the operator rewrote the order under one.
OrderIsKept ==
  ~mishap /\ fold.at \notin {"deleting", "linking"} /\ turn.at # "linking" => deps = wanted

\* A tick starts a card only after all it was asked to wait for, except for an edge that a fold
\* or a turn is moving at that moment (see NeverStartsEarly).
Moving(c, d) == c \in fold.group \/ d \in fold.group \/ <<c, d>> \in fold.edges \cup turn.edges
StartsInOrder ==
  [][\A c \in Ids : live[c] = "no" /\ live'[c] = "starting" /\ ~mishap =>
       \A d \in Needs(c, wanted) : status[d] = "accepted" \/ Moving(c, d)]_vars

\* Whatever a fold, a crash in it and the operator's undo do: a card of the board is on it, or
\* can be restored, or the card it was merged into is on the board.
WorkIsNotLost ==
  \A c \in Originals :
    c \in OnBoard \/ \E b \in backups : b.card = c /\ (~Taken(b) \/ standsIn[c] \in OnBoard)

\* A fold takes no card whose run had begun when it read the board.
FoldSparesRuns ==
  [][\A c \in fold.left \ fold'.left :
       live[c] = "running" /\ fold'.at = "deleting" => c \in fold.since]_vars

\* set_dependencies' docstring: a cycle "would leave the board unable to schedule cards".
NoCycle == Acyclic(deps)

\* The module comment of consolidate.py: a fold re-points every dependency, then deletes.
NeverStartsEarly ==
  [][\A c \in Ids : live[c] = "no" /\ live'[c] = "starting" =>
       \A d \in Needs(c, wanted) : status[d] = "accepted"]_vars

\* The module comment of consolidate.py: folding a card that runs "would orphan both".
NoOrphan ==
  [][\A c \in fold.left \ fold'.left : fold'.at = "deleting" => live[c] = "no"]_vars

\* The module comment of consolidate.py: "each folded card stays restorable".
FoldedIsRestorable == \A b \in backups : standsIn[b.card] # b.card => ~Taken(b)

\* set_dependencies' docstring: what is refused changes nothing.
RefusedLeavesNothing == ~open.held
=============================================================================
