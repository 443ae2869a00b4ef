------------------------------ MODULE KluReplay ------------------------------
(***************************************************************************)
(* KluSolver::refactor (src/src/numeric/klu/refactor.rs): new values are   *)
(* replayed through the stored pivot sequence, block after block, each     *)
(* block column after column (serial), level by level, or pipelined:       *)
(* pieces take columns from a shared counter and wait, column by column,   *)
(* until every L column they read carries the number of this refactor.     *)
(*                                                                         *)
(* The numbers (`epoch') wrap, and are kept from one refactor to the next  *)
(* (`Ready'), so the model runs any number of refactors, each choosing     *)
(* anew how every block replays.  A column's values are abstracted to      *)
(* whether they are this refactor's; the columns whose pivot vanishes for  *)
(* the values at hand are chosen when a refactor begins.  Blocks side by   *)
(* side are module KluBlocks.                                              *)
(***************************************************************************)
EXTENDS Integers, Sequences, FiniteSets, FiniteSetsExt, SequencesExt

CONSTANTS
  BlockPtr,   \* the blocks' first columns, and one past the last column
  U,          \* U[j]: the columns j reads, in the stored elimination order
  ColPerm,    \* original column of every final column
  PipeRun,    \* PIPE_RUN
  Pieces,     \* the pieces a pipelined replay asks for
  Workers,    \* how many pieces run at once
  EpochMod,   \* the number of epochs (2^32 in the code)
  Modes       \* the ways a block may replay

NBlocks == Len(BlockPtr) - 1
Columns(b) == BlockPtr[b]..(BlockPtr[b + 1] - 1)
Col == UNION {Columns(b) : b \in 1..NBlocks}
Piece == 1..Pieces

\* Errors: none, an interrupt, or the original column of a vanished pivot.
NoError == -2
Interrupted == -1

ASSUME PatternIsReplayable ==
  /\ BlockPtr \in Seq(Nat) /\ NBlocks >= 1
  /\ \A b \in 1..NBlocks : BlockPtr[b] < BlockPtr[b + 1]
  /\ U \in [Col -> Seq(Col)]
  /\ \A b \in 1..NBlocks : \A j \in Columns(b) :
       \A i \in 1..Len(U[j]) : U[j][i] \in Columns(b) /\ U[j][i] < j
  /\ ColPerm \in [Col -> Nat] /\ IsInjective(ColPerm)
  /\ PipeRun \in Nat \ {0} /\ Pieces \in Nat \ {0} /\ Workers \in Nat \ {0}
  /\ EpochMod \in Nat \ {0, 1}
  /\ "serial" \in Modes /\ Modes \subseteq {"serial", "levels", "pipelined"}

-----------------------------------------------------------------------------
VARIABLES
  phase,    \* "valid", "running" or "invalid": what the solver holds
  at,       \* where the driver is: "idle", "block", "level" or "pipe"
  block,    \* the block under replay
  level,    \* the level under replay
  mode,     \* how each block replays in this refactor
  bad,      \* the columns whose pivot vanishes for these values
  flag,     \* the caller's interrupt flag
  epoch,    \* Ready::epoch
  done,     \* Ready::done
  lcol,     \* every column's L values: "stale", "fresh", "failed" or "tainted"
  next,     \* the shared column counter of a pipelined replay
  stop,     \* its stop flag
  failed,   \* its error slot
  pc,       \* where each piece is
  cur,      \* the column a piece replays, and the last one it took
  last,
  pos,      \* how many of its U entries the column has consumed
  error     \* what the last refactor returned

driver == <<phase, at, block, level, mode, bad, epoch, error>>
pieces == <<next, stop, failed, pc, cur, last, pos>>
vars == <<driver, flag, done, lcol, pieces>>

TypeOK ==
  /\ phase \in {"valid", "running", "invalid"}
  /\ at \in {"idle", "block", "level", "pipe"}
  /\ block \in 1..(NBlocks + 1)
  /\ level \in Nat
  /\ mode \in [1..NBlocks -> Modes]
  /\ bad \subseteq Col
  /\ flag \in BOOLEAN
  /\ epoch \in 0..(EpochMod - 1)
  /\ done \in [Col -> 0..(EpochMod - 1)]
  /\ lcol \in [Col -> {"stale", "fresh", "failed", "tainted"}]
  /\ next \in Nat
  /\ stop \in BOOLEAN
  /\ failed \in {NoError, Interrupted} \cup Nat
  /\ pc \in [Piece -> {"ready", "top", "raise", "take", "wait", "publish", "gone"}]
  /\ cur \in [Piece -> Nat]
  /\ last \in [Piece -> Nat]
  /\ pos \in [Piece -> Nat]
  /\ error \in {NoError, Interrupted} \cup Nat

\* A freshly factored solver.
Init ==
  /\ phase = "valid" /\ at = "idle" /\ block = 1 /\ level = 0
  /\ mode = [b \in 1..NBlocks |-> "serial"]
  /\ bad = {} /\ flag = FALSE /\ epoch = 0
  /\ done = [j \in Col |-> 0]
  /\ lcol = [j \in Col |-> "fresh"]
  /\ next = 0 /\ stop = FALSE /\ failed = NoError
  /\ pc = [q \in Piece |-> "gone"]
  /\ cur = [q \in Piece |-> 0] /\ last = [q \in Piece |-> 0] /\ pos = [q \in Piece |-> 0]
  /\ error = NoError

-----------------------------------------------------------------------------
(***************************************************************************)
(* The elimination DAG's levels (compute_replay_plan): a column comes one  *)
(* level after the last column it reads.                                   *)
(***************************************************************************)
LevelOf[j \in Col] ==
  IF U[j] = <<>> THEN 0
  ELSE 1 + Max({LevelOf[p] : p \in ToSet(U[j])})

LevelCount(b) == 1 + Max({LevelOf[j] : j \in Columns(b)})
LevelColumns(b, l) == {j \in Columns(b) : LevelOf[j] = l}

\* A block replays side by side only with two columns and two levels.
Planned(b) == Cardinality(Columns(b)) >= 2 /\ LevelCount(b) >= 2

\* keep_lowest: what the error slot holds after e is offered.
KeepFirst(slot, e) == IF slot # NoError THEN slot ELSE e
KeepLowest(slot, e) ==
  IF \/ slot = NoError
     \/ e = Interrupted
     \/ slot # Interrupted /\ e < slot
  THEN e ELSE slot

\* The sequential replay of the columns cs, ascending, over the L values found
\* in place: it stops at the first column whose pivot vanishes, and one that
\* reads a column not replayed yet computes on what the slots held.
FirstBad(cs) == IF cs \cap bad = {} THEN {} ELSE {Min(cs \cap bad)}

ReplayInOrder(cs, values) ==
  [j \in Col |->
     IF j \notin cs \/ (\E f \in FirstBad(cs) : f < j) THEN values[j]
     ELSE IF j \in bad THEN "failed"
     ELSE IF \A p \in ToSet(U[j]) : p \in cs \/ values[p] = "fresh" THEN "fresh"
     ELSE "tainted"]

Column(f) == ColPerm[f]

-----------------------------------------------------------------------------
(***************************************************************************)
(* One refactor.                                                           *)
(***************************************************************************)

\* Ready::next: 0 is no number, and the marks are cleared when it is skipped.
Wrapped == (epoch + 1) % EpochMod = 0
NextEpoch == IF Wrapped THEN 1 ELSE epoch + 1
KeptDone == done
ClearedDone == IF Wrapped THEN [j \in Col |-> 0] ELSE done

Begin ==
  /\ phase # "running"
  /\ \E md \in [1..NBlocks -> Modes], vanished \in SUBSET Col :
       /\ \A b \in 1..NBlocks : md[b] # "serial" => Planned(b)
       /\ mode' = md
       /\ bad' = vanished
       /\ IF \E b \in 1..NBlocks : md[b] = "pipelined"
            THEN epoch' = NextEpoch /\ done' = ClearedDone
            ELSE UNCHANGED <<epoch, done>>
  /\ phase' = "running" /\ at' = "block" /\ block' = 1 /\ error' = NoError
  /\ lcol' = [j \in Col |-> "stale"]
  /\ UNCHANGED <<level, flag, pieces>>

\* An error returns: Ready was taken out of the factors and is dropped.
Fail(e) ==
  /\ phase' = "invalid" /\ at' = "idle" /\ error' = e
  /\ epoch' = 0
  /\ done' = [j \in Col |-> 0]

Succeed ==
  /\ at = "block" /\ block > NBlocks
  /\ phase' = "valid" /\ at' = "idle"
  /\ UNCHANGED <<block, level, mode, bad, epoch, error, flag, done, lcol, pieces>>

\* interrupt_check before each block.
BlockInterrupted ==
  /\ at = "block" /\ block <= NBlocks /\ flag
  /\ Fail(Interrupted)
  /\ UNCHANGED <<block, level, mode, bad, flag, lcol, pieces>>

SerialBlock ==
  /\ at = "block" /\ block <= NBlocks /\ ~flag /\ mode[block] = "serial"
  /\ LET cs == Columns(block) IN
       /\ lcol' = ReplayInOrder(cs, lcol)
       /\ IF FirstBad(cs) = {}
            THEN block' = block + 1 /\ UNCHANGED <<phase, at, error, epoch, done>>
            ELSE (\E f \in FirstBad(cs) : Fail(Column(f))) /\ UNCHANGED block
  /\ UNCHANGED <<level, mode, bad, flag, pieces>>

EnterLevels ==
  /\ at = "block" /\ block <= NBlocks /\ ~flag /\ mode[block] = "levels"
  /\ at' = "level" /\ level' = 0
  /\ UNCHANGED <<phase, block, mode, bad, epoch, error, flag, done, lcol, pieces>>

LevelInterrupted ==
  /\ at = "level" /\ level < LevelCount(block) /\ flag
  /\ Fail(Interrupted)
  /\ level' = 0
  /\ UNCHANGED <<block, mode, bad, flag, lcol, pieces>>

\* One level: its columns (ascending) in runs of `per', each run stopping at
\* its first vanished pivot; run by run on the calling thread is one run.
Rank(cs, j) == Cardinality({i \in cs : i < j})
RunOf(cs, per, j) == {i \in cs : Rank(cs, i) \div per = Rank(cs, j) \div per}

ReplayLevel ==
  /\ at = "level" /\ level < LevelCount(block) /\ ~flag
  /\ LET cs == LevelColumns(block, level) IN
     \E per \in 1..Cardinality(cs) :
       LET stops == UNION {FirstBad(RunOf(cs, per, j)) : j \in cs}
       IN /\ lcol' = [j \in Col |->
                        IF j \in cs THEN ReplayInOrder(RunOf(cs, per, j), lcol)[j] ELSE lcol[j]]
          /\ IF stops = {}
               THEN level' = level + 1 /\ UNCHANGED <<phase, at, error, epoch, done>>
               ELSE Fail(Min({Column(f) : f \in stops})) /\ level' = 0
  /\ UNCHANGED <<block, mode, bad, flag, pieces>>

LeaveLevels ==
  /\ at = "level" /\ level = LevelCount(block)
  /\ at' = "block" /\ block' = block + 1 /\ level' = 0
  /\ UNCHANGED <<phase, mode, bad, epoch, error, flag, done, lcol, pieces>>

-----------------------------------------------------------------------------
(***************************************************************************)
(* A pipelined block.                                                      *)
(***************************************************************************)
PieceCount(b) ==
  Min({Pieces, (Cardinality(Columns(b)) + PipeRun - 1) \div PipeRun})

EnterPipe ==
  /\ at = "block" /\ block <= NBlocks /\ ~flag /\ mode[block] = "pipelined"
  /\ at' = "pipe"
  /\ next' = BlockPtr[block] /\ stop' = FALSE /\ failed' = NoError
  /\ pc' = [q \in Piece |-> IF q <= PieceCount(block) THEN "ready" ELSE "gone"]
  /\ cur' = [q \in Piece |-> 0] /\ last' = [q \in Piece |-> 0]
  /\ pos' = [q \in Piece |-> 0]
  /\ UNCHANGED <<phase, block, level, mode, bad, epoch, error, flag, done, lcol>>

Goto(q, to) == pc' = [pc EXCEPT ![q] = to]

\* The pool starts a piece when a worker is free (one worker runs the pieces
\* one after the other).
StartPiece(q) ==
  /\ pc[q] = "ready"
  /\ Cardinality({r \in Piece : pc[r] \notin {"ready", "gone"}}) < Workers
  /\ Goto(q, "top")
  /\ UNCHANGED <<driver, flag, done, lcol, next, stop, failed, cur, last, pos>>

\* `while !stop.load()', then the interrupt check.
Poll(q) ==
  /\ pc[q] = "top"
  /\ Goto(q, IF stop THEN "gone" ELSE IF flag THEN "raise" ELSE "take")
  /\ UNCHANGED <<driver, flag, done, lcol, next, stop, failed, cur, last, pos>>

Raise(q) ==
  /\ pc[q] = "raise"
  /\ stop' = TRUE
  /\ failed' = KeepLowest(failed, Interrupted)
  /\ Goto(q, "gone")
  /\ UNCHANGED <<driver, flag, done, lcol, next, cur, last, pos>>

\* `next.fetch_add(PIPE_RUN)'.
Advanced == next + PipeRun

Take(q) ==
  /\ pc[q] = "take"
  /\ next' = Advanced
  /\ IF next >= BlockPtr[block + 1]
       THEN Goto(q, "gone") /\ UNCHANGED <<cur, last, pos>>
       ELSE /\ Goto(q, "wait")
            /\ cur' = [cur EXCEPT ![q] = next]
            /\ last' = [last EXCEPT ![q] = Min({next + PipeRun, BlockPtr[block + 1]}) - 1]
            /\ pos' = [pos EXCEPT ![q] = 0]
  /\ UNCHANGED <<driver, flag, done, lcol, stop, failed>>

\* The spin of replay_col: the next L column is consumed once its number is
\* this refactor's.
Published(p) == done[p] = epoch
Awaited(q) == U[cur[q]][pos[q] + 1]

Consume(q) ==
  /\ pc[q] = "wait" /\ pos[q] < Len(U[cur[q]])
  /\ Published(Awaited(q))
  /\ pos' = [pos EXCEPT ![q] = @ + 1]
  /\ UNCHANGED <<driver, flag, done, lcol, next, stop, failed, pc, cur, last>>

\* All U entries consumed: the pivot, udiag and the L column.  A column that
\* read one that failed computes on what the slots held, whatever comes out.
Pivot(q) ==
  /\ pc[q] = "wait" /\ pos[q] = Len(U[cur[q]])
  /\ LET j == cur[q]
         clean == \A p \in ToSet(U[j]) : lcol[p] = "fresh"
     IN \E vanishes \in BOOLEAN :
          /\ clean => (vanishes <=> j \in bad)
          /\ lcol' = [lcol EXCEPT ![j] = IF vanishes THEN "failed"
                                         ELSE IF clean THEN "fresh" ELSE "tainted"]
          /\ failed' = IF vanishes THEN KeepLowest(failed, Column(j)) ELSE failed
  /\ Goto(q, "publish")
  /\ UNCHANGED <<driver, flag, done, next, stop, cur, last, pos>>

\* A failing column is published too: its dependants must not wait for ever.
ReleaseReplayed(j) == IF lcol[j] = "failed" THEN done ELSE [done EXCEPT ![j] = epoch]
Release(j) == [done EXCEPT ![j] = epoch]

Publish(q) ==
  /\ pc[q] = "publish"
  /\ done' = Release(cur[q])
  /\ IF cur[q] < last[q]
       THEN /\ cur' = [cur EXCEPT ![q] = @ + 1]
            /\ pos' = [pos EXCEPT ![q] = 0]
            /\ Goto(q, "wait")
       ELSE Goto(q, "top") /\ UNCHANGED <<cur, pos>>
  /\ UNCHANGED <<driver, flag, lcol, next, stop, failed, last>>

\* The section's counter, flag, slot and pieces are locals of the call.
NoPieces ==
  /\ next' = 0 /\ stop' = FALSE /\ failed' = NoError
  /\ pc' = [q \in Piece |-> "gone"]
  /\ cur' = [q \in Piece |-> 0] /\ last' = cur' /\ pos' = cur'

LeavePipe ==
  /\ at = "pipe"
  /\ \A q \in Piece : pc[q] = "gone"
  /\ IF failed = NoError
       THEN /\ at' = "block" /\ block' = block + 1
            /\ UNCHANGED <<phase, epoch, error, done>>
       ELSE Fail(failed) /\ UNCHANGED block
  /\ NoPieces
  /\ UNCHANGED <<level, mode, bad, flag, lcol>>

PieceStep(q) ==
  \/ StartPiece(q) \/ Poll(q) \/ Raise(q) \/ Take(q)
  \/ Consume(q) \/ Pivot(q) \/ Publish(q)

\* The flag is the caller's: raised and cleared whenever it likes.
Interrupt ==
  /\ flag' = ~flag
  /\ UNCHANGED <<driver, done, lcol, pieces>>

Driver ==
  \/ Succeed \/ BlockInterrupted \/ SerialBlock
  \/ EnterLevels \/ LevelInterrupted \/ ReplayLevel \/ LeaveLevels
  \/ EnterPipe \/ LeavePipe

Next ==
  \/ Begin
  \/ Driver
  \/ \E q \in Piece : PieceStep(q)
  \/ Interrupt

Spec == Init /\ [][Next]_vars

(***************************************************************************)
(* A running thread is scheduled again and again (a spinning piece yields),*)
(* and a pool starts a waiting piece when a worker is free.  Nobody is     *)
(* obliged to refactor or to interrupt.                                    *)
(***************************************************************************)
FairSpec ==
  Spec /\ WF_vars(Driver) /\ \A q \in Piece : WF_vars(PieceStep(q))

-----------------------------------------------------------------------------
(***************************************************************************)
(* A piece consumes an L column only after this refactor replayed it: a    *)
(* published mark is never left over from an earlier refactor, not even    *)
(* from the one that had this number before it wrapped.                    *)
(***************************************************************************)
ConsumesOnlyReplayed ==
  at = "pipe" => \A j \in Columns(block) : Published(j) => lcol[j] # "stale"

(***************************************************************************)
(* "Column-disjoint views": no two pieces own a column at the same time,   *)
(* and an owned column is not yet published.                               *)
(***************************************************************************)
Owns(q) == IF pc[q] \in {"wait", "publish"} THEN cur[q]..last[q] ELSE {}

ColumnsHaveOneOwner ==
  \A q \in Piece :
    /\ \A r \in Piece \ {q} : Owns(q) \cap Owns(r) = {}
    /\ \A j \in Owns(q) : ~Published(j)

\* What the unsafe reads and writes of the pieces rest on.
PieceViewsAreSound == ConsumesOnlyReplayed /\ ColumnsHaveOneOwner

(***************************************************************************)
(* A refactor that succeeds replayed every column from properly replayed   *)
(* ones, whatever failed before it; one that fails on a pivot does so      *)
(* because a pivot vanishes.                                               *)
(***************************************************************************)
ValidIsFresh ==
  /\ phase = "valid" => \A j \in Col : lcol[j] = "fresh"
  /\ phase = "invalid" /\ error # Interrupted => bad \cap Columns(block) # {}

(***************************************************************************)
(* A pipelined block reports what the sequential replay reports: the       *)
(* column of the first vanished pivot (unless it was interrupted).         *)
(***************************************************************************)
PipelineReportsSequentialError ==
  phase = "invalid" /\ error # Interrupted /\ mode[block] = "pipelined" =>
    \E f \in FirstBad(Columns(block)) : error = Column(f)

\* What a refactor returns is what one thread would have: the values, or the
\* error of the first vanished pivot.
ReplayIsFaithful == ValidIsFresh /\ PipelineReportsSequentialError

\* Every refactor ends, interrupted, failed or not, on any number of workers.
RefactorReturns == phase = "running" ~> phase # "running"
=============================================================================
