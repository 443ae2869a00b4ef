------------------------------ MODULE KluBlocks ------------------------------
(***************************************************************************)
(* KluSolver::refactor with its blocks side by side (refactor.rs, the      *)
(* `width_blocks > 1' branch): the blocks are dealt, in order, into runs   *)
(* of about equal columns; a piece replays the blocks of its run in order  *)
(* and stops at the first that fails or finds the interrupt flag up, the   *)
(* other pieces going on; the error of the lowest block is returned.       *)
(*                                                                         *)
(* How one block replays is module KluReplay; here it ends well or, when   *)
(* the values make it singular, fails.                                     *)
(***************************************************************************)
EXTENDS Integers, Sequences, SequencesExt, FiniteSets

CONSTANTS
  BlockStart,    \* the blocks' first columns, and one past the last column
  BlockWorkers,  \* the threads of the section
  Targets        \* the run lengths, in columns, a refactor may ask for

NumBlocks == Len(BlockStart) - 1
Block == 1..NumBlocks

BlocksAssumption ==
  /\ BlockStart \in Seq(Nat) /\ NumBlocks >= 1
  /\ \A b \in Block : BlockStart[b] < BlockStart[b + 1]
  /\ BlockWorkers \in Nat \ {0} /\ Targets \subseteq Nat \ {0}

VARIABLES
  blockPhase,  \* "valid", "dealing", "replaying" or "invalid"
  singular,    \* the blocks these values make singular
  stopFlag,    \* the caller's interrupt flag
  value,       \* every block's values: "stale", "fresh" or "failed"
  target,      \* the columns of a run, about
  dealt,       \* the blocks dealt
  run,         \* the run being filled
  runs,        \* the runs filled: the pieces
  left,        \* the blocks each piece has still to do
  runAt,       \* where each piece is
  slot         \* the error slot: <<>> or the block and its error

blockVars == <<blockPhase, singular, stopFlag, value, target, dealt, run, runs, left, runAt, slot>>

BlocksInit ==
  /\ blockPhase = "valid" /\ singular = {} /\ stopFlag = FALSE
  /\ value = [b \in Block |-> "fresh"]
  /\ target = 0 /\ dealt = 0 /\ run = <<>> /\ runs = <<>>
  /\ left = <<>> /\ runAt = <<>> /\ slot = <<>>

StartBlocks ==
  /\ blockPhase \in {"valid", "invalid"}
  /\ singular' \in SUBSET Block
  /\ target' \in Targets
  /\ blockPhase' = "dealing" /\ value' = [b \in Block |-> "stale"]
  /\ dealt' = 0 /\ run' = <<>> /\ runs' = <<>> /\ slot' = <<>>
  /\ UNCHANGED <<stopFlag, left, runAt>>

-----------------------------------------------------------------------------
(***************************************************************************)
(* The runs.                                                               *)
(***************************************************************************)
Full(b) == run # <<>> /\ BlockStart[b + 1] - BlockStart[Head(run)] > target

NextBlock == dealt + 1

Deal ==
  /\ blockPhase = "dealing" /\ dealt < NumBlocks /\ ~stopFlag
  /\ IF Full(NextBlock)
       THEN runs' = Append(runs, run) /\ run' = <<NextBlock>>
       ELSE run' = Append(run, NextBlock) /\ UNCHANGED runs
  /\ dealt' = dealt + 1
  /\ UNCHANGED <<blockPhase, singular, stopFlag, value, target, left, runAt, slot>>

\* The interrupt is polled at every block dealt.
DealInterrupted ==
  /\ blockPhase = "dealing" /\ dealt < NumBlocks /\ stopFlag
  /\ blockPhase' = "invalid" /\ slot' = <<NextBlock, "interrupted">>
  /\ run' = <<>> /\ runs' = <<>>
  /\ UNCHANGED <<singular, stopFlag, value, target, dealt, left, runAt>>

OpenRunLost == runs
AllRuns == Append(runs, run)

StartSection ==
  /\ blockPhase = "dealing" /\ dealt = NumBlocks
  /\ blockPhase' = "replaying"
  /\ left' = AllRuns
  /\ runAt' = [q \in 1..Len(AllRuns) |-> "ready"]
  /\ run' = <<>> /\ runs' = <<>>
  /\ UNCHANGED <<singular, stopFlag, value, target, dealt, slot>>

-----------------------------------------------------------------------------
(***************************************************************************)
(* The pieces.                                                             *)
(***************************************************************************)
RunGoto(q, to) == runAt' = [runAt EXCEPT ![q] = to]

Running == {q \in DOMAIN runAt : runAt[q] \notin {"ready", "gone"}}

StartRun(q) ==
  /\ runAt[q] = "ready"
  /\ Cardinality(Running) < BlockWorkers
  /\ RunGoto(q, "poll")
  /\ UNCHANGED <<blockPhase, singular, stopFlag, value, target, dealt, run, runs, left, slot>>

\* The error slot keeps the lowest block's error.
KeepLowestBlock(e) == IF slot = <<>> \/ e[1] < slot[1] THEN e ELSE slot

Leave(q, e) ==
  /\ slot' = KeepLowestBlock(e)
  /\ left' = [left EXCEPT ![q] = <<>>]
  /\ RunGoto(q, "gone")

PollInterrupt(q) ==
  /\ runAt[q] = "poll" /\ left[q] # <<>>
  /\ IF stopFlag THEN Leave(q, <<Head(left[q]), "interrupted">>)
             ELSE RunGoto(q, "replay") /\ UNCHANGED <<left, slot>>
  /\ UNCHANGED <<blockPhase, singular, stopFlag, value, target, dealt, run, runs>>

ReplayBlock(q) ==
  /\ runAt[q] = "replay"
  /\ LET b == Head(left[q]) IN
       IF b \in singular
         THEN value' = [value EXCEPT ![b] = "failed"] /\ Leave(q, <<b, "singular">>)
         ELSE /\ value' = [value EXCEPT ![b] = "fresh"]
              /\ left' = [left EXCEPT ![q] = Tail(@)]
              /\ RunGoto(q, "poll") /\ UNCHANGED slot
  /\ UNCHANGED <<blockPhase, singular, stopFlag, target, dealt, run, runs>>

EndPiece(q) ==
  /\ runAt[q] = "poll" /\ left[q] = <<>>
  /\ RunGoto(q, "gone")
  /\ UNCHANGED <<blockPhase, singular, stopFlag, value, target, dealt, run, runs, left, slot>>

EndSection ==
  /\ blockPhase = "replaying" /\ \A q \in DOMAIN runAt : runAt[q] = "gone"
  /\ blockPhase' = IF slot = <<>> THEN "valid" ELSE "invalid"
  /\ left' = <<>> /\ runAt' = <<>>
  /\ UNCHANGED <<singular, stopFlag, value, target, dealt, run, runs, slot>>

InterruptBlocks ==
  /\ stopFlag' = ~stopFlag
  /\ UNCHANGED <<blockPhase, singular, value, target, dealt, run, runs, left, runAt, slot>>

RunStep(q) == StartRun(q) \/ PollInterrupt(q) \/ ReplayBlock(q) \/ EndPiece(q)

BlocksNext ==
  \/ StartBlocks \/ Deal \/ DealInterrupted \/ StartSection
  \/ \E q \in DOMAIN runAt : RunStep(q)
  \/ EndSection
  \/ InterruptBlocks

BlocksSpec == BlocksInit /\ [][BlocksNext]_blockVars

\* The refactoring thread and the pool's workers are scheduled; nobody is
\* obliged to refactor or to interrupt.
BlocksFair ==
  /\ BlocksSpec
  /\ WF_blockVars(Deal \/ DealInterrupted \/ StartSection \/ EndSection)
  /\ \A q \in Block : WF_blockVars(q \in DOMAIN runAt /\ RunStep(q))

-----------------------------------------------------------------------------
(***************************************************************************)
(* A refactor that succeeds has replayed every block, once: no block is    *)
(* left out of the runs and none is in two.                                *)
(***************************************************************************)
EveryBlockReplayed ==
  /\ blockPhase = "valid" => \A b \in Block : value[b] = "fresh"
  /\ blockPhase = "replaying" =>
       \A b \in Block :
         Cardinality({q \in DOMAIN left : b \in ToSet(left[q])}) <=
           (IF value[b] = "stale" THEN 1 ELSE 0)

(***************************************************************************)
(* The error returned is the one the blocks in order would have returned:  *)
(* every block before the one it names was replayed, in whatever order the *)
(* pieces failed and wherever the interrupt met them.                      *)
(***************************************************************************)
ErrorOfTheFirstBlock ==
  blockPhase = "invalid" /\ slot # <<>> /\ dealt = NumBlocks =>
    \A b \in 1..(slot[1] - 1) : value[b] = "fresh"

\* A refactor of the blocks side by side that succeeds replayed them all, one
\* that fails returns the error of the first failing block in order.
BlocksAsInOrder == EveryBlockReplayed /\ ErrorOfTheFirstBlock

\* Every refactor ends, on any number of workers.
BlocksReturn == blockPhase \in {"dealing", "replaying"} ~> blockPhase \in {"valid", "invalid"}
=============================================================================
