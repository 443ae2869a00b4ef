------------------------------ MODULE Klu_proofs ------------------------------
(***************************************************************************)
(* The refactorization of KLU, by blocks side by side and by a pipeline.   *)
(*                                                                         *)
(* KluReplay: a pipelined replay reads only L columns this refactor        *)
(* replayed, its pieces own disjoint, unpublished columns, and a refactor  *)
(* returns what one thread would have: for every matrix, block structure,  *)
(* number of pieces and workers, and however often the numbers of the      *)
(* refactors have wrapped.                                                 *)
(* KluBlocks: however the blocks are dealt into runs and wherever the      *)
(* pieces fail or are interrupted, a refactor replays every block or       *)
(* returns the error of the first one it did not: for any number of        *)
(* blocks, threads and runs.                                               *)
(***************************************************************************)
EXTENDS KluReplay, KluBlocks, FiniteSetTheorems, SequenceTheorems, WellFoundedInduction, TLAPS

-----------------------------------------------------------------------------
(***************************************************************************)
(* The inductive invariant.                                                *)
(***************************************************************************)
DriverPhases ==
  /\ phase = "running" <=> at # "idle"
  /\ at \in {"level", "pipe"} => block <= NBlocks
  /\ at = "pipe" => mode[block] = "pipelined"
  /\ at = "level" => mode[block] = "levels"
  /\ at # "pipe" => \A q \in Piece : pc[q] = "gone"

\* No mark runs ahead of the last refactor's number.
MarksArePast == \A j \in Col : done[j] <= epoch

\* A column carries this refactor's number only once it is replayed, and
\* only behind the driver or behind the pieces of the block under replay.
MarksAreReplayed ==
  phase = "running" /\ (\E b \in 1..NBlocks : mode[b] = "pipelined") =>
    \A j \in Col : Published(j) =>
      /\ lcol[j] # "stale"
      /\ \/ j < BlockPtr[block]
         \/ /\ at = "pipe" /\ j < next /\ j < BlockPtr[block + 1]
            /\ \A q \in Piece : j \notin Owns(q)

\* What the pieces own lies in the block, below the counter, apart.
Owning(q) == pc[q] \in {"wait", "publish"}

Ownership ==
  at = "pipe" =>
    /\ BlockPtr[block] <= next
    /\ \A q \in Piece : Owning(q) =>
         /\ BlockPtr[block] <= cur[q] /\ cur[q] <= last[q]
         /\ last[q] < BlockPtr[block + 1] /\ last[q] < next
    /\ \A q \in Piece : pc[q] = "publish" => lcol[cur[q]] # "stale"
    /\ \A q, r \in Piece : q # r /\ Owning(q) /\ Owning(r) =>
         last[q] < cur[r] \/ last[r] < cur[q]

Inv == TypeOK /\ DriverPhases /\ MarksArePast /\ MarksAreReplayed /\ Ownership

-----------------------------------------------------------------------------
LEMMA ShapeOfBlocks ==
  /\ NBlocks \in Nat /\ NBlocks >= 1
  /\ Len(BlockPtr) = NBlocks + 1
  /\ \A b \in 1..(NBlocks + 1) : BlockPtr[b] \in Nat
  /\ \A b \in 1..NBlocks :
       /\ BlockPtr[b] < BlockPtr[b + 1]
       /\ b + 1 \in 1..(NBlocks + 1)
       /\ Columns(b) \subseteq Col
       /\ \A j \in Nat : BlockPtr[b] <= j /\ j < BlockPtr[b + 1] <=> j \in Columns(b)
  /\ Col \subseteq Nat
<1>1. NBlocks \in Nat /\ NBlocks >= 1 /\ Len(BlockPtr) = NBlocks + 1
  BY PatternIsReplayable DEF NBlocks
<1>2. \A b \in 1..(NBlocks + 1) : BlockPtr[b] \in Nat
  BY PatternIsReplayable, <1>1
<1>3. ASSUME NEW b \in 1..NBlocks
      PROVE  /\ BlockPtr[b] < BlockPtr[b + 1]
             /\ b + 1 \in 1..(NBlocks + 1)
             /\ Columns(b) \subseteq Col
             /\ \A j \in Nat : BlockPtr[b] <= j /\ j < BlockPtr[b + 1] <=> j \in Columns(b)
             /\ Columns(b) \subseteq Nat
  <2>1. BlockPtr[b] < BlockPtr[b + 1]
    BY PatternIsReplayable
  <2>2. b \in 1..(NBlocks + 1) /\ b + 1 \in 1..(NBlocks + 1)
    BY <1>1
  <2>3. BlockPtr[b] \in Nat /\ BlockPtr[b + 1] \in Nat
    BY <1>2, <2>2
  <2>4. Columns(b) \subseteq Col
    BY DEF Col
  <2> QED
    BY <2>1, <2>2, <2>3, <2>4 DEF Columns
<1>4. Col \subseteq Nat
  BY <1>3 DEF Col
<1> QED
  BY <1>1, <1>2, <1>3, <1>4

LEMMA ShapeOfPattern ==
  /\ \A j \in Col : Len(U[j]) \in Nat /\ ColPerm[j] \in Nat
  /\ PipeRun \in Nat \ {0} /\ EpochMod \in Nat \ {0, 1}
  /\ "serial" \in Modes /\ Modes \subseteq {"serial", "levels", "pipelined"}
  BY PatternIsReplayable

\* A nonempty set of naturals has a least element, and Min is it.
LEMMA MinIsLeast ==
  ASSUME NEW S \in SUBSET Nat, S # {}
  PROVE  Min(S) \in S /\ \A x \in S : Min(S) <= x
<1>1. PICK m \in S : \A x \in S : ~ (<<x, m>> \in OpToRel(<, Nat))
  BY NatLessThanWellFounded, WFMin
<1>2. \A x \in S : ~(x < m)
  BY <1>1 DEF OpToRel
<1>3. \A x \in S : m <= x
  BY <1>2
<1> QED
  BY <1>3 DEF Min

LEMMA FirstBadIsColumn ==
  ASSUME NEW cs, bad \in SUBSET Col, NEW f \in FirstBad(cs)
  PROVE  f \in Col /\ Column(f) \in Nat
<1>1. f \in cs \cap bad
  BY MinIsLeast, ShapeOfBlocks DEF FirstBad
<1> QED
  BY <1>1, ShapeOfPattern DEF Column

LEMMA ReplayKeepsTypes ==
  ASSUME TypeOK, NEW cs
  PROVE  ReplayInOrder(cs, lcol) \in [Col -> {"stale", "fresh", "failed", "tainted"}]
  BY DEF ReplayInOrder, TypeOK

LEMMA ReplayMakesNothingStale ==
  ASSUME TypeOK, NEW cs, NEW j \in Col, lcol[j] # "stale"
  PROVE  ReplayInOrder(cs, lcol)[j] # "stale"
  BY DEF ReplayInOrder, TypeOK

LEMMA SlotKeepsTypes ==
  ASSUME NEW s \in {NoError, Interrupted} \cup Nat, NEW e \in {NoError, Interrupted} \cup Nat
  PROVE  KeepLowest(s, e) \in {NoError, Interrupted} \cup Nat
  BY DEF KeepLowest

LEMMA NumberMovesOn ==
  ASSUME TypeOK
  PROVE  NextEpoch \in 0..(EpochMod - 1) /\ NextEpoch >= 1
         /\ (~Wrapped => NextEpoch = epoch + 1)
<1>1. epoch \in 0..(EpochMod - 1) /\ EpochMod \in Nat /\ EpochMod > 1
  BY ShapeOfPattern DEF TypeOK
<1>2. CASE epoch + 1 = EpochMod
  <2>1. (epoch + 1) % EpochMod = 0
    BY <1>1, <1>2
  <2> QED
    BY <1>1, <2>1 DEF NextEpoch, Wrapped
<1>3. CASE epoch + 1 < EpochMod
  <2>1. (epoch + 1) % EpochMod = epoch + 1
    BY <1>1, <1>3
  <2> QED
    BY <1>1, <1>3, <2>1 DEF NextEpoch, Wrapped
<1> QED
  BY <1>1, <1>2, <1>3

-----------------------------------------------------------------------------
LEMMA InitInv == Init => Inv
<1> SUFFICES ASSUME Init PROVE Inv
  OBVIOUS
<1> USE ShapeOfPattern
<1>0. NBlocks \in Nat /\ NBlocks >= 1 /\ Col \subseteq Nat
  BY ShapeOfBlocks
<1>1. TypeOK
  <2>1. epoch \in 0..(EpochMod - 1) /\ done \in [Col -> 0..(EpochMod - 1)]
    BY DEF Init
  <2>2. mode \in [1..NBlocks -> Modes] /\ block \in 1..(NBlocks + 1)
    BY <1>0 DEF Init
  <2> QED
    BY <2>1, <2>2 DEF Init, TypeOK
<1>2. DriverPhases /\ MarksArePast /\ MarksAreReplayed /\ Ownership
  BY <1>0 DEF Init, DriverPhases, MarksArePast, MarksAreReplayed, Ownership
<1> QED
  BY <1>1, <1>2 DEF Inv

(***************************************************************************)
(* Types, one step per action.                                             *)
(***************************************************************************)
LEMMA FailTypes ==
  ASSUME NEW e \in {NoError, Interrupted} \cup Nat, Fail(e)
  PROVE  /\ phase' \in {"valid", "running", "invalid"}
         /\ at' \in {"idle", "block", "level", "pipe"}
         /\ error' \in {NoError, Interrupted} \cup Nat
         /\ epoch' \in 0..(EpochMod - 1)
         /\ done' \in [Col -> 0..(EpochMod - 1)]
  BY ShapeOfPattern DEF Fail

LEMMA DriverTypes == TypeOK /\ DriverPhases /\ (Begin \/ Driver) => TypeOK'
<1> SUFFICES ASSUME TypeOK, DriverPhases, Begin \/ Driver PROVE TypeOK'
  OBVIOUS
<1>0. NBlocks \in Nat /\ NBlocks >= 1 /\ (block <= NBlocks => block + 1 \in 1..(NBlocks + 1))
  BY ShapeOfBlocks DEF TypeOK
<1>1. CASE Begin
  <2>1. NextEpoch \in 0..(EpochMod - 1) /\ ClearedDone \in [Col -> 0..(EpochMod - 1)]
    BY NumberMovesOn, ShapeOfPattern DEF ClearedDone, TypeOK
  <2>2. epoch' \in 0..(EpochMod - 1) /\ done' \in [Col -> 0..(EpochMod - 1)]
    BY <1>1, <2>1 DEF Begin, TypeOK
  <2>3. mode' \in [1..NBlocks -> Modes] /\ bad' \subseteq Col /\ block' \in 1..(NBlocks + 1)
    BY <1>0, <1>1 DEF Begin
  <2> QED
    BY <1>1, <2>2, <2>3 DEF Begin, TypeOK, pieces
<1>2. CASE Succeed
  BY <1>2 DEF Succeed, TypeOK, pieces
<1>3. CASE BlockInterrupted
  BY <1>3, FailTypes DEF BlockInterrupted, TypeOK, pieces
<1>4. CASE SerialBlock
  <2>1. lcol' \in [Col -> {"stale", "fresh", "failed", "tainted"}]
    BY <1>4, ReplayKeepsTypes DEF SerialBlock
  <2>2. CASE FirstBad(Columns(block)) = {}
    BY <1>0, <1>4, <2>1, <2>2 DEF SerialBlock, TypeOK, pieces
  <2>3. CASE FirstBad(Columns(block)) # {}
    <3>1. PICK f \in FirstBad(Columns(block)) : Fail(Column(f))
      BY <1>4, <2>3 DEF SerialBlock
    <3>2. Column(f) \in Nat
      BY <3>1, FirstBadIsColumn DEF TypeOK
    <3> QED
      BY <1>4, <2>1, <2>3, <3>1, <3>2, FailTypes DEF SerialBlock, TypeOK, pieces
  <2> QED
    BY <2>2, <2>3
<1>5. CASE EnterLevels
  BY <1>5 DEF EnterLevels, TypeOK, pieces
<1>6. CASE LevelInterrupted
  BY <1>6, FailTypes DEF LevelInterrupted, TypeOK, pieces
<1>7. CASE ReplayLevel
  <2> DEFINE cs == LevelColumns(block, level)
             Stops(per) == UNION {FirstBad(RunOf(cs, per, j)) : j \in cs}
  <2>1. PICK per \in 1..Cardinality(cs) :
          /\ lcol' = [j \in Col |->
                        IF j \in cs THEN ReplayInOrder(RunOf(cs, per, j), lcol)[j] ELSE lcol[j]]
          /\ IF Stops(per) = {}
               THEN level' = level + 1 /\ UNCHANGED <<phase, at, error, epoch, done>>
               ELSE Fail(Min({Column(f) : f \in Stops(per)})) /\ level' = 0
    BY <1>7 DEF ReplayLevel
  <2>2. lcol' \in [Col -> {"stale", "fresh", "failed", "tainted"}]
    BY <2>1, ReplayKeepsTypes DEF TypeOK
  <2>3. CASE Stops(per) = {}
    <3>1. level' \in Nat /\ UNCHANGED <<phase, at, error, epoch, done>>
      BY <2>1, <2>3 DEF TypeOK
    <3> QED
      BY <3>1, <1>7, <2>2 DEF ReplayLevel, TypeOK, pieces
  <2>4. CASE Stops(per) # {}
    <3> DEFINE Offered == {Column(f) : f \in Stops(per)}
    <3>1. \A f \in Stops(per) : Column(f) \in Nat
      <4> TAKE f \in Stops(per)
      <4>1. PICK j \in cs : f \in FirstBad(RunOf(cs, per, j))
        OBVIOUS
      <4> QED
        BY <4>1, FirstBadIsColumn DEF TypeOK
    <3>2. Offered \in SUBSET Nat /\ Offered # {}
      BY <3>1, <2>4
    <3>3. Min(Offered) \in Nat
      BY <3>2, MinIsLeast
    <3>4. Fail(Min(Offered)) /\ level' = 0
      BY <2>1, <2>4
    <3> HIDE DEF Offered, Stops
    <3> QED
      BY <1>7, <2>2, <3>3, <3>4, FailTypes DEF ReplayLevel, TypeOK, pieces
  <2> QED
    BY <2>3, <2>4
<1>8. CASE LeaveLevels
  BY <1>0, <1>8 DEF LeaveLevels, TypeOK, pieces, DriverPhases
<1>9. CASE EnterPipe
  BY <1>9, ShapeOfBlocks DEF EnterPipe, TypeOK
<1>10. CASE LeavePipe
  <2>1. CASE failed = NoError
    BY <1>0, <1>10, <2>1 DEF LeavePipe, NoPieces, TypeOK, DriverPhases
  <2>2. CASE failed # NoError
    <3>1. Fail(failed) /\ failed \in {NoError, Interrupted} \cup Nat
      BY <1>10, <2>2 DEF LeavePipe, TypeOK
    <3> QED
      BY <1>10, <2>2, <3>1, FailTypes DEF LeavePipe, NoPieces, TypeOK
  <2> QED
    BY <2>1, <2>2
<1> QED
  BY <1>1, <1>2, <1>3, <1>4, <1>5, <1>6, <1>7, <1>8, <1>9, <1>10 DEF Driver

(***************************************************************************)
(* What a piece owns are columns of the block under replay.                *)
(***************************************************************************)
LEMMA PiecesRun ==
  ASSUME Inv, NEW q \in Piece, pc[q] # "gone"
  PROVE  at = "pipe" /\ phase = "running" /\ block \in 1..NBlocks
         /\ mode[block] = "pipelined"
  BY ShapeOfBlocks DEF Inv, DriverPhases, TypeOK

LEMMA OwnedAreColumns ==
  ASSUME Inv, NEW q \in Piece, Owning(q)
  PROVE  /\ \A j \in Nat : cur[q] <= j /\ j <= last[q] => j \in Columns(block) /\ j \in Col
         /\ cur[q] \in Col
<1>1. at = "pipe" /\ block \in 1..NBlocks
  BY PiecesRun DEF Owning
<1>2. BlockPtr[block] <= cur[q] /\ cur[q] <= last[q] /\ last[q] < BlockPtr[block + 1]
  BY <1>1 DEF Inv, Ownership
<1>3. cur[q] \in Nat /\ last[q] \in Nat /\ BlockPtr[block] \in Nat /\ BlockPtr[block + 1] \in Nat
  BY <1>1, ShapeOfBlocks DEF Inv, TypeOK
<1>4. \A j \in Nat : cur[q] <= j /\ j <= last[q] => j \in Columns(block)
  <2>1. \A j \in Nat : BlockPtr[block] <= j /\ j < BlockPtr[block + 1] => j \in Columns(block)
    BY <1>1, ShapeOfBlocks
  <2> QED
    BY <1>2, <1>3, <2>1
<1>5. Columns(block) \subseteq Col
  BY <1>1, ShapeOfBlocks
<1> QED
  BY <1>2, <1>3, <1>4, <1>5

LEMMA TakenRun ==
  ASSUME Inv, NEW q \in Piece, Take(q), next < BlockPtr[block + 1]
  PROVE  /\ cur' = [cur EXCEPT ![q] = next]
         /\ \E l \in Nat : /\ last' = [last EXCEPT ![q] = l]
                          /\ next <= l /\ l < next + PipeRun /\ l < BlockPtr[block + 1]
<1>1. at = "pipe" /\ block \in 1..NBlocks
  BY PiecesRun DEF Take
<1>2. next \in Nat /\ BlockPtr[block + 1] \in Nat /\ PipeRun \in Nat \ {0}
  BY <1>1, ShapeOfBlocks, ShapeOfPattern DEF Inv, TypeOK
<1> DEFINE Ends == {next + PipeRun, BlockPtr[block + 1]}
<1>3. Min(Ends) \in Ends /\ \A x \in Ends : Min(Ends) <= x
  <2>1. Ends \in SUBSET Nat /\ Ends # {}
    BY <1>2
  <2> HIDE DEF Ends
  <2> QED
    BY <2>1, MinIsLeast
<1>4. Min(Ends) - 1 \in Nat /\ next <= Min(Ends) - 1
      /\ Min(Ends) - 1 < next + PipeRun /\ Min(Ends) - 1 < BlockPtr[block + 1]
  BY <1>2, <1>3
<1>5. cur' = [cur EXCEPT ![q] = next] /\ last' = [last EXCEPT ![q] = Min(Ends) - 1]
  BY <1>2 DEF Take
<1> QED
  BY <1>4, <1>5

LEMMA PieceTypes ==
  ASSUME Inv, NEW q \in Piece, PieceStep(q)
  PROVE  TypeOK'
<1> USE DEF Inv
<1>1. CASE StartPiece(q)
  BY <1>1 DEF StartPiece, Goto, TypeOK, driver
<1>2. CASE Poll(q)
  BY <1>2 DEF Poll, Goto, TypeOK, driver
<1>3. CASE Raise(q)
  <2>1. KeepLowest(failed, Interrupted) \in {NoError, Interrupted} \cup Nat
    BY SlotKeepsTypes DEF TypeOK
  <2> QED
    BY <1>3, <2>1 DEF Raise, Goto, TypeOK, driver
<1>4. CASE Take(q)
  <2>1. next' \in Nat
    BY <1>4, ShapeOfPattern DEF Take, Advanced, TypeOK
  <2>2. cur' \in [Piece -> Nat] /\ last' \in [Piece -> Nat]
    <3>1. CASE next >= BlockPtr[block + 1]
      BY <1>4, <3>1 DEF Take, TypeOK
    <3>2. CASE ~(next >= BlockPtr[block + 1])
      <4>1. next < BlockPtr[block + 1]
        <5>1. block \in 1..NBlocks
          BY <1>4, PiecesRun DEF Take
        <5>2. BlockPtr[block + 1] \in Nat /\ next \in Nat
          BY <5>1, ShapeOfBlocks DEF TypeOK
        <5> QED
          BY <3>2, <5>2
      <4> QED
        BY <1>4, <4>1, TakenRun DEF TypeOK
    <3> QED
      BY <3>1, <3>2
  <2>3. pos' \in [Piece -> Nat]
    BY <1>4 DEF Take, TypeOK
  <2>4. pc' \in [Piece -> {"ready", "top", "raise", "take", "wait", "publish", "gone"}]
    BY <1>4 DEF Take, Goto, TypeOK
  <2> QED
    BY <1>4, <2>1, <2>2, <2>3, <2>4 DEF Take, TypeOK, driver
<1>5. CASE Consume(q)
  <2>1. pos' \in [Piece -> Nat]
    BY <1>5 DEF Consume, TypeOK
  <2> QED
    BY <1>5, <2>1 DEF Consume, TypeOK, driver
<1>6. CASE Pivot(q)
  <2>1. cur[q] \in Col
    BY <1>6, OwnedAreColumns DEF Pivot, Owning
  <2>2. failed' \in {NoError, Interrupted} \cup Nat
    <3>1. failed' = failed \/ failed' = KeepLowest(failed, Column(cur[q]))
      BY <1>6 DEF Pivot
    <3>2. Column(cur[q]) \in Nat /\ failed \in {NoError, Interrupted} \cup Nat
      BY <2>1, ShapeOfPattern DEF Column, TypeOK
    <3> QED
      BY <3>1, <3>2, SlotKeepsTypes
  <2>3. lcol' \in [Col -> {"stale", "fresh", "failed", "tainted"}]
    BY <1>6 DEF Pivot, TypeOK
  <2> QED
    BY <1>6, <2>2, <2>3 DEF Pivot, Goto, TypeOK, driver
<1>7. CASE Publish(q)
  <2>1. cur[q] \in Col
    BY <1>7, OwnedAreColumns DEF Publish, Owning
  <2>2. done' \in [Col -> 0..(EpochMod - 1)]
    BY <1>7 DEF Publish, Release, TypeOK
  <2>3. cur' \in [Piece -> Nat] /\ pos' \in [Piece -> Nat] /\ last' \in [Piece -> Nat]
    <3>1. CASE cur[q] < last[q]
      <4>1. cur' = [cur EXCEPT ![q] = cur[q] + 1] /\ pos' = [pos EXCEPT ![q] = 0] /\ last' = last
        BY <1>7, <3>1 DEF Publish
      <4>2. cur[q] + 1 \in Nat
        BY DEF TypeOK
      <4> QED
        BY <4>1, <4>2 DEF TypeOK
    <3>2. CASE ~(cur[q] < last[q])
      BY <1>7, <3>2 DEF Publish, TypeOK
    <3> QED
      BY <3>1, <3>2
  <2>4. pc' \in [Piece -> {"ready", "top", "raise", "take", "wait", "publish", "gone"}]
    BY <1>7 DEF Publish, Goto, TypeOK
  <2> QED
    BY <1>7, <2>2, <2>3, <2>4 DEF Publish, TypeOK, driver
<1> QED
  BY <1>1, <1>2, <1>3, <1>4, <1>5, <1>6, <1>7 DEF PieceStep

-----------------------------------------------------------------------------
(***************************************************************************)
(* The rest of the invariant, one step per action.                         *)
(***************************************************************************)
LEMMA FailInv ==
  ASSUME NEW e, Fail(e), \A q \in Piece : pc'[q] = "gone"
  PROVE  DriverPhases' /\ MarksArePast' /\ MarksAreReplayed' /\ Ownership'
<1>1. phase' = "invalid" /\ at' = "idle" /\ epoch' = 0 /\ done' = [j \in Col |-> 0]
  BY DEF Fail
<1> QED
  BY <1>1 DEF DriverPhases, MarksArePast, MarksAreReplayed, Ownership

LEMMA BeginInv == Inv /\ Begin => Inv'
<1> SUFFICES ASSUME Inv, Begin PROVE Inv'
  OBVIOUS
<1>1. TypeOK'
  BY DriverTypes DEF Inv
<1>2. DriverPhases'
  BY DEF Inv, Begin, DriverPhases, pieces
<1>3. CASE \E b \in 1..NBlocks : mode'[b] = "pipelined"
  <2>1. epoch' = NextEpoch /\ done' = ClearedDone
    BY <1>3 DEF Begin
  <2>2. \A j \in Col : done'[j] < epoch'
    <3> TAKE j \in Col
    <3>1. done[j] \in Nat /\ epoch \in Nat /\ done[j] <= epoch
      BY ShapeOfPattern DEF Inv, TypeOK, MarksArePast
    <3>2. NextEpoch \in Nat /\ NextEpoch >= 1 /\ (~Wrapped => NextEpoch = epoch + 1)
      BY NumberMovesOn, ShapeOfPattern DEF Inv
    <3> QED
      BY <2>1, <3>1, <3>2 DEF ClearedDone
  <2>3. \A j \in Col : done'[j] \in Nat /\ epoch' \in Nat
    BY <1>1, ShapeOfPattern DEF TypeOK
  <2>4. MarksArePast' /\ MarksAreReplayed'
    BY <2>2, <2>3 DEF MarksArePast, MarksAreReplayed, Published
  <2> QED
    BY <1>1, <1>2, <2>4 DEF Inv, Begin, Ownership
<1>4. CASE ~\E b \in 1..NBlocks : mode'[b] = "pipelined"
  <2>1. epoch' = epoch /\ done' = done
    BY <1>4 DEF Begin
  <2>2. MarksArePast' /\ MarksAreReplayed'
    BY <1>4, <2>1 DEF Inv, MarksArePast, MarksAreReplayed
  <2> QED
    BY <1>1, <1>2, <2>2 DEF Inv, Begin, Ownership
<1> QED
  BY <1>3, <1>4

\* A driver step that replays nothing back and only moves on keeps the marks.
LEMMA MovingOnKeepsMarks ==
  ASSUME Inv, TypeOK', phase = "running", at # "pipe",
         UNCHANGED <<mode, epoch, done>>,
         block' = block \/ (block <= NBlocks /\ block' = block + 1),
         \A j \in Col : lcol[j] # "stale" => lcol'[j] # "stale"
  PROVE  MarksArePast' /\ MarksAreReplayed'
<1>1. MarksArePast'
  BY DEF Inv, MarksArePast
<1>a. block \in 1..(NBlocks + 1) /\ block' \in 1..(NBlocks + 1)
  BY DEF Inv, TypeOK
<1>b. BlockPtr[block] \in Nat /\ BlockPtr[block'] \in Nat
  BY <1>a, ShapeOfBlocks
<1>c. block' = block => BlockPtr[block] <= BlockPtr[block']
  BY <1>b
<1>d. block <= NBlocks /\ block' = block + 1 => BlockPtr[block] <= BlockPtr[block']
  <2> SUFFICES ASSUME block <= NBlocks, block' = block + 1
               PROVE  BlockPtr[block] <= BlockPtr[block + 1]
    OBVIOUS
  <2>1. block \in 1..NBlocks
    BY <1>a, ShapeOfBlocks
  <2>2. BlockPtr[block] < BlockPtr[block + 1] /\ BlockPtr[block + 1] \in Nat
    BY <2>1, <1>b, ShapeOfBlocks
  <2> QED
    BY <2>2, <1>b
<1>2. BlockPtr[block] \in Nat /\ BlockPtr[block'] \in Nat /\ BlockPtr[block] <= BlockPtr[block']
  BY <1>b, <1>c, <1>d
<1>3. \A j \in Col : j \in Nat /\ (j < BlockPtr[block] => j < BlockPtr[block'])
  BY <1>2, ShapeOfBlocks
<1>4. MarksAreReplayed'
  BY <1>3 DEF Inv, MarksAreReplayed, Published
<1> QED
  BY <1>1, <1>4

LEMMA DriverInv == Inv /\ Driver => Inv'
<1> SUFFICES ASSUME Inv, Driver PROVE Inv'
  OBVIOUS
<1>0. TypeOK'
  BY DriverTypes DEF Inv
<1>g. at # "pipe" => \A q \in Piece : pc[q] = "gone"
  BY DEF Inv, DriverPhases
<1>1. CASE Succeed
  BY <1>0, <1>1 DEF Succeed, Inv, DriverPhases, MarksArePast, MarksAreReplayed, Ownership, pieces
<1>2. CASE BlockInterrupted \/ LevelInterrupted
  BY <1>0, <1>2, <1>g, FailInv DEF BlockInterrupted, LevelInterrupted, Inv, pieces
<1>3. CASE SerialBlock
  <2>1. CASE FirstBad(Columns(block)) = {}
    <3>1. \A j \in Col : lcol[j] # "stale" => lcol'[j] # "stale"
      BY <1>3, ReplayMakesNothingStale DEF SerialBlock, Inv
    <3>2. MarksArePast' /\ MarksAreReplayed'
      BY <1>0, <1>3, <2>1, <3>1, MovingOnKeepsMarks DEF SerialBlock, Inv, DriverPhases
    <3> QED
      BY <1>0, <1>3, <2>1, <3>2 DEF SerialBlock, Inv, DriverPhases, Ownership, pieces
  <2>2. CASE FirstBad(Columns(block)) # {}
    BY <1>0, <1>3, <1>g, <2>2, FailInv DEF SerialBlock, Inv, pieces
  <2> QED
    BY <2>1, <2>2
<1>4. CASE EnterLevels
  <2>1. MarksArePast' /\ MarksAreReplayed'
    BY <1>0, <1>4, MovingOnKeepsMarks DEF EnterLevels, Inv, DriverPhases
  <2> QED
    BY <1>0, <1>4, <2>1 DEF EnterLevels, Inv, DriverPhases, Ownership, pieces
<1>5. CASE ReplayLevel
  <2>1. CASE \E e : Fail(e)
    BY <1>0, <1>5, <1>g, <2>1, FailInv DEF ReplayLevel, Inv, pieces
  <2>2. CASE ~\E e : Fail(e)
    <3>1. PICK per :
            /\ lcol' = [j \in Col |->
                          IF j \in LevelColumns(block, level)
                          THEN ReplayInOrder(RunOf(LevelColumns(block, level), per, j), lcol)[j]
                          ELSE lcol[j]]
            /\ UNCHANGED <<phase, at, error, epoch, done>>
      BY <1>5, <2>2, Zenon DEF ReplayLevel
    <3>2. \A j \in Col : lcol[j] # "stale" => lcol'[j] # "stale"
      BY <3>1, ReplayMakesNothingStale DEF Inv
    <3>3. MarksArePast' /\ MarksAreReplayed'
      BY <1>0, <1>5, <3>1, <3>2, MovingOnKeepsMarks DEF ReplayLevel, Inv, DriverPhases
    <3> QED
      BY <1>0, <1>5, <3>1, <3>3 DEF ReplayLevel, Inv, DriverPhases, Ownership, pieces
  <2> QED
    BY <2>1, <2>2
<1>6. CASE LeaveLevels
  <2>1. MarksArePast' /\ MarksAreReplayed'
    BY <1>0, <1>6, MovingOnKeepsMarks DEF LeaveLevels, Inv, DriverPhases
  <2> QED
    BY <1>0, <1>6, <2>1 DEF LeaveLevels, Inv, DriverPhases, Ownership, pieces
<1>7. CASE EnterPipe
  <2>1. MarksArePast' /\ MarksAreReplayed'
    BY <1>0, <1>7 DEF EnterPipe, Inv, MarksArePast, MarksAreReplayed, Published, DriverPhases
  <2>2. \A q \in Piece : pc'[q] \in {"ready", "gone"}
    BY <1>7 DEF EnterPipe
  <2>3. DriverPhases' /\ block \in 1..NBlocks
    BY <1>7, ShapeOfBlocks DEF EnterPipe, Inv, DriverPhases, TypeOK
  <2>4. Ownership'
    BY <1>7, <2>2, <2>3, ShapeOfBlocks DEF EnterPipe, Ownership, Owning
  <2> QED
    BY <1>0, <2>1, <2>3, <2>4 DEF Inv
<1>8. CASE LeavePipe
  <2>0. \A q \in Piece : pc'[q] = "gone"
    BY <1>8 DEF LeavePipe, NoPieces
  <2>1. CASE failed # NoError
    BY <1>0, <1>8, <2>0, <2>1, FailInv DEF LeavePipe, Inv
  <2>2. CASE failed = NoError
    <3>1. phase = "running" /\ block \in 1..NBlocks
      BY <1>8, ShapeOfBlocks DEF LeavePipe, Inv, DriverPhases, TypeOK
    <3>2. at' = "block" /\ block' = block + 1
          /\ UNCHANGED <<phase, epoch, done, mode, lcol>>
      BY <1>8, <2>2 DEF LeavePipe
    <3>3. BlockPtr[block] \in Nat /\ BlockPtr[block + 1] \in Nat
          /\ BlockPtr[block] < BlockPtr[block + 1] /\ Col \subseteq Nat
      BY <3>1, ShapeOfBlocks
    <3>4. MarksArePast' /\ MarksAreReplayed'
      BY <3>1, <3>2, <3>3 DEF Inv, MarksArePast, MarksAreReplayed, Published
    <3> QED
      BY <1>0, <2>0, <3>1, <3>2, <3>4 DEF Inv, DriverPhases, Ownership
  <2> QED
    BY <2>1, <2>2
<1> QED
  BY <1>1, <1>2, <1>3, <1>4, <1>5, <1>6, <1>7, <1>8 DEF Driver

-----------------------------------------------------------------------------
LEMMA PieceKeepsPhases ==
  ASSUME Inv, NEW q \in Piece, PieceStep(q)
  PROVE  DriverPhases' /\ UNCHANGED driver /\ at = "pipe" /\ block \in 1..NBlocks
<1>1. pc[q] # "gone" /\ UNCHANGED driver
  BY DEF PieceStep, StartPiece, Poll, Raise, Take, Consume, Pivot, Publish
<1>2. at = "pipe" /\ block \in 1..NBlocks
  BY <1>1, PiecesRun
<1> QED
  BY <1>1, <1>2 DEF Inv, DriverPhases, driver

\* A step that moves no ownership and publishes nothing.
LEMMA QuietStep ==
  ASSUME Inv, at = "pipe", UNCHANGED <<driver, done, next, cur, last>>,
         \A r \in Piece : pc'[r] \in {"wait", "publish"} <=> Owning(r),
         \A r \in Piece : pc'[r] = "publish" => lcol'[cur[r]] # "stale",
         \A j \in Col : lcol[j] # "stale" => lcol'[j] # "stale"
  PROVE  MarksArePast' /\ MarksAreReplayed' /\ Ownership'
<1>1. \A r \in Piece : Owns(r)' = Owns(r) /\ (Owning(r)' <=> Owning(r))
  BY DEF Owns, Owning
<1>2. MarksArePast'
  BY DEF Inv, MarksArePast, driver
<1>3. MarksAreReplayed'
  BY <1>1 DEF Inv, MarksAreReplayed, driver, Published
<1>4. Ownership'
  BY <1>1 DEF Inv, Ownership, driver
<1> QED
  BY <1>2, <1>3, <1>4

LEMMA TakeInv ==
  ASSUME Inv, NEW q \in Piece, Take(q)
  PROVE  MarksArePast' /\ MarksAreReplayed' /\ Ownership'
<1>1. at = "pipe" /\ block \in 1..NBlocks /\ UNCHANGED driver
  BY PiecesRun DEF Take
<1>2. BlockPtr[block] \in Nat /\ BlockPtr[block + 1] \in Nat /\ Col \subseteq Nat
      /\ next \in Nat /\ PipeRun \in Nat /\ PipeRun > 0 /\ next' = next + PipeRun
  BY <1>1, ShapeOfBlocks, ShapeOfPattern DEF Inv, TypeOK, Take, Advanced
<1>3. \A r \in Piece : cur[r] \in Nat /\ last[r] \in Nat
  BY DEF Inv, TypeOK
<1>4. MarksArePast'
  BY <1>1 DEF Inv, Take, MarksArePast, driver
<1>5. ~Owning(q) /\ \A r \in Piece \ {q} : pc'[r] = pc[r]
  BY DEF Take, Goto, Owning, Inv, TypeOK
<1>6. CASE next >= BlockPtr[block + 1]
  <2>1. pc'[q] = "gone" /\ UNCHANGED <<cur, last, done, lcol>>
    BY <1>6 DEF Take, Goto, Inv, TypeOK
  <2>2. \A r \in Piece : Owns(r)' = Owns(r) /\ (Owning(r)' <=> Owning(r))
    BY <1>5, <2>1 DEF Owns, Owning
  <2>3. MarksAreReplayed'
    <3> SUFFICES ASSUME phase' = "running", \E b \in 1..NBlocks : mode'[b] = "pipelined",
                        NEW j \in Col, Published(j)'
                 PROVE  /\ lcol'[j] # "stale"
                        /\ \/ j < BlockPtr[block]'
                           \/ /\ at' = "pipe" /\ j < next' /\ j < BlockPtr[block + 1]'
                              /\ \A r \in Piece : j \notin Owns(r)'
      BY DEF MarksAreReplayed
    <3>1. Published(j)
      BY <1>1, <2>1 DEF Published, driver
    <3>2. j \in Nat
      BY <1>2
    <3> QED
      BY <1>1, <1>2, <2>1, <2>2, <3>1, <3>2 DEF Inv, MarksAreReplayed, driver
  <2>4. Ownership'
    <3>1. \A r \in Piece : Owning(r)' => last[r] < next'
      BY <1>1, <1>2, <1>3, <2>2 DEF Inv, Ownership
    <3>2. \A r \in Piece : pc'[r] = "publish" => pc[r] = "publish"
      BY <1>5, <2>1
    <3> QED
      BY <1>1, <1>2, <2>1, <2>2, <3>1, <3>2 DEF Inv, Ownership, driver
  <2> QED
    BY <1>4, <2>3, <2>4
<1>7. CASE ~(next >= BlockPtr[block + 1])
  <2>0. next < BlockPtr[block + 1]
    BY <1>2, <1>7
  <2>1. PICK l \in Nat : /\ last' = [last EXCEPT ![q] = l]
                         /\ next <= l /\ l < next + PipeRun /\ l < BlockPtr[block + 1]
    BY <2>0, TakenRun
  <2>2. cur' = [cur EXCEPT ![q] = next] /\ pc'[q] = "wait" /\ UNCHANGED <<done, lcol>>
    BY <1>7 DEF Take, Goto, Inv, TypeOK
  <2>3. cur'[q] = next /\ last'[q] = l
        /\ \A r \in Piece \ {q} : cur'[r] = cur[r] /\ last'[r] = last[r]
    BY <2>1, <2>2 DEF Inv, TypeOK
  <2>4. Owns(q)' = next..l /\ Owning(q)'
        /\ \A r \in Piece \ {q} : Owns(r)' = Owns(r) /\ (Owning(r)' <=> Owning(r))
    BY <1>5, <2>2, <2>3 DEF Owns, Owning
  <2>5. MarksAreReplayed'
    <3> SUFFICES ASSUME phase' = "running", \E b \in 1..NBlocks : mode'[b] = "pipelined",
                        NEW j \in Col, Published(j)'
                 PROVE  /\ lcol'[j] # "stale"
                        /\ \/ j < BlockPtr[block]'
                           \/ /\ at' = "pipe" /\ j < next' /\ j < BlockPtr[block + 1]'
                              /\ \A r \in Piece : j \notin Owns(r)'
      BY DEF MarksAreReplayed
    <3>1. Published(j) /\ j \in Nat
      BY <1>1, <1>2, <2>2 DEF Published, driver
    <3>2. /\ lcol[j] # "stale"
          /\ \/ j < BlockPtr[block]
             \/ /\ j < next /\ j < BlockPtr[block + 1]
                /\ \A r \in Piece : j \notin Owns(r)
      BY <1>1, <3>1 DEF Inv, MarksAreReplayed, driver
    <3>3. j < next => j \notin Owns(q)'
      BY <1>2, <2>4, <3>1
    <3> QED
      BY <1>1, <1>2, <2>2, <2>4, <3>1, <3>2, <3>3 DEF driver
  <2>6. Ownership'
    <3>1. \A r \in Piece : Owning(r)' =>
            /\ BlockPtr[block] <= cur'[r] /\ cur'[r] <= last'[r]
            /\ last'[r] < BlockPtr[block + 1] /\ last'[r] < next'
      <4> TAKE r \in Piece
      <4>1. CASE r = q
        BY <1>1, <1>2, <2>1, <2>3, <4>1 DEF Inv, Ownership
      <4>2. CASE r # q
        BY <1>1, <1>2, <1>3, <2>3, <2>4, <4>2 DEF Inv, Ownership
      <4> QED
        BY <4>1, <4>2
    <3>2. \A r \in Piece : pc'[r] = "publish" => lcol'[cur'[r]] # "stale"
      BY <1>1, <1>5, <2>2, <2>3 DEF Inv, Ownership
    <3>3. \A r, t \in Piece : r # t /\ Owning(r)' /\ Owning(t)' =>
            last'[r] < cur'[t] \/ last'[t] < cur'[r]
      <4> TAKE r, t \in Piece
      <4>1. CASE r # q /\ t # q
        BY <1>1, <2>3, <2>4, <4>1 DEF Inv, Ownership
      <4>2. CASE r = q /\ t # q
        BY <1>1, <2>3, <2>4, <4>2 DEF Inv, Ownership
      <4>3. CASE r # q /\ t = q
        BY <1>1, <2>3, <2>4, <4>3 DEF Inv, Ownership
      <4> QED
        BY <4>1, <4>2, <4>3
    <3>4. BlockPtr[block] <= next'
      BY <1>1, <1>2 DEF Inv, Ownership
    <3> QED
      BY <1>1, <3>1, <3>2, <3>3, <3>4 DEF Ownership, driver
  <2> QED
    BY <1>4, <2>5, <2>6
<1> QED
  BY <1>6, <1>7

LEMMA PublishInv ==
  ASSUME Inv, NEW q \in Piece, Publish(q)
  PROVE  MarksArePast' /\ MarksAreReplayed' /\ Ownership'
<1> DEFINE c == cur[q]
<1>1. at = "pipe" /\ block \in 1..NBlocks /\ UNCHANGED <<driver, lcol, next, last>>
  BY PiecesRun DEF Publish
<1>2. Owning(q) /\ pc[q] = "publish" /\ c \in Col /\ c \in Nat
  BY OwnedAreColumns, ShapeOfBlocks DEF Publish, Owning
<1>3. BlockPtr[block] <= c /\ c <= last[q] /\ last[q] < BlockPtr[block + 1] /\ last[q] < next
      /\ lcol[c] # "stale"
  BY <1>1, <1>2 DEF Inv, Ownership
<1>4. /\ BlockPtr[block + 1] \in Nat /\ BlockPtr[block] \in Nat /\ Col \subseteq Nat
      /\ next \in Nat /\ epoch \in Nat
      /\ \A r \in Piece : cur[r] \in Nat /\ last[r] \in Nat
  BY <1>1, ShapeOfBlocks, ShapeOfPattern DEF Inv, TypeOK
<1>5. done' = [done EXCEPT ![c] = epoch]
  BY DEF Publish, Release
<1>6. \A r \in Piece \ {q} : pc'[r] = pc[r] /\ cur'[r] = cur[r]
  BY DEF Publish, Goto, Inv, TypeOK
<1>7. \/ cur'[q] = c + 1 /\ c < last[q] /\ pc'[q] = "wait"
      \/ pc'[q] = "top" /\ cur'[q] = c
  BY DEF Publish, Goto, Inv, TypeOK
<1>8. /\ \A r \in Piece \ {q} : Owns(r)' = Owns(r) /\ (Owning(r)' <=> Owning(r))
      /\ Owns(q)' \subseteq Owns(q) /\ c \notin Owns(q)'
      /\ (Owning(q)' => cur'[q] = c + 1 /\ c < last[q])
  BY <1>1, <1>2, <1>4, <1>6, <1>7 DEF Owns, Owning
<1>9. \A r \in Piece \ {q} : c \notin Owns(r)
  <2> TAKE r \in Piece \ {q}
  <2>1. CASE Owning(r)
    <3>1. last[q] < cur[r] \/ last[r] < c
      BY <1>1, <1>2, <2>1 DEF Inv, Ownership
    <3> QED
      BY <1>2, <1>3, <1>4, <3>1 DEF Owns
  <2>2. CASE ~Owning(r)
    BY <2>2 DEF Owns, Owning
  <2> QED
    BY <2>1, <2>2
<1>10. MarksArePast'
  BY <1>1, <1>4, <1>5 DEF Inv, TypeOK, MarksArePast, driver
<1>11. MarksAreReplayed'
  <2> SUFFICES ASSUME phase' = "running", \E b \in 1..NBlocks : mode'[b] = "pipelined",
                      NEW j \in Col, Published(j)'
               PROVE  /\ lcol'[j] # "stale"
                      /\ \/ j < BlockPtr[block]'
                         \/ /\ at' = "pipe" /\ j < next' /\ j < BlockPtr[block + 1]'
                            /\ \A r \in Piece : j \notin Owns(r)'
    BY DEF MarksAreReplayed
  <2>1. CASE j = c
    <3>1. \A r \in Piece : j \notin Owns(r)'
      BY <1>8, <1>9, <2>1
    <3>2. j < next /\ j < BlockPtr[block + 1]
      BY <1>2, <1>3, <1>4, <2>1
    <3> QED
      BY <1>1, <1>3, <2>1, <3>1, <3>2 DEF driver
  <2>2. CASE j # c
    <3>1. Published(j)
      BY <1>1, <1>5, <2>2 DEF Published, driver, Inv, TypeOK
    <3> QED
      BY <1>1, <1>8, <3>1 DEF Inv, MarksAreReplayed, driver
  <2> QED
    BY <2>1, <2>2
<1>12. Ownership'
  <2>1. \A r \in Piece : Owning(r)' =>
          /\ BlockPtr[block] <= cur'[r] /\ cur'[r] <= last[r]
          /\ last[r] < BlockPtr[block + 1] /\ last[r] < next
    BY <1>1, <1>2, <1>3, <1>4, <1>6, <1>8 DEF Inv, Ownership
  <2>2. \A r \in Piece : pc'[r] = "publish" => lcol[cur'[r]] # "stale"
    BY <1>1, <1>6, <1>7 DEF Inv, Ownership
  <2>3. \A r, t \in Piece : r # t /\ Owning(r)' /\ Owning(t)' =>
          last[r] < cur'[t] \/ last[t] < cur'[r]
    <3> TAKE r, t \in Piece
    <3> SUFFICES ASSUME r # t, Owning(r)', Owning(t)' PROVE last[r] < cur'[t] \/ last[t] < cur'[r]
      OBVIOUS
    <3>1. Owning(r) /\ Owning(t)
      BY <1>2, <1>8
    <3>2. last[r] < cur[t] \/ last[t] < cur[r]
      BY <1>1, <3>1 DEF Inv, Ownership
    <3>3. cur'[r] \in Nat /\ cur'[t] \in Nat /\ cur[r] <= cur'[r] /\ cur[t] <= cur'[t]
      BY <1>4, <1>6, <1>7
    <3> QED
      BY <1>4, <3>2, <3>3
  <2>4. BlockPtr[block] <= next
    BY <1>1 DEF Inv, Ownership
  <2> QED
    BY <1>1, <2>1, <2>2, <2>3, <2>4 DEF Ownership, driver
<1> QED
  BY <1>10, <1>11, <1>12

LEMMA PieceInv ==
  ASSUME Inv, NEW q \in Piece, PieceStep(q)
  PROVE  Inv'
<1>0. TypeOK' /\ DriverPhases' /\ UNCHANGED driver /\ at = "pipe"
  BY PieceTypes, PieceKeepsPhases
<1>1. CASE Take(q)
  BY <1>0, <1>1, TakeInv DEF Inv
<1>2. CASE Publish(q)
  BY <1>0, <1>2, PublishInv DEF Inv
<1>3. CASE StartPiece(q) \/ Poll(q) \/ Raise(q) \/ Consume(q)
  <2>1. UNCHANGED <<done, lcol, next, cur, last>>
    BY <1>3 DEF StartPiece, Poll, Raise, Consume
  <2>2. \A r \in Piece : \/ pc'[r] = pc[r]
                         \/ /\ r = q /\ pc[r] \notin {"wait", "publish"}
                            /\ pc'[r] \notin {"wait", "publish"}
    BY <1>3 DEF StartPiece, Poll, Raise, Consume, Goto, Inv, TypeOK
  <2>3. \A r \in Piece : pc'[r] \in {"wait", "publish"} <=> Owning(r)
    BY <2>2 DEF Owning
  <2>4. \A r \in Piece : pc'[r] = "publish" => lcol'[cur[r]] # "stale"
    BY <1>0, <2>1, <2>2 DEF Inv, Ownership
  <2> QED
    BY <1>0, <2>1, <2>3, <2>4, QuietStep DEF Inv
<1>4. CASE Pivot(q)
  <2>1. UNCHANGED <<done, next, cur, last>>
    BY <1>4 DEF Pivot
  <2>2. pc[q] = "wait" /\ pc' = [pc EXCEPT ![q] = "publish"]
    BY <1>4 DEF Pivot, Goto
  <2>3. cur[q] \in Col
    BY <2>2, OwnedAreColumns DEF Owning
  <2>4. PICK v \in {"failed", "fresh", "tainted"} : lcol' = [lcol EXCEPT ![cur[q]] = v]
    BY <1>4 DEF Pivot
  <2>5. \A r \in Piece : pc'[r] \in {"wait", "publish"} <=> Owning(r)
    BY <2>2 DEF Owning, Inv, TypeOK
  <2>6. \A j \in Col : lcol[j] # "stale" => lcol'[j] # "stale"
    BY <2>4 DEF Inv, TypeOK
  <2>7. \A r \in Piece : pc'[r] = "publish" => lcol'[cur[r]] # "stale"
    <3> SUFFICES ASSUME NEW r \in Piece, pc'[r] = "publish" PROVE lcol'[cur[r]] # "stale"
      OBVIOUS
    <3>1. CASE r = q
      BY <2>3, <2>4, <3>1 DEF Inv, TypeOK
    <3>2. CASE r # q
      <4>1. pc[r] = "publish"
        BY <2>2, <3>2 DEF Inv, TypeOK
      <4>2. lcol[cur[r]] # "stale" /\ cur[r] \in Col
        BY <1>0, <4>1, OwnedAreColumns DEF Inv, Ownership, Owning
      <4> QED
        BY <2>6, <4>2
    <3> QED
      BY <3>1, <3>2
  <2> QED
    BY <1>0, <2>1, <2>5, <2>6, <2>7, QuietStep DEF Inv
<1> QED
  BY <1>1, <1>2, <1>3, <1>4 DEF PieceStep

LEMMA NextInv == Inv /\ [Next]_vars => Inv'
<1> SUFFICES ASSUME Inv, [Next]_vars PROVE Inv'
  OBVIOUS
<1>1. CASE UNCHANGED vars
  <2>1. UNCHANGED <<phase, at, block, level, mode, bad, epoch, error, flag, done, lcol,
                    next, stop, failed, pc, cur, last, pos>>
    BY <1>1 DEF vars, driver, pieces
  <2>2. TypeOK'
    BY <2>1 DEF Inv, TypeOK
  <2>3. DriverPhases' /\ MarksArePast' /\ MarksAreReplayed' /\ Ownership'
    BY <2>1 DEF Inv, DriverPhases, MarksArePast, MarksAreReplayed, Ownership, Published,
                Owns, Owning
  <2> QED
    BY <2>2, <2>3 DEF Inv
<1>2. CASE Interrupt
  <2>1. UNCHANGED <<phase, at, block, level, mode, bad, epoch, error, done, lcol,
                    next, stop, failed, pc, cur, last, pos>>
    BY <1>2 DEF Interrupt, driver, pieces
  <2>2. TypeOK'
    BY <1>2, <2>1 DEF Inv, TypeOK, Interrupt
  <2>3. DriverPhases' /\ MarksArePast' /\ MarksAreReplayed' /\ Ownership'
    BY <2>1 DEF Inv, DriverPhases, MarksArePast, MarksAreReplayed, Ownership, Published,
                Owns, Owning
  <2> QED
    BY <2>2, <2>3 DEF Inv
<1> QED
  BY <1>1, <1>2, BeginInv, DriverInv, PieceInv DEF Next

LEMMA InvAlways == Spec => []Inv
  BY InitInv, NextInv, PTL DEF Spec

-----------------------------------------------------------------------------
(***************************************************************************)
(* The levels: LevelOf exists, as every column reads columns before it,    *)
(* and puts each column after the columns it reads.                        *)
(***************************************************************************)
LEMMA BlocksAscend ==
  ASSUME NEW a \in 1..(NBlocks + 1), NEW b \in 1..(NBlocks + 1), a <= b
  PROVE  BlockPtr[a] <= BlockPtr[b]
<1>0. NBlocks \in Nat /\ \A c \in 1..(NBlocks + 1) : BlockPtr[c] \in Nat
  BY ShapeOfBlocks
<1> DEFINE Lower == {k \in Nat : a + k <= NBlocks + 1 /\ BlockPtr[a + k] < BlockPtr[a]}
<1>1. Lower = {}
  <2> SUFFICES ASSUME Lower # {} PROVE FALSE
    OBVIOUS
  <2>1. Min(Lower) \in Lower /\ \A k \in Lower : Min(Lower) <= k
    <3> Lower \in SUBSET Nat
      OBVIOUS
    <3> HIDE DEF Lower
    <3> QED
      BY MinIsLeast
  <2>2. PICK k \in Lower : \A i \in Lower : k <= i
    BY <2>1
  <2>3. k \in Nat /\ k # 0 /\ a + k <= NBlocks + 1 /\ BlockPtr[a + k] < BlockPtr[a]
    BY <1>0
  <2>4. k - 1 \notin Lower
    BY <2>2, <2>3
  <2>5. k - 1 \in Nat /\ a + (k - 1) \in 1..NBlocks /\ (a + (k - 1)) + 1 = a + k
    BY <1>0, <2>3
  <2>6. ~(BlockPtr[a + (k - 1)] < BlockPtr[a])
    BY <1>0, <2>4, <2>5
  <2>7. BlockPtr[a + (k - 1)] < BlockPtr[a + k]
    BY <2>5, PatternIsReplayable
  <2>8. BlockPtr[a + k] \in Nat /\ BlockPtr[a + (k - 1)] \in Nat /\ BlockPtr[a] \in Nat
    <3>1. a + k \in 1..(NBlocks + 1) /\ a + (k - 1) \in 1..(NBlocks + 1)
      BY <1>0, <2>5
    <3> QED
      BY <1>0, <3>1
  <2> QED
    BY <2>3, <2>6, <2>7, <2>8
<1>2. b - a \in Nat /\ a + (b - a) = b /\ b <= NBlocks + 1
  BY <1>0
<1>3. b - a \notin Lower
  BY <1>1
<1>4. ~(BlockPtr[b] < BlockPtr[a])
  BY <1>2, <1>3
<1> QED
  BY <1>0, <1>4

LEMMA ReadsBehind ==
  ASSUME NEW b \in 1..NBlocks, NEW j \in Columns(b)
  PROVE  /\ j \in Col
         /\ \A p \in ToSet(U[j]) : p \in Columns(b) /\ p \in Col /\ p \in Nat /\ j \in Nat /\ p < j
<1>1. j \in Col /\ j \in Nat /\ Columns(b) \subseteq Col /\ Col \subseteq Nat
  BY ShapeOfBlocks
<1>2. U[j] \in Seq(Col) /\ \A i \in 1..Len(U[j]) : U[j][i] \in Columns(b) /\ U[j][i] < j
  BY <1>1, PatternIsReplayable
<1>3. DOMAIN U[j] = 1..Len(U[j])
  BY <1>2
<1> QED
  BY <1>1, <1>2, <1>3 DEF ToSet

LEMMA ColumnOfBlock ==
  ASSUME NEW j \in Col
  PROVE  /\ \E b \in 1..NBlocks : j \in Columns(b)
         /\ BlockPtr[1] <= j /\ j < BlockPtr[NBlocks + 1]
         /\ j \in Nat /\ BlockPtr[1] \in Nat /\ BlockPtr[NBlocks + 1] \in Nat
<1>1. PICK b \in 1..NBlocks : j \in Columns(b)
  BY DEF Col
<1>2. j \in Nat /\ BlockPtr[b] <= j /\ j < BlockPtr[b + 1]
  BY <1>1, ShapeOfBlocks
<1>3. NBlocks \in Nat /\ NBlocks >= 1
      /\ 1 \in 1..(NBlocks + 1) /\ b \in 1..(NBlocks + 1) /\ b + 1 \in 1..(NBlocks + 1)
      /\ NBlocks + 1 \in 1..(NBlocks + 1)
  BY ShapeOfBlocks
<1>4. BlockPtr[1] <= BlockPtr[b] /\ BlockPtr[b + 1] <= BlockPtr[NBlocks + 1]
  BY <1>3, BlocksAscend
<1>5. \A c \in 1..(NBlocks + 1) : BlockPtr[c] \in Nat
  BY ShapeOfBlocks
<1> QED
  BY <1>1, <1>2, <1>3, <1>4, <1>5

\* A nonempty set of naturals with a bound has a greatest element, and Max is it.
LEMMA MaxIsGreatest ==
  ASSUME NEW S \in SUBSET Nat, S # {}, NEW n \in Nat, \A x \in S : x <= n
  PROVE  Max(S) \in S /\ \A x \in S : x <= Max(S)
<1> DEFINE Below == {n - x : x \in S}
<1>1. Below \in SUBSET Nat /\ Below # {}
  <2>1. \A x \in S : n - x \in Nat
    OBVIOUS
  <2>2. PICK x \in S : TRUE
    OBVIOUS
  <2> QED
    BY <2>1, <2>2
<1>2. Min(Below) \in Below /\ \A y \in Below : Min(Below) <= y
  <2> HIDE DEF Below
  <2> QED
    BY <1>1, MinIsLeast
<1>3. PICK m \in S : Min(Below) = n - m
  BY <1>2
<1>4. \A x \in S : n - m <= n - x
  BY <1>2, <1>3
<1>5. \A x \in S : m >= x
  BY <1>4
<1> QED
  BY <1>5 DEF Max

\* What LevelOf is at j, where the levels of other columns are g's.
LevelFrom(g, j) ==
  IF U[j] = <<>> THEN 0 ELSE 1 + Max({g[p] : p \in ToSet(U[j])})

LEMMA LevelIsBounded ==
  ASSUME NEW j \in Col, NEW g \in [Col -> Nat], \A i \in Col : i < j => g[i] <= i
  PROVE  /\ LevelFrom(g, j) \in Nat /\ LevelFrom(g, j) <= j
         /\ \A p \in ToSet(U[j]) : g[p] < LevelFrom(g, j)
<1>1. PICK b \in 1..NBlocks : j \in Columns(b)
  BY ColumnOfBlock
<1>2. \A p \in ToSet(U[j]) : p \in Col /\ p \in Nat /\ p < j
  BY <1>1, ReadsBehind
<1>3. j \in Nat
  BY ColumnOfBlock
<1>4. CASE U[j] = <<>>
  <2>1. ToSet(U[j]) = {}
    BY <1>4 DEF ToSet
  <2> QED
    BY <1>3, <1>4, <2>1 DEF LevelFrom
<1>5. CASE U[j] # <<>>
  <2> DEFINE Levels == {g[p] : p \in ToSet(U[j])}
  <2>1. Levels \in SUBSET Nat /\ \A x \in Levels : x <= j /\ x + 1 <= j
    BY <1>2, <1>3
  <2>2. Levels # {}
    <3>1. U[j] \in Seq(Col)
      BY PatternIsReplayable
    <3>2. Len(U[j]) >= 1 /\ Len(U[j]) \in Nat
      BY <1>5, <3>1, EmptySeq, LenProperties
    <3>3. 1 \in DOMAIN U[j]
      BY <3>1, <3>2, LenProperties
    <3>4. U[j][1] \in ToSet(U[j])
      BY <3>3 DEF ToSet
    <3> QED
      BY <3>4
  <2>3. Max(Levels) \in Levels /\ \A x \in Levels : x <= Max(Levels)
    <3> HIDE DEF Levels
    <3> QED
      BY <1>3, <2>1, <2>2, MaxIsGreatest
  <2>4. LevelFrom(g, j) = 1 + Max(Levels)
    BY <1>5 DEF LevelFrom
  <2>5. LevelFrom(g, j) \in Nat /\ LevelFrom(g, j) <= j
    BY <1>3, <2>1, <2>3, <2>4
  <2>6. \A p \in ToSet(U[j]) : g[p] < LevelFrom(g, j)
    <3>1. \A p \in ToSet(U[j]) : g[p] \in Levels
      OBVIOUS
    <3> HIDE DEF Levels
    <3>2. PICK m \in Levels : m = Max(Levels)
      BY <2>3
    <3>3. m \in Nat /\ LevelFrom(g, j) = 1 + m /\ \A x \in Levels : x \in Nat /\ x <= m
      BY <2>1, <2>3, <2>4, <3>2
    <3>4. ASSUME NEW p \in ToSet(U[j]) PROVE g[p] < LevelFrom(g, j)
      <4>1. g[p] \in Nat /\ g[p] <= m
        BY <3>1, <3>3
      <4> QED
        BY <3>3, <4>1
    <3> QED
      BY <3>4
  <2> QED
    BY <2>5, <2>6
<1> QED
  BY <1>4, <1>5

LEMMA LevelsExist ==
  \E g \in [Col -> Nat] :
    /\ g = [j \in Col |-> LevelFrom(g, j)]
    /\ \A j \in Col : g[j] <= j
<1> DEFINE Right(n, g) == /\ g \in [Col -> Nat]
                          /\ \A j \in Col : j < n => g[j] = LevelFrom(g, j) /\ g[j] <= j
           Wrong == {n \in Nat : ~\E g : Right(n, g)}
<1>0. Col \subseteq Nat
  BY ShapeOfBlocks
<1>1. Wrong = {}
  <2> SUFFICES ASSUME Wrong # {} PROVE FALSE
    OBVIOUS
  <2>1. Wrong \in SUBSET Nat
    OBVIOUS
  <2>2. PICK n \in Wrong : \A i \in Wrong : n <= i
    <3> HIDE DEF Wrong
    <3> QED
      BY <2>1, MinIsLeast
  <2>3. Right(0, [j \in Col |-> 0])
    BY <1>0
  <2>4. n \in Nat /\ n # 0 /\ n - 1 \in Nat
    BY <2>3
  <2>5. n - 1 \notin Wrong
    BY <2>2, <2>4
  <2>6. PICK g : Right(n - 1, g)
    BY <2>4, <2>5
  <2>7. CASE n - 1 \notin Col
    <3>1. \A j \in Col : j < n => j < n - 1
      BY <1>0, <2>4, <2>7
    <3>2. Right(n, g)
      BY <2>6, <3>1
    <3> QED
      BY <3>2
  <2>8. CASE n - 1 \in Col
    <3> DEFINE c == n - 1
               h == [g EXCEPT ![c] = LevelFrom(g, c)]
    <3>1. \A i \in Col : i < c => g[i] <= i
      BY <2>6
    <3>2. LevelFrom(g, c) \in Nat /\ LevelFrom(g, c) <= c
      <4>1. g \in [Col -> Nat]
        BY <2>6
      <4> HIDE DEF c
      <4> QED
        BY <2>8, <3>1, <4>1, LevelIsBounded DEF c
    <3>3. h \in [Col -> Nat] /\ h[c] = LevelFrom(g, c) /\ \A i \in Col : i < c => h[i] = g[i]
      BY <2>4, <2>6, <2>8, <3>2
    <3>4. \A j \in Col : j <= c => LevelFrom(h, j) = LevelFrom(g, j)
      <4> SUFFICES ASSUME NEW j \in Col, j <= c PROVE LevelFrom(h, j) = LevelFrom(g, j)
        OBVIOUS
      <4>1. PICK b \in 1..NBlocks : j \in Columns(b)
        BY ColumnOfBlock
      <4>2. \A p \in ToSet(U[j]) : p \in Col /\ p \in Nat /\ j \in Nat /\ p < j
        BY <4>1, ReadsBehind
      <4>3. \A p \in ToSet(U[j]) : p \in Col /\ p < c
        BY <2>4, <4>2
      <4>4. \A p \in ToSet(U[j]) : h[p] = g[p]
        <5> HIDE DEF h, c
        <5> QED
          BY <3>3, <4>3
      <4> HIDE DEF h
      <4>5. {h[p] : p \in ToSet(U[j])} = {g[p] : p \in ToSet(U[j])}
        BY <4>4
      <4> QED
        BY <4>5 DEF LevelFrom
    <3>5. \A j \in Col : j < n => h[j] = LevelFrom(h, j) /\ h[j] <= j
      <4> SUFFICES ASSUME NEW j \in Col, j < n PROVE h[j] = LevelFrom(h, j) /\ h[j] <= j
        OBVIOUS
      <4>0. j \in Nat /\ (j = c \/ j < c) /\ j <= c
        BY <1>0, <2>4
      <4>1. CASE j = c
        <5> HIDE DEF h, c
        <5> QED
          BY <3>2, <3>3, <3>4, <4>0, <4>1
      <4>2. CASE j < c
        <5>1. g[j] = LevelFrom(g, j) /\ g[j] <= j
          BY <2>6, <4>2
        <5> HIDE DEF h, c
        <5> QED
          BY <3>3, <3>4, <4>0, <4>2, <5>1
      <4> QED
        BY <4>0, <4>1, <4>2
    <3>6. Right(n, h)
      <4> HIDE DEF h
      <4> QED
        BY <3>3, <3>5
    <3> QED
      BY <3>6
  <2> QED
    BY <2>7, <2>8
<1>2. NBlocks \in Nat /\ NBlocks >= 1 /\ BlockPtr[NBlocks + 1] \in Nat
  BY ShapeOfBlocks
<1>3. PICK g : Right(BlockPtr[NBlocks + 1], g)
  BY <1>1, <1>2
<1>4. \A j \in Col : j < BlockPtr[NBlocks + 1]
  BY ColumnOfBlock
<1>5. \A j \in Col : g[j] = LevelFrom(g, j) /\ g[j] <= j
  BY <1>3, <1>4
<1>6. g = [j \in Col |-> LevelFrom(g, j)]
  BY <1>3, <1>5
<1> QED
  BY <1>3, <1>5, <1>6

LEMMA LevelOfIsLevelFrom ==
  LevelOf = [j \in Col |-> LevelFrom(LevelOf, j)]
<1>1. PICK g : g = [j \in Col |-> LevelFrom(g, j)]
  BY LevelsExist
<1>2. LevelOf = CHOOSE f : f = [j \in Col |-> LevelFrom(f, j)]
  BY DEF LevelOf, LevelFrom
<1> QED
  BY <1>1, <1>2

\* Every level is a natural number, and a column comes after the columns it reads.
LEMMA LevelsAscend ==
  /\ \A j \in Col : LevelOf[j] \in Nat /\ LevelOf[j] <= j
  /\ \A j \in Col : \A p \in ToSet(U[j]) : LevelOf[p] < LevelOf[j]
<1>0. Col \subseteq Nat
  BY ShapeOfBlocks
<1> DEFINE Wrong == {j \in Col : ~(LevelOf[j] \in Nat /\ LevelOf[j] <= j)}
<1>1. Wrong = {}
  <2> SUFFICES ASSUME Wrong # {} PROVE FALSE
    OBVIOUS
  <2>1. Wrong \in SUBSET Nat
    BY <1>0
  <2>2. PICK j \in Wrong : \A i \in Wrong : j <= i
    <3> HIDE DEF Wrong
    <3> QED
      BY <2>1, MinIsLeast
  <2>3. j \in Col /\ j \in Nat /\ \A i \in Col : i < j => LevelOf[i] \in Nat /\ LevelOf[i] <= i
    BY <1>0, <2>2
  <2> DEFINE g == [i \in Col |-> IF i < j THEN LevelOf[i] ELSE 0]
  <2>4. g \in [Col -> Nat] /\ \A i \in Col : i < j => g[i] <= i /\ g[i] = LevelOf[i]
    BY <2>3
  <2>5. \A p \in ToSet(U[j]) : p \in Col /\ p < j
    <3>1. PICK b \in 1..NBlocks : j \in Columns(b)
      BY <2>3, ColumnOfBlock
    <3> QED
      BY <3>1, ReadsBehind
  <2> HIDE DEF g
  <2>6. LevelFrom(g, j) \in Nat /\ LevelFrom(g, j) <= j
    BY <2>3, <2>4, LevelIsBounded
  <2>7. LevelOf[j] = LevelFrom(g, j)
    <3>1. LevelOf[j] = LevelFrom(LevelOf, j)
      BY <2>3, LevelOfIsLevelFrom
    <3>2. {LevelOf[p] : p \in ToSet(U[j])} = {g[p] : p \in ToSet(U[j])}
      BY <2>4, <2>5
    <3> QED
      BY <3>1, <3>2 DEF LevelFrom
  <2> QED
    BY <2>2, <2>6, <2>7
<1>2. \A j \in Col : LevelOf[j] \in Nat /\ LevelOf[j] <= j
  BY <1>1
<1>3. ASSUME NEW j \in Col PROVE \A p \in ToSet(U[j]) : LevelOf[p] < LevelOf[j]
  <2>1. LevelOf \in [Col -> Nat]
    BY <1>2, LevelOfIsLevelFrom
  <2>2. \A p \in ToSet(U[j]) : LevelOf[p] < LevelFrom(LevelOf, j)
    BY <1>2, <2>1, LevelIsBounded
  <2>3. LevelOf[j] = LevelFrom(LevelOf, j)
    BY LevelOfIsLevelFrom
  <2> QED
    BY <2>2, <2>3
<1> QED
  BY <1>2, <1>3

\* The levels counted are the levels there are.
LEMMA LevelsAreCounted ==
  ASSUME NEW b \in 1..NBlocks
  PROVE  \A j \in Columns(b) : LevelOf[j] < LevelCount(b)
<1> DEFINE Levels == {LevelOf[j] : j \in Columns(b)}
<1>1. Columns(b) \subseteq Col /\ BlockPtr[b] \in Columns(b)
  BY ShapeOfBlocks
<1>2. NBlocks \in Nat /\ NBlocks >= 1 /\ BlockPtr[NBlocks + 1] \in Nat
  BY ShapeOfBlocks
<1>3. \A j \in Columns(b) : j \in Nat /\ j < BlockPtr[NBlocks + 1]
  BY <1>1, ColumnOfBlock
<1>4. Levels \in SUBSET Nat /\ Levels # {} /\ \A x \in Levels : x <= BlockPtr[NBlocks + 1]
  BY <1>1, <1>2, <1>3, LevelsAscend
<1>5. Max(Levels) \in Levels /\ \A x \in Levels : x <= Max(Levels)
  <2> HIDE DEF Levels
  <2> QED
    BY <1>2, <1>4, MaxIsGreatest
<1>6. LevelCount(b) = 1 + Max(Levels)
  BY DEF LevelCount
<1>7. \A j \in Columns(b) : LevelOf[j] \in Levels
  OBVIOUS
<1> HIDE DEF Levels
<1>8. PICK m \in Levels : m = Max(Levels)
  BY <1>5
<1>9. m \in Nat /\ LevelCount(b) = 1 + m /\ \A x \in Levels : x \in Nat /\ x <= m
  BY <1>4, <1>5, <1>6, <1>8
<1>10. ASSUME NEW j \in Columns(b) PROVE LevelOf[j] < LevelCount(b)
  <2>1. LevelOf[j] \in Nat /\ LevelOf[j] <= m
    BY <1>7, <1>9
  <2> QED
    BY <1>9, <2>1
<1> QED
  BY <1>10

-----------------------------------------------------------------------------
(***************************************************************************)
(* What a refactor returns: the second inductive invariant.  The driver    *)
(* leaves fresh columns behind it and finds stale ones ahead.              *)
(***************************************************************************)
BehindAndAhead ==
  phase = "running" => \A j \in Col :
    /\ j < BlockPtr[block] => lcol[j] = "fresh"
    /\ at = "block" /\ j >= BlockPtr[block] => lcol[j] = "stale"
    /\ block <= NBlocks /\ j >= BlockPtr[block + 1] => lcol[j] = "stale"

LevelsAreFresh ==
  at = "level" => \A j \in Columns(block) : LevelOf[j] < level => lcol[j] = "fresh"

\* A waiting piece computed with replayed columns only.
ConsumedIsReplayed ==
  \A q \in Piece : pc[q] = "wait" =>
    /\ pos[q] <= Len(U[cur[q]])
    /\ \A k \in 1..pos[q] : lcol[U[cur[q]][k]] # "stale"

\* The counter passes no column that nobody replays.
CounterPassesTaken ==
  \A j \in Columns(block) : j < next =>
    \/ lcol[j] # "stale"
    \/ \E q \in Piece : Owning(q) /\ cur[q] <= j /\ j <= last[q]

\* A column goes wrong only at or after one whose pivot vanishes, and the first
\* of those always fails.
Spoiled(j) == \E i \in bad \cap Columns(block) : i <= j
SpoiledAfterBad ==
  \A j \in Columns(block) : lcol[j] \in {"failed", "tainted"} => Spoiled(j)
FirstBadFails ==
  \A f \in FirstBad(Columns(block)) : lcol[f] \in {"stale", "failed"}

\* What the error slot and the pieces that left say.
SlotIsHonest ==
  /\ failed \notin {NoError, Interrupted} =>
       \E j \in Columns(block) : failed = Column(j) /\ Spoiled(j)
  /\ \A j \in Columns(block) : lcol[j] = "failed" => failed # NoError
  /\ stop => failed = Interrupted
PiecesLeaveTheEnd ==
  ~stop /\ (\E q \in Piece : q <= PieceCount(block) /\ pc[q] = "gone") =>
    next >= BlockPtr[block + 1]

PipeState ==
  at = "pipe" =>
    /\ ConsumedIsReplayed /\ CounterPassesTaken
    /\ SpoiledAfterBad /\ FirstBadFails
    /\ SlotIsHonest /\ PiecesLeaveTheEnd

Result == BehindAndAhead /\ LevelsAreFresh /\ PipeState /\ ValidIsFresh

LEMMA FirstBadIsLeast ==
  ASSUME NEW cs \in SUBSET Nat, NEW f \in FirstBad(cs)
  PROVE  f \in cs \cap bad /\ \A i \in cs \cap bad : f <= i
<1>1. cs \cap bad \in SUBSET Nat /\ cs \cap bad # {} /\ f = Min(cs \cap bad)
  BY DEF FirstBad
<1> QED
  BY <1>1, MinIsLeast

LEMMA NoFirstBad ==
  ASSUME NEW cs, FirstBad(cs) = {}
  PROVE  cs \cap bad = {}
  BY DEF FirstBad

LEMMA InvConsumes == Inv => ConsumesOnlyReplayed
<1> SUFFICES ASSUME Inv, at = "pipe", NEW j \in Columns(block), Published(j)
             PROVE  lcol[j] # "stale"
  BY DEF ConsumesOnlyReplayed
<1>1. phase = "running" /\ block \in 1..NBlocks /\ mode[block] = "pipelined"
  BY ShapeOfBlocks DEF Inv, DriverPhases, TypeOK
<1>2. j \in Col
  BY <1>1, ShapeOfBlocks
<1> QED
  BY <1>1, <1>2 DEF Inv, MarksAreReplayed

LEMMA InitResult == Init => Result
  BY DEF Init, Result, BehindAndAhead, LevelsAreFresh, PipeState, ValidIsFresh

LEMMA BeginResult == Inv /\ Begin => Result'
<1> SUFFICES ASSUME Inv, Begin PROVE Result'
  OBVIOUS
<1>1. block' = 1 /\ phase' = "running" /\ at' = "block" /\ lcol' = [j \in Col |-> "stale"]
  BY DEF Begin
<1>2. \A j \in Col : ~(j < BlockPtr[1])
  BY ColumnOfBlock
<1> QED
  BY <1>1, <1>2 DEF Result, BehindAndAhead, LevelsAreFresh, PipeState, ValidIsFresh

\* The blocks before and after the one under replay keep what they had, and
\* this one is done: the driver moves on.
LEMMA NextBlockResult ==
  ASSUME Inv, Result, phase = "running", block \in 1..NBlocks,
         phase' = "running", at' = "block", block' = block + 1,
         \A j \in Columns(block) : lcol'[j] = "fresh",
         \A j \in Col : j \notin Columns(block) => lcol'[j] = lcol[j]
  PROVE  Result'
<1>1. BehindAndAhead'
  <2> SUFFICES ASSUME NEW j \in Col
               PROVE  /\ j < BlockPtr[block + 1] => lcol'[j] = "fresh"
                      /\ j >= BlockPtr[block + 1] => lcol'[j] = "stale"
                      /\ block + 1 <= NBlocks /\ j >= BlockPtr[block + 2] => lcol'[j] = "stale"
    BY DEF BehindAndAhead
  <2>1. j \in Nat /\ BlockPtr[block] \in Nat /\ BlockPtr[block + 1] \in Nat
        /\ BlockPtr[block] < BlockPtr[block + 1]
        /\ (BlockPtr[block] <= j /\ j < BlockPtr[block + 1] <=> j \in Columns(block))
    BY ShapeOfBlocks
  <2>2. /\ j < BlockPtr[block] => lcol[j] = "fresh"
        /\ j >= BlockPtr[block + 1] => lcol[j] = "stale"
    BY DEF Result, BehindAndAhead
  <2>3. block + 1 <= NBlocks => BlockPtr[block + 2] \in Nat
                                /\ BlockPtr[block + 1] < BlockPtr[block + 2]
    <3> SUFFICES ASSUME block + 1 <= NBlocks
                 PROVE  BlockPtr[block + 2] \in Nat /\ BlockPtr[block + 1] < BlockPtr[block + 2]
      OBVIOUS
    <3>1. block + 1 \in 1..NBlocks /\ (block + 1) + 1 = block + 2 /\ block + 2 \in 1..(NBlocks + 1)
      BY ShapeOfBlocks
    <3> QED
      BY <3>1, ShapeOfBlocks
  <2> QED
    BY <2>1, <2>2, <2>3
<1> QED
  BY <1>1 DEF Result, LevelsAreFresh, PipeState, ValidIsFresh

LEMMA FailResult ==
  ASSUME NEW e, Fail(e), UNCHANGED <<block, bad>>,
         e = Interrupted \/ bad \cap Columns(block) # {}
  PROVE  Result'
  BY DEF Fail, Result, BehindAndAhead, LevelsAreFresh, PipeState, ValidIsFresh

LEMMA SerialResult ==
  ASSUME Inv, Result, SerialBlock
  PROVE  Result'
<1> DEFINE cs == Columns(block)
<1>1. block \in 1..NBlocks /\ phase = "running"
  BY ShapeOfBlocks DEF SerialBlock, Inv, TypeOK, DriverPhases
<1>2. cs \subseteq Col /\ cs \subseteq Nat
  BY <1>1, ShapeOfBlocks
<1>3. CASE FirstBad(cs) = {}
  <2>1. cs \cap bad = {}
    BY <1>3, NoFirstBad
  <2>2. lcol' = ReplayInOrder(cs, lcol) /\ block' = block + 1 /\ UNCHANGED <<phase, at>>
    BY <1>3 DEF SerialBlock
  <2>3. \A j \in cs : \A p \in ToSet(U[j]) : p \in cs
    BY <1>1, ReadsBehind
  <2>4. \A j \in cs : lcol'[j] = "fresh"
    BY <1>2, <1>3, <2>1, <2>2, <2>3 DEF ReplayInOrder
  <2>5. \A j \in Col : j \notin cs => lcol'[j] = lcol[j]
    BY <2>2 DEF ReplayInOrder
  <2>6. at = "block"
    BY DEF SerialBlock
  <2> QED
    BY <1>1, <2>2, <2>4, <2>5, <2>6, NextBlockResult
<1>4. CASE FirstBad(cs) # {}
  <2>1. PICK f \in FirstBad(cs) : Fail(Column(f)) /\ UNCHANGED <<block, bad>>
    BY <1>4 DEF SerialBlock
  <2>2. f \in cs \cap bad
    BY <1>2, <2>1, FirstBadIsLeast
  <2> QED
    BY <2>1, <2>2, FailResult
<1> QED
  BY <1>3, <1>4

LEMMA LevelResult ==
  ASSUME Inv, Result, ReplayLevel
  PROVE  Result'
<1> DEFINE cs == LevelColumns(block, level)
           Stops(per) == UNION {FirstBad(RunOf(cs, per, j)) : j \in cs}
<1>1. block \in 1..NBlocks /\ phase = "running" /\ at = "level" /\ level \in Nat
  BY ShapeOfBlocks DEF ReplayLevel, Inv, TypeOK, DriverPhases
<1>2. Columns(block) \subseteq Col /\ Columns(block) \subseteq Nat /\ cs \subseteq Columns(block)
  BY <1>1, ShapeOfBlocks DEF LevelColumns
<1>3. PICK per \in 1..Cardinality(cs) :
        /\ lcol' = [j \in Col |->
                      IF j \in cs THEN ReplayInOrder(RunOf(cs, per, j), lcol)[j] ELSE lcol[j]]
        /\ IF Stops(per) = {}
             THEN level' = level + 1 /\ UNCHANGED <<phase, at, error, epoch, done>>
             ELSE Fail(Min({Column(f) : f \in Stops(per)})) /\ level' = 0
  BY DEF ReplayLevel
<1>4. \A j \in cs : RunOf(cs, per, j) \subseteq cs /\ j \in RunOf(cs, per, j)
  BY DEF RunOf
<1>5. UNCHANGED <<block, bad>>
  BY DEF ReplayLevel
<1>6. CASE Stops(per) = {}
  <2>1. level' = level + 1 /\ UNCHANGED <<phase, at>>
    BY <1>3, <1>6
  <2>2. ASSUME NEW j \in cs PROVE lcol'[j] = "fresh"
    <3>1. FirstBad(RunOf(cs, per, j)) = {}
      BY <1>6
    <3>2. j \notin bad
      BY <1>4, <3>1, NoFirstBad
    <3>3. j \in Columns(block) /\ LevelOf[j] = level /\ j \in Col
      BY <1>2 DEF LevelColumns
    <3>4. ASSUME NEW p \in ToSet(U[j]) PROVE lcol[p] = "fresh"
      <4>1. p \in Columns(block) /\ LevelOf[p] < level
        BY <1>1, <3>3, ReadsBehind, LevelsAscend
      <4> QED
        BY <1>1, <4>1 DEF Result, LevelsAreFresh
    <3>5. ReplayInOrder(RunOf(cs, per, j), lcol)[j] = "fresh"
      <4> HIDE DEF cs
      <4> QED
        BY <1>4, <3>1, <3>2, <3>3, <3>4 DEF ReplayInOrder
    <3> QED
      BY <1>3, <3>3, <3>5
  <2>3. \A j \in Col : j \notin cs => lcol'[j] = lcol[j]
    BY <1>3
  <2>4. LevelsAreFresh'
    <3> SUFFICES ASSUME NEW j \in Columns(block), LevelOf[j] < level + 1
                 PROVE  lcol'[j] = "fresh"
      BY <1>5, <2>1 DEF LevelsAreFresh
    <3>1. j \in Col /\ LevelOf[j] \in Nat
      BY <1>2, LevelsAscend
    <3>2. CASE LevelOf[j] = level
      BY <2>2, <3>2 DEF LevelColumns
    <3>3. CASE LevelOf[j] < level
      <4>1. lcol[j] = "fresh"
        BY <1>1, <3>3 DEF Result, LevelsAreFresh
      <4> QED
        BY <2>2, <2>3, <3>1, <4>1
    <3> QED
      BY <1>1, <3>1, <3>2, <3>3
  <2>5. BehindAndAhead'
    <3>1. \A j \in Col : /\ j < BlockPtr[block] => j \notin Columns(block)
                         /\ j >= BlockPtr[block + 1] => j \notin Columns(block)
      BY <1>1, ShapeOfBlocks
    <3> QED
      BY <1>1, <1>2, <1>5, <2>1, <2>3, <3>1 DEF Result, BehindAndAhead
  <2> QED
    BY <1>1, <2>1, <2>4, <2>5 DEF Result, PipeState, ValidIsFresh
<1>7. CASE Stops(per) # {}
  <2>1. PICK j \in cs : FirstBad(RunOf(cs, per, j)) # {}
    BY <1>7
  <2>2. bad \cap Columns(block) # {}
    BY <1>2, <1>4, <2>1 DEF FirstBad
  <2>3. \E e : Fail(e)
    BY <1>3, <1>7
  <2> QED
    BY <1>5, <2>2, <2>3, FailResult
<1> QED
  BY <1>6, <1>7

LEMMA LeaveLevelsResult ==
  ASSUME Inv, Result, LeaveLevels
  PROVE  Result'
<1>1. block \in 1..NBlocks /\ phase = "running" /\ at = "level" /\ level = LevelCount(block)
  BY ShapeOfBlocks DEF LeaveLevels, Inv, TypeOK, DriverPhases
<1>2. \A j \in Columns(block) : lcol[j] = "fresh"
  BY <1>1, LevelsAreCounted DEF Result, LevelsAreFresh
<1> QED
  BY <1>1, <1>2, NextBlockResult DEF LeaveLevels

\* A block has a column, so a pipelined replay has a piece.
LEMMA SomePiece ==
  ASSUME NEW b \in 1..NBlocks
  PROVE  PieceCount(b) >= 1 /\ 1 \in Piece
<1> DEFINE c == Cardinality(Columns(b))
           w == (c + PipeRun - 1) \div PipeRun
<1>1. Pieces \in Nat /\ Pieces >= 1 /\ PipeRun \in Nat /\ PipeRun >= 1
  BY PatternIsReplayable
<1>2. c \in Nat /\ c >= 1
  <2>1. BlockPtr[b] \in Nat /\ BlockPtr[b + 1] \in Nat /\ BlockPtr[b] < BlockPtr[b + 1]
    BY ShapeOfBlocks
  <2>2. IsFiniteSet(Columns(b)) /\ BlockPtr[b] \in Columns(b)
    <3>1. BlockPtr[b] \in Int /\ BlockPtr[b + 1] - 1 \in Int
      BY <2>1
    <3>2. IsFiniteSet(BlockPtr[b]..(BlockPtr[b + 1] - 1))
      BY <3>1, FS_Interval
    <3> QED
      BY <2>1, <3>2 DEF Columns
  <2>3. c \in Nat /\ (c = 0 <=> Columns(b) = {})
    BY <2>2, FS_CardinalityType, FS_EmptySet
  <2> QED
    BY <2>2, <2>3
<1>3. w \in Nat /\ w >= 1
  <2> HIDE DEF c
  <2> QED
    BY <1>1, <1>2
<1>4. Min({Pieces, w}) \in {Pieces, w}
  <2>1. {Pieces, w} \in SUBSET Nat /\ {Pieces, w} # {}
    BY <1>1, <1>3
  <2> QED
    BY <2>1, MinIsLeast
<1>5. PieceCount(b) >= 1
  <2> HIDE DEF w
  <2>1. PieceCount(b) \in {Pieces, w}
    BY <1>4 DEF PieceCount, w
  <2> QED
    BY <1>1, <1>3, <2>1
<1> QED
  BY <1>1, <1>5 DEF Piece

LEMMA EnterPipeResult ==
  ASSUME Inv, Result, EnterPipe
  PROVE  Result'
<1>1. block \in 1..NBlocks /\ phase = "running" /\ at = "block"
  BY ShapeOfBlocks DEF EnterPipe, Inv, TypeOK, DriverPhases
<1>2. /\ at' = "pipe" /\ next' = BlockPtr[block] /\ stop' = FALSE /\ failed' = NoError
      /\ pc' = [q \in Piece |-> IF q <= PieceCount(block) THEN "ready" ELSE "gone"]
      /\ UNCHANGED <<phase, block, bad, lcol>>
  BY DEF EnterPipe
<1>3. \A j \in Columns(block) : j \in Col /\ j \in Nat /\ BlockPtr[block] <= j /\ BlockPtr[block] \in Nat
  <2>1. Columns(block) \subseteq Col /\ Col \subseteq Nat /\ BlockPtr[block] \in Nat
    BY <1>1, ShapeOfBlocks
  <2>2. \A j \in Nat : j \in Columns(block) => BlockPtr[block] <= j
    BY <1>1, ShapeOfBlocks
  <2> QED
    BY <2>1, <2>2
<1>4. \A j \in Columns(block) : lcol[j] = "stale"
  BY <1>1, <1>3 DEF Result, BehindAndAhead
<1>5. BehindAndAhead' /\ LevelsAreFresh' /\ ValidIsFresh'
  BY <1>1, <1>2 DEF Result, BehindAndAhead, LevelsAreFresh, ValidIsFresh
<1>6. \A f \in FirstBad(Columns(block)) : f \in Columns(block)
  BY <1>3, FirstBadIsLeast
<1>7. PipeState'
  <2>1. ConsumedIsReplayed'
    BY <1>2 DEF ConsumedIsReplayed
  <2>2. CounterPassesTaken'
    BY <1>2, <1>3 DEF CounterPassesTaken
  <2>3. SpoiledAfterBad' /\ FirstBadFails'
    BY <1>2, <1>4, <1>6 DEF SpoiledAfterBad, FirstBadFails, FirstBad
  <2>4. SlotIsHonest'
    BY <1>2, <1>4 DEF SlotIsHonest
  <2>5. PiecesLeaveTheEnd'
    BY <1>2 DEF PiecesLeaveTheEnd, PieceCount
  <2> QED
    BY <2>1, <2>2, <2>3, <2>4, <2>5 DEF PipeState
<1> QED
  BY <1>5, <1>7 DEF Result

\* When every piece has left and nothing was interrupted, every column of the
\* block has been replayed.
LEMMA AllReplayed ==
  ASSUME Inv, Result, at = "pipe", \A q \in Piece : pc[q] = "gone", failed # Interrupted
  PROVE  \A j \in Columns(block) : lcol[j] # "stale"
<1>1. block \in 1..NBlocks
  BY ShapeOfBlocks DEF Inv, TypeOK, DriverPhases
<1>2. ~stop /\ PieceCount(block) >= 1 /\ 1 \in Piece
  BY <1>1, SomePiece DEF Result, PipeState, SlotIsHonest
<1>3. next >= BlockPtr[block + 1]
  BY <1>2 DEF Result, PipeState, PiecesLeaveTheEnd
<1>4. \A j \in Columns(block) : j < next
  <2>1. Columns(block) \subseteq Nat /\ BlockPtr[block + 1] \in Nat /\ next \in Nat
    BY <1>1, ShapeOfBlocks DEF Inv, TypeOK
  <2>2. \A j \in Nat : j \in Columns(block) => j < BlockPtr[block + 1]
    BY <1>1, ShapeOfBlocks
  <2> QED
    BY <1>3, <2>1, <2>2
<1> QED
  BY <1>4 DEF Result, PipeState, CounterPassesTaken, Owning

LEMMA LeavePipeResult ==
  ASSUME Inv, Result, LeavePipe
  PROVE  Result'
<1>1. block \in 1..NBlocks /\ phase = "running" /\ at = "pipe"
  BY ShapeOfBlocks DEF LeavePipe, Inv, TypeOK, DriverPhases
<1>2. Columns(block) \subseteq Col /\ Columns(block) \subseteq Nat
  BY <1>1, ShapeOfBlocks
<1>3. CASE failed = NoError
  <2>1. \A j \in Columns(block) : lcol[j] \notin {"stale", "failed"}
    <3>1. \A j \in Columns(block) : lcol[j] # "stale"
      BY <1>1, <1>3, AllReplayed DEF LeavePipe, NoError, Interrupted
    <3>2. \A j \in Columns(block) : lcol[j] # "failed"
      BY <1>1, <1>3 DEF Result, PipeState, SlotIsHonest
    <3> QED
      BY <3>1, <3>2
  <2>2. FirstBad(Columns(block)) = {}
    <3> SUFFICES ASSUME NEW f \in FirstBad(Columns(block)) PROVE FALSE
      OBVIOUS
    <3>1. f \in Columns(block) /\ lcol[f] \in {"stale", "failed"}
      BY <1>1, <1>2, FirstBadIsLeast DEF Result, PipeState, FirstBadFails
    <3> QED
      BY <2>1, <3>1
  <2>3. \A j \in Columns(block) : lcol[j] = "fresh"
    <3> SUFFICES ASSUME NEW j \in Columns(block), lcol[j] # "fresh" PROVE FALSE
      OBVIOUS
    <3>1. lcol[j] = "tainted"
      BY <1>2, <2>1 DEF Inv, TypeOK
    <3>2. Spoiled(j)
      BY <1>1, <3>1 DEF Result, PipeState, SpoiledAfterBad
    <3> QED
      BY <2>2, <3>2, NoFirstBad DEF Spoiled
  <2> QED
    BY <1>1, <1>3, <2>3, NextBlockResult DEF LeavePipe
<1>4. CASE failed # NoError
  <2>1. Fail(failed) /\ UNCHANGED <<block, bad>>
    BY <1>4 DEF LeavePipe
  <2>2. failed # Interrupted => bad \cap Columns(block) # {}
    BY <1>1, <1>4 DEF Result, PipeState, SlotIsHonest, Spoiled
  <2> QED
    BY <2>1, <2>2, FailResult
<1> QED
  BY <1>3, <1>4

LEMMA DriverResult ==
  ASSUME Inv, Result, Driver
  PROVE  Result'
<1>1. CASE Succeed
  <2>1. phase = "running" /\ at = "block" /\ block = NBlocks + 1 /\ NBlocks \in Nat
    BY <1>1, ShapeOfBlocks DEF Succeed, Inv, TypeOK, DriverPhases
  <2>2. \A j \in Col : lcol[j] = "fresh"
    BY <2>1, ColumnOfBlock DEF Result, BehindAndAhead
  <2> QED
    BY <1>1, <2>2 DEF Succeed, Result, BehindAndAhead, LevelsAreFresh, PipeState, ValidIsFresh
<1>2. CASE BlockInterrupted \/ LevelInterrupted
  <2>1. Fail(Interrupted) /\ UNCHANGED <<block, bad>>
    BY <1>2 DEF BlockInterrupted, LevelInterrupted
  <2> QED
    BY <2>1, FailResult
<1>3. CASE EnterLevels
  <2>1. block \in 1..NBlocks /\ phase = "running" /\ at = "block"
    BY <1>3, ShapeOfBlocks DEF EnterLevels, Inv, TypeOK, DriverPhases
  <2>2. \A j \in Columns(block) : ~(LevelOf[j] < 0)
    <3>1. \A j \in Columns(block) : j \in Col
      BY <2>1, ShapeOfBlocks
    <3>2. \A j \in Columns(block) : LevelOf[j] \in Nat
      BY <3>1, LevelsAscend
    <3> QED
      BY <3>2
  <2> QED
    BY <1>3, <2>1, <2>2
       DEF EnterLevels, Result, BehindAndAhead, LevelsAreFresh, PipeState, ValidIsFresh
<1> QED
  BY <1>1, <1>2, <1>3, SerialResult, LevelResult, LeaveLevelsResult, EnterPipeResult,
     LeavePipeResult DEF Driver

-----------------------------------------------------------------------------
\* A step of the pieces changes nothing outside the block under replay.
LEMMA PieceKeepsOutside ==
  ASSUME Inv, Result, at = "pipe", block \in 1..NBlocks, UNCHANGED driver,
         \A j \in Col : j \notin Columns(block) => lcol'[j] = lcol[j]
  PROVE  BehindAndAhead' /\ LevelsAreFresh' /\ ValidIsFresh'
<1>1. phase = "running" /\ UNCHANGED <<phase, at, block, level, bad, error>>
  BY DEF Inv, DriverPhases, driver
<1>2. \A j \in Col : /\ j < BlockPtr[block] => j \notin Columns(block)
                     /\ j >= BlockPtr[block + 1] => j \notin Columns(block)
  BY ShapeOfBlocks
<1>3. BehindAndAhead'
  BY <1>1, <1>2 DEF Result, BehindAndAhead
<1> QED
  BY <1>1, <1>3 DEF LevelsAreFresh, ValidIsFresh

\* A step that replays nothing and moves no ownership.
LEMMA QuietResult ==
  ASSUME Inv, Result, at = "pipe", UNCHANGED <<driver, lcol, next, cur, last>>,
         \A r \in Piece : pc'[r] \in {"wait", "publish"} <=> Owning(r),
         ConsumedIsReplayed', SlotIsHonest', PiecesLeaveTheEnd'
  PROVE  Result'
<1>1. UNCHANGED <<phase, at, block, level, bad, error, lcol, next, cur, last>>
  BY DEF driver
<1>2. CounterPassesTaken'
  BY <1>1 DEF Result, PipeState, CounterPassesTaken, Owning
<1>3. SpoiledAfterBad' /\ FirstBadFails'
  BY <1>1 DEF Result, PipeState, SpoiledAfterBad, FirstBadFails, Spoiled, FirstBad
<1>4. BehindAndAhead' /\ LevelsAreFresh' /\ ValidIsFresh'
  BY <1>1 DEF Result, BehindAndAhead, LevelsAreFresh, ValidIsFresh
<1> QED
  BY <1>2, <1>3, <1>4 DEF Result, PipeState

LEMMA QuietSteps ==
  ASSUME Inv, Result, NEW q \in Piece, StartPiece(q) \/ Poll(q) \/ Raise(q) \/ Consume(q)
  PROVE  Result'
<1>0. UNCHANGED driver /\ at = "pipe" /\ block \in 1..NBlocks
  BY PieceKeepsPhases DEF PieceStep
<1>1. UNCHANGED <<lcol, next, cur, last>>
  BY DEF StartPiece, Poll, Raise, Consume
<1>2. \A r \in Piece : \/ pc'[r] = pc[r]
                       \/ /\ r = q /\ pc[r] \notin {"wait", "publish"}
                          /\ pc'[r] \notin {"wait", "publish"}
  BY DEF StartPiece, Poll, Raise, Consume, Goto, Inv, TypeOK
<1>3. \A r \in Piece : pc'[r] \in {"wait", "publish"} <=> Owning(r)
  BY <1>2 DEF Owning
<1>4. ConsumedIsReplayed'
  <2> SUFFICES ASSUME NEW r \in Piece, pc'[r] = "wait"
               PROVE  /\ pos'[r] <= Len(U[cur[r]])
                      /\ \A k \in 1..pos'[r] : lcol[U[cur[r]][k]] # "stale"
    BY <1>1 DEF ConsumedIsReplayed
  <2>1. pc[r] = "wait"
    BY <1>2
  <2>2. /\ pos[r] <= Len(U[cur[r]])
        /\ \A k \in 1..pos[r] : lcol[U[cur[r]][k]] # "stale"
    BY <1>0, <2>1 DEF Result, PipeState, ConsumedIsReplayed
  <2>3. CASE pos'[r] = pos[r]
    BY <2>2, <2>3
  <2>4. CASE pos'[r] # pos[r]
    <3>1. Consume(q)
      BY <2>4 DEF StartPiece, Poll, Raise
    <3>2. r = q /\ pos'[q] = pos[q] + 1 /\ pos[q] \in Nat
      BY <2>4, <3>1 DEF Consume, Inv, TypeOK
    <3>3. pos[q] < Len(U[cur[q]]) /\ Published(Awaited(q))
      BY <3>1 DEF Consume
    <3>4. cur[q] \in Columns(block) /\ cur[q] \in Col
      <4>1. Owning(q) /\ cur[q] \in Nat /\ cur[q] <= cur[q] /\ cur[q] <= last[q]
        BY <1>0, <2>1, <3>2 DEF Owning, Inv, TypeOK, Ownership
      <4> QED
        BY <4>1, OwnedAreColumns
    <3>5. Len(U[cur[q]]) \in Nat
          /\ \A i \in 1..Len(U[cur[q]]) : U[cur[q]][i] \in Columns(block)
      BY <1>0, <3>4, PatternIsReplayable, ShapeOfPattern
    <3>6. pos[q] + 1 \in 1..Len(U[cur[q]])
      BY <3>2, <3>3, <3>5
    <3>7. lcol[U[cur[q]][pos[q] + 1]] # "stale"
      <4>1. U[cur[q]][pos[q] + 1] \in Columns(block)
        BY <3>5, <3>6
      <4> QED
        BY <1>0, <3>3, <4>1, InvConsumes DEF ConsumesOnlyReplayed, Awaited
    <3> QED
      BY <2>2, <3>2, <3>6, <3>7
  <2> QED
    BY <2>3, <2>4
<1>5. SlotIsHonest'
  <2>1. SlotIsHonest
    BY <1>0 DEF Result, PipeState
  <2>2. CASE Raise(q)
    <3>1. failed' = Interrupted
      BY <2>2 DEF Raise, KeepLowest
    <3> QED
      BY <3>1 DEF SlotIsHonest, NoError, Interrupted
  <2>3. CASE StartPiece(q) \/ Poll(q) \/ Consume(q)
    <3>1. UNCHANGED <<failed, stop>>
      BY <2>3 DEF StartPiece, Poll, Consume
    <3> QED
      BY <1>0, <1>1, <2>1, <3>1 DEF SlotIsHonest, Spoiled, driver
  <2> QED
    BY <2>2, <2>3
<1>6. PiecesLeaveTheEnd'
  <2>1. PiecesLeaveTheEnd
    BY <1>0 DEF Result, PipeState
  <2>2. stop' \/ (UNCHANGED stop /\ \A r \in Piece : pc'[r] = "gone" => pc[r] = "gone")
    BY DEF StartPiece, Poll, Raise, Consume, Goto, Inv, TypeOK
  <2> QED
    BY <1>0, <1>1, <2>1, <2>2 DEF PiecesLeaveTheEnd, driver
<1> QED
  BY <1>0, <1>1, <1>3, <1>4, <1>5, <1>6, QuietResult

LEMMA TakeResult ==
  ASSUME Inv, Result, NEW q \in Piece, Take(q)
  PROVE  Result'
<1>0. /\ UNCHANGED driver /\ at = "pipe" /\ block \in 1..NBlocks
      /\ UNCHANGED <<phase, at, block, level, bad, error, lcol, stop, failed>>
  BY PieceKeepsPhases DEF PieceStep, Take, driver
<1>1. BlockPtr[block + 1] \in Nat /\ next \in Nat /\ PipeRun \in Nat \ {0}
      /\ next' = next + PipeRun
      /\ \A r \in Piece : cur[r] \in Nat /\ last[r] \in Nat
  BY <1>0, ShapeOfBlocks, ShapeOfPattern DEF Take, Advanced, Inv, TypeOK
<1>2. pc[q] = "take" /\ \A r \in Piece \ {q} : pc'[r] = pc[r]
  BY DEF Take, Goto, Inv, TypeOK
<1>3. BehindAndAhead' /\ LevelsAreFresh' /\ ValidIsFresh'
  BY <1>0, PieceKeepsOutside
<1>4. SpoiledAfterBad' /\ FirstBadFails' /\ SlotIsHonest'
  BY <1>0 DEF Result, PipeState, SpoiledAfterBad, FirstBadFails, SlotIsHonest, Spoiled, FirstBad
<1>5. \A j \in Columns(block) : j \in Nat /\ j < BlockPtr[block + 1]
  <2>1. Columns(block) \subseteq Nat
    BY <1>0, ShapeOfBlocks
  <2>2. \A j \in Nat : j \in Columns(block) => j < BlockPtr[block + 1]
    BY <1>0, ShapeOfBlocks
  <2> QED
    BY <2>1, <2>2
<1>6. CASE next >= BlockPtr[block + 1]
  <2>1. pc'[q] = "gone" /\ UNCHANGED <<cur, last, pos>>
    BY <1>6 DEF Take, Goto, Inv, TypeOK
  <2>2. ConsumedIsReplayed'
    BY <1>0, <1>2, <2>1 DEF Result, PipeState, ConsumedIsReplayed
  <2>3. CounterPassesTaken'
    <3>1. \A j \in Columns(block) : j < next
      BY <1>1, <1>5, <1>6
    <3>2. \A r \in Piece : Owning(r) => Owning(r)'
      BY <1>2 DEF Owning
    <3> QED
      BY <1>0, <2>1, <3>1, <3>2 DEF Result, PipeState, CounterPassesTaken
  <2>4. PiecesLeaveTheEnd'
    BY <1>0, <1>1, <1>6 DEF PiecesLeaveTheEnd
  <2> QED
    BY <1>3, <1>4, <2>2, <2>3, <2>4 DEF Result, PipeState
<1>7. CASE ~(next >= BlockPtr[block + 1])
  <2>0. next < BlockPtr[block + 1]
    BY <1>1, <1>7
  <2> DEFINE Ends == {next + PipeRun, BlockPtr[block + 1]}
  <2>1. Min(Ends) \in Ends /\ \A x \in Ends : Min(Ends) <= x
    <3>1. Ends \in SUBSET Nat /\ Ends # {}
      BY <1>1
    <3> HIDE DEF Ends
    <3> QED
      BY <3>1, MinIsLeast
  <2>2. /\ cur' = [cur EXCEPT ![q] = next] /\ last' = [last EXCEPT ![q] = Min(Ends) - 1]
        /\ pos' = [pos EXCEPT ![q] = 0] /\ pc'[q] = "wait"
    BY <1>1, <1>7 DEF Take, Goto, Inv, TypeOK
  <2>3. /\ cur'[q] = next /\ last'[q] = Min(Ends) - 1 /\ pos'[q] = 0
        /\ \A r \in Piece \ {q} : cur'[r] = cur[r] /\ last'[r] = last[r] /\ pos'[r] = pos[r]
    BY <2>2 DEF Inv, TypeOK
  <2>4. ConsumedIsReplayed'
    <3> SUFFICES ASSUME NEW r \in Piece, pc'[r] = "wait"
                 PROVE  /\ pos'[r] <= Len(U[cur'[r]])
                        /\ \A k \in 1..pos'[r] : lcol[U[cur'[r]][k]] # "stale"
      BY <1>0 DEF ConsumedIsReplayed
    <3>1. CASE r = q
      <4>1. next \in Col
        <5>1. BlockPtr[block] <= next
          BY <1>0 DEF Inv, Ownership
        <5> QED
          BY <1>0, <1>1, <2>0, <5>1, ShapeOfBlocks
      <4>2. Len(U[next]) \in Nat
        BY <4>1, ShapeOfPattern
      <4> QED
        BY <2>3, <3>1, <4>2
    <3>2. CASE r # q
      BY <1>0, <1>2, <2>3, <3>2 DEF Result, PipeState, ConsumedIsReplayed
    <3> QED
      BY <3>1, <3>2
  <2>5. CounterPassesTaken'
    <3> SUFFICES ASSUME NEW j \in Columns(block), j < next + PipeRun
                 PROVE  \/ lcol[j] # "stale"
                        \/ \E r \in Piece : Owning(r)' /\ cur'[r] <= j /\ j <= last'[r]
      BY <1>0, <1>1 DEF CounterPassesTaken
    <3>1. CASE j < next
      <4>1. lcol[j] # "stale" \/ \E r \in Piece : Owning(r) /\ cur[r] <= j /\ j <= last[r]
        BY <1>0, <3>1 DEF Result, PipeState, CounterPassesTaken
      <4>2. \A r \in Piece : Owning(r) => r # q /\ Owning(r)'
        BY <1>2 DEF Owning
      <4> QED
        BY <2>3, <4>1, <4>2
    <3>2. CASE ~(j < next)
      <4>1. next <= j /\ j <= Min(Ends) - 1
        BY <1>1, <1>5, <2>1, <3>2
      <4> QED
        BY <2>2, <2>3, <4>1 DEF Owning
    <3> QED
      BY <3>1, <3>2
  <2>6. PiecesLeaveTheEnd'
    <3>1. \A r \in Piece : pc'[r] = "gone" => pc[r] = "gone"
      BY <1>2, <2>2
    <3>2. next >= BlockPtr[block + 1] => next' >= BlockPtr[block + 1]
      BY <1>1
    <3> QED
      BY <1>0, <3>1, <3>2 DEF Result, PipeState, PiecesLeaveTheEnd
  <2> QED
    BY <1>3, <1>4, <2>4, <2>5, <2>6 DEF Result, PipeState
<1> QED
  BY <1>6, <1>7

LEMMA PublishResult ==
  ASSUME Inv, Result, NEW q \in Piece, Publish(q)
  PROVE  Result'
<1>0. /\ UNCHANGED driver /\ at = "pipe" /\ block \in 1..NBlocks
      /\ UNCHANGED <<phase, at, block, level, bad, error, lcol, stop, failed, next, last>>
  BY PieceKeepsPhases DEF PieceStep, Publish, driver
<1>1. \A r \in Piece \ {q} : pc'[r] = pc[r] /\ cur'[r] = cur[r] /\ pos'[r] = pos[r]
  BY DEF Publish, Goto, Inv, TypeOK
<1>2. \/ cur'[q] = cur[q] + 1 /\ cur[q] < last[q] /\ pos'[q] = 0 /\ pc'[q] = "wait"
      \/ ~(cur[q] < last[q]) /\ pc'[q] = "top"
  BY DEF Publish, Goto, Inv, TypeOK
<1>3. pc[q] = "publish" /\ Owning(q) /\ cur[q] \in Nat /\ last[q] \in Nat
      /\ lcol[cur[q]] # "stale" /\ cur[q] <= last[q]
  BY <1>0 DEF Publish, Owning, Inv, TypeOK, Ownership
<1>4. BehindAndAhead' /\ LevelsAreFresh' /\ ValidIsFresh'
  BY <1>0, PieceKeepsOutside
<1>5. SpoiledAfterBad' /\ FirstBadFails' /\ SlotIsHonest'
  BY <1>0 DEF Result, PipeState, SpoiledAfterBad, FirstBadFails, SlotIsHonest, Spoiled, FirstBad
<1>6. PiecesLeaveTheEnd'
  <2>1. \A r \in Piece : pc'[r] = "gone" => pc[r] = "gone"
    BY <1>1, <1>2
  <2> QED
    BY <1>0, <2>1 DEF Result, PipeState, PiecesLeaveTheEnd
<1>7. ConsumedIsReplayed'
  <2> SUFFICES ASSUME NEW r \in Piece, pc'[r] = "wait"
               PROVE  /\ pos'[r] <= Len(U[cur'[r]])
                      /\ \A k \in 1..pos'[r] : lcol[U[cur'[r]][k]] # "stale"
    BY <1>0 DEF ConsumedIsReplayed
  <2>1. CASE r = q
    <3>1. cur'[q] \in Col
      <4>1. cur[q] + 1 \in Nat /\ cur[q] <= cur[q] + 1 /\ cur[q] + 1 <= last[q]
            /\ cur'[q] = cur[q] + 1
        BY <1>2, <1>3, <2>1
      <4> QED
        BY <1>3, <4>1, OwnedAreColumns
    <3>2. Len(U[cur'[q]]) \in Nat
      BY <3>1, ShapeOfPattern
    <3> QED
      BY <1>2, <2>1, <3>2
  <2>2. CASE r # q
    BY <1>0, <1>1, <2>2 DEF Result, PipeState, ConsumedIsReplayed
  <2> QED
    BY <2>1, <2>2
<1>8. CounterPassesTaken'
  <2> SUFFICES ASSUME NEW j \in Columns(block), j < next, lcol[j] = "stale"
               PROVE  \E r \in Piece : Owning(r)' /\ cur'[r] <= j /\ j <= last[r]
    BY <1>0 DEF CounterPassesTaken
  <2>1. PICK r \in Piece : Owning(r) /\ cur[r] <= j /\ j <= last[r]
    BY <1>0 DEF Result, PipeState, CounterPassesTaken
  <2>2. CASE r # q
    BY <1>1, <2>1, <2>2 DEF Owning
  <2>3. CASE r = q
    <3>1. j \in Nat /\ j # cur[q]
      BY <1>0, <1>3, ShapeOfBlocks
    <3>2. cur'[q] = cur[q] + 1 /\ pc'[q] = "wait" /\ cur[q] + 1 <= j
      BY <1>2, <1>3, <2>1, <2>3, <3>1
    <3> QED
      BY <2>1, <2>3, <3>2 DEF Owning
  <2> QED
    BY <2>2, <2>3
<1> QED
  BY <1>4, <1>5, <1>6, <1>7, <1>8 DEF Result, PipeState

\* What the pivot of a column makes of it: it goes wrong only when a pivot
\* vanished at or before it, and fails when its own is the first to.
LEMMA PivotOutcome ==
  ASSUME Inv, Result, NEW q \in Piece, Pivot(q)
  PROVE  \E v \in {"failed", "fresh", "tainted"} :
           /\ lcol' = [lcol EXCEPT ![cur[q]] = v]
           /\ failed' = IF v = "failed" THEN KeepLowest(failed, Column(cur[q])) ELSE failed
           /\ v # "fresh" => Spoiled(cur[q])
           /\ cur[q] \in FirstBad(Columns(block)) => v = "failed"
<1> DEFINE j == cur[q]
<1>0. at = "pipe" /\ block \in 1..NBlocks
  BY PieceKeepsPhases DEF PieceStep
<1>1. pc[q] = "wait" /\ pos[q] = Len(U[j])
  BY DEF Pivot
<1>2. j \in Columns(block) /\ j \in Nat /\ j \in Col
  <2>1. Owning(q) /\ j \in Nat /\ j <= j /\ j <= last[q]
    BY <1>0, <1>1 DEF Owning, Inv, TypeOK, Ownership
  <2> QED
    BY <2>1, OwnedAreColumns
<1>3. ASSUME NEW p \in ToSet(U[j])
      PROVE  p \in Columns(block) /\ p \in Col /\ p \in Nat /\ p < j /\ lcol[p] # "stale"
  <2>1. p \in Columns(block) /\ p \in Col /\ p \in Nat /\ p < j
    BY <1>0, <1>2, ReadsBehind
  <2>2. PICK k \in 1..Len(U[j]) : p = U[j][k]
    <3>1. U[j] \in Seq(Col)
      BY <1>2, PatternIsReplayable
    <3>2. DOMAIN U[j] = 1..Len(U[j])
      BY <3>1
    <3> QED
      BY <3>2 DEF ToSet
  <2>3. lcol[U[j][k]] # "stale"
    BY <1>0, <1>1 DEF Result, PipeState, ConsumedIsReplayed
  <2> QED
    BY <2>1, <2>2, <2>3
<1> DEFINE clean == \A p \in ToSet(U[j]) : lcol[p] = "fresh"
<1>4. PICK vanishes \in BOOLEAN :
        /\ clean => (vanishes <=> j \in bad)
        /\ lcol' = [lcol EXCEPT ![j] = IF vanishes THEN "failed"
                                       ELSE IF clean THEN "fresh" ELSE "tainted"]
        /\ failed' = IF vanishes THEN KeepLowest(failed, Column(j)) ELSE failed
  BY DEF Pivot
<1>5. ASSUME ~clean PROVE \E i \in bad \cap Columns(block) : i < j
  <2>1. PICK p \in ToSet(U[j]) : lcol[p] # "fresh"
    BY <1>5
  <2>2. p \in Columns(block) /\ p \in Nat /\ p < j /\ lcol[p] \in {"failed", "tainted"}
    BY <1>3, <2>1 DEF Inv, TypeOK
  <2>3. PICK i \in bad \cap Columns(block) : i <= p
    BY <1>0, <2>2 DEF Result, PipeState, SpoiledAfterBad, Spoiled
  <2>4. i \in Nat
    BY <1>0, <2>3, ShapeOfBlocks
  <2> QED
    BY <1>2, <2>2, <2>3, <2>4
<1>6. vanishes \/ ~clean => Spoiled(j)
  <2>1. CASE ~clean
    <3>1. PICK i \in bad \cap Columns(block) : i < j
      BY <1>5, <2>1
    <3>2. i <= j
      <4>1. i \in Nat
        BY <1>0, <3>1, ShapeOfBlocks
      <4> QED
        BY <1>2, <3>1, <4>1
    <3> QED
      BY <3>1, <3>2 DEF Spoiled
  <2>2. CASE clean
    <3>1. vanishes => j \in bad \cap Columns(block) /\ j <= j
      BY <1>2, <1>4, <2>2
    <3> HIDE DEF j
    <3> QED
      BY <2>2, <3>1 DEF Spoiled
  <2> QED
    BY <2>1, <2>2
<1>7. j \in FirstBad(Columns(block)) => vanishes
  <2> SUFFICES ASSUME j \in FirstBad(Columns(block)) PROVE vanishes
    OBVIOUS
  <2>1. Columns(block) \subseteq Nat
    BY <1>0, ShapeOfBlocks
  <2>2. j \in bad /\ \A i \in Columns(block) \cap bad : j <= i
    BY <2>1, FirstBadIsLeast
  <2>3. clean
    <3> SUFFICES ASSUME ~clean PROVE FALSE
      OBVIOUS
    <3>1. PICK i \in bad \cap Columns(block) : i < j
      BY <1>5
    <3> QED
      BY <1>2, <2>1, <2>2, <3>1
  <2> QED
    BY <1>4, <2>2, <2>3
<1> DEFINE v == IF vanishes THEN "failed" ELSE IF clean THEN "fresh" ELSE "tainted"
<1>8. /\ v \in {"failed", "fresh", "tainted"} /\ (v = "failed" <=> vanishes)
      /\ (v # "fresh" => vanishes \/ ~clean)
  OBVIOUS
<1>9. /\ lcol' = [lcol EXCEPT ![j] = v]
      /\ failed' = IF vanishes THEN KeepLowest(failed, Column(j)) ELSE failed
  BY <1>4
<1> HIDE DEF v, clean
<1> QED
  BY <1>6, <1>7, <1>8, <1>9

LEMMA PivotResult ==
  ASSUME Inv, Result, NEW q \in Piece, Pivot(q)
  PROVE  Result'
<1> DEFINE j == cur[q]
<1>0. /\ UNCHANGED driver /\ at = "pipe" /\ block \in 1..NBlocks
      /\ UNCHANGED <<phase, at, block, level, bad, error, stop, next, cur, last, pos>>
  BY PieceKeepsPhases DEF PieceStep, Pivot, driver
<1>1. pc[q] = "wait" /\ pc' = [pc EXCEPT ![q] = "publish"]
  BY DEF Pivot, Goto
<1>2. j \in Columns(block) /\ j \in Nat /\ j \in Col
  <2>1. Owning(q) /\ j \in Nat /\ j <= j /\ j <= last[q]
    BY <1>0, <1>1 DEF Owning, Inv, TypeOK, Ownership
  <2> QED
    BY <2>1, OwnedAreColumns
<1>3. PICK v \in {"failed", "fresh", "tainted"} :
         /\ lcol' = [lcol EXCEPT ![j] = v]
         /\ failed' = IF v = "failed" THEN KeepLowest(failed, Column(j)) ELSE failed
         /\ v # "fresh" => Spoiled(j)
         /\ j \in FirstBad(Columns(block)) => v = "failed"
  BY PivotOutcome
<1>4. lcol'[j] = v /\ \A i \in Col : i # j => lcol'[i] = lcol[i]
  BY <1>2, <1>3 DEF Inv, TypeOK
<1> HIDE DEF j
<1>5. \A i \in Columns(block) : i \in Col /\ i \in Nat
  BY <1>0, ShapeOfBlocks
<1>6. \A i \in Col : lcol[i] # "stale" => lcol'[i] # "stale"
  BY <1>3, <1>4
<1>7. BehindAndAhead' /\ LevelsAreFresh' /\ ValidIsFresh'
  BY <1>0, <1>2, <1>4, PieceKeepsOutside
<1>8. ConsumedIsReplayed'
  <2> SUFFICES ASSUME NEW r \in Piece, pc'[r] = "wait"
               PROVE  /\ pos[r] <= Len(U[cur[r]])
                      /\ \A k \in 1..pos[r] : lcol'[U[cur[r]][k]] # "stale"
    BY <1>0 DEF ConsumedIsReplayed
  <2>1. pc[r] = "wait"
    BY <1>1 DEF Inv, TypeOK
  <2>2. /\ pos[r] <= Len(U[cur[r]])
        /\ \A k \in 1..pos[r] : lcol[U[cur[r]][k]] # "stale"
    BY <1>0, <2>1 DEF Result, PipeState, ConsumedIsReplayed
  <2>3. cur[r] \in Col
    BY <2>1, OwnedAreColumns DEF Owning
  <2>4. U[cur[r]] \in Seq(Col) /\ Len(U[cur[r]]) \in Nat /\ pos[r] \in Nat
    BY <2>3, PatternIsReplayable, ShapeOfPattern DEF Inv, TypeOK
  <2>5. \A k \in 1..pos[r] : U[cur[r]][k] \in Col
    <3>1. \A k \in 1..pos[r] : k \in 1..Len(U[cur[r]])
      BY <2>2, <2>4
    <3> QED
      BY <2>4, <3>1, ElementOfSeq
  <2> QED
    BY <1>6, <2>2, <2>5
<1>9. CounterPassesTaken'
  <2>1. \A r \in Piece : Owning(r) => Owning(r)'
    BY <1>1 DEF Owning, Inv, TypeOK
  <2> QED
    BY <1>0, <1>5, <1>6, <2>1 DEF Result, PipeState, CounterPassesTaken
<1>10. SpoiledAfterBad'
  <2> SUFFICES ASSUME NEW i \in Columns(block), lcol'[i] \in {"failed", "tainted"}
               PROVE  Spoiled(i)
    BY <1>0 DEF SpoiledAfterBad, Spoiled
  <2> QED
    BY <1>0, <1>3, <1>4, <1>5 DEF Result, PipeState, SpoiledAfterBad
<1>11. FirstBadFails'
  <2> SUFFICES ASSUME NEW f \in FirstBad(Columns(block)) PROVE lcol'[f] \in {"stale", "failed"}
    BY <1>0 DEF FirstBadFails, FirstBad
  <2>1. f \in Col
    <3>1. Columns(block) \subseteq Nat
      BY <1>5
    <3> QED
      BY <1>5, <3>1, FirstBadIsLeast
  <2> QED
    BY <1>0, <1>3, <1>4, <2>1 DEF Result, PipeState, FirstBadFails
<1>12. SlotIsHonest'
  <2>0. SlotIsHonest
    BY <1>0 DEF Result, PipeState
  <2>1. \A i : Spoiled(i)' <=> Spoiled(i)
    BY <1>0 DEF Spoiled
  <2>2. CASE v # "failed"
    <3>1. failed' = failed /\ \A i \in Columns(block) : lcol'[i] = "failed" => lcol[i] = "failed"
      BY <1>3, <1>4, <1>5, <2>2
    <3> QED
      BY <1>0, <2>0, <2>1, <3>1 DEF SlotIsHonest
  <2>3. CASE v = "failed"
    <3>1. failed' = KeepLowest(failed, Column(j)) /\ Spoiled(j)
      BY <1>3, <2>3
    <3>2. Column(j) \in Nat
      BY <1>2, ShapeOfPattern DEF Column
    <3>3. /\ failed' = Column(j) \/ (failed' = failed /\ failed # NoError)
          /\ failed' # NoError
          /\ failed = Interrupted => failed' = Interrupted
      BY <3>1, <3>2 DEF KeepLowest, NoError, Interrupted
    <3>4. failed' \notin {NoError, Interrupted} =>
            \E i \in Columns(block) : failed' = Column(i) /\ Spoiled(i)
      BY <1>2, <2>0, <3>1, <3>3 DEF SlotIsHonest
    <3> QED
      BY <1>0, <2>0, <2>1, <3>3, <3>4 DEF SlotIsHonest
  <2> QED
    BY <2>2, <2>3
<1>13. PiecesLeaveTheEnd'
  <2>1. \A r \in Piece : pc'[r] = "gone" => pc[r] = "gone"
    BY <1>1 DEF Inv, TypeOK
  <2> QED
    BY <1>0, <2>1 DEF Result, PipeState, PiecesLeaveTheEnd
<1> QED
  BY <1>7, <1>8, <1>9, <1>10, <1>11, <1>12, <1>13 DEF Result, PipeState

LEMMA NextResult == Inv /\ Result /\ [Next]_vars => Result'
<1> SUFFICES ASSUME Inv, Result, [Next]_vars PROVE Result'
  OBVIOUS
<1>1. CASE UNCHANGED vars \/ Interrupt
  <2>1. UNCHANGED <<phase, at, block, level, mode, bad, epoch, error, lcol,
                    next, stop, failed, pc, cur, last, pos>>
    BY <1>1 DEF vars, driver, pieces, Interrupt
  <2>2. PipeState'
    BY <2>1 DEF Result, PipeState, ConsumedIsReplayed, CounterPassesTaken, Owning,
                SpoiledAfterBad, FirstBadFails, SlotIsHonest, PiecesLeaveTheEnd,
                Spoiled, FirstBad
  <2> QED
    BY <2>1, <2>2 DEF Result, BehindAndAhead, LevelsAreFresh, ValidIsFresh
<1>2. CASE \E q \in Piece : PieceStep(q)
  BY <1>2, QuietSteps, TakeResult, PublishResult, PivotResult DEF PieceStep
<1> QED
  BY <1>1, <1>2, BeginResult, DriverResult DEF Next

LEMMA ResultAlways == Spec => []Result
<1>1. Init => Result
  BY InitResult
<1>2. Inv /\ Result /\ [Next]_vars => Result'
  BY NextResult
<1> QED
  BY <1>1, <1>2, InvAlways, PTL DEF Spec

-----------------------------------------------------------------------------
(***************************************************************************)
(* The error of a pipelined block.  Where the columns of a block keep the  *)
(* order of the original ones, the lowest error is the first.              *)
(***************************************************************************)
ColumnsInOrder ==
  \A b \in 1..NBlocks : \A i, j \in Columns(b) : i < j => ColPerm[i] < ColPerm[j]

SlotIsFirst ==
  at = "pipe" => \A f \in FirstBad(Columns(block)) :
    lcol[f] = "failed" => failed \in {Interrupted, Column(f)}

ReportsFirst == SlotIsFirst /\ PipelineReportsSequentialError

\* An error offered to the slot that holds the first one changes nothing, and
\* the first one replaces all later ones.
LEMMA LowestIsFirst ==
  ASSUME NEW f \in Nat, NEW s \in {NoError, Interrupted} \cup Nat, NEW e \in Nat
  PROVE  /\ f <= e /\ s \in {Interrupted, f} => KeepLowest(s, e) \in {Interrupted, f}
         /\ (s \in Nat => f <= s) => KeepLowest(s, f) \in {Interrupted, f}
  BY DEF KeepLowest, NoError, Interrupted

LEMMA PivotReports ==
  ASSUME ColumnsInOrder, Inv, Result, ReportsFirst, NEW q \in Piece, Pivot(q)
  PROVE  SlotIsFirst'
<1> DEFINE j == cur[q]
<1>0. /\ at = "pipe" /\ block \in 1..NBlocks /\ UNCHANGED <<at, block, bad>>
  BY PieceKeepsPhases DEF PieceStep, driver
<1>1. j \in Columns(block) /\ j \in Nat /\ j \in Col
  <2>1. Owning(q) /\ j \in Nat /\ j <= j /\ j <= last[q]
    BY <1>0 DEF Pivot, Owning, Inv, TypeOK, Ownership
  <2> QED
    BY <2>1, OwnedAreColumns
<1>2. PICK v \in {"failed", "fresh", "tainted"} :
         /\ lcol' = [lcol EXCEPT ![j] = v]
         /\ failed' = IF v = "failed" THEN KeepLowest(failed, Column(j)) ELSE failed
         /\ v # "fresh" => Spoiled(j)
  BY PivotOutcome
<1>3. lcol'[j] = v /\ \A i \in Col : i # j => lcol'[i] = lcol[i]
  BY <1>1, <1>2 DEF Inv, TypeOK
<1> HIDE DEF j
<1> SUFFICES ASSUME NEW f \in FirstBad(Columns(block)), lcol'[f] = "failed"
             PROVE  failed' \in {Interrupted, Column(f)}
  BY <1>0 DEF SlotIsFirst, FirstBad
<1>4. Columns(block) \subseteq Nat /\ Columns(block) \subseteq Col
  BY <1>0, ShapeOfBlocks
<1>5. f \in Columns(block) /\ \A i \in bad \cap Columns(block) : f <= i
  BY <1>4, FirstBadIsLeast
<1>6. \A i \in Columns(block) : Column(i) \in Nat
  BY <1>4, ShapeOfPattern DEF Column
<1>7. ASSUME NEW i \in Columns(block), Spoiled(i) PROVE Column(f) <= Column(i)
  <2>1. PICK k \in bad \cap Columns(block) : k <= i
    BY <1>7 DEF Spoiled
  <2>2. f <= i /\ f \in Nat /\ i \in Nat
    BY <1>4, <1>5, <2>1
  <2>3. CASE f < i
    <3>1. ColPerm[f] < ColPerm[i]
      BY <1>0, <1>5, <2>3 DEF ColumnsInOrder
    <3> QED
      BY <1>5, <1>6, <3>1 DEF Column
  <2>4. CASE f = i
    BY <1>6, <2>4
  <2> QED
    BY <2>2, <2>3, <2>4
<1>8. failed \in {NoError, Interrupted} \cup Nat
  BY DEF Inv, TypeOK
<1>9. CASE v = "failed"
  <2>1. failed' = KeepLowest(failed, Column(j)) /\ Spoiled(j)
    BY <1>2, <1>9
  <2>2. CASE f = j
    <3>1. failed \in Nat => Column(f) <= failed
      <4> SUFFICES ASSUME failed \in Nat PROVE Column(f) <= failed
        OBVIOUS
      <4>1. failed \notin {NoError, Interrupted}
        BY DEF NoError, Interrupted
      <4>2. PICK i \in Columns(block) : failed = Column(i) /\ Spoiled(i)
        BY <1>0, <4>1 DEF Result, PipeState, SlotIsHonest
      <4> QED
        BY <1>7, <4>2
    <3>2. Column(f) \in Nat
      BY <1>5, <1>6
    <3> QED
      BY <1>8, <2>1, <2>2, <3>1, <3>2, LowestIsFirst
  <2>3. CASE f # j
    <3>1. failed \in {Interrupted, Column(f)}
      BY <1>0, <1>3, <1>4, <1>5, <2>3 DEF ReportsFirst, SlotIsFirst
    <3>2. Column(f) \in Nat /\ Column(j) \in Nat /\ Column(f) <= Column(j)
      BY <1>1, <1>5, <1>6, <1>7, <2>1
    <3> QED
      BY <1>8, <2>1, <3>1, <3>2, LowestIsFirst
  <2> QED
    BY <2>2, <2>3
<1>10. CASE v # "failed"
  <2>1. failed' = failed /\ lcol[f] = "failed"
    BY <1>2, <1>3, <1>4, <1>5, <1>10
  <2> QED
    BY <1>0, <2>1 DEF ReportsFirst, SlotIsFirst
<1> QED
  BY <1>9, <1>10

LEMMA FailReports ==
  ASSUME Inv, Result, LeavePipe, ReportsFirst
  PROVE  PipelineReportsSequentialError'
<1>1. block \in 1..NBlocks /\ phase = "running" /\ at = "pipe" /\ UNCHANGED <<bad, mode>>
  BY ShapeOfBlocks DEF LeavePipe, Inv, TypeOK, DriverPhases
<1>2. CASE failed \in {NoError, Interrupted}
  BY <1>1, <1>2 DEF LeavePipe, Fail, PipelineReportsSequentialError, NoError, Interrupted
<1>3. CASE failed \notin {NoError, Interrupted}
  <2>1. error' = failed /\ UNCHANGED block
    BY <1>3 DEF LeavePipe, Fail
  <2>2. Columns(block) \subseteq Nat
    BY <1>1, ShapeOfBlocks
  <2>3. bad \cap Columns(block) # {}
    BY <1>1, <1>3 DEF Result, PipeState, SlotIsHonest, Spoiled
  <2>4. PICK f : f \in FirstBad(Columns(block))
    BY <2>3 DEF FirstBad
  <2>5. f \in Columns(block)
    BY <2>2, <2>4, FirstBadIsLeast
  <2>6. lcol[f] \in {"stale", "failed"} /\ lcol[f] # "stale"
    BY <1>1, <1>3, <2>4, <2>5, AllReplayed DEF LeavePipe, Result, PipeState, FirstBadFails
  <2>7. failed = Column(f)
    BY <1>1, <1>3, <2>4, <2>6 DEF ReportsFirst, SlotIsFirst
  <2> QED
    BY <1>1, <2>1, <2>4, <2>7 DEF PipelineReportsSequentialError, FirstBad
<1> QED
  BY <1>2, <1>3

LEMMA NextReports == ColumnsInOrder /\ Inv /\ Result /\ ReportsFirst /\ [Next]_vars => ReportsFirst'
<1> SUFFICES ASSUME ColumnsInOrder, Inv, Result, ReportsFirst, [Next]_vars PROVE ReportsFirst'
  OBVIOUS
<1>1. CASE UNCHANGED vars \/ Interrupt
  BY <1>1 DEF vars, driver, pieces, Interrupt, ReportsFirst, SlotIsFirst, FirstBad,
              PipelineReportsSequentialError
<1>2. CASE Begin
  BY <1>2 DEF Begin, ReportsFirst, SlotIsFirst, PipelineReportsSequentialError
<1>3. ASSUME Driver PROVE ReportsFirst'
  <2>0. at # "idle" => phase = "running"
    BY DEF Inv, DriverPhases
  <2>1. CASE Succeed \/ EnterLevels \/ LeaveLevels
    BY <2>0, <2>1
       DEF Succeed, EnterLevels, LeaveLevels, ReportsFirst, SlotIsFirst,
           PipelineReportsSequentialError
  <2>2. CASE BlockInterrupted \/ LevelInterrupted
    BY <2>2 DEF BlockInterrupted, LevelInterrupted, Fail, ReportsFirst, SlotIsFirst,
                PipelineReportsSequentialError
  <2>3. CASE SerialBlock
    <3>1. at' # "pipe" /\ UNCHANGED mode /\ mode[block] = "serial"
          /\ (phase' = "invalid" => block' = block)
      BY <2>0, <2>3 DEF SerialBlock, Fail
    <3> QED
      BY <3>1 DEF ReportsFirst, SlotIsFirst, PipelineReportsSequentialError
  <2>4. CASE ReplayLevel
    <3>1. at' # "pipe" /\ UNCHANGED <<mode, block>> /\ mode[block] = "levels"
      BY <2>4 DEF ReplayLevel, Fail, Inv, DriverPhases
    <3> QED
      BY <3>1 DEF ReportsFirst, SlotIsFirst, PipelineReportsSequentialError
  <2>5. CASE EnterPipe
    <3>1. phase = "running" /\ block \in 1..NBlocks /\ at = "block"
      BY <2>0, <2>5, ShapeOfBlocks DEF EnterPipe, Inv, TypeOK
    <3>2. Columns(block) \subseteq Nat
      BY <3>1, ShapeOfBlocks
    <3>3. \A f \in FirstBad(Columns(block)) : lcol[f] = "stale"
      <4> TAKE f \in FirstBad(Columns(block))
      <4>1. f \in Columns(block) /\ f \in Nat
        BY <3>2, FirstBadIsLeast
      <4>2. f \in Col /\ BlockPtr[block] <= f
        BY <3>1, <4>1, ShapeOfBlocks
      <4>3. f >= BlockPtr[block]
        BY <3>1, <4>1, <4>2, ShapeOfBlocks
      <4> QED
        BY <3>1, <4>2, <4>3 DEF Result, BehindAndAhead
    <3> QED
      BY <2>5, <3>1, <3>3
         DEF EnterPipe, ReportsFirst, SlotIsFirst, FirstBad, PipelineReportsSequentialError
  <2>6. CASE LeavePipe
    <3>1. at' # "pipe"
      BY <2>6 DEF LeavePipe, Fail
    <3> QED
      BY <2>6, <3>1, FailReports DEF ReportsFirst, SlotIsFirst
  <2> QED
    BY <1>3, <2>1, <2>2, <2>3, <2>4, <2>5, <2>6 DEF Driver
<1>4. ASSUME NEW q \in Piece, PieceStep(q) PROVE ReportsFirst'
  <2>1. UNCHANGED <<phase, at, block, mode, bad, error>> /\ at = "pipe"
    BY <1>4, PieceKeepsPhases DEF driver
  <2>2. PipelineReportsSequentialError'
    BY <2>1 DEF ReportsFirst, PipelineReportsSequentialError, FirstBad
  <2>3. CASE Pivot(q)
    BY <2>2, <2>3, PivotReports DEF ReportsFirst
  <2>4. CASE Raise(q)
    <3>1. failed' = Interrupted
      BY <2>4 DEF Raise, KeepLowest
    <3> QED
      BY <2>2, <3>1 DEF ReportsFirst, SlotIsFirst
  <2>5. CASE StartPiece(q) \/ Poll(q) \/ Take(q) \/ Consume(q) \/ Publish(q)
    <3>1. UNCHANGED <<lcol, failed>>
      BY <2>5 DEF StartPiece, Poll, Take, Consume, Publish
    <3> QED
      BY <2>1, <2>2, <3>1 DEF ReportsFirst, SlotIsFirst, FirstBad
  <2> QED
    BY <1>4, <2>3, <2>4, <2>5 DEF PieceStep
<1> QED
  BY <1>1, <1>2, <1>3, <1>4 DEF Next

-----------------------------------------------------------------------------
(***************************************************************************)
(* Type correctness: the numbers stay below EpochMod however often they    *)
(* wrap, and the error slot holds a column, an interrupt or nothing.       *)
(***************************************************************************)
THEOREM TypeCorrect == Spec => []TypeOK
<1>1. Inv => TypeOK
  BY DEF Inv
<1> QED
  BY <1>1, InvAlways, PTL

(***************************************************************************)
(* A piece consumes only L columns this refactor replayed, whatever marks  *)
(* earlier refactors (serial, failed, of the same wrapped number) left.    *)
(***************************************************************************)
THEOREM ConsumesReplayed == Spec => []ConsumesOnlyReplayed
BY InvConsumes, InvAlways, PTL

(***************************************************************************)
(* The columns the pieces write are disjoint, and unpublished while they   *)
(* are written: what the unsafe stores of replay_col rest on.              *)
(***************************************************************************)
THEOREM OneOwner == Spec => []ColumnsHaveOneOwner
<1>1. Inv => ColumnsHaveOneOwner
  <2> SUFFICES ASSUME Inv, NEW q \in Piece
               PROVE  /\ \A r \in Piece \ {q} : Owns(q) \cap Owns(r) = {}
                      /\ \A j \in Owns(q) : ~Published(j)
    BY DEF ColumnsHaveOneOwner
  <2>1. CASE ~Owning(q)
    BY <2>1 DEF Owning, Owns
  <2>2. CASE Owning(q)
    <3>1. at = "pipe" /\ phase = "running" /\ block \in 1..NBlocks /\ mode[block] = "pipelined"
      BY <2>2, PiecesRun DEF Owning
    <3>2. \A r \in Piece : cur[r] \in Nat /\ last[r] \in Nat
      BY DEF Inv, TypeOK
    <3>3. \A r \in Piece \ {q} : Owns(q) \cap Owns(r) = {}
      <4> TAKE r \in Piece \ {q}
      <4>1. CASE Owning(r)
        <5>1. last[q] < cur[r] \/ last[r] < cur[q]
          BY <2>2, <3>1, <4>1 DEF Inv, Ownership
        <5> QED
          BY <3>2, <5>1 DEF Owns
      <4>2. CASE ~Owning(r)
        BY <4>2 DEF Owns, Owning
      <4> QED
        BY <4>1, <4>2
    <3>4. ASSUME NEW j \in Owns(q) PROVE ~Published(j)
      <4>1. j \in Nat /\ cur[q] <= j /\ j <= last[q]
        BY <2>2, <3>2 DEF Owns, Owning
      <4>2. j \in Col /\ BlockPtr[block] \in Nat /\ BlockPtr[block] <= cur[q]
        BY <2>2, <3>1, <4>1, OwnedAreColumns, ShapeOfBlocks DEF Inv, Ownership
      <4>3. ~(j < BlockPtr[block])
        BY <3>2, <4>1, <4>2
      <4> QED
        BY <3>1, <4>2, <4>3 DEF Inv, MarksAreReplayed
    <3> QED
      BY <3>3, <3>4
  <2> QED
    BY <2>1, <2>2
<1> QED
  BY <1>1, InvAlways, PTL

(***************************************************************************)
(* Together: the unsafe accesses of the pieces are sound.                  *)
(***************************************************************************)
THEOREM PieceViews == Spec => []PieceViewsAreSound
BY ConsumesReplayed, OneOwner, PTL DEF PieceViewsAreSound

(***************************************************************************)
(* A refactor that succeeds replayed every column from properly replayed   *)
(* ones, serially, by levels or pipelined, whatever pieces and workers,    *)
(* and whatever refactor failed before it; one that fails on a pivot does  *)
(* so because a pivot of the block it stopped in vanishes.                 *)
(***************************************************************************)
THEOREM ValidFresh == Spec => []ValidIsFresh
<1>1. Result => ValidIsFresh
  BY DEF Result
<1> QED
  BY <1>1, ResultAlways, PTL

(***************************************************************************)
(* A refactor returns what one thread would have: the values, or (where    *)
(* the columns of each block keep their original order) the error of the   *)
(* first vanished pivot.  Without that hypothesis the lowest original      *)
(* column need not be the first: run klu_permuted.                         *)
(***************************************************************************)
THEOREM ReplayFaithful ==
  ASSUME ColumnsInOrder
  PROVE  Spec => []ReplayIsFaithful
<1>1. Init => ReportsFirst
  BY DEF Init, ReportsFirst, SlotIsFirst, PipelineReportsSequentialError
<1>2. Inv /\ Result /\ ReportsFirst /\ [Next]_vars => ReportsFirst'
  BY NextReports
<1>3. Result /\ ReportsFirst => ReplayIsFaithful
  BY DEF Result, ReportsFirst, ReplayIsFaithful
<1> QED
  BY <1>1, <1>2, <1>3, InvAlways, ResultAlways, PTL DEF Spec

-----------------------------------------------------------------------------
(***************************************************************************)
(* The inductive invariant: the runs ascend, are disjoint, and hold the    *)
(* blocks dealt; what a piece has not yet done is the rest of its run, and *)
(* a block that nobody is left to do stands behind the error in the slot.  *)
(***************************************************************************)
Ascends(r) == \A i, j \in DOMAIN r : i < j => r[i] < r[j]

\* Runs of blocks that ascend, each block in one of them at most.
Runs(rs) ==
  /\ rs \in Seq(Seq(Block))
  /\ \A q \in DOMAIN rs : Ascends(rs[q])
  /\ \A p, q \in DOMAIN rs : p # q => ToSet(rs[p]) \cap ToSet(rs[q]) = {}

BlockTypes ==
  /\ blockPhase \in {"valid", "dealing", "replaying", "invalid"}
  /\ value \in [Block -> {"stale", "fresh", "failed"}]
  /\ dealt \in 0..NumBlocks
  /\ runs \in Seq(Seq(Block)) /\ run \in Seq(Block)
  /\ slot = <<>> \/ slot \in Block \X {"interrupted", "singular"}

DealtOnce ==
  blockPhase = "dealing" =>
    /\ Runs(AllRuns)
    /\ \A b \in Block : b <= dealt <=> \E q \in DOMAIN AllRuns : b \in ToSet(AllRuns[q])
    /\ slot = <<>> /\ \A b \in Block : value[b] = "stale"

Behind(b) == slot # <<>> /\ slot[1] <= b

PiecesInStep ==
  /\ blockPhase # "replaying" => runAt = <<>>
  /\ blockPhase = "replaying" =>
       /\ Runs(left) /\ dealt = NumBlocks
       /\ runAt \in [DOMAIN left -> {"ready", "poll", "replay", "gone"}]
       /\ \A q \in DOMAIN left : /\ runAt[q] = "gone" => left[q] = <<>>
                                 /\ runAt[q] = "replay" => left[q] # <<>>

LeftIsStale ==
  blockPhase = "replaying" => \A q \in DOMAIN left : \A b \in ToSet(left[q]) : value[b] = "stale"

NoneForgotten ==
  blockPhase = "replaying" => \A b \in Block :
    value[b] = "fresh" \/ (\E q \in DOMAIN left : b \in ToSet(left[q])) \/ Behind(b)

Outcome ==
  /\ blockPhase = "valid" => \A b \in Block : value[b] = "fresh"
  /\ blockPhase = "invalid" /\ dealt = NumBlocks => \A b \in Block : value[b] = "fresh" \/ Behind(b)

BlockInv ==
  BlockTypes /\ DealtOnce /\ PiecesInStep /\ LeftIsStale /\ NoneForgotten /\ Outcome

-----------------------------------------------------------------------------
(***************************************************************************)
(* Runs: what Append, Head and Tail do to them.                            *)
(***************************************************************************)
LEMMA BlocksAreNumbers == ASSUME BlocksAssumption PROVE NumBlocks \in Nat /\ NumBlocks >= 1 /\ Block \subseteq Nat
  BY DEF BlocksAssumption, NumBlocks, Block

LEMMA RunExtended ==
  ASSUME NEW r \in Seq(Nat), Ascends(r), NEW n \in Nat, \A b \in ToSet(r) : b < n
  PROVE  Ascends(Append(r, n)) /\ ToSet(Append(r, n)) = ToSet(r) \cup {n}
<1> DEFINE s == Append(r, n)
<1>1. /\ Len(r) \in Nat /\ DOMAIN r = 1..Len(r) /\ DOMAIN s = 1..(Len(r) + 1)
      /\ s[Len(r) + 1] = n /\ \A i \in 1..Len(r) : s[i] = r[i] /\ r[i] \in Nat
  BY AppendProperties
<1> HIDE DEF s
<1>2. \A i \in 1..Len(r) : r[i] < n
  BY <1>1 DEF ToSet
<1>3. ASSUME NEW i \in DOMAIN s, NEW j \in DOMAIN s, i < j PROVE s[i] < s[j]
  <2>1. i \in 1..Len(r) /\ (j \in 1..Len(r) \/ j = Len(r) + 1)
    BY <1>1, <1>3
  <2> QED
    BY <1>1, <1>2, <1>3, <2>1 DEF Ascends
<1>4. ToSet(s) = ToSet(r) \cup {n}
  <2>1. 1..(Len(r) + 1) = 1..Len(r) \cup {Len(r) + 1}
    BY <1>1
  <2> QED
    BY <1>1, <2>1 DEF ToSet
<1> QED
  BY <1>3, <1>4 DEF s, Ascends

LEMMA RunShortened ==
  ASSUME NEW r \in Seq(Nat), Ascends(r), r # <<>>
  PROVE  /\ Head(r) \in ToSet(r) /\ \A b \in ToSet(r) : Head(r) <= b
         /\ Tail(r) \in Seq(Nat) /\ Ascends(Tail(r))
         /\ ToSet(Tail(r)) = ToSet(r) \ {Head(r)}
<1> DEFINE s == Tail(r)
<1>1. Len(r) \in Nat /\ DOMAIN r = 1..Len(r) /\ 1 \in 1..Len(r) /\ Head(r) = r[1]
      /\ \A i \in 1..Len(r) : r[i] \in Nat
  BY EmptySeq, LenProperties, HeadTailProperties
<1>2. /\ s \in Seq(Nat) /\ DOMAIN s = 1..(Len(r) - 1)
      /\ \A i \in 1..(Len(r) - 1) : s[i] = r[i + 1]
  BY <1>1, HeadTailProperties
<1> HIDE DEF s
<1>3. \A i, j \in 1..Len(r) : i < j => r[i] < r[j]
  BY <1>1 DEF Ascends
<1>4. \A i \in 1..Len(r) : i # 1 => r[1] < r[i]
  BY <1>1, <1>3
<1>5. \A b \in ToSet(r) : Head(r) <= b
  <2> SUFFICES ASSUME NEW i \in 1..Len(r) PROVE r[1] <= r[i]
    BY <1>1 DEF ToSet
  <2> QED
    BY <1>1, <1>4
<1>6. Ascends(s)
  <2> SUFFICES ASSUME NEW i \in 1..(Len(r) - 1), NEW j \in 1..(Len(r) - 1), i < j
               PROVE  s[i] < s[j]
    BY <1>2 DEF Ascends
  <2>1. i + 1 \in 1..Len(r) /\ j + 1 \in 1..Len(r) /\ i + 1 < j + 1
    BY <1>1
  <2> QED
    BY <1>2, <1>3, <2>1
<1>7. ToSet(s) = ToSet(r) \ {Head(r)}
  <2>1. ASSUME NEW b \in ToSet(s) PROVE b \in ToSet(r) /\ b # Head(r)
    <3>1. PICK i \in 1..(Len(r) - 1) : b = r[i + 1]
      BY <1>2 DEF ToSet
    <3>2. i + 1 \in 1..Len(r) /\ i + 1 # 1
      BY <1>1
    <3>3. r[1] < b /\ r[1] \in Nat
      BY <1>1, <1>4, <3>1, <3>2
    <3> QED
      BY <1>1, <3>1, <3>2, <3>3 DEF ToSet
  <2>2. ASSUME NEW b \in ToSet(r), b # Head(r) PROVE b \in ToSet(s)
    <3>1. PICK i \in 1..Len(r) : b = r[i]
      BY <1>1 DEF ToSet
    <3>2. i - 1 \in 1..(Len(r) - 1) /\ (i - 1) + 1 = i
      BY <1>1, <2>2, <3>1
    <3>3. s[i - 1] = b
      BY <1>2, <3>1, <3>2
    <3> QED
      BY <1>2, <3>2, <3>3 DEF ToSet
  <2> QED
    BY <2>1, <2>2
<1> QED
  BY <1>1, <1>2, <1>5, <1>6, <1>7 DEF s, ToSet

\* Replacing a run by part of it.
LEMMA RunsReplaced ==
  ASSUME Runs(left), NEW q \in DOMAIN left, NEW r \in Seq(Block), Ascends(r),
         ToSet(r) \subseteq ToSet(left[q]), left' = [left EXCEPT ![q] = r]
  PROVE  /\ Runs(left)' /\ DOMAIN left' = DOMAIN left /\ left'[q] = r
         /\ \A p \in DOMAIN left : p # q => left'[p] = left[p]
<1>1. left \in Seq(Seq(Block)) /\ Len(left) \in Nat /\ DOMAIN left = 1..Len(left)
  BY DEF Runs
<1>2. DOMAIN left' = DOMAIN left /\ left'[q] = r /\ \A p \in DOMAIN left : p # q => left'[p] = left[p]
  BY <1>1
<1>3. left' \in Seq(Seq(Block))
  BY <1>1, ExceptSeq
<1>4. \A p \in DOMAIN left : ToSet(left'[p]) \subseteq ToSet(left[p]) /\ Ascends(left'[p])
  BY <1>2 DEF Runs
<1> QED
  BY <1>2, <1>3, <1>4 DEF Runs

-----------------------------------------------------------------------------
(***************************************************************************)
(* The dealing thread.                                                     *)
(***************************************************************************)
LEMMA InitBlocks == BlocksAssumption /\ BlocksInit => BlockInv
<1> SUFFICES ASSUME BlocksAssumption, BlocksInit PROVE BlockInv
  OBVIOUS
<1>1. NumBlocks \in Nat
  BY BlocksAreNumbers
<1>2. BlockTypes
  BY <1>1 DEF BlocksInit, BlockTypes
<1> QED
  BY <1>2 DEF BlocksInit, BlockInv, DealtOnce, PiecesInStep, LeftIsStale, NoneForgotten, Outcome

LEMMA BeginBlocks == BlocksAssumption /\ BlockInv /\ StartBlocks => BlockInv'
<1> SUFFICES ASSUME BlocksAssumption, BlockInv, StartBlocks PROVE BlockInv'
  OBVIOUS
<1>1. NumBlocks \in Nat /\ Block \subseteq Nat /\ \A b \in Block : ~(b <= 0)
  BY BlocksAreNumbers DEF Block
<1>2. /\ blockPhase' = "dealing" /\ value' = [b \in Block |-> "stale"] /\ dealt' = 0
      /\ run' = <<>> /\ runs' = <<>> /\ slot' = <<>> /\ runAt' = runAt
  BY DEF StartBlocks
<1>3. BlockTypes'
  BY <1>1, <1>2 DEF BlockInv, BlockTypes
<1>4. AllRuns' = << <<>> >>
  BY <1>2 DEF AllRuns
<1>5. Runs(AllRuns)'
  <2>1. << <<>> >> \in Seq(Seq(Block)) /\ DOMAIN << <<>> >> = {1} /\ << <<>> >>[1] = <<>>
    OBVIOUS
  <2>2. Ascends(<<>>)
    BY DEF Ascends
  <2> QED
    BY <1>4, <2>1, <2>2 DEF Runs
<1>6. DealtOnce'
  <2>1. \A q \in DOMAIN AllRuns' : ToSet(AllRuns'[q]) = {}
    BY <1>4 DEF ToSet
  <2> QED
    BY <1>1, <1>2, <1>5, <2>1 DEF DealtOnce
<1> QED
  BY <1>2, <1>3, <1>6 DEF StartBlocks, BlockInv, PiecesInStep, LeftIsStale, NoneForgotten, Outcome

LEMMA DealBlocks == BlocksAssumption /\ BlockInv /\ Deal => BlockInv'
<1> SUFFICES ASSUME BlocksAssumption, BlockInv, Deal PROVE BlockInv'
  OBVIOUS
<1> DEFINE A == AllRuns
           n == NextBlock
           L == Len(runs) + 1
<1>1. /\ blockPhase = "dealing" /\ UNCHANGED <<blockPhase, value, runAt, slot>>
      /\ dealt' = n /\ n = dealt + 1 /\ n \in Block /\ n \in Nat /\ dealt \in Nat
      /\ dealt' \in 0..NumBlocks
  BY BlocksAreNumbers DEF Deal, NextBlock, Block, BlockInv, BlockTypes
<1>2. runs \in Seq(Seq(Block)) /\ run \in Seq(Block) /\ Len(runs) \in Nat
  BY DEF BlockInv, BlockTypes
<1>0. L \in 1..L /\ \A q \in 1..L : q \in 1..Len(runs) \/ q = L
  <2> SUFFICES ASSUME NEW k \in Nat PROVE k + 1 \in 1..(k + 1) /\ \A q \in 1..(k + 1) : q \in 1..k \/ q = k + 1
    BY <1>2
  <2> QED
    OBVIOUS
<1>3. /\ DOMAIN A = 1..L /\ A[L] = run /\ \A q \in 1..Len(runs) : A[q] = runs[q]
  BY <1>2, AppendProperties DEF AllRuns
<1>4. /\ Runs(A) /\ slot = <<>> /\ \A b \in Block : value[b] = "stale"
      /\ \A b \in Block : b <= dealt <=> \E q \in DOMAIN A : b \in ToSet(A[q])
  BY <1>1 DEF BlockInv, DealtOnce
<1>5. \A q \in DOMAIN A : \A b \in ToSet(A[q]) : b \in Block /\ b <= dealt
  <2> SUFFICES ASSUME NEW q \in DOMAIN A, NEW b \in ToSet(A[q]) PROVE b \in Block
    BY <1>4
  <2>1. A[q] \in Seq(Block)
    BY <1>4 DEF Runs
  <2> QED
    BY <2>1 DEF ToSet
<1>6. \A q \in DOMAIN A : \A b \in ToSet(A[q]) : b # n /\ b < n
  <2> TAKE q \in DOMAIN A
  <2> TAKE b \in ToSet(A[q])
  <2>1. b \in Nat /\ b <= dealt
    BY <1>5, BlocksAreNumbers
  <2> HIDE DEF A
  <2> QED
    BY <1>1, <2>1
<1>7. Runs(AllRuns)' /\ runs' \in Seq(Seq(Block)) /\ run' \in Seq(Block)
      /\ \A b \in Block : (\E q \in DOMAIN AllRuns' : b \in ToSet(AllRuns'[q]))
                           <=> b = n \/ \E q \in DOMAIN A : b \in ToSet(A[q])
  <2>1. CASE Full(n)
    <3>1. runs' = A /\ run' = <<n>>
      BY <2>1 DEF Deal, AllRuns
    <3>2. <<n>> \in Seq(Block) /\ Ascends(<<n>>) /\ ToSet(<<n>>) = {n}
      BY <1>1 DEF Ascends, ToSet
    <3>3. A \in Seq(Seq(Block)) /\ Len(A) = L
      BY <1>2, <1>3, <1>4 DEF Runs
    <3> DEFINE B == Append(A, <<n>>)
    <3>4. AllRuns' = B
      BY <3>1 DEF AllRuns
    <3>5. /\ B \in Seq(Seq(Block)) /\ DOMAIN B = 1..(L + 1) /\ B[L + 1] = <<n>>
          /\ \A q \in 1..L : B[q] = A[q]
      BY <3>2, <3>3, AppendProperties
    <3>6. \A q \in 1..(L + 1) : q \in 1..L \/ q = L + 1
      BY <1>2
    <3>7. 1..L \subseteq 1..(L + 1) /\ L + 1 \in 1..(L + 1)
      BY <1>2
    <3> HIDE DEF A, B, n, L
    <3>8. Runs(B)
      <4>1. \A q \in DOMAIN B : Ascends(B[q])
        BY <1>3, <1>4, <3>2, <3>5, <3>6 DEF Runs
      <4>2. \A p, q \in DOMAIN B : p # q => ToSet(B[p]) \cap ToSet(B[q]) = {}
        <5> TAKE p, q \in DOMAIN B
        <5>1. CASE p \in 1..L /\ q \in 1..L
          BY <1>3, <1>4, <3>5, <5>1 DEF Runs
        <5>2. CASE p \in 1..L /\ q = L + 1
          BY <1>3, <1>6, <3>2, <3>5, <5>2
        <5>3. CASE p = L + 1 /\ q \in 1..L
          BY <1>3, <1>6, <3>2, <3>5, <5>3
        <5> QED
          BY <3>5, <3>6, <5>1, <5>2, <5>3
      <4> QED
        BY <3>5, <4>1, <4>2 DEF Runs
    <3>9. \A b \in Block : (\E q \in DOMAIN B : b \in ToSet(B[q]))
                           <=> b = n \/ \E q \in DOMAIN A : b \in ToSet(A[q])
      BY <1>3, <3>2, <3>5, <3>6, <3>7
    <3> QED
      BY <3>1, <3>2, <3>3, <3>4, <3>8, <3>9
  <2>2. CASE ~Full(n)
    <3>1. runs' = runs /\ run' = Append(run, n)
      BY <2>2 DEF Deal
    <3>2. Append(run, n) \in Seq(Block)
      BY <1>1, <1>2, AppendProperties
    <3>3. Ascends(Append(run, n)) /\ ToSet(Append(run, n)) = ToSet(run) \cup {n}
      <4>1. run \in Seq(Nat)
        BY <1>2, BlocksAreNumbers, SeqMonotonic
      <4>2. L \in DOMAIN A
        BY <1>2, <1>3
      <4>3. Ascends(run) /\ \A b \in ToSet(run) : b < n
        BY <1>3, <1>4, <1>6, <4>2 DEF Runs
      <4> QED
        BY <1>1, <4>1, <4>3, RunExtended
    <3> DEFINE r == Append(run, n)
               B == Append(runs, r)
    <3>4. AllRuns' = B
      BY <3>1 DEF AllRuns
    <3>5. /\ B \in Seq(Seq(Block)) /\ DOMAIN B = 1..L /\ B[L] = r
          /\ \A q \in 1..Len(runs) : B[q] = runs[q]
      BY <1>2, <3>2, AppendProperties
    <3>6. /\ \A q \in 1..L : q \in 1..Len(runs) \/ q = L
          /\ L \in 1..L
      BY <1>0
    <3>7. \A q \in 1..L : q # L => B[q] = A[q]
      BY <1>3, <3>5, <3>6
    <3> HIDE DEF A, B, n, L, r
    <3>8. Runs(B)
      <4>1. \A q \in DOMAIN B : Ascends(B[q])
        BY <1>3, <1>4, <3>3, <3>5, <3>7 DEF Runs, r
      <4>2. \A p, q \in DOMAIN B : p # q => ToSet(B[p]) \cap ToSet(B[q]) = {}
        <5> TAKE p, q \in DOMAIN B
        <5>1. ToSet(B[L]) = ToSet(A[L]) \cup {n}
          BY <1>3, <3>3, <3>5 DEF r
        <5>2. p # q => ToSet(A[p]) \cap ToSet(A[q]) = {}
          BY <1>3, <1>4, <3>5 DEF Runs
        <5>3. n \notin ToSet(A[p]) /\ n \notin ToSet(A[q])
          BY <1>3, <1>6, <3>5
        <5> QED
          BY <3>5, <3>7, <5>1, <5>2, <5>3
      <4> QED
        BY <3>5, <4>1, <4>2 DEF Runs
    <3>9. \A b \in Block : (\E q \in DOMAIN B : b \in ToSet(B[q]))
                           <=> b = n \/ \E q \in DOMAIN A : b \in ToSet(A[q])
      <4>1. ToSet(B[L]) = ToSet(A[L]) \cup {n}
        BY <1>3, <3>3, <3>5 DEF r
      <4>2. \A q \in 1..L : ToSet(A[q]) \subseteq ToSet(B[q])
        BY <3>7, <4>1
      <4>3. \A q \in 1..L : ToSet(B[q]) \subseteq ToSet(A[q]) \cup {n}
        BY <3>7, <4>1
      <4> QED
        BY <1>3, <3>5, <3>6, <4>1, <4>2, <4>3
    <3> QED
      BY <1>2, <3>1, <3>2, <3>4, <3>8, <3>9 DEF r
  <2> QED
    BY <2>1, <2>2
<1>8. BlockTypes'
  BY <1>1, <1>7 DEF BlockInv, BlockTypes
<1>9. DealtOnce'
  <2>1. \A b \in Block : b <= n <=> b = n \/ b <= dealt
    BY <1>1, BlocksAreNumbers
  <2> QED
    BY <1>1, <1>4, <1>7, <2>1 DEF DealtOnce
<1> QED
  BY <1>1, <1>8, <1>9 DEF BlockInv, PiecesInStep, LeftIsStale, NoneForgotten, Outcome

LEMMA SectionBlocks ==
  ASSUME BlocksAssumption, BlockInv, DealInterrupted \/ StartSection
  PROVE  BlockInv'
<1>1. NumBlocks \in Nat /\ Block = 1..NumBlocks /\ dealt \in 0..NumBlocks
  BY BlocksAreNumbers DEF Block, BlockInv, BlockTypes
<1>2. CASE DealInterrupted
  <2>1. NextBlock \in Block /\ dealt < NumBlocks
    BY <1>1, <1>2 DEF DealInterrupted, NextBlock
  <2>2. /\ blockPhase' = "invalid" /\ slot' = <<NextBlock, "interrupted">>
        /\ run' = <<>> /\ runs' = <<>> /\ UNCHANGED <<value, dealt, runAt>> /\ blockPhase = "dealing"
    BY <1>2 DEF DealInterrupted
  <2>3. BlockTypes'
    BY <2>1, <2>2 DEF BlockInv, BlockTypes
  <2>4. dealt # NumBlocks
    BY <1>1, <2>1
  <2> QED
    BY <2>2, <2>3, <2>4
       DEF BlockInv, DealtOnce, PiecesInStep, LeftIsStale, NoneForgotten, Outcome
<1>3. CASE StartSection
  <2>1. /\ blockPhase' = "replaying" /\ left' = AllRuns /\ blockPhase = "dealing" /\ dealt = NumBlocks
        /\ runAt' = [q \in 1..Len(AllRuns) |-> "ready"]
        /\ run' = <<>> /\ runs' = <<>> /\ UNCHANGED <<value, dealt, slot>>
    BY <1>3 DEF StartSection
  <2>2. /\ Runs(AllRuns) /\ DOMAIN AllRuns = 1..Len(AllRuns)
        /\ \A b \in Block : \E q \in DOMAIN AllRuns : b \in ToSet(AllRuns[q])
    BY <1>1, <2>1 DEF BlockInv, DealtOnce, Runs
  <2>3. BlockTypes'
    BY <2>1 DEF BlockInv, BlockTypes
  <2>4. PiecesInStep'
    BY <2>1, <2>2 DEF PiecesInStep, Runs
  <2>5. LeftIsStale' /\ NoneForgotten'
    <3>1. \A b \in Block : value[b] = "stale"
      BY <2>1 DEF BlockInv, DealtOnce
    <3>2. \A q \in DOMAIN AllRuns : \A b \in ToSet(AllRuns[q]) : b \in Block
      BY <2>2 DEF Runs, ToSet
    <3> QED
      BY <2>1, <2>2, <3>1, <3>2 DEF LeftIsStale, NoneForgotten
  <2> QED
    BY <2>1, <2>3, <2>4, <2>5 DEF BlockInv, DealtOnce, Outcome
<1> QED
  BY <1>2, <1>3

-----------------------------------------------------------------------------
(***************************************************************************)
(* The pieces.                                                             *)
(***************************************************************************)
\* A piece that goes on: what it has left is unchanged.
LEMMA GoOn ==
  ASSUME BlocksAssumption, BlockInv, blockPhase = "replaying", NEW q \in DOMAIN runAt,
         NEW to \in {"poll", "replay", "gone"}, RunGoto(q, to),
         to = "gone" => left[q] = <<>>, to = "replay" => left[q] # <<>>,
         UNCHANGED <<blockPhase, value, dealt, run, runs, left, slot>>
  PROVE  BlockInv'
<1>1. runAt \in [DOMAIN left -> {"ready", "poll", "replay", "gone"}] /\ q \in DOMAIN left
      /\ runAt' = [runAt EXCEPT ![q] = to]
  BY DEF BlockInv, PiecesInStep, RunGoto
<1>2. PiecesInStep'
  <2>1. runAt' \in [DOMAIN left -> {"ready", "poll", "replay", "gone"}]
    BY <1>1
  <2>2. ASSUME NEW p \in DOMAIN left
        PROVE  /\ runAt'[p] = "gone" => left[p] = <<>>
               /\ runAt'[p] = "replay" => left[p] # <<>>
    BY <1>1 DEF BlockInv, PiecesInStep
  <2> QED
    BY <2>1, <2>2 DEF BlockInv, PiecesInStep, Runs
<1> QED
  BY <1>2 DEF BlockInv, BlockTypes, DealtOnce, LeftIsStale, NoneForgotten, Outcome, Behind

LEMMA PieceIsReplaying ==
  ASSUME BlockInv, NEW q \in DOMAIN runAt
  PROVE  blockPhase = "replaying" /\ Runs(left) /\ q \in DOMAIN left /\ dealt = NumBlocks
<1>1. blockPhase = "replaying"
  <2> SUFFICES ASSUME blockPhase # "replaying" PROVE FALSE
    OBVIOUS
  <2>1. runAt = <<>>
    BY DEF BlockInv, PiecesInStep
  <2> QED
    BY <2>1
<1> QED
  BY <1>1 DEF BlockInv, PiecesInStep

\* The piece's next block: nobody else's, and the first of the rest.
LEMMA PieceHead ==
  ASSUME BlocksAssumption, BlockInv, NEW q \in DOMAIN runAt, left[q] # <<>>
  PROVE  /\ Head(left[q]) \in Block /\ Head(left[q]) \in ToSet(left[q])
         /\ left[q] \in Seq(Block) /\ Tail(left[q]) \in Seq(Block)
         /\ Ascends(Tail(left[q])) /\ ToSet(Tail(left[q])) = ToSet(left[q]) \ {Head(left[q])}
         /\ \A b \in ToSet(left[q]) : b \in Block /\ Head(left[q]) <= b
         /\ \A p \in DOMAIN left : p # q => Head(left[q]) \notin ToSet(left[p])
<1>1. Runs(left) /\ q \in DOMAIN left
  BY PieceIsReplaying
<1>2. left[q] \in Seq(Block) /\ Ascends(left[q]) /\ Block \subseteq Nat
  BY <1>1, BlocksAreNumbers DEF Runs
<1>3. left[q] \in Seq(Nat)
  BY <1>2, SeqMonotonic
<1>4. /\ Head(left[q]) \in ToSet(left[q]) /\ Ascends(Tail(left[q]))
      /\ ToSet(Tail(left[q])) = ToSet(left[q]) \ {Head(left[q])}
  BY <1>2, <1>3, RunShortened
<1>5. \A b \in ToSet(left[q]) : Head(left[q]) <= b
  BY <1>2, <1>3, RunShortened
<1>6. \A b \in ToSet(left[q]) : b \in Block
  BY <1>2 DEF ToSet
<1>7. Tail(left[q]) \in Seq(Block)
  BY <1>2, HeadTailProperties
<1>8. \A p \in DOMAIN left : p # q => Head(left[q]) \notin ToSet(left[p])
  BY <1>1, <1>4 DEF Runs
<1> QED
  BY <1>2, <1>4, <1>5, <1>6, <1>7, <1>8

\* A piece that leaves with an error: everything it gives up, and the block that
\* failed, is behind the error.
LEMMA Leaves ==
  ASSUME BlocksAssumption, BlockInv, NEW q \in DOMAIN runAt, left[q] # <<>>,
         NEW why \in {"interrupted", "singular"}, Leave(q, <<Head(left[q]), why>>),
         value' \in [Block -> {"stale", "fresh", "failed"}],
         \A b \in Block : b # Head(left[q]) => value'[b] = value[b],
         UNCHANGED <<blockPhase, dealt, run, runs>>
  PROVE  BlockInv'
<1> DEFINE h == Head(left[q])
<1>1. blockPhase = "replaying" /\ Runs(left) /\ q \in DOMAIN left /\ dealt = NumBlocks
  BY PieceIsReplaying
<1>2. /\ h \in Block /\ h \in ToSet(left[q])
      /\ \A b \in ToSet(left[q]) : b \in Block /\ h <= b
      /\ \A p \in DOMAIN left : p # q => h \notin ToSet(left[p])
  <2>1. h \in Block
    BY PieceHead
  <2>2. h \in ToSet(left[q])
    BY PieceHead
  <2>3. \A b \in ToSet(left[q]) : b \in Block /\ h <= b
    BY PieceHead
  <2>4. \A p \in DOMAIN left : p # q => h \notin ToSet(left[p])
    BY PieceHead
  <2> QED
    BY <2>1, <2>2, <2>3, <2>4
<1>3. left' = [left EXCEPT ![q] = <<>>] /\ runAt' = [runAt EXCEPT ![q] = "gone"]
      /\ slot' = KeepLowestBlock(<<h, why>>)
  BY DEF Leave, RunGoto
<1>4. <<>> \in Seq(Block) /\ Ascends(<<>>) /\ ToSet(<<>>) = {}
  BY DEF Ascends, ToSet
<1>5. Runs(left)' /\ DOMAIN left' = DOMAIN left /\ left'[q] = <<>>
  BY <1>1, <1>3, <1>4, RunsReplaced
<1>6. \A p \in DOMAIN left : p # q => left'[p] = left[p]
  BY <1>1, <1>3, <1>4, RunsReplaced
<1>7. /\ slot' \in Block \X {"interrupted", "singular"} /\ slot' # <<>>
      /\ slot'[1] <= h /\ (slot # <<>> => slot'[1] <= slot[1])
  <2> HIDE DEF h
  <2>1. CASE slot = <<>>
    BY <1>2, <1>3, <2>1, BlocksAreNumbers DEF KeepLowestBlock
  <2>2. CASE slot \in Block \X {"interrupted", "singular"}
    BY <1>2, <1>3, <2>2, BlocksAreNumbers DEF KeepLowestBlock
  <2> QED
    BY <2>1, <2>2 DEF BlockInv, BlockTypes
<1>8. slot'[1] \in Nat /\ (slot # <<>> => slot[1] \in Nat) /\ h \in Nat /\ Block \subseteq Nat
  BY <1>2, <1>7, BlocksAreNumbers DEF BlockInv, BlockTypes
<1>9. \A b \in Block : h <= b \/ Behind(b) => Behind(b)'
  <2> TAKE b \in Block
  <2>1. b \in Nat
    BY <1>8
  <2> HIDE DEF h
  <2> QED
    BY <1>7, <1>8, <2>1 DEF Behind
<1>10. BlockTypes'
  BY <1>1, <1>7 DEF BlockInv, BlockTypes
<1>11. PiecesInStep'
  <2>1. runAt \in [DOMAIN left -> {"ready", "poll", "replay", "gone"}]
    BY <1>1 DEF BlockInv, PiecesInStep
  <2>2. runAt' \in [DOMAIN left' -> {"ready", "poll", "replay", "gone"}]
    BY <1>3, <1>5, <2>1
  <2>3. ASSUME NEW p \in DOMAIN left
        PROVE  /\ runAt'[p] = "gone" => left'[p] = <<>>
               /\ runAt'[p] = "replay" => left'[p] # <<>>
    BY <1>1, <1>3, <1>5, <1>6, <2>1 DEF BlockInv, PiecesInStep
  <2> QED
    BY <1>1, <1>5, <2>2, <2>3 DEF PiecesInStep
<1>12. LeftIsStale'
  <2>1. ASSUME NEW p \in DOMAIN left, NEW b \in ToSet(left'[p]) PROVE value'[b] = "stale"
    <3>1. p # q
      BY <1>4, <1>5, <2>1
    <3>2. b \in ToSet(left[p]) /\ b # h
      BY <1>2, <1>6, <2>1, <3>1
    <3>3. b \in Block
      BY <1>1, <3>2 DEF Runs, ToSet
    <3> QED
      BY <1>1, <3>2, <3>3 DEF BlockInv, LeftIsStale
  <2> QED
    BY <1>1, <1>5, <2>1 DEF LeftIsStale
<1>13. NoneForgotten'
  <2>1. ASSUME NEW b \in Block
        PROVE  value'[b] = "fresh" \/ (\E p \in DOMAIN left' : b \in ToSet(left'[p])) \/ Behind(b)'
    <3>1. CASE b \in ToSet(left[q]) \/ Behind(b)
      BY <1>2, <1>9, <2>1, <3>1
    <3>2. CASE b \notin ToSet(left[q]) /\ \E p \in DOMAIN left : b \in ToSet(left[p])
      BY <1>5, <1>6, <3>2
    <3>3. CASE value[b] = "fresh" /\ b \notin ToSet(left[q])
      BY <1>2, <3>3
    <3> QED
      BY <1>1, <2>1, <3>1, <3>2, <3>3 DEF BlockInv, NoneForgotten
  <2> QED
    BY <2>1 DEF NoneForgotten
<1> QED
  BY <1>1, <1>10, <1>11, <1>12, <1>13 DEF BlockInv, DealtOnce, Outcome

\* A block replayed: it is fresh, and off its piece's run.
LEMMA Replays ==
  ASSUME BlocksAssumption, BlockInv, NEW q \in DOMAIN runAt, left[q] # <<>>,
         value' = [value EXCEPT ![Head(left[q])] = "fresh"],
         left' = [left EXCEPT ![q] = Tail(@)], RunGoto(q, "poll"),
         UNCHANGED <<blockPhase, dealt, run, runs, slot>>
  PROVE  BlockInv'
<1> DEFINE h == Head(left[q])
           t == Tail(left[q])
<1>1. blockPhase = "replaying" /\ Runs(left) /\ q \in DOMAIN left /\ dealt = NumBlocks
  BY PieceIsReplaying
<1>2. h \in Block /\ t \in Seq(Block) /\ Ascends(t) /\ ToSet(t) = ToSet(left[q]) \ {h}
  BY PieceHead
<1>3. \A p \in DOMAIN left : p # q => h \notin ToSet(left[p])
  BY PieceHead
<1>4. left' = [left EXCEPT ![q] = t] /\ runAt' = [runAt EXCEPT ![q] = "poll"]
  BY <1>1 DEF RunGoto, Runs
<1>5. Runs(left)' /\ DOMAIN left' = DOMAIN left /\ left'[q] = t
  BY <1>1, <1>2, <1>4, RunsReplaced
<1>6. \A p \in DOMAIN left : p # q => left'[p] = left[p]
  BY <1>1, <1>2, <1>4, RunsReplaced
<1>7. /\ value' \in [Block -> {"stale", "fresh", "failed"}] /\ value'[h] = "fresh"
      /\ \A b \in Block : b # h => value'[b] = value[b]
  BY <1>2 DEF BlockInv, BlockTypes
<1>8. BlockTypes'
  BY <1>1, <1>7 DEF BlockInv, BlockTypes
<1>9. PiecesInStep'
  <2>1. runAt \in [DOMAIN left -> {"ready", "poll", "replay", "gone"}]
    BY <1>1 DEF BlockInv, PiecesInStep
  <2>2. runAt' \in [DOMAIN left' -> {"ready", "poll", "replay", "gone"}]
    BY <1>4, <1>5, <2>1
  <2>3. ASSUME NEW p \in DOMAIN left
        PROVE  /\ runAt'[p] = "gone" => left'[p] = <<>>
               /\ runAt'[p] = "replay" => left'[p] # <<>>
    BY <1>1, <1>4, <1>5, <1>6, <2>1 DEF BlockInv, PiecesInStep
  <2> QED
    BY <1>1, <1>5, <2>2, <2>3 DEF PiecesInStep
<1>10. LeftIsStale'
  <2>1. ASSUME NEW p \in DOMAIN left, NEW b \in ToSet(left'[p]) PROVE value'[b] = "stale"
    <3>1. b \in ToSet(left[p]) /\ b # h
      BY <1>2, <1>3, <1>5, <1>6, <2>1
    <3>2. b \in Block
      BY <1>1, <3>1 DEF Runs, ToSet
    <3> QED
      BY <1>1, <1>7, <3>1, <3>2 DEF BlockInv, LeftIsStale
  <2> QED
    BY <1>1, <1>5, <2>1 DEF LeftIsStale
<1>11. NoneForgotten'
  <2>1. ASSUME NEW b \in Block
        PROVE  value'[b] = "fresh" \/ (\E p \in DOMAIN left' : b \in ToSet(left'[p])) \/ Behind(b)'
    <3>1. CASE b = h
      BY <1>7, <3>1
    <3>2. CASE b # h /\ \E p \in DOMAIN left : b \in ToSet(left[p])
      BY <1>2, <1>5, <1>6, <3>2
    <3>3. CASE b # h /\ (value[b] = "fresh" \/ Behind(b))
      BY <1>7, <3>3 DEF Behind
    <3> QED
      BY <1>1, <2>1, <3>1, <3>2, <3>3 DEF BlockInv, NoneForgotten
  <2> QED
    BY <2>1 DEF NoneForgotten
<1> QED
  BY <1>1, <1>8, <1>9, <1>10, <1>11 DEF BlockInv, DealtOnce, Outcome

LEMMA PieceBlocks ==
  ASSUME BlocksAssumption, BlockInv, NEW q \in DOMAIN runAt, RunStep(q)
  PROVE  BlockInv'
<1>1. blockPhase = "replaying"
  BY PieceIsReplaying
<1>2. CASE StartRun(q)
  BY <1>1, <1>2, GoOn DEF StartRun
<1>3. CASE PollInterrupt(q)
  <2>1. CASE stopFlag
    <3>1. /\ left[q] # <<>> /\ Leave(q, <<Head(left[q]), "interrupted">>)
          /\ UNCHANGED <<blockPhase, value, dealt, run, runs>>
      BY <1>3, <2>1 DEF PollInterrupt
    <3>2. value' \in [Block -> {"stale", "fresh", "failed"}]
      BY <3>1 DEF BlockInv, BlockTypes
    <3> QED
      BY <3>1, <3>2, Leaves
  <2>2. CASE ~stopFlag
    BY <1>1, <1>3, <2>2, GoOn DEF PollInterrupt
  <2> QED
    BY <2>1, <2>2
<1>4. CASE ReplayBlock(q)
  <2>1. left[q] # <<>>
    BY <1>1, <1>4, PieceIsReplaying DEF BlockInv, PiecesInStep, ReplayBlock
  <2>2. Head(left[q]) \in Block
    BY <2>1, PieceHead
  <2>3. CASE Head(left[q]) \in singular
    <3>1. /\ value' = [value EXCEPT ![Head(left[q])] = "failed"]
          /\ Leave(q, <<Head(left[q]), "singular">>)
          /\ UNCHANGED <<blockPhase, dealt, run, runs>>
      BY <1>4, <2>3 DEF ReplayBlock
    <3>2. /\ value' \in [Block -> {"stale", "fresh", "failed"}]
          /\ \A b \in Block : b # Head(left[q]) => value'[b] = value[b]
      BY <2>2, <3>1 DEF BlockInv, BlockTypes
    <3> QED
      BY <2>1, <3>1, <3>2, Leaves
  <2>4. CASE Head(left[q]) \notin singular
    <3>1. /\ value' = [value EXCEPT ![Head(left[q])] = "fresh"]
          /\ left' = [left EXCEPT ![q] = Tail(@)] /\ RunGoto(q, "poll")
          /\ UNCHANGED <<blockPhase, dealt, run, runs, slot>>
      BY <1>4, <2>4 DEF ReplayBlock
    <3> QED
      BY <2>1, <3>1, Replays
  <2> QED
    BY <2>3, <2>4
<1>5. CASE EndPiece(q)
  BY <1>1, <1>5, GoOn DEF EndPiece
<1> QED
  BY <1>2, <1>3, <1>4, <1>5 DEF RunStep

LEMMA EndBlocks == ASSUME BlocksAssumption, BlockInv, EndSection PROVE BlockInv'
<1>1. /\ blockPhase = "replaying" /\ \A q \in DOMAIN runAt : runAt[q] = "gone"
      /\ blockPhase' = IF slot = <<>> THEN "valid" ELSE "invalid"
      /\ runAt' = <<>> /\ UNCHANGED <<value, dealt, run, runs, slot>>
  BY DEF EndSection
<1>2. \A q \in DOMAIN left : left[q] = <<>>
  BY <1>1 DEF BlockInv, PiecesInStep
<1>3. \A b \in Block : value[b] = "fresh" \/ Behind(b)
  <2>1. \A q \in DOMAIN left : ToSet(left[q]) = {}
    BY <1>2 DEF ToSet
  <2> QED
    BY <1>1, <2>1 DEF BlockInv, NoneForgotten
<1>4. Outcome'
  BY <1>1, <1>3 DEF Outcome, Behind
<1> QED
  BY <1>1, <1>4 DEF BlockInv, BlockTypes, DealtOnce, PiecesInStep, LeftIsStale, NoneForgotten

LEMMA NextBlocks == BlocksAssumption /\ BlockInv /\ [BlocksNext]_blockVars => BlockInv'
<1> SUFFICES ASSUME BlocksAssumption, BlockInv, [BlocksNext]_blockVars PROVE BlockInv'
  OBVIOUS
<1>1. CASE StartBlocks
  BY <1>1, BeginBlocks
<1>2. CASE Deal
  BY <1>2, DealBlocks
<1>3. CASE DealInterrupted \/ StartSection
  BY <1>3, SectionBlocks
<1>4. CASE \E q \in DOMAIN runAt : RunStep(q)
  BY <1>4, PieceBlocks
<1>5. CASE EndSection
  BY <1>5, EndBlocks
<1>6. CASE InterruptBlocks \/ UNCHANGED blockVars
  <2>1. UNCHANGED <<blockPhase, value, dealt, run, runs, left, runAt, slot>>
    BY <1>6 DEF InterruptBlocks, blockVars
  <2> QED
    BY <2>1 DEF BlockInv, BlockTypes, DealtOnce, AllRuns, PiecesInStep, Runs, LeftIsStale,
                NoneForgotten, Outcome, Behind
<1> QED
  BY <1>1, <1>2, <1>3, <1>4, <1>5, <1>6 DEF BlocksNext

LEMMA BlocksStay == ASSUME BlocksAssumption PROVE BlocksSpec => []BlockInv
<1>1. BlocksInit => BlockInv
  BY InitBlocks
<1>2. BlockInv /\ [BlocksNext]_blockVars => BlockInv'
  BY NextBlocks
<1> QED
  BY <1>1, <1>2, PTL DEF BlocksSpec

-----------------------------------------------------------------------------
LEMMA InOrder == BlocksAssumption /\ BlockInv => BlocksAsInOrder
<1> SUFFICES ASSUME BlocksAssumption, BlockInv PROVE BlocksAsInOrder
  OBVIOUS
<1>1. ASSUME blockPhase = "replaying", NEW b \in Block
      PROVE  Cardinality({q \in DOMAIN left : b \in ToSet(left[q])}) <=
               (IF value[b] = "stale" THEN 1 ELSE 0)
  <2> DEFINE S == {q \in DOMAIN left : b \in ToSet(left[q])}
  <2>1. \A p, q \in S : p = q
    BY <1>1 DEF BlockInv, PiecesInStep, Runs
  <2>2. S # {} => value[b] = "stale"
    BY <1>1 DEF BlockInv, LeftIsStale
  <2>3. CASE S = {}
    BY <2>3, FS_EmptySet
  <2>4. CASE S # {}
    <3>1. PICK p \in S : S = {p}
      BY <2>1, <2>4
    <3>2. Cardinality(S) = 1
      BY <3>1, FS_Singleton
    <3> QED
      BY <2>2, <2>4, <3>2
  <2> QED
    BY <2>3, <2>4
<1>2. EveryBlockReplayed
  BY <1>1 DEF BlockInv, Outcome, EveryBlockReplayed
<1>3. ErrorOfTheFirstBlock
  <2> SUFFICES ASSUME blockPhase = "invalid", slot # <<>>, dealt = NumBlocks, NEW b \in 1..(slot[1] - 1)
               PROVE  value[b] = "fresh"
    BY DEF ErrorOfTheFirstBlock
  <2>1. slot[1] \in Block
    BY DEF BlockInv, BlockTypes
  <2>2. b \in Block /\ b \in Nat /\ slot[1] \in Nat /\ ~(slot[1] <= b)
    BY <2>1, BlocksAreNumbers DEF Block
  <2> QED
    BY <2>2 DEF BlockInv, Outcome, Behind
<1> QED
  BY <1>2, <1>3 DEF BlocksAsInOrder

(***************************************************************************)
(* The blocks side by side are the blocks in order: for any dealing,       *)
(* interleaving and interrupt, a block is in one run and replayed once, a  *)
(* refactor that succeeds replayed them all, and one that fails has        *)
(* replayed every block before the one its error names (the run-dealing    *)
(* loop, the pieces and the error slot of KluSolver::refactor).            *)
(***************************************************************************)
THEOREM BlocksInOrder == ASSUME BlocksAssumption PROVE BlocksSpec => []BlocksAsInOrder
<1>1. BlockInv => BlocksAsInOrder
  BY InOrder
<1> QED
  BY <1>1, BlocksStay, PTL

=============================================================================
