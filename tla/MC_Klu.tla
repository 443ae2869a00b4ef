------------------------------- MODULE MC_Klu -------------------------------
(***************************************************************************)
(* The KLU components, one behaviour each: `part' says which of them moves *)
(* while the others keep the state they start in.                          *)
(*   "btf"     BlockTriangle: all 512 patterns of three columns, and four  *)
(*             larger ones with a long augmenting path or nested cycles    *)
(*   "factor"  KluFactor over the numbers mod 3: patterns of one to three  *)
(*             blocks, with permuted rows and columns, and values that now *)
(*             and then make a pivot vanish                                *)
(*   "replay"  KluReplay: a block of three columns (1 and 2 independent, so*)
(*             that either may fail first, 3 reads both) and one of two,   *)
(*             at most MaxVanished pivots of a refactor vanishing; or      *)
(*             (ReplaySpec) a block of four whose elimination DAG has      *)
(*             three levels (1 and 2 independent, 3 reads both, 4 reads 3  *)
(*             and 1)                                                      *)
(*   "blocks"  KluBlocks: four blocks of one to three columns, dealt into  *)
(*             one to four runs, on two threads                            *)
(*   "formats" SparseFormats: files of up to three columns and five lines, *)
(*             well-formed or not, read by three readers, and arrays that  *)
(*             need not be matrices                                        *)
(***************************************************************************)
EXTENDS KluReplay, KluFactor, BlockTriangle, KluBlocks

VARIABLES
  part,
  mFile, mWant, mPhase, mAt, mSize, mEntries, mMat, mWritten

TwoBlocks == <<1, 4, 6>>
TwoBlocksReads == <<<<>>, <<>>, <<1, 2>>, <<>>, <<4>>>>
OneBlock == <<1, 5>>
OneBlockReads == <<<<>>, <<>>, <<1, 2>>, <<1, 3>>>>

Identity == [j \in Col |-> j]
Reversed == [j \in Col |-> Cardinality(Col) + 1 - j]

\* Systems of KluFactor.  A pattern gives, for every pre-pivot column, the
\* pre-pivot rows it has.
Csc(cols) ==
  LET entries == FlattenSeq([c \in DOMAIN cols |->
                   LET rows == SetToSortSeq(DOMAIN cols[c], <) IN
                   [i \in DOMAIN rows |-> <<rows[i], cols[c][rows[i]]>>]])
  IN [ptr |-> [c \in 1..Len(cols) + 1 |->
                 1 + Cardinality({<<k, r>> \in (1..c - 1) \X (1..Len(cols)) : r \in DOMAIN cols[k]})],
      row |-> [e \in DOMAIN entries |-> entries[e][1]],
      val |-> [e \in DOMAIN entries |-> entries[e][2]]]

\* The m-th values of a pattern.
Val(m, i, j) == IF i = j THEN 1 + (m % 2) ELSE 1 + ((((m * (i + 2 * j)) + i * j) \div 2) % (P - 1))
Valued(pat, rp, cp, m) ==
  Csc([c \in DOMAIN pat |->
    LET j == CHOOSE j \in DOMAIN pat : cp[j] = c IN
    [r \in {rp[i] : i \in pat[j]} |-> Val(m, CHOOSE i \in DOMAIN rp : rp[i] = r, j)]])

\* The same number of entries, in other rows.
Turned(pat) == [j \in DOMAIN pat |-> pat[IF j = Len(pat) THEN 1 ELSE j + 1]]

System(pat, blocks, rp, cp, piece, parallel, m, replays) ==
  [a |-> Valued(pat, rp, cp, m), rowPerm |-> rp, colPerm |-> cp, blocks |-> blocks,
   scale |-> [r \in DOMAIN pat |-> 1 + ((r + m) % 2)], piece |-> piece, parallel |-> parallel,
   others |-> {Valued(pat, rp, cp, k) : k \in replays} \cup {Valued(Turned(pat), rp, cp, m)}]

OneBlock4 == {<<{1,3},{1,2,4},{2,3},{1,3,4}>>, <<{1,2},{1,2,3},{2,3,4},{4,1}>>, <<{1,4},{2,1},{3,2},{4,3,1}>>}
OneBlock5 == <<{1,2},{2,3,5},{3,1},{4,2,1},{5,4,3}>>
Blocks122 == <<{1},{1,2,3},{2,3},{1,3,4,5},{4,5}>>
Blocks22 == <<{1,2},{1,2},{1,3,4},{2,3,4}>>

SmallSystems ==
  {System(p, <<1, 5>>, <<3,1,4,2>>, <<2,4,1,3>>, <<1>>, FALSE, m, {m + 1, m + 2}) :
     p \in OneBlock4, m \in 0..3}
  \cup {System(OneBlock5, <<1, 6>>, <<3,1,4,2,5>>, <<2,4,1,3,5>>, <<1>>, FALSE, m, {m + 1}) : m \in 0..5}
  \cup {System(Blocks122, <<1, 2, 4, 6>>, <<2,1,3,5,4>>, <<1,3,2,5,4>>, sizes, parallel, m, {m + 1}) :
     sizes \in {<<1,1,1>>, <<1,2,2>>}, parallel \in BOOLEAN, m \in 0..5}
  \cup {System(Blocks22, <<1, 3, 5>>, <<2,1,3,4>>, <<1,3,2,4>>, <<1,1>>, TRUE, m, {m + 1}) : m \in 0..5}

\* One irreducible block, and a matrix with the same row indices whose second
\* column takes an entry over from the first.
Ring == [a |-> [ptr |-> <<1, 3, 5, 7, 9>>, row |-> <<1, 2, 3, 4, 1, 3, 2, 4>>,
                val |-> <<1, 1, 1, 1, 1, 2, 2, 1>>],
         rowPerm |-> <<1, 4, 3, 2>>, colPerm |-> <<1, 2, 3, 4>>, blocks |-> <<1, 5>>,
         scale |-> <<1, 1, 1, 1>>, piece |-> <<1>>, parallel |-> FALSE]
ShiftedColumns ==
  {[others |-> {[ptr |-> <<1, 2, 5, 7, 9>>, row |-> Ring.a.row, val |-> v]}] @@ [Ring EXCEPT !.a.val = v] :
     v \in [1..8 -> 1..2]}

FourBlocks == <<0, 1, 4, 5, 7>>
ASSUME BlocksHold == BlocksAssumption

\* The words of SparseFormats, and files of them.
Fraction == -1
NotFinite == -2
Junk == -3
Comment == -4
BannerOf(field, symmetry) == <<"%%MatrixMarket", "matrix", "coordinate", field, symmetry>>
SymFile(field, lines) == <<BannerOf(field, "symmetric")>> \o lines
GenFile(field, lines) == <<BannerOf(field, "general")>> \o lines
BodyOf(seq) == [k \in DOMAIN seq |-> <<seq[k][1], seq[k][2], k>>]
BodyOfC(seq) == [k \in DOMAIN seq |-> <<seq[k][1], seq[k][2], k, 5>>]
SeqsUpTo(S, m) == UNION {[1..k -> S] : k \in 0..m}
OddFiles == {<<BannerOf("real", "symmetric")>>, <<>>, <<<<"%%MatrixMarket", "matrix", "coordinate">>>>,
  SymFile("pattern", <<<<1, 1, 0>>>>), <<BannerOf("real", "hermitian"), <<1, 1, 0>>>>,
  SymFile("real", <<<<Comment, 3>>, <<>>, <<2, 2, 1>>, <<>>, <<2, 1, Fraction>>, <<>>>>),
  SymFile("real", <<<<2, 2, 1>>, <<Comment, 1>>, <<2, 1, 3>>>>),
  SymFile("real", <<<<2, 2, 1>>, <<2, 1, NotFinite>>>>), SymFile("real", <<<<2, 2, 1>>, <<2, 1, Junk>>>>),
  SymFile("real", <<<<2, 2, 1>>, <<2, Fraction, 3>>>>), SymFile("real", <<<<2, 2, 1>>, <<2, 1>>>>),
  SymFile("real", <<<<2, 3, 1>>, <<2, 1, 3>>>>), SymFile("real", <<<<2, 2>>, <<2, 1, 3>>>>),
  GenFile("real", <<<<2, 2, 1>>, <<0, 1, 3>>>>), GenFile("real", <<<<2, 2, 1>>, <<1, 3, 3>>>>),
  GenFile("complex", <<<<2, 2, 2>>, <<1, 2, 0, 0>>, <<1, 1, 3, NotFinite>>>>),
  GenFile("complex", <<<<2, 2, 2>>, <<1, 2, 0, 0>>, <<1, 1, 3, 0>>>>),
  GenFile("integer", <<<<0, 0, 0>>>>),
  GenFile("integer", <<<<3, 3, 6>>, <<3, 1, 1>>, <<1, 3, 2>>, <<2, 2, 3>>, <<1, 3, 4>>, <<1, 1, 5>>, <<2, 1, 6>>>>)}
SmallFiles == OddFiles \cup
  {SymFile("real", <<<<2, 2, m>>>> \o BodyOf(s)) : m \in 1..3, s \in SeqsUpTo((1..2) \X (1..2), 3)} \cup
  {GenFile("complex", <<<<2, 2, Len(s)>>>> \o BodyOfC(s)) : s \in SeqsUpTo((1..2) \X (1..2), 3)} \cup
  {GenFile("real", <<<<3, 3, Len(s)>>>> \o BodyOf(s)) : s \in {q \in [1..3 -> (1..3) \X (1..3)] : q[1] \in {<<1, 1>>, <<3, 1>>, <<2, 3>>}}} \cup
  {SymFile("integer", <<<<3, 3, Len(s)>>>> \o BodyOf(s)) : s \in [1..2 -> (1..3) \X (1..3)]}
Number(k) == [re |-> k, im |-> 0]
SomeArrays ==
  {[n |-> 2, ptr |-> p, idx |-> i, val |-> [k \in 1..m |-> Number(k)]] :
     p \in [1..3 -> 0..2], i \in SeqsUpTo(1..3, 3), m \in 2..3}
  \cup {[n |-> 3, ptr |-> p, idx |-> i, val |-> [k \in 1..5 |-> Number(k)]] :
           p \in {<<0, 1, 3, 5>>, <<0, 0, 3, 5>>}, i \in [1..5 -> 1..3]}

F == INSTANCE SparseFormats WITH
  Files <- SmallFiles, Arrays <- SomeArrays, IndexMax <- 6,
  Readers <- {<<"real", "symmetric">>, <<"complex", "general">>, <<>>},
  file <- mFile, want <- mWant, phase <- mPhase, at <- mAt, size <- mSize, entries <- mEntries,
  mat <- mMat, written <- mWritten
formatVars == <<mFile, mWant, mPhase, mAt, mSize, mEntries, mMat, mWritten>>

SomePatterns ==
  [1..3 -> SUBSET (1..3)]
    \cup {<<{1,2}, {1,3}, {2,4}, {1}>>, <<{2}, {3}, {4}, {1,4}>>,
          <<{1,2,5}, {1}, {2,3}, {3,4}, {4}>>, <<{1}, {1,2}, {2}, {3,4,5}, {4}>>}

RestingSystem == CHOOSE s \in Systems : TRUE
RestingPattern == <<{1}>>

-----------------------------------------------------------------------------
partVars == <<part, btfVars, kluVars, vars, blockVars, formatVars>>

MCInit ==
  /\ part \in {"btf", "factor", "replay", "blocks", "formats"}
  /\ IF part = "btf" THEN BtfInit
     ELSE /\ pattern = RestingPattern /\ rule = "mc21" /\ stage = "seed"
          /\ rowMatch = <<UNMATCHED>> /\ layer = <<>> /\ open = {}
          /\ index = <<UNSET>> /\ low = index
          /\ stack = <<>> /\ frames = <<>> /\ colPerm = <<>> /\ blockPtr = <<1>>
  /\ KluInit /\ (part # "factor" => sys = RestingSystem)
  /\ Init
  /\ BlocksInit
  /\ IF part = "formats" THEN F!FormatInit
     ELSE /\ mFile = <<>> /\ mWant = <<>> /\ mPhase = "idle" /\ mMat = [n |-> -1] /\ mWritten = mMat
          /\ mAt = 0 /\ mSize = [n |-> 0, nnz |-> 0] /\ mEntries = <<>>

Of(p, Step, Rest) == part = p /\ Step /\ UNCHANGED <<part, Rest>>

Btf == Of("btf", BtfNext, <<kluVars, vars, blockVars, formatVars>>)
Factor == Of("factor", KluNext, <<btfVars, vars, blockVars, formatVars>>)
Replay(Step) == Of("replay", Step, <<btfVars, kluVars, blockVars, formatVars>>)
Blocks(Step) == Of("blocks", Step, <<btfVars, kluVars, vars, formatVars>>)
Formats == Of("formats", F!FormatNext, <<btfVars, kluVars, vars, blockVars>>)
Ends == part \in {"btf", "factor", "formats"} /\ UNCHANGED partVars

\* A bound of the run: two failures already meet in one error slot.
MaxVanished == 2
FewVanish == Cardinality(bad') <= MaxVanished

MCNext == Btf \/ Factor \/ Replay(Next /\ FewVanish) \/ Blocks(BlocksNext) \/ Formats \/ Ends

\* The fairness of KluReplay and KluBlocks.
MCSpec ==
  /\ MCInit /\ [][MCNext]_partVars
  /\ WF_partVars(Replay(Driver)) /\ \A q \in Piece : WF_partVars(Replay(PieceStep(q)))
  /\ WF_partVars(Blocks(Deal \/ DealInterrupted \/ StartSection \/ EndSection))
  /\ \A q \in Block : WF_partVars(Blocks(q \in DOMAIN runAt /\ RunStep(q)))

\* KluReplay alone.
ReplaySpec == part = "replay" /\ MCInit /\ [][Replay(Next)]_partVars

\* KluFactor alone.
FactorAlone == part = "factor" /\ MCInit /\ [][Factor]_partVars

\* Every refactor ends, of the columns and of the blocks side by side.
\* (RefactorReturns and BlocksReturn at once).
RefactorsReturn == []<>(phase # "running" /\ blockPhase \notin {"dealing", "replaying"})

\* A file is read as the matrix it says, or not at all.
MatrixIsTheFile == F!MatrixIsTheFile
\* What is made of a matrix agrees with it and with what is made otherwise.
FormsAgree == F!FormsAgree
=============================================================================
