---------------------------- MODULE BlockTriangle ----------------------------
(***************************************************************************)
(* The block triangular form of the KLU analysis                           *)
(* (src/src/ordering/btf.rs): a maximum transversal, by Hopcroft-Karp      *)
(* phases or one column at a time (MC21), then one pass of Tarjan's        *)
(* algorithm over the matched graph, whose components, in the order they   *)
(* are emitted, are the diagonal blocks.                                   *)
(*                                                                         *)
(* A depth-first search for an augmenting path is one step that takes any  *)
(* path the search may find; Tarjan's pass is modelled visit by visit.     *)
(***************************************************************************)
EXTENDS Integers, Sequences, FiniteSets, FiniteSetsExt, SequencesExt

CONSTANT Patterns  \* square patterns: the set of rows of every column
ASSUME SquarePatterns == \A p \in Patterns : p \in Seq(SUBSET DOMAIN p)

VARIABLES
  pattern,
  rule,      \* "diagonal" and "free" (hk_transversal), or "mc21"
  stage,     \* "seed", "layers", "augment", "matched", "dropped" or "walk"
  rowMatch,  \* the row matched to each column, UNMATCHED if none
  layer,     \* HK: the columns' level in this phase, UNSET once consumed
  open,      \* the columns still to search from
  index, low, stack,  \* Tarjan: discovery, lowlink, scc_stack
  frames,    \* the search's columns, each with the rows it has not looked at
  colPerm, blockPtr   \* the form, as far as it is emitted
matchVars == <<rowMatch, layer, open>>
walkVars == <<index, low, stack, frames, colPerm, blockPtr>>
btfVars == <<pattern, rule, stage, matchVars, walkVars>>

UNMATCHED == 0
UNSET == -1

Slot == DOMAIN pattern
ColOfRow(r) == IF r \in Range(rowMatch) THEN CHOOSE c \in Slot : rowMatch[c] = r ELSE UNMATCHED
FreeCols == {c \in Slot : rowMatch[c] = UNMATCHED}
FreeRows(c) == {r \in pattern[c] : ColOfRow(r) = UNMATCHED}

BtfInit ==
  /\ pattern \in Patterns /\ rule \in {"diagonal", "free", "mc21"}
  /\ stage = "seed"
  /\ rowMatch = [c \in Slot |-> UNMATCHED] /\ layer = <<>> /\ open = {}
  /\ index = [c \in Slot |-> UNSET] /\ low = index
  /\ stack = <<>> /\ frames = <<>> /\ colPerm = <<>> /\ blockPtr = <<1>>

-----------------------------------------------------------------------------
(***************************************************************************)
(* The seeds: the diagonal, then the first free row of every column.       *)
(***************************************************************************)
OnDiagonal == [c \in Slot |-> IF rule = "diagonal" /\ c \in pattern[c] THEN c ELSE UNMATCHED]

FirstFree(match, c) ==
  LET rows == pattern[c] \ Range(match) IN
  IF match[c] # UNMATCHED \/ rows = {} THEN match ELSE [match EXCEPT ![c] = Min(rows)]

Seeded ==
  LET match[c \in 0..Len(pattern)] == IF c = 0 THEN OnDiagonal ELSE FirstFree(match[c - 1], c)
  IN match[Len(pattern)]

Seed ==
  /\ stage = "seed"
  /\ rowMatch' = Seeded
  /\ open' = {c \in Slot : rowMatch'[c] = UNMATCHED}
  /\ stage' = IF open' = {} THEN "matched" ELSE IF rule = "mc21" THEN "augment" ELSE "layers"
  /\ UNCHANGED <<pattern, rule, layer, walkVars>>

-----------------------------------------------------------------------------
(***************************************************************************)
(* Augmenting paths: <<column, row>> steps, each row but the last matched  *)
(* to the column of the next step, the last one free, no column twice.     *)
(***************************************************************************)
ColumnsFrom(start) ==
  {q \in UNION {[1..k -> Slot] : k \in Slot} :
     /\ q[1] = start /\ IsInjective(q)
     /\ \A k \in 1..Len(q) - 1 : rowMatch[q[k + 1]] \in pattern[q[k]]}
Steps(q, last) == [k \in DOMAIN q |-> <<q[k], IF k = Len(q) THEN last ELSE rowMatch[q[k + 1]]>>]

PathsFrom(start) == UNION {{Steps(q, r) : r \in FreeRows(q[Len(q)])} : q \in ColumnsFrom(start)}

Rematched(path) ==
  [c \in Slot |-> IF \E s \in Range(path) : s[1] = c
                  THEN (CHOOSE s \in Range(path) : s[1] = c)[2] ELSE rowMatch[c]]

\* A breadth-first pass from all free columns, as far as the first level that
\* reaches a free row.
Deeper(of, k) ==
  LET here == {c \in Slot : of[c] = k} IN
  IF \E c \in here : FreeRows(c) # {} THEN of
  ELSE [c \in Slot |-> IF of[c] = UNSET /\ rowMatch[c] \in UNION {pattern[h] : h \in here}
                       THEN k + 1 ELSE of[c]]

Levels ==
  LET of[k \in 0..Len(pattern)] ==
        IF k = 0 THEN [c \in Slot |-> IF c \in FreeCols THEN 0 ELSE UNSET] ELSE Deeper(of[k - 1], k - 1)
  IN of[Len(pattern)]

\* The pass stops at the first column with a free row: it, and the columns
\* before it on its level, have led to a level more.
Beyond(of, last, before) ==
  [c \in Slot |-> IF of[c] = UNSET /\ rowMatch[c] \in UNION {pattern[h] : h \in before \cup {last}}
                  THEN of[last] + 1 ELSE of[c]]

Layers ==
  /\ stage = "layers"
  /\ LET of == Levels
         reached == {c \in Slot : of[c] # UNSET /\ FreeRows(c) # {}} IN
     /\ stage' = IF reached = {} THEN "matched" ELSE "augment"
     /\ open' = IF reached = {} THEN {} ELSE FreeCols
     /\ IF reached = {} THEN layer' = of
        ELSE \E last \in reached :
               \E before \in SUBSET {c \in Slot \ reached : of[c] = of[last]} : layer' = Beyond(of, last, before)
  /\ UNCHANGED <<pattern, rule, rowMatch, walkVars>>

\* The paths a search follows: HK's up the levels, MC21's any.
Layered(path) ==
  \A k \in DOMAIN path : layer[path[k][1]] = k - 1
Followed(c) == {p \in PathsFrom(c) : rule = "mc21" \/ Layered(p)}

AfterSearch == IF open' # {} THEN "augment" ELSE IF rule = "mc21" THEN "matched" ELSE "layers"

Augment ==
  /\ stage = "augment"
  /\ LET c == Min(open) IN
     /\ open' = open \ {c}
     /\ \/ \E p \in Followed(c) :
             /\ rowMatch' = Rematched(p)
             /\ layer' = IF rule = "mc21" THEN layer
                         ELSE [k \in Slot |-> IF \E s \in Range(p) : s[1] = k THEN UNSET ELSE layer[k]]
        \/ Followed(c) = {} /\ UNCHANGED <<rowMatch, layer>>
  /\ stage' = AfterSearch
  /\ UNCHANGED <<pattern, rule, walkVars>>

\* MC21's budget of steps is spent: the candidate is dropped.
DropCandidate ==
  /\ stage = "augment" /\ rule = "mc21"
  /\ stage' = "dropped"
  /\ UNCHANGED <<pattern, rule, matchVars, walkVars>>

-----------------------------------------------------------------------------
(***************************************************************************)
(* btf_from_matching, where the transversal is complete: column j leads to *)
(* the columns its rows are matched to.                                    *)
(***************************************************************************)
Discover(c) ==
  /\ index' = [index EXCEPT ![c] = Cardinality({d \in Slot : index[d] # UNSET})]
  /\ low' = [low EXCEPT ![c] = index'[c]]
  /\ stack' = Append(stack, c)

StartWalk ==
  /\ stage = "matched" /\ FreeCols = {}
  /\ stage' = "walk"
  /\ UNCHANGED <<pattern, rule, matchVars, walkVars>>

Root ==
  /\ stage = "walk" /\ frames = <<>>
  /\ LET fresh == {c \in Slot : index[c] = UNSET} IN
     /\ fresh # {}
     /\ Discover(Min(fresh))
     /\ frames' = <<<<Min(fresh), pattern[Min(fresh)]>>>>
  /\ UNCHANGED <<pattern, rule, stage, matchVars, colPerm, blockPtr>>

OnStack(c) == c \in Range(stack)

Look ==
  /\ stage = "walk" /\ frames # <<>>
  /\ LET v == Last(frames)[1]
         rows == Last(frames)[2]
         w == ColOfRow(Min(rows))
         here == Append(Front(frames), <<v, rows \ {Min(rows)}>>)
     IN /\ rows # {}
        /\ IF index[w] = UNSET
             THEN Discover(w) /\ frames' = Append(here, <<w, pattern[w]>>)
             ELSE /\ low' = IF OnStack(w) /\ index[w] < low[v] THEN [low EXCEPT ![v] = index[w]] ELSE low
                  /\ frames' = here /\ UNCHANGED <<index, stack>>
  /\ UNCHANGED <<pattern, rule, stage, matchVars, colPerm, blockPtr>>

NotHandedDown == low

\* A finished column hands its lowlink to the column below it.
HandedDown ==
  IF Len(frames) = 1 THEN low
  ELSE LET v == Last(frames)[1]
           parent == frames[Len(frames) - 1][1]
       IN IF low[v] < low[parent] THEN [low EXCEPT ![parent] = low[v]] ELSE low

\* A component: all above its first column on the stack, in discovery order.
Finish ==
  /\ stage = "walk" /\ frames # <<>> /\ Last(frames)[2] = {}
  /\ LET v == Last(frames)[1]
         root == CHOOSE k \in DOMAIN stack : stack[k] = v
     IN IF low[v] = index[v]
          THEN /\ colPerm' = colPerm \o SubSeq(stack, root, Len(stack))
               /\ blockPtr' = Append(blockPtr, Len(colPerm') + 1)
               /\ stack' = SubSeq(stack, 1, root - 1)
          ELSE UNCHANGED <<colPerm, blockPtr, stack>>
  /\ low' = HandedDown
  /\ frames' = Front(frames)
  /\ UNCHANGED <<pattern, rule, stage, matchVars, index>>

BtfNext == Seed \/ Layers \/ Augment \/ DropCandidate \/ StartWalk \/ Root \/ Look \/ Finish
BtfSpec == BtfInit /\ [][BtfNext]_btfVars

-----------------------------------------------------------------------------
\* Koenig's theorem: as many columns are matched as the most deficient set of
\* columns allows, whichever search ran, so a matrix is reported structurally
\* singular only where every assignment of values is.
TransversalIsMaximum ==
  stage = "matched" =>
    /\ \A c \in Slot : rowMatch[c] \in pattern[c] \cup {UNMATCHED}
    /\ Cardinality(FreeCols) =
         Max({Cardinality(S) - Cardinality(UNION {pattern[c] : c \in S}) : S \in SUBSET Slot})

\* The columns that can be reached from c: those in every set of columns that
\* holds c and, with a column, the columns its rows are matched to.
Leads(c, d) == rowMatch[d] \in pattern[c]
Reach(c) ==
  {d \in Slot : \A S \in SUBSET Slot :
     (c \in S /\ \A x \in S, y \in Slot : Leads(x, y) => y \in S) => d \in S}

BlockOf(k) == CHOOSE b \in 1..Len(blockPtr) - 1 : blockPtr[b] <= k /\ k < blockPtr[b + 1]

\* The permuted matrix has a zero-free diagonal, no entry below its diagonal
\* blocks, and no block that could be split further.
BlocksAreTheComponents ==
  (stage = "walk" /\ Len(colPerm) = Len(pattern)) =>
    /\ Range(colPerm) = Slot
    /\ \A k \in Slot : rowMatch[colPerm[k]] \in pattern[colPerm[k]]
    /\ \A k, l \in Slot :
         LET from == colPerm[k]
             to == colPerm[l]
         IN /\ Leads(from, to) => BlockOf(l) <= BlockOf(k)
            /\ BlockOf(k) = BlockOf(l) <=> (to \in Reach(from) /\ from \in Reach(to))

\* Both: what the blocks of a matrix are, or that it is singular.
BlockFormIsSound == TransversalIsMaximum /\ BlocksAreTheComponents
=============================================================================
