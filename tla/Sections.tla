------------------------------ MODULE Sections ------------------------------
(***************************************************************************)
(* The parallel sections (src/src/parallel.rs): a loop over n items run    *)
(* here, in order, or cut into pieces that the pool's threads run side by  *)
(* side, each in order; and a scope, whose tasks start tasks of their own, *)
(* run on the pool or, one after the other, on the calling thread.         *)
(*                                                                         *)
(* A loop's item stands for its index.  `each' (chunks_on, zip_mut) works  *)
(* in place, `map' writes a slot per item, `init' makes a state per piece  *)
(* and joins what the pieces give, `owned' takes the item out of its slot, *)
(* `any' stops once an item is found.                                      *)
(***************************************************************************)
EXTENDS Integers, Sequences, SequencesExt, FiniteSets, FiniteSetsExt

CONSTANTS
  Loops,              \* [op, n, threads, holds]: the items `any' looks for
  Scopes,             \* [body, starts]: the tasks the body and every task start
  PIECES_PER_WORKER

LOOP == {"each", "map", "init", "owned", "any"}

\* `any' looks for items there are.
IsALoop(l) == l.op \in LOOP /\ l.n \in Nat /\ l.threads \in Nat /\ l.holds \subseteq 1..l.n

\* A task is a closure: it is started once, by the body or by a task, which was
\* started before it.
IsAScope(c) ==
  LET Tasks == DOMAIN c.starts
      Starts(u) == IF u = 0 THEN c.body ELSE c.starts[u]
  IN /\ c.op \notin LOOP
     /\ c.starts \in Seq(Seq(Tasks)) /\ c.body \in Seq(Tasks)
     /\ \A t \in Tasks : \E u \in {0} \cup Tasks : u < t /\ t \in ToSet(Starts(u))
     /\ \A u \in {0} \cup Tasks : IsInjective(Starts(u))
     /\ \A u, v \in {0} \cup Tasks : u # v => ToSet(Starts(u)) \cap ToSet(Starts(v)) = {}

ASSUME SectionsAssumption ==
  /\ PIECES_PER_WORKER \in Nat \ {0}
  /\ \A l \in Loops : IsALoop(l)
  /\ \A c \in Scopes : IsAScope(c)

VARIABLES
  section,   \* the loop or scope
  wide,      \* whether the work is worth the pool (Work::go)
  nextItem,  \* each piece's next item
  slotOf,    \* what each item's slot holds: nothing, or the item
  visits,    \* how often each item ran
  given,     \* init: what each piece has given so far
  foundAny,  \* any: the flag
  tasks,     \* the tasks started and not yet run, in order
  taskRuns   \* how often each task ran

sectionVars == <<section, wide, nextItem, slotOf, visits, given, foundAny, tasks, taskRuns>>

NOTHING_YET == 0
IsLoop == section.op \in LOOP

Ceil(a, b) == (a + b - 1) \div b
PieceLen == Max({1, Ceil(section.n, PIECES_PER_WORKER * Max({1, section.threads}))})
\* (slip) The last, shorter piece forgotten.
RoundedDown == section.n \div PieceLen
PieceCount == Ceil(section.n, PieceLen)

First(p) == IF wide THEN (p - 1) * PieceLen + 1 ELSE 1
Until(p) == IF wide THEN Min({p * PieceLen, section.n}) ELSE section.n
Pieces == IF ~IsLoop THEN {} ELSE IF wide THEN 1..PieceCount ELSE {1}
Items == IF IsLoop THEN 1..section.n ELSE {}
Tasks == IF IsLoop THEN {} ELSE DOMAIN section.starts

SectionsInit ==
  /\ section \in Loops \cup Scopes /\ wide \in BOOLEAN
  /\ nextItem = [p \in Pieces |-> First(p)]
  /\ slotOf = [i \in Items |-> NOTHING_YET] /\ visits = [i \in Items |-> 0]
  /\ given = [p \in Pieces |-> <<>>]
  /\ foundAny = FALSE
  /\ tasks = IF IsLoop THEN <<>> ELSE section.body
  /\ taskRuns = [t \in Tasks |-> 0]

-----------------------------------------------------------------------------
\* A piece stops looking once any has found.
SeesIt(p) == section.op = "any" /\ foundAny

RunItem(p) ==
  /\ p \in Pieces /\ nextItem[p] <= Until(p) /\ ~SeesIt(p)
  /\ LET i == nextItem[p] IN
     /\ nextItem' = [nextItem EXCEPT ![p] = i + 1]
     /\ visits' = [visits EXCEPT ![i] = @ + 1]
     /\ slotOf' = IF section.op \in {"map", "owned"} THEN [slotOf EXCEPT ![i] = i] ELSE slotOf
     /\ given' = IF section.op = "init" THEN [given EXCEPT ![p] = Append(@, i)] ELSE given
     /\ foundAny' = (foundAny \/ (section.op = "any" /\ i \in section.holds))
  /\ UNCHANGED <<section, wide, tasks, taskRuns>>

GiveUp(p) ==
  /\ p \in Pieces /\ nextItem[p] <= Until(p) /\ SeesIt(p)
  /\ nextItem' = [nextItem EXCEPT ![p] = Until(p) + 1]
  /\ UNCHANGED <<section, wide, slotOf, visits, given, foundAny, tasks, taskRuns>>

\* On the pool any task that is started may run next; here, the first started.
RunTask ==
  /\ tasks # <<>>
  /\ \E k \in (IF wide THEN DOMAIN tasks ELSE {1}) :
       /\ taskRuns' = [taskRuns EXCEPT ![tasks[k]] = @ + 1]
       /\ tasks' = RemoveAt(tasks, k) \o section.starts[tasks[k]]
  /\ UNCHANGED <<section, wide, nextItem, slotOf, visits, given, foundAny>>

SectionsNext == RunTask \/ \E p \in Pieces : RunItem(p) \/ GiveUp(p)

SectionsSpec == SectionsInit /\ [][SectionsNext]_sectionVars

-----------------------------------------------------------------------------
SectionOver == tasks = <<>> /\ \A p \in Pieces : nextItem[p] > Until(p)

Joined == FlattenSeq([p \in 1..Cardinality(Pieces) |-> given[p]])

(***************************************************************************)
(* A section gives what the loop it stands for gives, in the items' order: *)
(* every item ran once (`any' may stop early, but not before it found),    *)
(* and every slot is written.  A scope returns once every task ran, once.  *)
(***************************************************************************)
SectionIsTheLoop ==
  SectionOver =>
    /\ section.op \in {"each", "map", "init", "owned"} => \A i \in Items : visits[i] = 1
    /\ section.op \in {"map", "owned"} => \A i \in Items : slotOf[i] = i
    /\ section.op = "init" => Joined = [i \in Items |-> i]
    /\ section.op = "any" => (foundAny <=> section.holds # {}) /\ \A i \in Items : visits[i] <= 1
    /\ ~IsLoop => \A t \in Tasks : taskRuns[t] = 1
=============================================================================
