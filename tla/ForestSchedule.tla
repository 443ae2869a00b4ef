---------------------------- MODULE ForestSchedule ----------------------------
(***************************************************************************)
(* The dependency-count scheduler of the supernodal factorizations,        *)
(* ll_forest of src/src/numeric/supernodal/forest.rs.                      *)
(*                                                                         *)
(* A supernode is one task.  A task reads the `failed' flag, factors its   *)
(* supernode from the panels of the updaters, counts down every updater's  *)
(* refcount and emits those whose last consumer it was, emits itself when  *)
(* nothing above reads it, and counts down its parent, which the last      *)
(* child spawns.  The steps between two atomic operations of a task        *)
(* interleave freely with those of every other task: a worker that waits   *)
(* inside a task runs others meanwhile, so the number of tasks under way   *)
(* is not bounded by the number of workers.                                *)
(*                                                                         *)
(* What factor_node computes is abstracted to the panel it leaves, an      *)
(* error of it to the supernode it arose in; emit_free to the panel being  *)
(* given away (its rows relabelled by the positions its consumers gave     *)
(* their columns).  A panic inside a kernel is not modelled.               *)
(***************************************************************************)
EXTENDS AssemblyForest, FiniteSets

CONSTANTS
  NSuper,      \* number of supernodes
  Parent,      \* LlSchedule::parent, NONE for a root
  Updaters,    \* LlSchedule::updaters
  FreeParMin   \* FREE_PAR_MIN_UPDATERS

Node == 1..NSuper

Children(s) == {c \in Node : Parent[c] = s}

(***************************************************************************)
(* The supernodes that read k's panel.  Their columns are k's off-block    *)
(* rows, so emitting k reads the positions that they gave those columns.   *)
(***************************************************************************)
Consumers(k) == {s \in Node : k \in Updaters[s]}

(***************************************************************************)
(* What LlSchedule::build guarantees: children come before their parent,   *)
(* and an off-block row of k lies in its parent's columns or is an         *)
(* off-block row of the parent (LlSchedule!FitsForest).                    *)
(***************************************************************************)
ScheduleAssumption ==
  /\ IsSchedule(NSuper, Parent, Updaters)
  /\ FreeParMin \in Nat

ASSUME ScheduleHolds == ScheduleAssumption

-----------------------------------------------------------------------------
VARIABLES
  serial,     \* parallel::threads() == 1, as the forest begins
  pc,         \* where each supernode's task is
  pending,    \* children of a supernode whose tasks are not done
  refcount,   \* consumers of a supernode that have not counted it down
  todo,       \* updaters a task has still to count down
  drop,       \* panels a task is emitting
  panel,      \* "empty", "factored" or "emitted"
  failed,     \* the flag that stops the forest
  error,      \* the supernode whose error is kept
  outcome     \* what the caller gets

vars == <<serial, pc, pending, refcount, todo, drop, panel, failed, error, outcome>>

Phase == {"waiting", "spawned", "factoring", "reporting", "freeing", "last",
          "done", "failed", "skipped"}

\* A task that has started and not returned.
Busy(s) == pc[s] \in {"factoring", "reporting", "freeing", "last"}

TypeOK ==
  /\ serial \in BOOLEAN
  /\ pc \in [Node -> Phase]
  /\ pending \in [Node -> Nat]
  /\ refcount \in [Node -> Nat]
  /\ todo \in [Node -> SUBSET Node]
  /\ drop \in [Node -> SUBSET Node]
  /\ panel \in [Node -> {"empty", "factored", "emitted"}]
  /\ failed \in BOOLEAN
  /\ error \in Node \cup {NONE}
  /\ outcome \in {"running", "ok", "err"}

\* emit_refcount_offsets: one count per supernode that has k as an updater.
InitialRefcount(k) == Cardinality(Consumers(k))

Init ==
  /\ serial \in BOOLEAN
  /\ pc = [s \in Node |->
             IF ~serial /\ Children(s) = {} THEN "spawned" ELSE "waiting"]
  /\ pending = [s \in Node |-> Cardinality(Children(s))]
  /\ refcount = [k \in Node |-> InitialRefcount(k)]
  /\ todo = [s \in Node |-> {}]
  /\ drop = [s \in Node |-> {}]
  /\ panel = [s \in Node |-> "empty"]
  /\ failed = FALSE
  /\ error = NONE
  /\ outcome = "running"

\* The serial driver takes the supernodes in index order and breaks at the
\* first that fails; the parallel one takes any spawned task.
AnyTurn(s) == pc[s] = "waiting"
SerialTurn(s) == pc[s] = "waiting" /\ \A t \in 1..(s - 1) : pc[t] = "done"

Runnable(s) == IF serial THEN SerialTurn(s) ELSE pc[s] = "spawned"

\* node(s) begins: `if failed.load() { return false }'.
Start(s) ==
  /\ outcome = "running"
  /\ Runnable(s)
  /\ pc' = [pc EXCEPT ![s] = IF failed THEN "skipped" ELSE "factoring"]
  /\ UNCHANGED
       <<serial, pending, refcount, todo, drop, panel, failed, error, outcome>>

\* factor_node(s) returns Ok.
FactorOk(s) ==
  /\ pc[s] = "factoring"
  /\ panel' = [panel EXCEPT ![s] = "factored"]
  /\ todo' = [todo EXCEPT ![s] = Updaters[s]]
  /\ pc' = [pc EXCEPT ![s] = "freeing"]
  /\ UNCHANGED <<serial, pending, refcount, drop, failed, error, outcome>>

\* factor_node(s) returns Err: failed.store(true).
FactorErr(s) ==
  /\ pc[s] = "factoring"
  /\ failed' = TRUE
  /\ pc' = [pc EXCEPT ![s] = "reporting"]
  /\ UNCHANGED <<serial, pending, refcount, todo, drop, panel, error, outcome>>

\* The error slot keeps the first error that gets its lock.
Report(s) ==
  /\ pc[s] = "reporting"
  /\ error' = IF error = NONE THEN s ELSE error
  /\ pc' = [pc EXCEPT ![s] = "failed"]
  /\ UNCHANGED <<serial, pending, refcount, todo, drop, panel, failed, outcome>>

\* Few updaters are released one after the other, ascending; many by
\* parallel::for_each, in any order and several at a time (on one thread in
\* order too).
NextToFree(s, k) ==
  serial \/ Cardinality(Updaters[s]) < FreeParMin =>
    drop[s] = {} /\ \A j \in todo[s] : k <= j

\* `fetch_sub(1) == 1' of a refcount, of a parent's pending count, and the
\* last consumer's check of its own refcount.
LastConsumer(k) == refcount[k] = 1

AnyChild(p) == pending[p] >= 1
LastChild(p) == pending[p] = 1

Unread(s) == refcount[s] = 0

\* `free(k)': the consumer that counts k down to zero emits it.
CountDown(s, k) ==
  /\ pc[s] = "freeing"
  /\ k \in todo[s]
  /\ NextToFree(s, k)
  /\ todo' = [todo EXCEPT ![s] = @ \ {k}]
  /\ refcount' = [refcount EXCEPT ![k] = @ - 1]
  /\ drop' = IF LastConsumer(k) THEN [drop EXCEPT ![s] = @ \cup {k}] ELSE drop
  /\ UNCHANGED <<serial, pc, pending, panel, failed, error, outcome>>

\* emit_free(k) is done.
EmitFree(s, k) ==
  /\ k \in drop[s]
  /\ panel' = [panel EXCEPT ![k] = "emitted"]
  /\ drop' = [drop EXCEPT ![s] = @ \ {k}]
  /\ UNCHANGED <<serial, pc, pending, refcount, todo, failed, error, outcome>>

\* `if refcount[s].load() == 0 { emit_free(s) }'.
CheckSelf(s) ==
  /\ pc[s] = "freeing"
  /\ todo[s] = {}
  /\ drop[s] = {}
  /\ drop' = IF Unread(s) THEN [drop EXCEPT ![s] = {s}] ELSE drop
  /\ pc' = [pc EXCEPT ![s] = "last"]
  /\ UNCHANGED <<serial, pending, refcount, todo, panel, failed, error, outcome>>

\* node(s) returned true; in `run', the last child spawns its parent.
HandOn(s) ==
  /\ pc[s] = "last"
  /\ drop[s] = {}
  /\ IF serial \/ Parent[s] = NONE
       THEN /\ pc' = [pc EXCEPT ![s] = "done"]
            /\ UNCHANGED pending
       ELSE /\ pending' = [pending EXCEPT ![Parent[s]] = @ - 1]
            /\ pc' = IF LastChild(Parent[s])
                       THEN [pc EXCEPT ![s] = "done", ![Parent[s]] = "spawned"]
                       ELSE [pc EXCEPT ![s] = "done"]
  /\ UNCHANGED <<serial, refcount, todo, drop, panel, failed, error, outcome>>

\* The scope (or the serial loop) ends when no task is left, and the error
\* slot decides.
AllDone == \A s \in Node : pc[s] = "done"
NoTaskLeft == \A s \in Node : ~Busy(s) /\ ~Runnable(s)

Join ==
  /\ outcome = "running"
  /\ NoTaskLeft
  /\ outcome' = IF error = NONE THEN "ok" ELSE "err"
  /\ UNCHANGED <<serial, pc, pending, refcount, todo, drop, panel, failed, error>>

Task(s) ==
  \/ Start(s)
  \/ FactorOk(s)
  \/ FactorErr(s)
  \/ Report(s)
  \/ \E k \in Node : CountDown(s, k) \/ EmitFree(s, k)
  \/ CheckSelf(s)
  \/ HandOn(s)

Next == (\E s \in Node : Task(s)) \/ Join

Spec == Init /\ [][Next]_vars

\* Some worker always gets on: no task blocks, so a pool with one live worker
\* runs every spawned task to its end.
FairSpec == Spec /\ WF_vars(Next)

-----------------------------------------------------------------------------
(***************************************************************************)
(* A panel that a supernode reads is complete and nobody gives it away     *)
(* under the reader: the unsafe shared reads of ll_factor_node and         *)
(* lu_ll_factor_node rest on it.                                           *)
(***************************************************************************)
ReadsLivePanels ==
  \A s \in Node : pc[s] = "factoring" =>
    \A k \in Updaters[s] :
      /\ panel[k] = "factored"
      /\ \A t \in Node : k \notin drop[t]

(***************************************************************************)
(* "The owner of supernode k emits it exactly once, after its last updater *)
(* has read the panel": a panel under emission is complete, not emitted    *)
(* before, emitted by one task only, and every supernode whose column      *)
(* positions the emission reads has been factored (`place' ran).           *)
(***************************************************************************)
EmitsOnceAfterConsumers ==
  \A s \in Node : \A k \in drop[s] :
    /\ panel[k] = "factored"
    /\ \A t \in Node \ {s} : k \notin drop[t]
    /\ \A c \in Consumers(k) : panel[c] # "empty"

\* What the unsafe slot accesses of the forest rest on.
PanelsAreHandedOver == ReadsLivePanels /\ EmitsOnceAfterConsumers

(***************************************************************************)
(* The caller gets Ok only for a factor with every panel emitted, and an   *)
(* error only of a supernode that was never factored and has no factored   *)
(* consumer: a failure is neither lost nor is anything built on it.        *)
(***************************************************************************)
OutcomeIsFaithful ==
  /\ outcome = "ok" => \A s \in Node : panel[s] = "emitted"
  /\ outcome = "err" => /\ error # NONE
                        /\ \A t \in {error} \cup Consumers(error) : panel[t] = "empty"

(***************************************************************************)
(* The factorization returns, whichever supernodes fail: a failed child    *)
(* leaves its parent waiting, and the scope must not wait for it.          *)
(***************************************************************************)
Terminates == <>(outcome # "running")

(***************************************************************************)
(* The scheduler implements the promise of ForestFactorization.            *)
(***************************************************************************)
Promise == INSTANCE ForestFactorization WITH
  factored <- {s \in Node : panel[s] # "empty"},
  released <- {s \in Node : panel[s] = "emitted"},
  culprit  <- IF outcome = "err" THEN error ELSE NONE,
  NoNode   <- NONE

ImplementsPromise == Promise!Spec
=============================================================================
