------------------------------ MODULE PanelArena ------------------------------
(***************************************************************************)
(* The one buffer a factorization writes its panels into (PanelArena of    *)
(* src/src/numeric/supernodal/panel.rs), as the LU driver uses it          *)
(* (LlEmit::new and factor_general_lu_numeric of lu/factor.rs): slots      *)
(* fixed by the analysis, or claimed as the fronts start where delayed     *)
(* pivots may enlarge them, then closed into the factor in place.  A       *)
(* refactorization writes into the buffer of the factor before it.         *)
(*                                                                         *)
(* A job is the sizes of one factorization: of every panel's slot in the   *)
(* analysis, of its front as pivoting makes it, and of what is kept of it; *)
(* ALLOWANCE is the room beyond the analysis'.  A value is the panel and   *)
(* place it belongs to, so that one that moved can be told.                *)
(***************************************************************************)
EXTENDS Integers, Sequences, Sums

CONSTANTS
  Jobs,        \* [delays, slot, front, kept]: functions on the supernodes
  ALLOWANCE

IsJob(j) ==
  /\ j \in [delays : BOOLEAN, slot : Seq(Nat), front : Seq(Nat), kept : Seq(Nat)]
  /\ Len(j.front) = Len(j.slot) /\ Len(j.kept) = Len(j.slot)
  /\ \A s \in DOMAIN j.slot : j.kept[s] <= j.front[s]
ASSUME ArenaAssumption == ALLOWANCE \in Nat /\ \A j \in Jobs : IsJob(j)

VARIABLES
  job,      \* the sizes at hand
  lazy,     \* PanelArena.lazy
  vals,     \* the buffer
  slots,    \* PanelArena.slots: the start of every slot set so far
  cursor,   \* the next free value of a lazy arena
  claimed,  \* the fronts that asked it for a slot
  full,     \* LlEmit.overflowed
  filled,   \* the fronts factored into their slots
  moves,    \* the panels still to move down; place: where the next one goes
  place, offset, stage
arenaVars == <<job, lazy, vals, slots, cursor, claimed, full, filled, moves, place, offset, stage>>

Panels == DOMAIN job.slot
Total(f) == SumAt(f, DOMAIN f)
Zeroed == <<0, 0>>
EmptyMap == [s \in {} |-> 0]

\* lu_slots: slots of the analysis' sizes, back to back in supernode order.
FixedSlots(j) == [s \in DOMAIN j.slot |-> SumAt(j.slot, 1..s - 1)]
Room(j) == Total(j.slot) + ALLOWANCE

\* PanelArena::new, reuse, lazy.  A lazy one drops what it is handed; the
\* others overwrite it with zeros.  The values of a lazy buffer are whatever
\* the memory holds.
Anything == <<0, 1>>
OpenFixed(j) ==
  /\ lazy' = FALSE /\ slots' = FixedSlots(j)
  /\ vals' = [i \in 0..Total(j.slot) - 1 |-> Zeroed]
OpenLazy(j) ==
  /\ lazy' = TRUE /\ slots' = EmptyMap
  /\ vals' = [i \in 0..Room(j) - 1 |-> Anything]
Opened(j, delays) ==
  /\ job' = j /\ cursor' = 0 /\ claimed' = {} /\ full' = FALSE /\ filled' = {}
  /\ moves' = {} /\ place' = 0 /\ offset' = EmptyMap /\ stage' = "fronts"
  /\ IF delays THEN OpenLazy(j) ELSE OpenFixed(j)

ArenaInit ==
  /\ job \in Jobs /\ lazy = FALSE /\ vals = EmptyMap /\ slots = EmptyMap /\ cursor = 0 /\ claimed = {}
  /\ full = FALSE /\ filled = {} /\ moves = {} /\ place = 0 /\ offset = EmptyMap
  /\ stage = "closed"

Factorize(j) == stage = "closed" /\ Opened(j, j.delays)

-----------------------------------------------------------------------------
\* The size a front has: without delays every one fits its slot.
SizeOf(s) == IF lazy THEN job.front[s] ELSE job.slot[s]
KeptOf(s) == IF lazy THEN job.kept[s] ELSE Min({job.kept[s], job.slot[s]})
Slot(s) == slots[s]..slots[s] + SizeOf(s) - 1

\* claim of a lazy arena: fetch_add, then zeroed.
Fits(start, size) == start + size <= Room(job)
Claim(s) ==
  /\ stage = "fronts" /\ lazy /\ s \notin claimed
  /\ claimed' = claimed \cup {s}
  /\ cursor' = cursor + SizeOf(s)
  /\ IF Fits(cursor, SizeOf(s))
       THEN /\ slots' = [t \in DOMAIN slots \cup {s} |-> IF t = s THEN cursor ELSE slots[t]]
            /\ vals' = [i \in DOMAIN vals |->
                          IF i \in cursor..cursor + SizeOf(s) - 1 THEN Zeroed ELSE vals[i]]
            /\ UNCHANGED full
       ELSE full' = TRUE /\ UNCHANGED <<slots, vals>>
  /\ UNCHANGED <<job, lazy, filled, moves, place, offset, stage>>

\* The owner factors in its slot and finishes the panel there.
FillSlot(s) ==
  /\ stage = "fronts" /\ s \in DOMAIN slots \ filled
  /\ filled' = filled \cup {s}
  /\ vals' = [i \in DOMAIN vals |-> IF i \in Slot(s) THEN <<s, i - slots[s]>> ELSE vals[i]]
  /\ UNCHANGED <<job, lazy, slots, cursor, claimed, full, moves, place, offset, stage>>

\* The forest stopped for want of room: the factor without delays, in a
\* buffer of its own.
RunAgain ==
  /\ stage = "fronts" /\ full
  /\ Opened(job, FALSE)

\* finish: the kept panels, in the order of their slots where those were claimed.
InNumberOrder(s, t) == s < t
InSlotOrder(s, t) == slots[s] < slots[t]
Precedes(s, t) == IF lazy THEN InSlotOrder(s, t) ELSE InNumberOrder(s, t)
StartClosing ==
  /\ stage = "fronts" /\ filled = Panels
  /\ moves' = {s \in Panels : KeptOf(s) > 0}
  /\ stage' = "closing"
  /\ UNCHANGED <<job, lazy, vals, slots, cursor, claimed, full, filled, place, offset>>
MoveDown(s) ==
  /\ stage = "closing" /\ s \in moves
  /\ \A t \in moves \ {s} : Precedes(s, t)
  /\ vals' = [i \in DOMAIN vals |->
       IF i \in place..place + KeptOf(s) - 1 THEN vals[slots[s] + i - place] ELSE vals[i]]
  /\ offset' = [t \in DOMAIN offset \cup {s} |-> IF t = s THEN place ELSE offset[t]]
  /\ place' = place + KeptOf(s)
  /\ moves' = moves \ {s}
  /\ UNCHANGED <<job, lazy, slots, cursor, claimed, full, filled, stage>>
Close ==
  /\ stage = "closing" /\ moves = {}
  /\ stage' = "closed"
  /\ UNCHANGED <<job, lazy, vals, slots, cursor, claimed, full, filled, moves, place, offset>>

ArenaNext ==
  \/ \E j \in Jobs : Factorize(j)
  \/ \E s \in Panels : Claim(s) \/ FillSlot(s) \/ MoveDown(s)
  \/ RunAgain \/ StartClosing \/ Close
ArenaSpec == ArenaInit /\ [][ArenaNext]_arenaVars

-----------------------------------------------------------------------------
\* A panel is assembled onto zeros and nobody else writes its slot; the
\* panels closed into the factor lie back to back from its start, each whole:
\* a move never overwrites one that has still to move, in whichever order the
\* fronts claimed their slots ("reads stay ahead of writes").
PanelsSurviveClosing ==
  /\ stage = "fronts" =>
       \A s \in DOMAIN slots : \A i \in Slot(s) :
         vals[i] = IF s \in filled THEN <<s, i - slots[s]>> ELSE Zeroed
  /\ \A s \in DOMAIN offset : \A i \in 0..KeptOf(s) - 1 : vals[offset[s] + i] = <<s, i>>
  /\ stage = "closed" => place = SumAt([s \in Panels |-> KeptOf(s)], DOMAIN offset)

\* The delays are given up only where the fronts together need more than the
\* room, and always there: "whether they do does not depend on the order the
\* fronts run in".
OverflowIsTheTotal ==
  /\ full => Total(job.front) > Room(job)
  /\ lazy /\ stage = "closing" => Total(job.front) <= Room(job)

PanelsAreKept == PanelsSurviveClosing /\ OverflowIsTheTotal
===============================================================================
