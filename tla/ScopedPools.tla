----------------------------- MODULE ScopedPools -----------------------------
(***************************************************************************)
(* in_scoped_pool and scoped_pool (src/src/numeric/settings.rs): a thread  *)
(* keeps the last POOLS_KEPT pools it used, by worker count and stack      *)
(* size; work that needs no stack of its own and is called on a worker of  *)
(* such a pool runs there, all other work enters a pool of the calling     *)
(* thread, which may itself be a worker that keeps pools.                  *)
(*                                                                         *)
(* One outside thread and whatever it nests; of a pool's workers, the one  *)
(* that runs the work it is entered for.  A pool, and this worker of it,   *)
(* are known by the order the pools were built in.                         *)
(***************************************************************************)
EXTENDS Integers, Sequences, SequencesExt, FiniteSets, FiniteSetsExt

CONSTANTS
  Asks,        \* what calls ask for: [width, stack]; 0 for all cores, for rayon's default stack
  Powers,      \* the powers of two a usize holds
  CORES,
  POOLS_KEPT,
  MaxNested,   \* bound on the nesting
  MaxBuilt     \* bound on the pools built

ASSUME PoolsAssumption ==
  /\ Asks \subseteq [width : Nat, stack : Nat] /\ Powers \subseteq Nat
  /\ CORES \in Nat /\ POOLS_KEPT \in Nat \ {0}

VARIABLES
  lent,     \* the caller runs on a pool lent to rslab
  built,    \* [width, stack] of every pool built
  kept,     \* POOLS of the threads that have one, most recently used last
  frames,   \* the calls under way, innermost last: [thread, asked, pool]
  recent    \* history: the last POOLS_KEPT needs each thread had served

poolVars == <<lent, built, kept, frames, recent>>

OUTSIDE == 0
HERE == 0   \* no pool entered: the work runs on the thread it is called on

OnWorker(t) == t # OUTSIDE
Current == IF frames = <<>> THEN OUTSIDE ELSE Last(frames).thread

PoolsInit ==
  /\ lent \in BOOLEAN
  /\ built = <<>> /\ frames = <<>>
  /\ kept = [t \in {OUTSIDE} |-> <<>>] /\ recent = [t \in {OUTSIDE} |-> <<>>]

-----------------------------------------------------------------------------
\* checked_next_power_of_two, the bytes themselves where it overflows
PowersFor(bytes) == {p \in Powers : p >= bytes}
Rounded(bytes) ==
  IF bytes = 0 THEN 0 ELSE IF PowersFor(bytes) = {} THEN bytes ELSE Min(PowersFor(bytes))
Need(asked) ==
  [width |-> IF asked.width = 0 THEN CORES ELSE asked.width, stack |-> Rounded(asked.stack)]

Kept(t) == IF t \in DOMAIN kept THEN kept[t] ELSE <<>>
\* (slip) The width alone.
FitsWidth(p, need) == built[p].width = need.width
Fits(p, need) ==
  /\ built[p].width = need.width
  /\ built[p].stack >= need.stack
  /\ built[p].stack = 0 <=> need.stack = 0
Fitting(t, need) == {i \in DOMAIN Kept(t) : Fits(Kept(t)[i], need)}

Inherits(t, need) == lent \/ (need.stack = 0 /\ OnWorker(t))

Set(f, t, q) == [s \in DOMAIN f \cup {t} |-> IF s = t THEN q ELSE f[s]]
LastOf(q) == IF Len(q) > POOLS_KEPT THEN Tail(q) ELSE q
Served(t, need) ==
  recent' = Set(recent, t, LastOf(Append(IF t \in DOMAIN recent THEN recent[t] ELSE <<>>, need)))

\* How the thread waits meanwhile is Hop's.
Enter(asked, p) == frames' = Append(frames, [thread |-> p, asked |-> asked, pool |-> p])

RunHere(asked) ==
  /\ Inherits(Current, Need(asked))
  /\ frames' = Append(frames, [thread |-> Current, asked |-> asked, pool |-> HERE])
  /\ UNCHANGED <<lent, built, kept, recent>>

\* (slip) The pools are dropped in the order they were built in.
NotMoved(t, i) == kept
Refreshed(t, i) == Set(kept, t, Append(RemoveAt(kept[t], i), kept[t][i]))

UseKept(asked) ==
  LET t == Current
      need == Need(asked)
  IN /\ ~Inherits(t, need) /\ Fitting(t, need) # {}
     /\ LET i == Min(Fitting(t, need)) IN kept' = Refreshed(t, i) /\ Enter(asked, kept[t][i])
     /\ Served(t, need)
     /\ UNCHANGED <<lent, built>>

\* The thread's oldest pool makes room.
Room(t) == IF Len(Kept(t)) = POOLS_KEPT THEN Tail(Kept(t)) ELSE Kept(t)

Build(asked) ==
  LET t == Current
      need == Need(asked)
      p == Len(built) + 1
  IN /\ ~Inherits(t, need) /\ Fitting(t, need) = {} /\ p <= MaxBuilt
     /\ built' = Append(built, need)
     /\ kept' = Set(kept, t, Append(Room(t), p))
     /\ Enter(asked, p)
     /\ Served(t, need)
     /\ UNCHANGED lent

\* The workers do not start: the work runs on the current pool.
BuildFails(asked) ==
  /\ ~Inherits(Current, Need(asked)) /\ Fitting(Current, Need(asked)) = {}
  /\ frames' = Append(frames, [thread |-> Current, asked |-> asked, pool |-> HERE])
  /\ UNCHANGED <<lent, built, kept, recent>>

Unnest ==
  /\ frames # <<>>
  /\ frames' = Front(frames)
  /\ UNCHANGED <<lent, built, kept, recent>>

Nest(asked) ==
  /\ Len(frames) < MaxNested
  /\ RunHere(asked) \/ UseKept(asked) \/ Build(asked) \/ BuildFails(asked)

PoolsNext == Unnest \/ \E asked \in Asks : Nest(asked)

PoolsSpec == PoolsInit /\ [][PoolsNext]_poolVars

-----------------------------------------------------------------------------
\* A pool entered for some work has the workers asked for and at least the
\* stack, however many pools the thread has dropped since, and no thread holds
\* more than it may.
EntersWhatWasAsked ==
  /\ \A i \in DOMAIN frames : frames[i].pool # HERE =>
       LET pool == built[frames[i].pool]
           asked == frames[i].asked
       IN /\ pool.width = (IF asked.width = 0 THEN CORES ELSE asked.width)
          /\ pool.stack >= asked.stack /\ (asked.stack = 0 => pool.stack = 0)
  /\ \A t \in DOMAIN kept : Len(kept[t]) <= POOLS_KEPT /\ IsInjective(kept[t])

\* A thread that goes round no more than POOLS_KEPT needs, in any order,
\* builds a pool for each of them once.
RebuildsNothingRecent ==
  [][(built' # built /\ Current \in DOMAIN recent) =>
       Last(built') \notin ToSet(recent[Current])]_poolVars
=============================================================================
