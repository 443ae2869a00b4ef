---------------------------- MODULE OrderingRace ----------------------------
(***************************************************************************)
(* The race of the fill-reducing orderings (src/symbolic/race.rs).  The    *)
(* cheap candidates are ordered side by side and the one with the smallest *)
(* exact factor is the champion; nested dissection joins, with one seed or *)
(* with an ensemble of seeds, where the champion predicts enough work, and *)
(* wins only with a smaller factor.  Because dissection takes longest, its *)
(* first seed may be started before it is known to count.                  *)
(*                                                                         *)
(* What an ordering makes of the graph is an input: its factor's entries   *)
(* and the two gates its predicted work passes, or nothing if it fails.    *)
(***************************************************************************)
EXTENDS Naturals

CONSTANTS
  NumCandidates,   \* candidates.len(), the first of them ordered by `head'
  Ensemble,        \* ensemble_size.max(1)
  Fills,           \* the factor sizes an ordering may have
  NONE             \* an ordering that fails, a place not filled yet

ASSUME RaceAssumption ==
  /\ NumCandidates \in Nat /\ NumCandidates >= 1
  /\ Ensemble \in Nat /\ Ensemble >= 1
  /\ Fills \subseteq Nat
  /\ NONE \notin Nat

Candidates == 1..NumCandidates
Seeds == 0..(Ensemble - 1)

\* A candidate's prefix: `dissect' is prefix_work(p) >= nd_min_work, `heavy'
\* is prefix_flops(p) >= ensemble_min_flops.
Prefix == [fill : Fills, dissect : BOOLEAN, heavy : BOOLEAN]

\* The gates known before the race: n > nd_min_n, the candidates worth more
\* than one thread, the pattern large enough to dissect at once, and the
\* setting that asks for the ensemble.
Gates == [large : BOOLEAN, side : BOOLEAN, dense : BOOLEAN, ensemble : BOOLEAN]

VARIABLES
  gates,       \* constant: the gates of this race
  candidate,   \* constant: what each candidate's ordering gives
  dissection,  \* constant: what each seed's dissection gives
  main,        \* where the calling thread is
  ordered,     \* the candidates whose prefix is made
  started,     \* the flags `started[i]'
  spawned,     \* the dissections of each seed spawned and not yet run
  runs,        \* history: the dissections of each seed spawned so far
  filled,      \* the slots `nd[i]' that are set
  next,        \* the index of the loop `main' is in
  best,        \* the champion among the candidates looked at
  lastErr,     \* the last candidate that failed among them
  seeds,       \* how many seeds count
  pick,        \* the best dissection among the seeds looked at
  outcome      \* what `race' returns

inputs == <<gates, candidate, dissection>>
raceVars == <<inputs, main, ordered, started, spawned, runs, filled, next, best,
          lastErr, seeds, pick, outcome>>

Parallel == gates.large /\ gates.side
Eager == Parallel /\ gates.dense

Places == {"scope", "join", "choose", "stage2", "await", "reduce", "done"}

RaceInit ==
  /\ gates \in Gates
  /\ candidate \in [Candidates -> Prefix \cup {NONE}]
  /\ dissection \in [Seeds -> Fills \cup {NONE}]
  /\ main = "scope" /\ next = 1 /\ seeds = 0
  /\ ordered = {} /\ filled = {}
  /\ started = [i \in Seeds |-> FALSE]
  /\ spawned = [i \in Seeds |-> 0] /\ runs = [i \in Seeds |-> 0]
  /\ best = NONE /\ lastErr = NONE /\ pick = NONE /\ outcome = NONE

\* start(i): the first to set the flag spawns the dissection.
Start(i) ==
  /\ started' = [started EXCEPT ![i] = TRUE]
  /\ IF started[i]
       THEN UNCHANGED <<spawned, runs>>
       ELSE /\ spawned' = [spawned EXCEPT ![i] = @ + 1]
            /\ runs' = [runs EXCEPT ![i] = @ + 1]

StartIf(worth) == IF worth THEN Start(0) ELSE UNCHANGED <<started, spawned, runs>>

\* The scope opens, and starts the first seed where it is eager.
Open ==
  /\ main = "scope" /\ main' = "join"
  /\ StartIf(Eager)
  /\ UNCHANGED <<inputs, ordered, filled, next, best, lastErr, seeds, pick, outcome>>

\* The first candidate is ordered; where it predicts enough work, the first
\* seed starts beside the rest of them.
Speculates(p) == Parallel /\ p # NONE /\ p.dissect
OrderFirst ==
  /\ main = "join" /\ 1 \notin ordered
  /\ ordered' = ordered \cup {1}
  /\ StartIf(Speculates(candidate[1]))
  /\ UNCHANGED <<inputs, main, filled, next, best, lastErr, seeds, pick, outcome>>

\* Another candidate is ordered.
OrderRest(c) ==
  /\ main = "join" /\ c # 1 /\ c \notin ordered
  /\ ordered' = ordered \cup {c}
  /\ UNCHANGED <<inputs, main, started, spawned, runs, filled, next, best, lastErr,
                 seeds, pick, outcome>>

\* A spawned dissection runs; its slot keeps the first result it is given.
Dissect(i) ==
  /\ spawned[i] > 0
  /\ spawned' = [spawned EXCEPT ![i] = @ - 1]
  /\ filled' = filled \cup {i}
  /\ UNCHANGED <<inputs, main, ordered, started, runs, next, best, lastErr, seeds,
                 pick, outcome>>

Join ==
  /\ main = "join" /\ ordered = Candidates
  /\ main' = "choose" /\ next' = 1
  /\ UNCHANGED <<inputs, ordered, started, spawned, runs, filled, best, lastErr, seeds,
                 pick, outcome>>

\* The champion: the smallest factor, the candidates' order breaking ties.
Beats(c) == best = NONE \/ candidate[c].fill < candidate[best].fill
Choose ==
  /\ main = "choose" /\ next <= NumCandidates
  /\ next' = next + 1
  /\ IF candidate[next] = NONE
       THEN lastErr' = next /\ best' = best
       ELSE best' = (IF Beats(next) THEN next ELSE best) /\ lastErr' = lastErr
  /\ UNCHANGED <<inputs, main, ordered, started, spawned, runs, filled, seeds, pick, outcome>>

\* Stage 2 decides from the champion alone which seeds count.
CountSpeculated(champ) ==   \* (slip) a seed that was speculated counts
  IF champ # NONE /\ gates.large /\ (candidate[champ].dissect \/ started[0])
    THEN IF gates.ensemble /\ candidate[champ].heavy THEN Ensemble ELSE 1
    ELSE 0
Count(champ) ==
  IF champ # NONE /\ gates.large /\ candidate[champ].dissect
    THEN IF gates.ensemble /\ candidate[champ].heavy THEN Ensemble ELSE 1
    ELSE 0
Decide ==
  /\ main = "choose" /\ next > NumCandidates
  /\ main' = "stage2" /\ next' = 0
  /\ seeds' = Count(best)
  /\ UNCHANGED <<inputs, ordered, started, spawned, runs, filled, best, lastErr, pick, outcome>>

StartCounted ==
  /\ main = "stage2" /\ next < seeds
  /\ Start(next) /\ next' = next + 1
  /\ UNCHANGED <<inputs, main, ordered, filled, best, lastErr, seeds, pick, outcome>>

\* The body of the scope ends; the scope ends with the last of its tasks.
EndBody ==
  /\ main = "stage2" /\ next >= seeds
  /\ main' = "await"
  /\ UNCHANGED <<inputs, ordered, started, spawned, runs, filled, next, best, lastErr,
                 seeds, pick, outcome>>
AllRun == \A i \in Seeds : spawned[i] = 0
CloseScope ==
  /\ main = "await" /\ AllRun
  /\ main' = "reduce" /\ next' = 0
  /\ UNCHANGED <<inputs, ordered, started, spawned, runs, filled, best, lastErr, seeds,
                 pick, outcome>>

\* The ensemble's pick, over the slots that count and hold a result.
Slot(i) == IF i \in filled THEN dissection[i] ELSE NONE
Improves(i) == Slot(i) # NONE /\ (pick = NONE \/ Slot(i) < dissection[pick])
Reduce ==
  /\ main = "reduce" /\ next < seeds
  /\ next' = next + 1
  /\ pick' = IF Improves(next) THEN next ELSE pick
  /\ UNCHANGED <<inputs, main, ordered, started, spawned, runs, filled, best, lastErr,
                 seeds, outcome>>

\* Dissection replaces the champion only with a smaller factor; without a
\* champion the last error is returned.
Replaces == pick # NONE /\ best # NONE /\ dissection[pick] < candidate[best].fill
Return ==
  /\ main = "reduce" /\ next >= seeds
  /\ main' = "done"
  /\ outcome' = IF Replaces THEN [kind |-> "dissection", of |-> pick]
                ELSE IF best # NONE THEN [kind |-> "candidate", of |-> best]
                ELSE [kind |-> "error", of |-> lastErr]
  /\ UNCHANGED <<inputs, ordered, started, spawned, runs, filled, next, best, lastErr,
                 seeds, pick>>

Main == Open \/ Join \/ Choose \/ Decide \/ StartCounted \/ EndBody \/ CloseScope
        \/ Reduce \/ Return

RaceNext ==
  \/ Main \/ OrderFirst
  \/ \E c \in Candidates : OrderRest(c)
  \/ \E i \in Seeds : Dissect(i)

RaceSpec == RaceInit /\ [][RaceNext]_raceVars

\* The race goes on while any of its threads can: every step is taken once, so
\* that no thread needs a fairness of its own.
FairRace == RaceSpec /\ WF_raceVars(RaceNext)

-----------------------------------------------------------------------------
Outcomes ==
  [kind : {"dissection"}, of : Seeds] \cup [kind : {"candidate", "error"}, of : Candidates]

\* Every variable has its type.
RaceTypeOK ==
  /\ gates \in Gates
  /\ candidate \in [Candidates -> Prefix \cup {NONE}]
  /\ dissection \in [Seeds -> Fills \cup {NONE}]
  /\ main \in Places
  /\ ordered \in SUBSET Candidates
  /\ started \in [Seeds -> BOOLEAN]
  /\ spawned \in [Seeds -> Nat] /\ runs \in [Seeds -> Nat]
  /\ filled \in SUBSET Seeds
  /\ next \in Nat /\ seeds \in 0..Ensemble
  /\ best \in Candidates \cup {NONE} /\ lastErr \in Candidates \cup {NONE}
  /\ pick \in Seeds \cup {NONE}
  /\ outcome \in Outcomes \cup {NONE}

\* The reference: one thread that orders the candidates, then the seeds that
\* count.  It reads neither `side' nor `dense'.
Succeeded == {c \in Candidates : candidate[c] # NONE}
Fill == [c \in Candidates |-> candidate[c].fill]
FirstLeast(i, S, f) == i \in S /\ \A j \in S : f[i] < f[j] \/ (f[i] = f[j] /\ i <= j)
Counts(i, champ) ==
  /\ gates.large /\ candidate[champ].dissect
  /\ i = 0 \/ (gates.ensemble /\ candidate[champ].heavy)
Dissected(champ) == {i \in Seeds : Counts(i, champ) /\ dissection[i] # NONE}

Sequential(o) ==
  \/ /\ Succeeded = {}
     /\ o = [kind |-> "error", of |-> NumCandidates]
  \/ \E champ \in Succeeded :
       /\ FirstLeast(champ, Succeeded, Fill)
       /\ \/ /\ o = [kind |-> "candidate", of |-> champ]
             /\ \A i \in Dissected(champ) : candidate[champ].fill <= dissection[i]
          \/ \E i \in Dissected(champ) :
               /\ FirstLeast(i, Dissected(champ), dissection)
               /\ dissection[i] < candidate[champ].fill
               /\ o = [kind |-> "dissection", of |-> i]

\* "the result does not depend on the thread count or on whether anything was
\* speculated": whatever order the threads ran in, the race returns what one
\* thread would.
OutcomeIsSequential == main = "done" => Sequential(outcome)

\* However a seed came to be started (eagerly, by the head, by stage 2), it
\* is dissected at most once: dissection is the longest part of the race.
EachSeedOnce == \A i \in Seeds : runs[i] <= 1

\* No slot that counts is read before its dissection has run.
CountedSeedsRan == main \in {"reduce", "done"} => \A i \in Seeds : i < seeds => i \in filled

\* What is thrown away is at most the first seed, and nothing on one thread
\* or on a small pattern.
WasteIsOneSeed ==
  main = "done" =>
    \A i \in Seeds : runs[i] > 0 => i < seeds \/ (i = 0 /\ Parallel)

\* Speculation changes neither the outcome nor, but for the first seed, the work.
RaceIsSequential == OutcomeIsSequential /\ EachSeedOnce /\ CountedSeedsRan /\ WasteIsOneSeed

\* The race ends.
Terminates == <>(main = "done")
=============================================================================
