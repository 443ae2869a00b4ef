----------------------------- MODULE MC_Threads -----------------------------
(***************************************************************************)
(* What runs on several threads, one component a behaviour: `part' says    *)
(* which of them moves while the others keep the state they start in.      *)
(*   "hop"       Hop: a worker and its hop thread, three calls             *)
(*   "pools"     ScopedPools: three needs of two widths, two pools kept     *)
(*   "sections"  Sections: loops of up to seven items, on one thread or    *)
(*               two, and a scope of six tasks                             *)
(*   "race"      OrderingRace: two candidates and two seeds, every         *)
(*               combination of gates, factor sizes and failures           *)
(*   "walk"      SolveWalk: factors of four and seven supernodes           *)
(*   "log"       LogSink: two Python threads, their records at two levels, *)
(*               and two sinks installed in turn                           *)
(*   "gmres"     BlockGmres: two and three columns, two calls, residuals of *)
(*               three levels, room for all, some or one of the bases      *)
(***************************************************************************)
EXTENDS Hop, OrderingRace, SolveWalk, BlockGmres, Sections, ScopedPools, LogSink

CONSTANTS p1, p2

VARIABLE part

\* Every structure of four supernodes of a column each, beside a wider one of
\* seven whose updates skip over ancestors; as one tree, as two, or without the
\* tree of a supernodal analysis.
Seven ==
  {[ns |-> 7, width |-> <<1, 1, 1, 1, 1, 2, 1>>, rows |-> r, tree |-> t] :
     r \in {<<{3, 8}, {3}, {8}, {6, 8}, {6, 7}, {8}, {}>>, <<{3, 8}, {3}, {8}, {6, 8}, {8}, {8}, {}>>},
     t \in {<<3, 3, 7, 6, 6, 7, 0>>, NOTREE}}
AllOfFour ==
  {[ns |-> 4, width |-> <<1, 1, 1, 1>>, rows |-> <<a, b, c, {}>>, tree |-> t] :
     a \in SUBSET {2, 3, 4}, b \in SUBSET {3, 4}, c \in SUBSET {4}, t \in {NOTREE, <<3, 3, 4, 0>>}}
SmallFactors == Seven \cup AllOfFour

ThreeNeeds ==
  {[width |-> 0, stack |-> 0], [width |-> 1, stack |-> 3], [width |-> 1, stack |-> 5]}

SmallLoops ==
  {[op |-> op, n |-> n, threads |-> k, holds |-> {}] :
     op \in {"each", "map", "init", "owned"}, n \in {0, 1, 4, 7}, k \in 1..2}
  \cup {[op |-> "any", n |-> 4, threads |-> k, holds |-> h] : h \in SUBSET (2..4), k \in 1..2}
SmallScopes ==
  {[op |-> "scope", body |-> <<1, 2>>, starts |-> <<<<3>>, <<4, 5>>, <<6>>, <<>>, <<>>, <<>>>>],
   [op |-> "scope", body |-> <<>>, starts |-> <<>>]}

\* Two columns beside one that is zero, with room for all their bases, for some
\* or for one, stored whole or rounded, checked at an estimate or at a probe, a
\* call cut short; and three columns with room for the bases of one.
Solving(m, it, room, probed, downgrade, deflating, flexible, zero, cut) ==
  [m |-> m, max_iter |-> it, room |-> room, probed |-> probed, downgrade |-> downgrade,
   deflating |-> deflating, basis |-> [flexible |-> flexible, single |-> FALSE], zero |-> zero, cut |-> cut]
SmallSolves ==
  {Solving(1, 2, NoBound, FALSE, FALSE, TRUE, TRUE, {3}, FALSE),
   Solving(2, 2, 8, FALSE, TRUE, FALSE, TRUE, {3}, FALSE),
   Solving(1, 2, 7, TRUE, FALSE, FALSE, FALSE, {3}, FALSE),
   Solving(2, 2, 7, FALSE, FALSE, FALSE, FALSE, {3}, TRUE),
   Solving(2, 3, 5, FALSE, FALSE, FALSE, FALSE, {1, 3}, FALSE),
   Solving(1, 1, 4, FALSE, FALSE, FALSE, FALSE, {}, FALSE)}

-----------------------------------------------------------------------------
partVars == <<part, vars, poolVars, sectionVars, raceVars, walkVars, gmresVars, logVars>>

Some(S) == CHOOSE e \in S : TRUE
RestingFactor == Some(Factors)
RestingPlan == FromPanels(RestingFactor, Some(LeafCounts))

\* Where the pattern is too small for dissection no other gate is asked, and
\* where a champion is not worth dissecting not whether it is heavy.
SmallGates == [large |-> FALSE, side |-> TRUE, dense |-> TRUE, ensemble |-> TRUE]

MCInit ==
  /\ part \in {"hop", "pools", "sections", "race", "walk", "gmres", "log"}
  /\ Init
  /\ (IF part = "pools" THEN lent \in BOOLEAN ELSE lent = FALSE) /\ PoolsInit
  /\ IF part = "sections" THEN TRUE ELSE section = Some(SmallScopes) /\ wide = FALSE
  /\ SectionsInit
  /\ IF part = "race" THEN TRUE
     ELSE /\ gates = SmallGates
          /\ candidate = [c \in Candidates |-> NONE] /\ dissection = [i \in Seeds |-> NONE]
  /\ RaceInit
  /\ gates.large \/ gates = SmallGates
  /\ \A c \in Candidates : candidate[c] # NONE /\ candidate[c].heavy => candidate[c].dissect
  /\ IF part = "walk" THEN WalkInit
     ELSE /\ F = RestingFactor /\ plan = RestingPlan /\ whole = FALSE /\ parallel = FALSE
          /\ phase = "forward" /\ status = AllIdle /\ y = [c \in DOMAIN plan.sn |-> <<>>] /\ acc = Cleared
          /\ pending = [s \in Nodes |-> 0] /\ level = 0
  /\ IF part = "gmres" THEN TRUE ELSE setup = Some(Setups)
  /\ GmresInit
  /\ IF part = "log" THEN TRUE ELSE envLevel = UNSET
  /\ LogInit

Of(p, A, Rest) == part = p /\ A /\ UNCHANGED <<part, Rest>>

Hops(A) == Of("hop", A, <<poolVars, sectionVars, raceVars, walkVars, gmresVars, logVars>>)
Pooled == Of("pools", PoolsNext, <<vars, sectionVars, raceVars, walkVars, gmresVars, logVars>>)
InSections == Of("sections", SectionsNext, <<vars, poolVars, raceVars, walkVars, gmresVars, logVars>>)
Races(A) == Of("race", A, <<vars, poolVars, sectionVars, walkVars, gmresVars, logVars>>)
Walks == Of("walk", WalkNext, <<vars, poolVars, sectionVars, raceVars, gmresVars, logVars>>)
Gmres(A) == Of("gmres", A, <<vars, poolVars, sectionVars, raceVars, walkVars, logVars>>)
Logs(A) == Of("log", A, <<vars, poolVars, sectionVars, raceVars, walkVars, gmresVars>>)

MCNext == Hops(Next) \/ Pooled \/ InSections \/ Races(RaceNext) \/ Walks \/ Gmres(GmresNext) \/ Logs(LogNext)

\* The fairness of Hop, OrderingRace, SolveWalk and BlockGmres.
MCSpec ==
  /\ MCInit /\ [][MCNext]_partVars
  /\ SF_partVars(Hops(InCall)) /\ SF_partVars(Hops(Serve))
  /\ WF_partVars(Races(RaceNext)) /\ WF_partVars(Walks) /\ WF_partVars(Gmres(InSolve))

\* The block solver alone.
GmresAlone == MCInit /\ part = "gmres" /\ [][Gmres(GmresNext)]_partVars

\* Each in its own behaviours: the calls of the hop and of the block solver
\* return, the race and the sweeps end (HopEnds, CallsReturn, Terminates,
\* SolveEnds); and the plan of a solve is as large as it was estimated.
AtRest ==
  /\ part = "hop" => HopAtRest
  /\ part = "gmres" => stage = "idle"
  /\ part = "race" => main = "done"
  /\ part = "walk" => Solved
EndsAsPlanned == (part = "walk" => EstimateIsThePlan) /\ []<>AtRest
=============================================================================
