------------------------- MODULE ForestFactorization -------------------------
(***************************************************************************)
(* What a left-looking factorization of the assembly forest promises,      *)
(* whoever schedules it: a supernode is factored once, from the panels of  *)
(* all its updaters, none of which was given away before; a panel is given *)
(* away (emitted into the factor, its working copy freed) once, after its  *)
(* last reader; success is reported only for the whole forest, an error    *)
(* only for a supernode that was not factored and that nothing was         *)
(* factored from.                                                          *)
(***************************************************************************)
EXTENDS Integers

CONSTANTS
  Node,      \* the supernodes
  Updaters,  \* Updaters[s]: the supernodes whose panels the factoring of s reads
  NoNode     \* no supernode

VARIABLES
  factored,  \* the supernodes whose panels are complete
  released,  \* those among them whose panels were emitted and freed
  outcome,   \* "running", "ok" or "err"
  culprit    \* the supernode an error is reported for

vars == <<factored, released, outcome, culprit>>

Consumers(k) == {s \in Node : k \in Updaters[s]}

Init ==
  /\ factored = {}
  /\ released = {}
  /\ outcome = "running"
  /\ culprit = NoNode

Factor(s) ==
  /\ outcome = "running"
  /\ s \notin factored
  /\ Updaters[s] \subseteq factored \ released
  /\ factored' = factored \cup {s}
  /\ UNCHANGED <<released, outcome, culprit>>

Release(k) ==
  /\ outcome = "running"
  /\ k \in factored \ released
  /\ Consumers(k) \subseteq factored
  /\ released' = released \cup {k}
  /\ UNCHANGED <<factored, outcome, culprit>>

Succeed ==
  /\ outcome = "running"
  /\ factored = Node
  /\ released = Node
  /\ outcome' = "ok"
  /\ UNCHANGED <<factored, released, culprit>>

Fail(s) ==
  /\ outcome = "running"
  /\ ({s} \cup Consumers(s)) \cap factored = {}
  /\ outcome' = "err"
  /\ culprit' = s
  /\ UNCHANGED <<factored, released>>

Next ==
  \/ \E s \in Node : Factor(s) \/ Release(s) \/ Fail(s)
  \/ Succeed

Spec == Init /\ [][Next]_vars
=============================================================================
