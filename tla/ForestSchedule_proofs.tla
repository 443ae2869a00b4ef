------------------------- MODULE ForestSchedule_proofs -------------------------
(***************************************************************************)
(* The safety properties of the forest scheduler hold for every assembly   *)
(* forest and updater lists that satisfy ScheduleAssumption, serial or     *)
(* parallel, whichever supernodes fail.                                    *)
(***************************************************************************)
EXTENDS ForestSchedule, FiniteSetTheorems, WellFoundedInduction, TLAPS

-----------------------------------------------------------------------------
(***************************************************************************)
(* The inductive invariant.                                                *)
(***************************************************************************)

\* s has counted k down.
Counted(s, k) ==
  \/ pc[s] \in {"last", "done"}
  \/ pc[s] = "freeing" /\ k \notin todo[s]

Uncounted(k) == {s \in Consumers(k) : ~Counted(s, k)}

Unfinished(p) == {c \in Children(p) : pc[c] # "done"}

Under(k) == \E s \in Node : k \in drop[s]

PanelPhases ==
  \A s \in Node :
    /\ panel[s] # "empty" <=> pc[s] \in {"freeing", "last", "done"}
    /\ panel[s] = "emitted" => pc[s] \in {"last", "done"}

TaskPhases ==
  \A s \in Node :
    /\ todo[s] \subseteq Updaters[s]
    /\ pc[s] # "freeing" => todo[s] = {}
    /\ pc[s] = "freeing" => drop[s] \subseteq Updaters[s]
    /\ pc[s] = "last" => drop[s] \subseteq {s}
    /\ pc[s] \notin {"freeing", "last"} => drop[s] = {}
    /\ serial => pc[s] # "spawned"

\* A started task has everything below it done; the parallel driver never
\* leaves a supernode waiting whose children are done.
Order ==
  \A s \in Node :
    /\ pc[s] # "waiting" => \A k \in Updaters[s] \cup Children(s) : pc[k] = "done"
    /\ serial /\ pc[s] # "waiting" => \A t \in 1..(s - 1) : pc[t] = "done"
    /\ ~serial /\ pc[s] = "waiting" => Unfinished(s) # {}

RefcountCounts == \A k \in Node : refcount[k] = Cardinality(Uncounted(k))

PendingCounts ==
  ~serial => \A p \in Node : pending[p] = Cardinality(Unfinished(p))

\* A panel is on its way out, or out, exactly when its task is past its
\* frees and no consumer is left.
Released ==
  \A k \in Node :
    /\ panel[k] = "emitted" \/ Under(k) => refcount[k] = 0
    /\ pc[k] \in {"last", "done"} /\ refcount[k] = 0 =>
         panel[k] = "emitted" \/ Under(k)

DropsOnce ==
  \A s \in Node : \A k \in drop[s] :
    panel[k] = "factored" /\ \A t \in Node \ {s} : k \notin drop[t]

Errors ==
  /\ error # NONE => pc[error] = "failed"
  /\ error = NONE => \A s \in Node : pc[s] # "failed"
  /\ ~failed => error = NONE /\ \A s \in Node : pc[s] \notin {"reporting", "skipped"}
  /\ failed => error # NONE \/ \E s \in Node : pc[s] = "reporting"
  /\ outcome # "running" => \A s \in Node : ~Busy(s)
  /\ outcome = "err" => error # NONE
  /\ outcome = "ok" => \A s \in Node : panel[s] = "emitted"

IInv ==
  /\ TypeOK
  /\ PanelPhases
  /\ TaskPhases
  /\ Order
  /\ RefcountCounts
  /\ PendingCounts
  /\ Released
  /\ DropsOnce
  /\ Errors

-----------------------------------------------------------------------------
(***************************************************************************)
(* Facts about the supernodes.                                             *)
(***************************************************************************)

\* The assumption on the constants, in the words of this module.
LEMMA ScheduleFacts ==
  /\ NSuper \in Nat
  /\ Parent \in [Node -> Node \cup {NONE}]
  /\ \A c \in Node : Parent[c] # NONE => c < Parent[c]
  /\ Updaters \in [Node -> SUBSET Node]
  /\ \A s \in Node : \A k \in Updaters[s] :
       k < s /\ Parent[k] \in Updaters[s] \cup {s}
  /\ FreeParMin \in Nat
BY ScheduleHolds DEF ScheduleAssumption, IsSchedule, Node

LEMMA NodesFinite ==
  /\ IsFiniteSet(Node)
  /\ \A S \in SUBSET Node : IsFiniteSet(S) /\ Cardinality(S) \in Nat
<1>1. IsFiniteSet(Node)
  BY ScheduleFacts, FS_Interval DEF Node
<1> QED
  BY <1>1, FS_Subset, FS_CardinalityType

\* A nonempty set of supernodes has a first one.
LEMMA FirstNode ==
  ASSUME NEW T \in SUBSET Node, T # {}
  PROVE  \E m \in T : \A t \in T : m <= t
<1>1. T \subseteq Nat
  BY ScheduleFacts DEF Node
<1>2. PICK m \in T : \A t \in T : ~ (<<t, m>> \in OpToRel(<, Nat))
  BY <1>1, NatLessThanWellFounded, WFMin
<1>3. \A t \in T : ~(t < m)
  BY <1>1, <1>2 DEF OpToRel
<1> QED
  BY <1>1, <1>3

\* A nonempty set of supernodes has a last one.
LEMMA LastNode ==
  ASSUME NEW T \in SUBSET Node, T # {}
  PROVE  \E m \in T : \A t \in T : t <= m
<1> DEFINE U == {u \in Node : \A t \in T : t <= u}
<1>1. NSuper \in Nat /\ \A t \in T : t \in Nat /\ 1 <= t /\ t <= NSuper
  BY ScheduleFacts DEF Node
<1>2. PICK first \in T : TRUE
  OBVIOUS
<1>3. NSuper \in U
  BY <1>1, <1>2 DEF Node
<1>4. PICK m \in U : \A u \in U : m <= u
  BY <1>3, FirstNode
<1>5. m \in Nat /\ 1 <= m /\ m <= NSuper /\ \A t \in T : t <= m
  BY <1>1, <1>4 DEF Node
<1>6. ASSUME m \notin T PROVE FALSE
  <2>1. \A t \in T : t <= m - 1
    BY <1>1, <1>5, <1>6
  <2>2. m - 1 \in Node
    BY <1>1, <1>2, <1>5, <2>1 DEF Node
  <2>3. m - 1 \in U
    BY <2>1, <2>2
  <2> QED
    BY <1>4, <1>5, <2>3
<1> QED
  BY <1>5, <1>6

(***************************************************************************)
(* Everything a supernode reads lies below it in the forest: a set that    *)
(* holds p's children and is closed under children holds p's updaters.     *)
(***************************************************************************)
LEMMA UpdatersBelow ==
  ASSUME NEW p \in Node, NEW D \in SUBSET Node,
         Children(p) \subseteq D,
         \A s \in D : Children(s) \subseteq D
  PROVE  Updaters[p] \subseteq D
<1> DEFINE B == Updaters[p] \ D
<1>1. SUFFICES ASSUME B # {} PROVE FALSE
  OBVIOUS
<1>2. B \in SUBSET Node
  BY ScheduleFacts
<1>3. PICK m \in B : \A t \in B : t <= m
  BY <1>1, <1>2, LastNode
<1>4. m \in Node /\ m \in Updaters[p] /\ m \in Children(Parent[m])
  BY <1>2, <1>3 DEF Children
<1>5. CASE Parent[m] = p
  BY <1>3, <1>4, <1>5
<1>6. CASE Parent[m] \in Updaters[p]
  <2>1. Parent[m] \in Node /\ m < Parent[m]
    BY <1>4, <1>6, ScheduleFacts DEF Node, NONE
  <2>2. Parent[m] \in D
    BY <1>3, <1>4, <1>6, <2>1 DEF Node
  <2> QED
    BY <1>3, <1>4, <2>2
<1> QED
  BY <1>4, <1>5, <1>6, ScheduleFacts

-----------------------------------------------------------------------------
(***************************************************************************)
(* Type correctness: in particular no refcount and no pending count of a   *)
(* task ever goes below zero, which in the code's unsigned counters would  *)
(* wrap around.                                                            *)
(***************************************************************************)

\* A supernode that s has not counted down has a positive refcount.
LEMMA RefcountPositive ==
  ASSUME TypeOK, TaskPhases, RefcountCounts,
         NEW s \in Node, pc[s] = "freeing", NEW k \in todo[s]
  PROVE  k \in Node /\ s \in Uncounted(k) /\ refcount[k] > 0
<1>1. k \in Updaters[s] /\ k \in Node
  BY ScheduleFacts DEF TaskPhases
<1>2. s \in Uncounted(k)
  BY <1>1 DEF Uncounted, Consumers, Counted
<1>3. IsFiniteSet(Uncounted(k)) /\ Cardinality(Uncounted(k)) \in Nat
  <2>1. Uncounted(k) \in SUBSET Node
    BY DEF Uncounted, Consumers
  <2> QED
    BY <2>1, NodesFinite
<1>4. Cardinality(Uncounted(k)) # 0
  BY <1>2, <1>3, FS_EmptySet
<1> QED
  BY <1>1, <1>2, <1>3, <1>4 DEF RefcountCounts

\* A parent with an unfinished child has a positive pending count.
LEMMA PendingPositive ==
  ASSUME PendingCounts, ~serial,
         NEW s \in Node, pc[s] # "done", Parent[s] # NONE
  PROVE  /\ Parent[s] \in Node
         /\ s \in Unfinished(Parent[s])
         /\ pending[Parent[s]] > 0
<1>1. Parent[s] \in Node /\ s \in Unfinished(Parent[s])
  BY ScheduleFacts DEF Unfinished, Children
<1>2. Unfinished(Parent[s]) \in SUBSET Node
  BY DEF Unfinished, Children
<1>3. Cardinality(Unfinished(Parent[s])) \in Nat \ {0}
  BY <1>1, <1>2, NodesFinite, FS_EmptySet
<1> QED
  BY <1>1, <1>3 DEF PendingCounts

LEMMA InitHolds == Init => IInv
<1> SUFFICES ASSUME Init PROVE IInv
  OBVIOUS
<1>1. \A S \in SUBSET Node : IsFiniteSet(S) /\ Cardinality(S) \in Nat
  BY NodesFinite
<1>2. \A s \in Node : Children(s) \in SUBSET Node /\ Consumers(s) \in SUBSET Node
  BY DEF Children, Consumers
<1>3. TypeOK
  BY <1>1, <1>2 DEF Init, InitialRefcount, TypeOK, Phase
<1>4. PanelPhases /\ TaskPhases /\ DropsOnce /\ Errors
  BY DEF Init, PanelPhases, TaskPhases, DropsOnce, Errors, Busy
<1>5. \A s \in Node : Uncounted(s) = Consumers(s) /\ Unfinished(s) = Children(s)
  BY DEF Init, Uncounted, Unfinished, Counted, Consumers, Children
<1>6. RefcountCounts /\ PendingCounts
  BY <1>5 DEF Init, InitialRefcount, RefcountCounts, PendingCounts
<1>7. Released
  BY DEF Init, Released, Under
<1>8. Order
  <2> SUFFICES ASSUME NEW s \in Node
               PROVE  /\ pc[s] # "waiting" =>
                           \A k \in Updaters[s] \cup Children(s) : pc[k] = "done"
                      /\ serial => pc[s] = "waiting"
                      /\ ~serial /\ pc[s] = "waiting" => Unfinished(s) # {}
    BY DEF Order
  <2>1. pc[s] # "waiting" => Children(s) = {} /\ ~serial
    BY DEF Init
  <2>2. Children(s) = {} => Updaters[s] = {}
    BY UpdatersBelow
  <2> QED
    BY <1>5, <2>1, <2>2 DEF Init
<1> QED
  BY <1>3, <1>4, <1>6, <1>7, <1>8 DEF IInv

-----------------------------------------------------------------------------
(***************************************************************************)
(* Every step preserves the inductive invariant.                           *)
(***************************************************************************)

\* Facts about the constants that the SMT backends need.
LEMMA Shape ==
  \A s \in Node :
    /\ s \in Nat /\ s # NONE
    /\ Updaters[s] \in SUBSET Node
    /\ Children(s) \in SUBSET Node
    /\ Consumers(s) \in SUBSET Node
    /\ \A k \in Updaters[s] \cup Children(s) : k < s /\ k \in 1..(s - 1)
    /\ Parent[s] \in Node \cup {NONE}
    /\ s \notin Updaters[s] /\ s \notin Children(s)
BY ScheduleFacts DEF Node, NONE, Children, Consumers

\* A task that neither finishes nor starts a parent leaves the order alone.
LEMMA OrderKept ==
  ASSUME Order, NEW s \in Node, serial' = serial, pc[s] # "done", pc'[s] # "waiting",
         pc[s] = "waiting" => serial /\ \A t \in 1..(s - 1) : pc[t] = "done",
         \A t \in Node \ {s} : pc'[t] = pc[t],
         \A k \in Node : Unfinished(k)' = Unfinished(k)
  PROVE  Order'
<1> SUFFICES ASSUME NEW u \in Node
             PROVE  /\ pc'[u] # "waiting" =>
                         \A k \in Updaters[u] \cup Children(u) : pc'[k] = "done"
                    /\ serial /\ pc'[u] # "waiting" =>
                         \A t \in 1..(u - 1) : pc'[t] = "done"
                    /\ ~serial /\ pc'[u] = "waiting" => Unfinished(u)' # {}
  BY DEF Order, Children
<1>1. \A t \in Node : pc[t] = "done" => pc'[t] = "done"
  OBVIOUS
<1>2. \A k \in Updaters[u] \cup Children(u) \cup 1..(u - 1) : k \in Node
  BY Shape, ScheduleFacts DEF Node
<1>3. CASE pc[u] = "waiting" <=> pc'[u] = "waiting"
  BY <1>1, <1>2, <1>3 DEF Order
<1>4. CASE u = s /\ pc[s] = "waiting"
  <2>1. \A k \in Updaters[s] \cup Children(s) \cup 1..(s - 1) : pc[k] = "done"
    BY <1>4, Shape
  <2> QED
    BY <1>1, <1>2, <1>4, <2>1
<1> QED
  BY <1>3, <1>4

LEMMA StartStep ==
  ASSUME IInv, NEW s \in Node, Start(s)
  PROVE  IInv'
<1> USE DEF IInv
<1>1. /\ serial' = serial
      /\ pc[s] \in {"waiting", "spawned"}
      /\ pc'[s] \in {"factoring", "skipped"}
      /\ \A t \in Node \ {s} : pc'[t] = pc[t]
  BY DEF Start, Runnable, SerialTurn, TypeOK
<1>2. TypeOK'
  BY DEF Start, TypeOK, Phase
<1>3. PanelPhases' /\ TaskPhases' /\ DropsOnce' /\ Released'
  BY <1>1 DEF Start, PanelPhases, TaskPhases, DropsOnce, Released, Under
<1>4. \A k \in Node : Uncounted(k)' = Uncounted(k) /\ Unfinished(k)' = Unfinished(k)
  BY <1>1 DEF Start, Uncounted, Unfinished, Counted, Consumers, Children
<1>5. RefcountCounts' /\ PendingCounts'
  BY <1>4 DEF Start, RefcountCounts, PendingCounts
<1>6. Order'
  <2>1. pc[s] = "waiting" => serial /\ \A t \in 1..(s - 1) : pc[t] = "done"
    BY DEF Start, Runnable, SerialTurn
  <2> QED
    BY <1>1, <1>4, <2>1, OrderKept
<1>7. Errors'
  BY <1>1 DEF Start, Errors, Busy
<1> QED
  BY <1>2, <1>3, <1>5, <1>6, <1>7

LEMMA FactorOkStep ==
  ASSUME IInv, NEW s \in Node, FactorOk(s)
  PROVE  IInv'
<1> USE DEF IInv
<1>1. /\ serial' = serial
      /\ pc[s] = "factoring" /\ pc'[s] = "freeing"
      /\ \A t \in Node \ {s} : pc'[t] = pc[t]
  BY DEF FactorOk, TypeOK
<1>2. TypeOK'
  BY Shape DEF FactorOk, TypeOK, Phase
<1>3. panel[s] = "empty" /\ drop[s] = {} /\ ~Under(s) /\ panel'[s] = "factored"
  BY <1>1 DEF FactorOk, TypeOK, PanelPhases, TaskPhases, DropsOnce, Under
<1>4. PanelPhases' /\ TaskPhases'
  BY <1>1, <1>3 DEF FactorOk, TypeOK, PanelPhases, TaskPhases
<1>5. DropsOnce' /\ Released'
  BY <1>1, <1>3 DEF FactorOk, TypeOK, DropsOnce, Released, Under
<1>6. \A k \in Node : Uncounted(k)' = Uncounted(k) /\ Unfinished(k)' = Unfinished(k)
  BY <1>1 DEF FactorOk, TypeOK, Uncounted, Unfinished, Counted, Consumers, Children
<1>7. RefcountCounts' /\ PendingCounts'
  BY <1>6 DEF FactorOk, RefcountCounts, PendingCounts
<1>8. Order'
  BY <1>1, <1>6, OrderKept
<1>9. Errors'
  BY <1>1 DEF FactorOk, Errors, Busy
<1> QED
  BY <1>2, <1>4, <1>5, <1>7, <1>8, <1>9

LEMMA FactorErrStep ==
  ASSUME IInv, NEW s \in Node, FactorErr(s)
  PROVE  IInv'
<1> USE DEF IInv
<1>1. /\ serial' = serial
      /\ pc[s] = "factoring" /\ pc'[s] = "reporting"
      /\ \A t \in Node \ {s} : pc'[t] = pc[t]
  BY DEF FactorErr, TypeOK
<1>2. TypeOK'
  BY DEF FactorErr, TypeOK, Phase
<1>3. PanelPhases' /\ TaskPhases' /\ DropsOnce' /\ Released'
  BY <1>1 DEF FactorErr, PanelPhases, TaskPhases, DropsOnce, Released, Under
<1>4. \A k \in Node : Uncounted(k)' = Uncounted(k) /\ Unfinished(k)' = Unfinished(k)
  BY <1>1 DEF FactorErr, Uncounted, Unfinished, Counted, Consumers, Children
<1>5. RefcountCounts' /\ PendingCounts'
  BY <1>4 DEF FactorErr, RefcountCounts, PendingCounts
<1>6. Order'
  BY <1>1, <1>4, OrderKept
<1>7. Errors'
  BY <1>1 DEF FactorErr, Errors, Busy
<1> QED
  BY <1>2, <1>3, <1>5, <1>6, <1>7

LEMMA ReportStep ==
  ASSUME IInv, NEW s \in Node, Report(s)
  PROVE  IInv'
<1> USE DEF IInv
<1>1. /\ serial' = serial
      /\ pc[s] = "reporting" /\ pc'[s] = "failed"
      /\ \A t \in Node \ {s} : pc'[t] = pc[t]
  BY DEF Report, TypeOK
<1>2. TypeOK'
  BY DEF Report, TypeOK, Phase
<1>3. PanelPhases' /\ TaskPhases' /\ DropsOnce' /\ Released'
  BY <1>1 DEF Report, PanelPhases, TaskPhases, DropsOnce, Released, Under
<1>4. \A k \in Node : Uncounted(k)' = Uncounted(k) /\ Unfinished(k)' = Unfinished(k)
  BY <1>1 DEF Report, Uncounted, Unfinished, Counted, Consumers, Children
<1>5. RefcountCounts' /\ PendingCounts'
  BY <1>4 DEF Report, RefcountCounts, PendingCounts
<1>6. Order'
  BY <1>1, <1>4, OrderKept
<1>7. Errors'
  BY <1>1, Shape DEF Report, Errors, Busy, TypeOK
<1> QED
  BY <1>2, <1>3, <1>5, <1>6, <1>7

LEMMA CountDownStep ==
  ASSUME IInv, NEW s \in Node, NEW k \in Node, CountDown(s, k)
  PROVE  IInv'
<1> USE DEF IInv
<1>1. /\ serial' = serial
      /\ pc[s] = "freeing" /\ k \in todo[s] /\ pc' = pc /\ panel' = panel
  BY DEF CountDown
<1>2. s \in Uncounted(k) /\ refcount[k] > 0 /\ k \in Updaters[s]
  BY <1>1, RefcountPositive DEF TaskPhases
<1>3. panel[k] = "factored" /\ ~Under(k)
  BY <1>1, <1>2 DEF Order, PanelPhases, Released, TypeOK
<1>4. /\ todo'[s] = todo[s] \ {k}
      /\ refcount'[k] = refcount[k] - 1
      /\ \A t \in Node \ {s} : todo'[t] = todo[t] /\ drop'[t] = drop[t]
      /\ \A j \in Node \ {k} : refcount'[j] = refcount[j]
      /\ drop'[s] = IF refcount[k] = 1 THEN drop[s] \cup {k} ELSE drop[s]
  BY DEF CountDown, LastConsumer, TypeOK
<1>5. TypeOK'
  BY <1>2 DEF CountDown, LastConsumer, TypeOK, Phase
<1>6. PanelPhases' /\ TaskPhases'
  BY <1>1, <1>2, <1>4 DEF PanelPhases, TaskPhases
<1>7. Uncounted(k)' = Uncounted(k) \ {s}
  BY <1>1, <1>4 DEF Uncounted, Counted, Consumers
<1>8. \A j \in Node \ {k} : Uncounted(j)' = Uncounted(j)
  BY <1>1, <1>4 DEF Uncounted, Counted, Consumers
<1>9. RefcountCounts'
  <2>1. IsFiniteSet(Uncounted(k))
    <3>1. Uncounted(k) \in SUBSET Node
      BY DEF Uncounted, Consumers
    <3> QED
      BY <3>1, NodesFinite
  <2>2. Cardinality(Uncounted(k) \ {s}) = Cardinality(Uncounted(k)) - 1
    BY <1>2, <2>1, FS_RemoveElement
  <2> QED
    BY <1>4, <1>7, <1>8, <2>2 DEF RefcountCounts
<1>10. \A p \in Node : Unfinished(p)' = Unfinished(p)
  BY <1>1 DEF Unfinished, Children
<1>11. PendingCounts' /\ Order'
  BY <1>1, <1>10 DEF CountDown, PendingCounts, Order
<1>12. \A j \in Node \ {k} : Under(j)' <=> Under(j)
  BY <1>4 DEF Under
<1>13. Under(k)' <=> refcount[k] = 1
  BY <1>3, <1>4 DEF Under
<1>14. Released'
  <2> SUFFICES ASSUME NEW j \in Node
               PROVE  /\ panel[j] = "emitted" \/ Under(j)' => refcount'[j] = 0
                      /\ pc[j] \in {"last", "done"} /\ refcount'[j] = 0 =>
                           panel[j] = "emitted" \/ Under(j)'
    BY <1>1 DEF Released
  <2>1. CASE j = k
    BY <1>2, <1>3, <1>4, <1>13, <2>1 DEF TypeOK
  <2>2. CASE j # k
    BY <1>4, <1>12, <2>2 DEF Released
  <2> QED
    BY <2>1, <2>2
<1>15. DropsOnce'
  BY <1>1, <1>3, <1>4 DEF DropsOnce, Under
<1>16. Errors'
  BY <1>1 DEF CountDown, Errors, Busy
<1> QED
  BY <1>5, <1>6, <1>9, <1>11, <1>14, <1>15, <1>16

LEMMA EmitFreeStep ==
  ASSUME IInv, NEW s \in Node, NEW k \in Node, EmitFree(s, k)
  PROVE  IInv'
<1> USE DEF IInv
<1>1. serial' = serial /\ k \in drop[s] /\ pc' = pc /\ todo' = todo /\ refcount' = refcount
  BY DEF EmitFree
<1>2. /\ panel'[k] = "emitted"
      /\ \A j \in Node \ {k} : panel'[j] = panel[j]
      /\ drop'[s] = drop[s] \ {k}
      /\ \A t \in Node \ {s} : drop'[t] = drop[t]
  BY DEF EmitFree, TypeOK
<1>3. pc[k] \in {"last", "done"} /\ refcount[k] = 0 /\ panel[k] = "factored"
  BY <1>1 DEF TaskPhases, Order, Released, Under, DropsOnce
<1>4. TypeOK'
  BY DEF EmitFree, TypeOK
<1>5. PanelPhases' /\ TaskPhases'
  BY <1>1, <1>2, <1>3 DEF PanelPhases, TaskPhases
<1>6. \A j \in Node : Uncounted(j)' = Uncounted(j) /\ Unfinished(j)' = Unfinished(j)
  BY <1>1 DEF Uncounted, Unfinished, Counted, Consumers, Children
<1>7. RefcountCounts' /\ PendingCounts' /\ Order'
  BY <1>1, <1>6 DEF EmitFree, RefcountCounts, PendingCounts, Order
<1>8. \A j \in Node \ {k} : Under(j)' <=> Under(j)
  BY <1>2 DEF Under
<1>9. Released'
  BY <1>1, <1>2, <1>3, <1>8 DEF Released
<1>10. DropsOnce'
  <2> SUFFICES ASSUME NEW t \in Node, NEW j \in drop'[t]
               PROVE  panel'[j] = "factored" /\ \A u \in Node \ {t} : j \notin drop'[u]
    BY DEF DropsOnce
  <2>1. j \in Node /\ j \in drop[t] /\ j # k
    BY <1>1, <1>2 DEF DropsOnce, TypeOK
  <2> QED
    BY <1>2, <2>1 DEF DropsOnce
<1>11. Errors'
  BY <1>1, <1>2 DEF EmitFree, Errors, Busy
<1> QED
  BY <1>4, <1>5, <1>7, <1>9, <1>10, <1>11

\* Nobody counts a supernode down, or emits it, before its task is done.
LEMMA UntouchedBeforeDone ==
  ASSUME IInv, NEW s \in Node, pc[s] \notin {"last", "done"}
  PROVE  /\ ~Under(s)
         /\ panel[s] # "emitted"
         /\ \A t \in Consumers(s) : pc[t] = "waiting"
<1> USE DEF IInv
<1>1. \A t \in Consumers(s) : pc[t] = "waiting"
  BY DEF Consumers, Order
<1>2. ~Under(s)
  BY <1>1, Shape DEF Under, TaskPhases, Consumers
<1> QED
  BY <1>1, <1>2 DEF PanelPhases

LEMMA CheckSelfStep ==
  ASSUME IInv, NEW s \in Node, CheckSelf(s)
  PROVE  IInv'
<1> USE DEF IInv
<1>1. /\ serial' = serial
      /\ pc[s] = "freeing" /\ pc'[s] = "last"
      /\ \A t \in Node \ {s} : pc'[t] = pc[t]
      /\ todo[s] = {} /\ drop[s] = {}
      /\ drop'[s] = IF refcount[s] = 0 THEN {s} ELSE {}
      /\ \A t \in Node \ {s} : drop'[t] = drop[t]
      /\ todo' = todo /\ refcount' = refcount /\ panel' = panel
  BY DEF CheckSelf, Unread, TypeOK
<1>2. TypeOK'
  BY DEF CheckSelf, Unread, TypeOK, Phase
<1>3. ~Under(s) /\ panel[s] = "factored"
  BY <1>1, UntouchedBeforeDone DEF PanelPhases, TypeOK
<1>4. PanelPhases' /\ TaskPhases'
  BY <1>1 DEF PanelPhases, TaskPhases
<1>5. \A k \in Node : Uncounted(k)' = Uncounted(k) /\ Unfinished(k)' = Unfinished(k)
  BY <1>1 DEF Uncounted, Unfinished, Counted, Consumers, Children
<1>6. RefcountCounts' /\ PendingCounts'
  BY <1>1, <1>5 DEF CheckSelf, RefcountCounts, PendingCounts
<1>7. Order'
  BY <1>1, <1>5, OrderKept
<1>8. \A j \in Node \ {s} : Under(j)' <=> Under(j)
  BY <1>1 DEF Under
<1>9. Under(s)' <=> refcount[s] = 0
  BY <1>1, <1>3 DEF Under
<1>10. Released'
  BY <1>1, <1>3, <1>8, <1>9 DEF Released
<1>11. DropsOnce'
  BY <1>1, <1>3 DEF DropsOnce, Under
<1>12. Errors'
  BY <1>1 DEF CheckSelf, Errors, Busy
<1> QED
  BY <1>2, <1>4, <1>6, <1>7, <1>10, <1>11, <1>12

LEMMA HandOnStep ==
  ASSUME IInv, NEW s \in Node, HandOn(s)
  PROVE  IInv'
<1> USE DEF IInv
<1> DEFINE p == Parent[s]
<1>1. /\ serial' = serial
      /\ pc[s] = "last" /\ pc'[s] = "done" /\ drop[s] = {}
      /\ todo' = todo /\ drop' = drop /\ refcount' = refcount /\ panel' = panel
  BY Shape DEF HandOn, TypeOK
<1>2. CASE serial \/ p = NONE
  <2>1. pc' = [pc EXCEPT ![s] = "done"] /\ pending' = pending
    BY <1>2 DEF HandOn
  <2>2. TypeOK'
    BY <2>1 DEF HandOn, TypeOK, Phase
  <2>3. PanelPhases' /\ TaskPhases' /\ DropsOnce' /\ Released'
    BY <1>1, <2>1 DEF TypeOK, PanelPhases, TaskPhases, DropsOnce, Released, Under
  <2>4. \A k \in Node : Uncounted(k)' = Uncounted(k)
    BY <1>1, <2>1 DEF TypeOK, Uncounted, Counted, Consumers
  <2>5. ~serial => \A q \in Node : Unfinished(q)' = Unfinished(q)
    BY <1>1, <1>2, <2>1, Shape DEF TypeOK, Unfinished, Children
  <2>6. RefcountCounts' /\ PendingCounts'
    BY <1>1, <2>1, <2>4, <2>5 DEF RefcountCounts, PendingCounts
  <2>7. Order'
    BY <1>1, <2>1, <2>5, Shape DEF TypeOK, Order
  <2>8. Errors'
    BY <1>1, <2>1 DEF HandOn, Errors, Busy, TypeOK
  <2> QED
    BY <2>2, <2>3, <2>6, <2>7, <2>8
<1>3. CASE ~(serial \/ p = NONE)
  <2>1. p \in Node /\ p # s /\ s \in Unfinished(p) /\ pending[p] > 0
    BY <1>1, <1>3, PendingPositive, Shape DEF Children, Unfinished
  <2>2. pc[p] = "waiting"
    BY <1>1, <2>1 DEF Order, Unfinished
  <2>3. /\ pc'[p] = IF pending[p] = 1 THEN "spawned" ELSE "waiting"
        /\ \A t \in Node \ {s, p} : pc'[t] = pc[t]
        /\ pending' = [pending EXCEPT ![p] = pending[p] - 1]
    BY <1>3, <2>1, <2>2 DEF HandOn, LastChild, TypeOK
  <2>4. TypeOK'
    BY <1>3, <2>1 DEF HandOn, LastChild, TypeOK, Phase
  <2>5. PanelPhases' /\ TaskPhases' /\ DropsOnce' /\ Released'
    BY <1>1, <1>3, <2>2, <2>3
       DEF TypeOK, PanelPhases, TaskPhases, DropsOnce, Released, Under
  <2>6. \A k \in Node : Uncounted(k)' = Uncounted(k)
    BY <1>1, <2>2, <2>3 DEF Uncounted, Counted, Consumers
  <2>7. Unfinished(p)' = Unfinished(p) \ {s}
    BY <1>1, <2>1, <2>2, <2>3, Shape DEF Unfinished, Children
  <2>8. \A q \in Node \ {p} : Unfinished(q)' = Unfinished(q)
    BY <1>1, <2>1, <2>2, <2>3 DEF Unfinished, Children
  <2>9. /\ IsFiniteSet(Unfinished(p)') 
        /\ Cardinality(Unfinished(p)') = pending[p] - 1
        /\ pending[p] \in Nat
    <3>1. IsFiniteSet(Unfinished(p))
      <4>1. Unfinished(p) \in SUBSET Node
        BY DEF Unfinished, Children
      <4> QED
        BY <4>1, NodesFinite
    <3>2. Cardinality(Unfinished(p)) = pending[p] /\ pending[p] \in Nat
      BY <1>3, <2>1 DEF PendingCounts, TypeOK
    <3> QED
      BY <2>1, <2>7, <3>1, <3>2, FS_RemoveElement
  <2>10. RefcountCounts' /\ PendingCounts'
    BY <1>1, <2>3, <2>6, <2>8, <2>9 DEF RefcountCounts, PendingCounts, TypeOK
  <2>11. Unfinished(p)' = {} <=> pending[p] = 1
    BY <2>9, FS_EmptySet
  <2>12. Order'
    <3> SUFFICES ASSUME NEW u \in Node
                 PROVE  /\ pc'[u] # "waiting" =>
                             \A k \in Updaters[u] \cup Children(u) : pc'[k] = "done"
                        /\ pc'[u] = "waiting" => Unfinished(u)' # {}
      BY <1>1, <1>3 DEF Order
    <3>1. \A t \in Node : pc[t] = "done" => pc'[t] = "done"
      BY <1>1, <2>2, <2>3
    <3>2. CASE u = p /\ pending[p] = 1
      <4> DEFINE D == {t \in Node : pc'[t] = "done"}
      <4>1. Children(p) \subseteq D
        BY <2>1, <2>11, <3>2 DEF Unfinished, Children
      <4>2. \A t \in D : Children(t) \subseteq D
        BY <1>1, <2>2, <2>3, <3>1, Shape DEF Order
      <4>3. Updaters[p] \subseteq D
        BY <2>1, <4>1, <4>2, UpdatersBelow
      <4> QED
        BY <2>3, <3>2, <4>1, <4>3
    <3>3. CASE u = p /\ pending[p] # 1
      BY <2>3, <2>11, <3>3
    <3>4. CASE u # p
      BY <1>1, <1>3, <2>2, <2>3, <2>8, <3>1, <3>4, Shape DEF Order
    <3> QED
      BY <3>2, <3>3, <3>4
  <2>13. Errors'
    BY <1>1, <2>1, <2>2, <2>3, Shape DEF HandOn, Errors, Busy, TypeOK
  <2> QED
    BY <2>4, <2>5, <2>10, <2>12, <2>13
<1> QED
  BY <1>2, <1>3

(***************************************************************************)
(* When no task is left and no error was kept, every supernode was         *)
(* factored and emitted: nothing is left waiting for a child.              *)
(***************************************************************************)
LEMMA AllEmitted ==
  ASSUME IInv, error = NONE, \A s \in Node : ~Busy(s) /\ ~Runnable(s)
  PROVE  \A s \in Node : panel[s] = "emitted"
<1> USE DEF IInv
<1>1. \A s \in Node : pc[s] \in {"waiting", "spawned", "done"}
  BY DEF Errors, Busy, TypeOK, Phase
<1>2. \A s \in Node : pc[s] = "done"
  <2> DEFINE W == {s \in Node : pc[s] # "done"}
  <2>1. SUFFICES ASSUME W # {} PROVE FALSE
    OBVIOUS
  <2>2. PICK m \in W : \A t \in W : m <= t
    BY <2>1, FirstNode
  <2>3. m \in Node /\ \A t \in 1..(m - 1) : pc[t] = "done"
    BY <2>2, ScheduleFacts DEF Node
  <2>4. \A c \in Children(m) : pc[c] = "done"
    BY <2>3, Shape
  <2>5. CASE serial
    BY <1>1, <2>2, <2>3, <2>5 DEF Runnable, SerialTurn, TaskPhases
  <2>6. CASE ~serial
    BY <1>1, <2>2, <2>3, <2>4, <2>6 DEF Runnable, Order, Unfinished
  <2> QED
    BY <2>5, <2>6
<1>3. \A k \in Node : Uncounted(k) = {}
  BY <1>2 DEF Uncounted, Counted, Consumers
<1>4. \A k \in Node : refcount[k] = 0
  BY <1>3, FS_EmptySet DEF RefcountCounts
<1> QED
  BY <1>2, <1>4 DEF Released, Under, TaskPhases

LEMMA JoinStep ==
  ASSUME IInv, Join
  PROVE  IInv'
<1> USE DEF IInv
<1>1. TypeOK'
  BY DEF Join, TypeOK
<1>2. PanelPhases' /\ TaskPhases' /\ DropsOnce' /\ Released'
  BY DEF Join, PanelPhases, TaskPhases, DropsOnce, Released, Under
<1>3. \A k \in Node : Uncounted(k)' = Uncounted(k) /\ Unfinished(k)' = Unfinished(k)
  BY DEF Join, Uncounted, Unfinished, Counted, Consumers, Children
<1>4. RefcountCounts' /\ PendingCounts' /\ Order'
  BY <1>3 DEF Join, RefcountCounts, PendingCounts, Order
<1>5. Errors'
  BY AllEmitted DEF Join, NoTaskLeft, Errors, Busy
<1> QED
  BY <1>1, <1>2, <1>4, <1>5

LEMMA NextStep == IInv /\ [Next]_vars => IInv'
<1> SUFFICES ASSUME IInv, [Next]_vars PROVE IInv'
  OBVIOUS
<1>1. ASSUME NEW s \in Node, Task(s) PROVE IInv'
  BY <1>1, StartStep, FactorOkStep, FactorErrStep, ReportStep, CountDownStep,
     EmitFreeStep, CheckSelfStep, HandOnStep DEF Task
<1>2. CASE Join
  BY <1>2, JoinStep
<1>3. CASE UNCHANGED vars
  BY <1>3 DEF vars, IInv, TypeOK, PanelPhases, TaskPhases, Order, RefcountCounts,
     PendingCounts, Released, DropsOnce, Errors, Under, Uncounted, Unfinished,
     Counted, Consumers, Children, Busy
<1> QED
  BY <1>1, <1>2, <1>3 DEF Next

THEOREM InductiveInvariant == Spec => []IInv
BY InitHolds, NextStep, PTL DEF Spec

-----------------------------------------------------------------------------
(***************************************************************************)
(* The properties.                                                         *)
(***************************************************************************)

\* Type correctness, for every forest: no counter of the scheduler wraps.
THEOREM TypeCorrect == Spec => []TypeOK
BY InductiveInvariant, PTL DEF IInv

LEMMA LivePanels == IInv => ReadsLivePanels
<1> SUFFICES ASSUME IInv, NEW s \in Node, pc[s] = "factoring", NEW k \in Updaters[s]
             PROVE  panel[k] = "factored" /\ \A t \in Node : k \notin drop[t]
  BY DEF ReadsLivePanels
<1>1. k \in Node /\ pc[k] = "done" /\ s \in Uncounted(k)
  BY Shape DEF IInv, Order, Uncounted, Counted, Consumers
<1>2. Uncounted(k) \in SUBSET Node
  BY DEF Uncounted, Consumers
<1>3. refcount[k] # 0
  BY <1>1, <1>2, NodesFinite, FS_EmptySet DEF IInv, RefcountCounts
<1> QED
  BY <1>1, <1>3 DEF IInv, Released, Under, PanelPhases, TypeOK

\* No kernel ever reads a panel that is missing, emitted or being emitted
\* (ll_forest's dependency order is the only synchronization of those reads).
THEOREM PanelsLiveWhenRead == Spec => []ReadsLivePanels
BY LivePanels, InductiveInvariant, PTL

LEMMA EmissionsOnce == IInv => EmitsOnceAfterConsumers
<1> SUFFICES ASSUME IInv, NEW s \in Node, NEW k \in drop[s]
             PROVE  /\ panel[k] = "factored"
                    /\ \A t \in Node \ {s} : k \notin drop[t]
                    /\ \A c \in Consumers(k) : panel[c] # "empty"
  BY DEF EmitsOnceAfterConsumers
<1>1. k \in Node
  BY DEF IInv, TypeOK
<1>2. Cardinality(Uncounted(k)) = 0
  BY <1>1 DEF IInv, Released, Under, RefcountCounts
<1>3. Uncounted(k) = {}
  <2>1. Uncounted(k) \in SUBSET Node
    BY DEF Uncounted, Consumers
  <2> QED
    BY <1>2, <2>1, NodesFinite, FS_EmptySet
<1>4. \A c \in Consumers(k) : panel[c] # "empty"
  BY <1>3 DEF Uncounted, Counted, Consumers, IInv, PanelPhases
<1> QED
  BY <1>4 DEF IInv, DropsOnce

\* Every panel is emitted by one task, once, after all of its consumers.
THEOREM EmittedOnce == Spec => []EmitsOnceAfterConsumers
BY EmissionsOnce, InductiveInvariant, PTL

\* Both: a panel is read while it is whole and given away once, afterwards.
THEOREM PanelsHandedOver == Spec => []PanelsAreHandedOver
BY PanelsLiveWhenRead, EmittedOnce, PTL DEF PanelsAreHandedOver

LEMMA FaithfulOutcome == IInv => OutcomeIsFaithful
<1> SUFFICES ASSUME IInv, outcome = "err"
             PROVE  /\ error # NONE
                    /\ \A t \in {error} \cup Consumers(error) : panel[t] = "empty"
  BY DEF IInv, Errors, OutcomeIsFaithful
<1>1. error \in Node /\ pc[error] = "failed"
  BY DEF IInv, Errors, TypeOK
<1>2. \A t \in Consumers(error) : t \in Node /\ pc[t] = "waiting"
  BY <1>1, UntouchedBeforeDone DEF Consumers
<1> QED
  BY <1>1, <1>2 DEF IInv, PanelPhases, NONE, Node

\* What the caller is told is what happened.
THEOREM OutcomeFaithful == Spec => []OutcomeIsFaithful
BY FaithfulOutcome, InductiveInvariant, PTL

-----------------------------------------------------------------------------
(***************************************************************************)
(* The scheduler implements ForestFactorization: FactorOk is its Factor,   *)
(* EmitFree its Release, Join its Succeed or Fail; every other step        *)
(* stutters.                                                               *)
(***************************************************************************)
PromiseVars ==
  <<{s \in Node : panel[s] # "empty"}, {s \in Node : panel[s] = "emitted"},
    outcome, IF outcome = "err" THEN error ELSE NONE>>

LEMMA Running == ASSUME IInv, NEW s \in Node, Busy(s) PROVE outcome = "running"
BY DEF IInv, TypeOK, Errors

LEMMA FactorOkFactors ==
  ASSUME IInv, NEW s \in Node, FactorOk(s)
  PROVE  Promise!Factor(s)
<1>1. pc[s] = "factoring" /\ panel[s] = "empty" /\ outcome = "running"
  BY Running DEF FactorOk, Busy, IInv, TypeOK, PanelPhases
<1>2. \A k \in Updaters[s] : k \in Node /\ panel[k] = "factored"
  BY <1>1, LivePanels, Shape DEF ReadsLivePanels
<1>3. \A k \in Node : panel'[k] = IF k = s THEN "factored" ELSE panel[k]
  BY DEF FactorOk, IInv, TypeOK
<1>4. /\ {t \in Node : panel'[t] # "empty"} = {t \in Node : panel[t] # "empty"} \cup {s}
      /\ {t \in Node : panel'[t] = "emitted"} = {t \in Node : panel[t] = "emitted"}
  BY <1>1, <1>3
<1> QED
  BY <1>1, <1>2, <1>4 DEF FactorOk, Promise!Factor

LEMMA EmitFreeReleases ==
  ASSUME IInv, NEW s \in Node, NEW k \in Node, EmitFree(s, k)
  PROVE  Promise!Release(k)
<1>1. panel[k] = "factored" /\ \A c \in Consumers(k) : panel[c] # "empty"
  BY EmissionsOnce DEF EmitFree, EmitsOnceAfterConsumers
<1>2. outcome = "running"
  BY Running DEF EmitFree, Busy, IInv, TaskPhases
<1>3. \A j \in Node : panel'[j] = IF j = k THEN "emitted" ELSE panel[j]
  BY DEF EmitFree, IInv, TypeOK
<1>4. /\ {t \in Node : panel'[t] # "empty"} = {t \in Node : panel[t] # "empty"}
      /\ {t \in Node : panel'[t] = "emitted"} = {t \in Node : panel[t] = "emitted"} \cup {k}
  BY <1>1, <1>3
<1> QED
  BY <1>1, <1>2, <1>4 DEF EmitFree, Promise!Release, Promise!Consumers, Consumers

LEMMA JoinDecides ==
  ASSUME IInv, Join
  PROVE  Promise!Succeed \/ \E s \in Node : Promise!Fail(s)
<1>1. CASE error = NONE
  <2>1. \A s \in Node : panel[s] = "emitted"
    BY <1>1, AllEmitted DEF Join, NoTaskLeft
  <2> QED
    BY <1>1, <2>1 DEF Join, Promise!Succeed
<1>2. CASE error # NONE
  <2>1. error \in Node /\ pc[error] = "failed"
    BY <1>2 DEF IInv, Errors, TypeOK
  <2>2. \A t \in {error} \cup Consumers(error) : t \in Node /\ panel[t] = "empty"
    BY <2>1, UntouchedBeforeDone DEF Consumers, IInv, PanelPhases
  <2>3. Promise!Fail(error)
    BY <1>2, <2>1, <2>2 DEF Join, Promise!Fail, Promise!Consumers, Consumers
  <2> QED
    BY <2>1, <2>3
<1> QED
  BY <1>1, <1>2

THEOREM ForestImplementsPromise == Spec => ImplementsPromise
<1>1. Init => Promise!Init
  BY DEF Init, Promise!Init
<1>2. IInv /\ [Next]_vars => [Promise!Next]_PromiseVars
  <2> SUFFICES ASSUME IInv, [Next]_vars PROVE [Promise!Next]_PromiseVars
    OBVIOUS
  <2>1. ASSUME NEW s \in Node, FactorOk(s) PROVE Promise!Next
    BY <2>1, FactorOkFactors DEF Promise!Next
  <2>2. ASSUME NEW s \in Node, NEW k \in Node, EmitFree(s, k) PROVE Promise!Next
    BY <2>2, EmitFreeReleases DEF Promise!Next
  <2>3. CASE Join
    BY <2>3, JoinDecides DEF Promise!Next
  <2>4. ASSUME NEW s \in Node, Start(s) \/ FactorErr(s) \/ CheckSelf(s) \/ HandOn(s)
                               \/ \E k \in Node : CountDown(s, k)
        PROVE  UNCHANGED PromiseVars
    BY <2>4 DEF Start, FactorErr, CheckSelf, HandOn, CountDown, PromiseVars
  <2>5. ASSUME NEW s \in Node, Report(s) PROVE UNCHANGED PromiseVars
    BY <2>5, Running DEF Report, Busy, PromiseVars
  <2>6. CASE UNCHANGED vars
    BY <2>6 DEF vars, PromiseVars
  <2> QED
    BY <2>1, <2>2, <2>3, <2>4, <2>5, <2>6 DEF Next, Task
<1>3. [Promise!Next]_PromiseVars <=> [Promise!Next]_(Promise!vars)
  BY DEF PromiseVars, Promise!vars
<1> QED
  BY <1>1, <1>2, <1>3, InductiveInvariant, PTL DEF Spec, ImplementsPromise, Promise!Spec
=============================================================================
