--------------------------- MODULE Threads_proofs ---------------------------
(***************************************************************************)
(* What runs on several threads, for any number of calls, threads, pools   *)
(* and records.                                                            *)
(*                                                                         *)
(* Hop: the hand-over to a hop thread lends no closure beyond its call,    *)
(* loses no signal and keeps the promise of HopPromise.                    *)
(* ScopedPools: work enters the pool it asked for, and no pool is built    *)
(* again that was among the last ones used.                                *)
(* Sections: a loop cut into pieces, and a scope of tasks, do what the     *)
(* plain loop does.                                                        *)
(* LogSink: a sink is not replaced under a record handed to it.            *)
(* BlockGmres: a residual held is that of the solution handed out, no      *)
(* column is left out, and a step keeps to the room.                       *)
(* OrderingRace: the race of the orderings returns what one thread would,  *)
(* and dissects every seed at most once.                                   *)
(***************************************************************************)
EXTENDS Hop, ScopedPools, Sections, LogSink, BlockGmres, OrderingRace,
        Sums_proofs, FiniteSetTheorems, SequenceTheorems, WellFoundedInduction, TLAPS

\* Who stands where, and who holds the mutex.
Standing ==
  /\ shared = "some" <=> hpc # "unborn"
  /\ wpc \in {"locking", "looking", "waiting", "quit"} => shared = "some"
  /\ wpc \in {"alone", "ran"} => shared = "none"
  /\ wpc \in Calling => calls >= 1
  /\ holder = "worker" <=> wpc = "looking"
  /\ holder = "hop" <=> hpc = "looking"
  /\ "worker" \in asleep => wpc = "waiting"
  /\ "hop" \in asleep => hpc = "waiting"
  /\ hpc = "gone" => wpc \in {"quit", "gone"}

\* One token per call: the job in the slot, then the hop at it, then the
\* answer in the slot; and outside a call none of them.
OneToken ==
  /\ InRun =>
       /\ \/ slot = Job(calls) /\ hpc \notin {"running", "reporting"}
          \/ slot = Empty /\ hpc \in {"running", "reporting"} /\ job = calls
          \/ slot \in {Done("ok"), Done("panic")} /\ hpc \notin {"running", "reporting"}
  /\ ~InRun => slot \in {Empty, Quit} /\ hpc \notin {"running", "reporting"}
  /\ slot = Quit => wpc \in {"quit", "gone"}
  /\ end # "none" <=> hpc = "reporting" \/ wpc = "ran"

Inv == TypeOK /\ Standing /\ OneToken /\ NoLostSignal

USE DEF Empty, Job, Done, Quit, InRun, AnswerSeen, PutBack, NotifyAll, HopToTell

LEMMA InitInv == Init => Inv
<1>1. Init => TypeOK
  BY MaxCallsAssumption DEF Init, TypeOK
<1>2. Init => Standing /\ OneToken /\ NoLostSignal
  BY DEF Init, Standing, OneToken, NoLostSignal, Calling
<1> QED
  BY <1>1, <1>2 DEF Inv

LEMMA StepTypes == Inv /\ [Next]_vars => TypeOK'
<1> SUFFICES ASSUME Inv, [Next]_vars PROVE TypeOK'
  OBVIOUS
<1> USE MaxCallsAssumption DEF Inv, TypeOK
<1>1. CASE Call
  BY <1>1 DEF Call
<1>2. CASE StartHop \/ FindHop \/ RunAlone \/ ReturnAlone
  BY <1>2 DEF StartHop, FindHop, RunAlone, ReturnAlone, Standing, OneToken
<1>3. CASE HandOver
  <2>1. calls \in 1..MaxCalls
    BY <1>3 DEF HandOver, Standing, Calling
  <2> QED
    BY <1>3, <2>1 DEF HandOver
<1>4. CASE TakeAnswer
  BY <1>4 DEF TakeAnswer
<1>5. CASE WorkerWaits \/ WorkerWakes
  BY <1>5 DEF WorkerWaits, WorkerWakes
<1>6. CASE DropSlot \/ DropSignal
  <2>1. slot' \in {slot, Quit} /\ wpc' \in {"gone", "quit"}
        /\ UNCHANGED <<calls, shared, holder, hpc, job, end, answer>>
        /\ asleep' \subseteq asleep
    BY <1>6 DEF DropSlot, DropSignal
  <2> QED
    BY <2>1
<1>7. CASE HopLocks \/ HopQuits \/ HopWaits \/ RunJob
  BY <1>7 DEF HopLocks, HopQuits, HopWaits, RunJob
<1>8. CASE TakeJob
  BY <1>8 DEF TakeJob
<1>9. CASE Report
  BY <1>9 DEF Report, OneToken
<1>10. CASE SpuriousWake
  BY <1>10 DEF SpuriousWake
<1>11. CASE UNCHANGED vars
  BY <1>11 DEF vars
<1> QED
  BY <1>1, <1>2, <1>3, <1>4, <1>5, <1>6, <1>7, <1>8, <1>9, <1>10, <1>11 DEF Next, InCall, Serve

LEMMA StepStanding == Inv /\ [Next]_vars => Standing'
<1> SUFFICES ASSUME Inv, [Next]_vars PROVE Standing'
  OBVIOUS
<1> USE DEF Inv, Standing, Calling
<1>1. CASE Call \/ StartHop \/ FindHop
  BY <1>1 DEF Call, StartHop, FindHop, TypeOK
<1>2. CASE RunAlone \/ ReturnAlone \/ HandOver
  BY <1>2 DEF RunAlone, ReturnAlone, HandOver, TypeOK
<1>3. CASE TakeAnswer \/ WorkerWaits \/ WorkerWakes
  BY <1>3 DEF TakeAnswer, WorkerWaits, WorkerWakes, TypeOK
<1>4. CASE DropSlot \/ DropSignal
  BY <1>4 DEF DropSlot, DropSignal, TypeOK
<1>5. CASE HopLocks \/ TakeJob
  BY <1>5 DEF HopLocks, TakeJob, TypeOK
<1>6. CASE HopQuits
  BY <1>6 DEF HopQuits, TypeOK, OneToken
<1>7. CASE HopWaits \/ RunJob \/ Report
  BY <1>7 DEF HopWaits, RunJob, Report, TypeOK
<1>8. CASE SpuriousWake
  BY <1>8 DEF SpuriousWake
<1>9. CASE UNCHANGED vars
  BY <1>9 DEF vars
<1> QED
  BY <1>1, <1>2, <1>3, <1>4, <1>5, <1>6, <1>7, <1>8, <1>9 DEF Next, InCall, Serve

LEMMA StepToken == Inv /\ [Next]_vars => OneToken'
<1> SUFFICES ASSUME Inv, [Next]_vars PROVE OneToken'
  OBVIOUS
<1> USE DEF Inv, OneToken, Standing
<1>1. CASE Call \/ StartHop \/ FindHop
  BY <1>1 DEF Call, StartHop, FindHop
<1>2. CASE RunAlone \/ ReturnAlone
  BY <1>2 DEF RunAlone, ReturnAlone, TypeOK
<1>3. CASE HandOver
  BY <1>3 DEF HandOver
<1>4. CASE TakeAnswer
  BY <1>4 DEF TakeAnswer
<1>5. CASE WorkerWaits \/ WorkerWakes
  BY <1>5 DEF WorkerWaits, WorkerWakes
<1>6. CASE DropSlot \/ DropSignal
  BY <1>6 DEF DropSlot, DropSignal
<1>7. CASE HopLocks \/ HopWaits
  BY <1>7 DEF HopLocks, HopWaits
<1>8. CASE TakeJob
  BY <1>8 DEF TakeJob
<1>9. CASE HopQuits
  BY <1>9 DEF HopQuits
<1>10. CASE RunJob
  BY <1>10 DEF RunJob
<1>11. CASE Report
  BY <1>11 DEF Report, TypeOK
<1>12. CASE SpuriousWake
  BY <1>12 DEF SpuriousWake
<1>13. CASE UNCHANGED vars
  BY <1>13 DEF vars
<1> QED
  BY <1>1, <1>2, <1>3, <1>4, <1>5, <1>6, <1>7, <1>8, <1>9, <1>10, <1>11, <1>12, <1>13
  DEF Next, InCall, Serve

LEMMA StepSignal == Inv /\ [Next]_vars => NoLostSignal'
<1> SUFFICES ASSUME Inv, [Next]_vars PROVE NoLostSignal'
  OBVIOUS
<1> USE DEF Inv, NoLostSignal, Standing
<1>1. CASE Call \/ StartHop \/ FindHop
  BY <1>1 DEF Call, StartHop, FindHop
<1>2. CASE RunAlone \/ ReturnAlone \/ HandOver
  BY <1>2 DEF RunAlone, ReturnAlone, HandOver
<1>3. CASE TakeAnswer \/ WorkerWaits \/ WorkerWakes
  BY <1>3 DEF TakeAnswer, WorkerWaits, WorkerWakes
<1>4. CASE DropSlot \/ DropSignal
  BY <1>4 DEF DropSlot, DropSignal
<1>5. CASE HopLocks \/ TakeJob \/ HopQuits
  BY <1>5 DEF HopLocks, TakeJob, HopQuits
<1>6. CASE HopWaits
  BY <1>6 DEF HopWaits, TypeOK
<1>7. CASE RunJob \/ Report
  BY <1>7 DEF RunJob, Report
<1>8. CASE SpuriousWake
  BY <1>8 DEF SpuriousWake
<1>9. CASE UNCHANGED vars
  BY <1>9 DEF vars
<1> QED
  BY <1>1, <1>2, <1>3, <1>4, <1>5, <1>6, <1>7, <1>8, <1>9 DEF Next, InCall, Serve

LEMMA InvAlways == Spec => []Inv
<1>1. Inv /\ [Next]_vars => Inv'
  BY StepTypes, StepStanding, StepToken, StepSignal DEF Inv
<1> QED
  BY InitInv, <1>1, PTL DEF Spec

-----------------------------------------------------------------------------
(***************************************************************************)
(* The hop thread touches a closure, and finds one in the slot, only while *)
(* the call that lent it is blocked in Hop::run.                           *)
(***************************************************************************)
THEOREM ClosureIsAlive == Spec => []ClosureOutlivesUse
<1>1. Inv => ClosureOutlivesUse
  BY DEF Inv, OneToken, ClosureOutlivesUse
<1> QED
  BY <1>1, InvAlways, PTL

(***************************************************************************)
(* Nobody sleeps on the condition variable with work to do and no signal   *)
(* to come, with spurious wake-ups and through the two steps of the drop.  *)
(***************************************************************************)
THEOREM SignalsArrive == Spec => []NoLostSignal
<1>1. Inv => NoLostSignal
  BY DEF Inv
<1> QED
  BY <1>1, InvAlways, PTL

\* Both: the lent closure is alive, and no signal is lost.
THEOREM Handshake == Spec => []HandshakeIsSound
BY ClosureIsAlive, SignalsArrive, PTL DEF HandshakeIsSound

(***************************************************************************)
(* Every call runs its own job once, while the caller is blocked, and      *)
(* comes back with what the job did, a panic included.                     *)
(***************************************************************************)
THEOREM HopImplementsPromise == Spec => ImplementsPromise
<1>1. Init => Promise!Init
  BY DEF Init, Promise!Init, Calling
<1>2. Inv /\ [Next]_vars => [Promise!Next]_Promise!vars
  <2> SUFFICES ASSUME Inv, [Next]_vars PROVE [Promise!Next]_Promise!vars
    OBVIOUS
  <2> USE DEF Inv, TypeOK, Standing, OneToken, Calling, Promise!vars
  <2>1. CASE Call
    BY <2>1 DEF Call, Promise!Next, Promise!Ask
  <2>2. CASE RunAlone
    BY <2>2 DEF RunAlone, Promise!Next, Promise!Run
  <2>3. CASE RunJob
    BY <2>3 DEF RunJob, Promise!Next, Promise!Run
  <2>4. CASE ReturnAlone
    BY <2>4 DEF ReturnAlone, Promise!Next, Promise!Answer
  <2>5. CASE TakeAnswer
    BY <2>5 DEF TakeAnswer, Promise!Next, Promise!Answer
  <2>6. CASE StartHop \/ FindHop
    BY <2>6 DEF StartHop, FindHop
  <2>7. CASE HandOver
    BY <2>7 DEF HandOver
  <2>8. CASE WorkerWaits \/ WorkerWakes \/ SpuriousWake
    BY <2>8 DEF WorkerWaits, WorkerWakes, SpuriousWake
  <2>9. CASE DropSlot \/ DropSignal
    BY <2>9 DEF DropSlot, DropSignal
  <2>10. CASE HopLocks \/ TakeJob \/ HopQuits \/ HopWaits
    BY <2>10 DEF HopLocks, TakeJob, HopQuits, HopWaits
  <2>11. CASE Report
    BY <2>11 DEF Report
  <2>12. CASE UNCHANGED vars
    BY <2>12 DEF vars
  <2> QED
    BY <2>1, <2>2, <2>3, <2>4, <2>5, <2>6, <2>7, <2>8, <2>9, <2>10, <2>11, <2>12
    DEF Next, InCall, Serve
<1> QED
  BY <1>1, <1>2, InvAlways, PTL DEF Spec, ImplementsPromise, Promise!Spec

-----------------------------------------------------------------------------
HIDE DEF Empty, Job, Done, Quit, InRun, AnswerSeen, PutBack, NotifyAll, HopToTell

Needs == [width : Nat, stack : Nat]

\* A stack is never rounded below what was asked for, nor away from rayon's default.
LEMMA RoundsUp ==
  ASSUME NEW b \in Nat
  PROVE  Rounded(b) \in Nat /\ Rounded(b) >= b /\ (Rounded(b) = 0 <=> b = 0)
<1>1. CASE b # 0 /\ PowersFor(b) # {}
  <2>1. PowersFor(b) \in SUBSET Nat  BY PoolsAssumption DEF PowersFor
  <2>2. Min(PowersFor(b)) \in PowersFor(b)  BY <1>1, <2>1, MinIsLeast
  <2>3. Min(PowersFor(b)) \in Nat /\ Min(PowersFor(b)) >= b  BY <2>2, PoolsAssumption DEF PowersFor
  <2> QED BY <1>1, <2>3 DEF Rounded
<1>2. CASE b = 0 \/ PowersFor(b) = {}
  BY <1>2 DEF Rounded
<1> QED BY <1>1, <1>2

\* What is looked for among the pools covers what was asked for.
LEMMA NeedOfAsk ==
  ASSUME NEW asked \in Asks
  PROVE  /\ Need(asked) \in Needs
         /\ Need(asked).width = (IF asked.width = 0 THEN CORES ELSE asked.width)
         /\ Need(asked).stack >= asked.stack
         /\ Need(asked).stack = 0 <=> asked.stack = 0
<1>1. asked.width \in Nat /\ asked.stack \in Nat /\ CORES \in Nat  BY PoolsAssumption
<1>2. Rounded(asked.stack) \in Nat /\ Rounded(asked.stack) >= asked.stack /\ (Rounded(asked.stack) = 0 <=> asked.stack = 0)
  BY <1>1, RoundsUp
<1> QED BY <1>1, <1>2 DEF Need, Needs

\* A pool of the ones built that serves a need: what Fits looks for.
Serves(bs, p, need) ==
  /\ p \in 1..Len(bs) /\ bs[p].width = need.width
  /\ bs[p].stack >= need.stack /\ (bs[p].stack = 0 <=> need.stack = 0)

\* A call under way and the pool it entered.
FrameOf(bs, f) ==
  /\ f.asked \in Asks /\ f.pool \in 0..Len(bs) /\ f.thread \in 0..Len(bs)
  /\ f.pool # HERE => Serves(bs, f.pool, Need(f.asked))

\* q are the pools of a thread, r its recent needs, newest last: what was needed
\* k uses ago is served by one of the last k pools used.
Remembers(bs, q, r) ==
  \A k \in 1..Len(r) : \E i \in 1..Len(q) : Len(q) - i <= Len(r) - k /\ Serves(bs, q[i], r[k])
\* The pools a thread keeps and its recent needs: see Remembers.
ThreadInv(bs, q, r) ==
  /\ q \in Seq(1..Len(bs)) /\ Len(q) <= POOLS_KEPT /\ IsInjective(q)
  /\ r \in Seq(Needs) /\ Len(r) <= POOLS_KEPT /\ Remembers(bs, q, r)

\* All that stays true of the pools.
PoolsInv ==
  /\ built \in Seq(Needs)
  /\ frames \in Seq([thread : Nat, asked : Asks, pool : Nat])
  /\ \A i \in 1..Len(frames) : FrameOf(built, frames[i])
  /\ DOMAIN recent = DOMAIN kept
  /\ \A t \in DOMAIN kept : ThreadInv(built, kept[t], recent[t])

\* A pool stays what it was when others are built.
LEMMA ServesStays ==
  ASSUME NEW bs \in Seq(Needs), NEW n \in Needs, NEW p, NEW need, Serves(bs, p, need)
  PROVE  Serves(Append(bs, n), p, need)
BY AppendProperties DEF Serves

\* The pool that is used moves to the back.
Moved(q, i) == Append(RemoveAt(q, i), q[i])
LEMMA MovedToTheBack ==
  ASSUME NEW S, NEW q \in Seq(S), NEW i \in 1..Len(q)
  PROVE  /\ Moved(q, i) \in Seq(S) /\ Len(Moved(q, i)) = Len(q)
         /\ Moved(q, i)[Len(q)] = q[i]
         /\ \A k \in 1..Len(q) : k < i => Moved(q, i)[k] = q[k]
         /\ \A k \in 1..Len(q) : k > i => Moved(q, i)[k - 1] = q[k]
         /\ \A k \in 1..Len(q) : k < Len(q) => Moved(q, i)[k] = IF k < i THEN q[k] ELSE q[k + 1]
<1> DEFINE a == SubSeq(q, 1, i - 1)
           b == SubSeq(q, i + 1, Len(q))
           w == Moved(q, i)
<1>0. Len(q) \in Nat /\ \A k \in 1..Len(q) : q[k] \in S  BY LenProperties, ElementOfSeq
<1>1. a \in Seq(S) /\ Len(a) = i - 1 /\ \A k \in 1..(i - 1) : a[k] = q[k]
  <2>1. \A k \in 1..(i - 1) : q[k] \in S  BY <1>0
  <2> QED BY <1>0, <2>1, SubSeqProperties
<1>2. b \in Seq(S) /\ Len(b) = Len(q) - i /\ \A k \in 1..(Len(q) - i) : b[k] = q[i + k]
  <2>1. \A k \in (i + 1)..Len(q) : q[k] \in S  BY <1>0
  <2>2. /\ b \in Seq(S)
        /\ Len(b) = IF i + 1 <= Len(q) THEN Len(q) - (i + 1) + 1 ELSE 0
        /\ \A k \in 1..(Len(q) - (i + 1) + 1) : b[k] = q[i + 1 + k - 1]
    BY <1>0, <2>1, SubSeqProperties, i + 1 \in Int, Len(q) \in Int
  <2> QED BY <1>0, <2>2
<1>5. RemoveAt(q, i) = a \o b  BY DEF RemoveAt
<1> HIDE DEF a, b, w
<1>3. /\ a \o b \in Seq(S) /\ Len(a \o b) = Len(q) - 1
      /\ \A k \in 1..(Len(q) - 1) : (a \o b)[k] = IF k <= i - 1 THEN a[k] ELSE b[k - (i - 1)]
  <2>1. /\ a \o b \in Seq(S)
        /\ Len(a \o b) = Len(a) + Len(b)
        /\ \A k \in 1..(Len(a) + Len(b)) : (a \o b)[k] = IF k <= Len(a) THEN a[k] ELSE b[k - Len(a)]
    BY <1>1, <1>2, ConcatProperties
  <2> QED BY <1>0, <1>1, <1>2, <2>1
<1>4. \A k \in 1..(Len(q) - 1) : (a \o b)[k] = IF k < i THEN q[k] ELSE q[k + 1]
  <2> TAKE k \in 1..(Len(q) - 1)
  <2>1. CASE k < i  BY <1>0, <1>1, <1>3, <2>1
  <2>2. CASE ~(k < i)
    <3>1. k - (i - 1) \in 1..(Len(q) - i) /\ i + (k - (i - 1)) = k + 1  BY <1>0, <2>2
    <3> QED BY <1>0, <1>2, <1>3, <2>2, <3>1
  <2> QED BY <2>1, <2>2
<1>6. /\ w \in Seq(S) /\ Len(w) = Len(q) /\ w[Len(q)] = q[i]
      /\ \A k \in 1..(Len(q) - 1) : w[k] = (a \o b)[k]
  <2>1. /\ Append(a \o b, q[i]) \in Seq(S) /\ Len(Append(a \o b, q[i])) = Len(a \o b) + 1
        /\ \A k \in 1..Len(a \o b) : Append(a \o b, q[i])[k] = (a \o b)[k]
        /\ Append(a \o b, q[i])[Len(a \o b) + 1] = q[i]
    BY <1>0, <1>3, AppendProperties
  <2> QED BY <1>0, <1>3, <1>5, <2>1 DEF w, Moved
<1>7. \A k \in 1..(Len(q) - 1) : w[k] = IF k < i THEN q[k] ELSE q[k + 1]
  BY <1>4, <1>6
<1>8. /\ \A k \in 1..Len(q) : k < i => w[k] = q[k]
      /\ \A k \in 1..Len(q) : k > i => w[k - 1] = q[k]
  BY <1>0, <1>7
<1>9. \A k \in 1..Len(q) : k < Len(q) => w[k] = IF k < i THEN q[k] ELSE q[k + 1]
  BY <1>0, <1>7
<1> QED BY <1>6, <1>8, <1>9 DEF w

\* A need, or a pool, that is new goes to the back.
Pushed(q, e) == Append(IF Len(q) = POOLS_KEPT THEN Tail(q) ELSE q, e)

\* How far the entries move towards the front.
Shift(q) == IF Len(q) = POOLS_KEPT THEN 1 ELSE 0

\* The newest entry, after the oldest made room for it if there are n already.
LEMMA PushedLast ==
  ASSUME NEW S, NEW q \in Seq(S), NEW e \in S, Len(q) <= POOLS_KEPT
  PROVE  /\ Pushed(q, e) \in Seq(S) /\ Len(Pushed(q, e)) = Len(q) + 1 - Shift(q) /\ Len(Pushed(q, e)) <= POOLS_KEPT
         /\ Pushed(q, e)[Len(Pushed(q, e))] = e
         /\ \A k \in 1..(Len(Pushed(q, e)) - 1) : k + Shift(q) \in 1..Len(q) /\ Pushed(q, e)[k] = q[k + Shift(q)]
         /\ \A k \in 1..Len(q) : k > Shift(q) =>
              k - Shift(q) \in 1..(Len(Pushed(q, e)) - 1) /\ Pushed(q, e)[k - Shift(q)] = q[k]
<1> DEFINE v == IF Len(q) = POOLS_KEPT THEN Tail(q) ELSE q
           d == Shift(q)
<1>0. Len(q) \in Nat /\ POOLS_KEPT \in Nat \ {0}  BY LenProperties, PoolsAssumption
<1>1. v \in Seq(S) /\ Len(v) = Len(q) - d /\ \A k \in 1..Len(v) : v[k] = q[k + d]
  <2>1. CASE Len(q) = POOLS_KEPT
    <3>1. q # << >>  BY <1>0, <2>1, EmptySeq
    <3>2. /\ Tail(q) \in Seq(S) /\ Len(Tail(q)) = Len(q) - 1
          /\ \A k \in 1..Len(Tail(q)) : Tail(q)[k] = q[k + 1]
      BY <3>1, HeadTailProperties
    <3> QED BY <2>1, <3>2 DEF Shift
  <2>2. CASE Len(q) # POOLS_KEPT
    BY <1>0, <2>2 DEF Shift
  <2> QED BY <2>1, <2>2
<1>2. d \in {0, 1} /\ (d = 1 <=> Len(q) = POOLS_KEPT)  BY DEF Shift
<1> HIDE DEF v, d, Pushed
<1>3. /\ Append(v, e) \in Seq(S) /\ Len(Append(v, e)) = Len(v) + 1
      /\ \A k \in 1..Len(v) : Append(v, e)[k] = v[k]
      /\ Append(v, e)[Len(v) + 1] = e
  BY <1>1, AppendProperties
<1>4. \A k \in 1..Len(v) : k + d \in 1..Len(q) /\ Append(v, e)[k] = q[k + d]
  BY <1>0, <1>1, <1>2, <1>3
<1>5. \A k \in 1..Len(q) : k > d => k - d \in 1..Len(v) /\ Append(v, e)[k - d] = q[k]
  <2> TAKE k \in 1..Len(q)
  <2> HAVE k > d
  <2>1. k - d \in 1..Len(v) /\ (k - d) + d = k  BY <1>0, <1>1, <1>2
  <2> QED BY <1>4, <2>1
<1>6. Len(Append(v, e)) = Len(q) + 1 - d /\ Len(Append(v, e)) <= POOLS_KEPT /\ Append(v, e)[Len(Append(v, e))] = e
      /\ Len(Append(v, e)) - 1 = Len(v)
  BY <1>0, <1>1, <1>2, <1>3
<1> QED BY <1>3, <1>4, <1>5, <1>6 DEF v, d, Pushed


\* The recent needs move on as the pools do.
LEMMA RecentIsPushed ==
  ASSUME NEW r \in Seq(Needs), NEW need \in Needs, Len(r) <= POOLS_KEPT
  PROVE  LastOf(Append(r, need)) = Pushed(r, need)
<1>0. POOLS_KEPT \in Nat \ {0} /\ Len(r) \in Nat  BY PoolsAssumption, LenProperties
<1>1. Len(Append(r, need)) = Len(r) + 1  BY AppendProperties
<1>2. CASE Len(r) = POOLS_KEPT
  <2>1. r # << >>  BY <1>0, <1>2, EmptySeq
  <2>2. Tail(Append(r, need)) = Append(Tail(r), need)  BY <2>1, HeadTailAppend
  <2> QED BY <1>0, <1>1, <1>2, <2>2 DEF LastOf, Pushed
<1>3. CASE Len(r) # POOLS_KEPT
  BY <1>0, <1>1, <1>3 DEF LastOf, Pushed
<1> QED BY <1>2, <1>3

\* A thread that uses a pool it keeps.
LEMMA ReuseKeepsThread ==
  ASSUME NEW bs \in Seq(Needs), NEW q, NEW r, ThreadInv(bs, q, r),
         NEW i \in 1..Len(q), NEW need \in Needs, Serves(bs, q[i], need)
  PROVE  ThreadInv(bs, Moved(q, i), Pushed(r, need))
<1> DEFINE w == Moved(q, i)
           s == Pushed(r, need)
           d == Shift(r)
<1>0. q \in Seq(1..Len(bs)) /\ r \in Seq(Needs) /\ Len(q) \in Nat /\ Len(r) \in Nat
      /\ Len(q) <= POOLS_KEPT /\ Len(r) <= POOLS_KEPT /\ POOLS_KEPT \in Nat \ {0} /\ DOMAIN q = 1..Len(q)
  BY LenProperties, PoolsAssumption DEF ThreadInv
<1>1. /\ w \in Seq(1..Len(bs)) /\ Len(w) = Len(q)
      /\ w[Len(q)] = q[i]
      /\ \A k \in 1..Len(q) : k < i => w[k] = q[k]
      /\ \A k \in 1..Len(q) : k > i => w[k - 1] = q[k]
      /\ \A k \in 1..Len(q) : k < Len(q) => w[k] = IF k < i THEN q[k] ELSE q[k + 1]
  BY <1>0, MovedToTheBack DEF Moved
<1>2. /\ s \in Seq(Needs) /\ Len(s) = Len(r) + 1 - d /\ Len(s) <= POOLS_KEPT
      /\ s[Len(s)] = need
      /\ \A k \in 1..(Len(s) - 1) : k + d \in 1..Len(r) /\ s[k] = r[k + d]
  <2>1. r \in Seq(Needs) /\ Len(r) <= POOLS_KEPT  BY <1>0
  <2>2. Pushed(r, need) \in Seq(Needs) /\ Len(Pushed(r, need)) = Len(r) + 1 - Shift(r) /\ Len(Pushed(r, need)) <= POOLS_KEPT
    BY <2>1, PushedLast
  <2>3. Pushed(r, need)[Len(Pushed(r, need))] = need
    BY <2>1, PushedLast
  <2>4. \A k \in 1..(Len(Pushed(r, need)) - 1) : k + Shift(r) \in 1..Len(r)
    BY <2>1, PushedLast
  <2>5. \A k \in 1..(Len(Pushed(r, need)) - 1) : Pushed(r, need)[k] = r[k + Shift(r)]
    BY <2>1, PushedLast
  <2> QED BY <2>2, <2>3, <2>4, <2>5
<1>3. DOMAIN w = 1..Len(q)  BY <1>1, LenProperties
<1>4. d \in {0, 1}  BY DEF Shift
<1> HIDE DEF w, s, d
<1>5. IsInjective(w)
  <2> SUFFICES ASSUME NEW a \in 1..Len(q), NEW b \in 1..Len(q), w[a] = w[b] PROVE a = b
    BY <1>3 DEF IsInjective
  <2> DEFINE at(k) == IF k = Len(q) THEN i ELSE IF k < i THEN k ELSE k + 1
  <2>1. \A k \in 1..Len(q) : at(k) \in 1..Len(q) /\ w[k] = q[at(k)]
    <3> TAKE k \in 1..Len(q)
    <3>1. CASE k = Len(q)  BY <1>1, <3>1
    <3>2. CASE k # Len(q) /\ k < i  BY <1>1, <3>2
    <3>3. CASE k # Len(q) /\ ~(k < i)
      <4>0. Len(q) \in Nat  BY <1>0
      <4>1. k < Len(q) /\ k + 1 \in 1..Len(q)  BY <4>0, <3>3
      <4> QED BY <1>1, <3>3, <4>1
    <3> QED BY <3>1, <3>2, <3>3
  <2>2. at(a) = at(b)
    <3> HIDE DEF at
    <3> QED BY <1>0, <2>1 DEF ThreadInv, IsInjective
  <2>3. a \in Int /\ b \in Int /\ i \in Int /\ a <= Len(q) /\ b <= Len(q) /\ Len(q) \in Int  BY <1>0
  <2> QED BY <2>2, <2>3
<1>6. Remembers(bs, w, s)
  <2> SUFFICES ASSUME NEW k \in 1..Len(s)
               PROVE  \E m \in 1..Len(w) : Len(w) - m <= Len(s) - k /\ Serves(bs, w[m], s[k])
    BY DEF Remembers
  <2>0. Len(s) \in Nat  BY <1>2, LenProperties
  <2>1. CASE k = Len(s)
    <3>1. Len(q) \in 1..Len(w) /\ Len(w) - Len(q) <= Len(s) - k  BY <1>0, <1>1, <2>0
    <3>2. Serves(bs, w[Len(q)], s[k])  BY <1>1, <1>2, <2>1
    <3> QED BY <3>1, <3>2
  <2>2. CASE k # Len(s)
    <3>1. k \in 1..(Len(s) - 1)  BY <2>0, <2>2
    <3>2. k + d \in 1..Len(r) /\ s[k] = r[k + d]  BY <1>2, <3>1
    <3>3. PICK m \in 1..Len(q) : Len(q) - m <= Len(r) - (k + d) /\ Serves(bs, q[m], r[k + d])
      BY <3>2 DEF ThreadInv, Remembers
    <3>4. Len(r) - (k + d) + 1 = Len(s) - k  BY <1>0, <1>2, <1>4
    <3>5. CASE m < i
      <4>1. w[m] = q[m] /\ m \in 1..Len(w)  BY <1>1, <3>5
      <4>2. Len(w) - m <= Len(s) - k  BY <1>0, <1>1, <2>0, <3>3, <3>4, <1>4
      <4> QED BY <3>2, <3>3, <4>1, <4>2
    <3>6. CASE m > i
      <4>1. w[m - 1] = q[m] /\ m - 1 \in 1..Len(w)  BY <1>0, <1>1, <3>6
      <4>2. Len(w) - (m - 1) <= Len(s) - k  BY <1>0, <1>1, <2>0, <3>3, <3>4, <1>4
      <4> QED BY <3>2, <3>3, <4>1, <4>2
    <3>7. CASE m = i
      <4>1. Len(q) \in 1..Len(w) /\ Len(w) - Len(q) <= Len(s) - k  BY <1>0, <1>1, <2>0
      <4> QED BY <1>1, <3>2, <3>3, <3>7, <4>1
    <3> QED BY <1>0, <3>5, <3>6, <3>7
  <2> QED BY <2>1, <2>2
<1> QED BY <1>0, <1>1, <1>2, <1>5, <1>6 DEF ThreadInv, w, s

\* A thread that builds one: none it keeps serves the need.
LEMMA BuildKeepsThread ==
  ASSUME NEW bs \in Seq(Needs), NEW q, NEW r, ThreadInv(bs, q, r), NEW need \in Needs
  PROVE  ThreadInv(Append(bs, need), Pushed(q, Len(bs) + 1), Pushed(r, need))
<1> DEFINE p == Len(bs) + 1
           cs == Append(bs, need)
           w == Pushed(q, p)
           s == Pushed(r, need)
           d == Shift(q)
           e == Shift(r)
<1>0. q \in Seq(1..Len(bs)) /\ r \in Seq(Needs) /\ Len(q) \in Nat /\ Len(r) \in Nat /\ Len(bs) \in Nat
      /\ Len(q) <= POOLS_KEPT /\ Len(r) <= POOLS_KEPT /\ POOLS_KEPT \in Nat \ {0} /\ DOMAIN q = 1..Len(q)
  BY LenProperties, PoolsAssumption DEF ThreadInv
<1>1. cs \in Seq(Needs) /\ Len(cs) = p /\ cs[p] = need
  BY AppendProperties
<1>2. q \in Seq(1..Len(cs)) /\ p \in 1..Len(cs)
  <2>1. 1..Len(bs) \subseteq 1..Len(cs)  BY <1>0, <1>1
  <2> QED BY <1>0, <1>1, <2>1, SeqMonotonic
<1> HIDE DEF p, cs
<1>3. /\ w \in Seq(1..Len(cs)) /\ Len(w) = Len(q) + 1 - d /\ Len(w) <= POOLS_KEPT
      /\ w[Len(w)] = p
      /\ \A k \in 1..(Len(w) - 1) : k + d \in 1..Len(q) /\ w[k] = q[k + d]
      /\ \A k \in 1..Len(q) : k > d => k - d \in 1..(Len(w) - 1) /\ w[k - d] = q[k]
  <2> DEFINE T == 1..Len(cs)
  <2>1. q \in Seq(T) /\ p \in T /\ Len(q) <= POOLS_KEPT  BY <1>0, <1>2
  <2> HIDE DEF T
  <2>2. w \in Seq(T) /\ Len(w) = Len(q) + 1 - d /\ Len(w) <= POOLS_KEPT
    BY <2>1, PushedLast
  <2>3. w[Len(w)] = p  BY <2>1, PushedLast
  <2>4. \A k \in 1..(Len(w) - 1) : k + d \in 1..Len(q)  BY <2>1, PushedLast
  <2>5. \A k \in 1..(Len(w) - 1) : w[k] = q[k + d]  BY <2>1, PushedLast
  <2>6. \A k \in 1..Len(q) : k > d => k - d \in 1..(Len(w) - 1)  BY <2>1, PushedLast
  <2>7. \A k \in 1..Len(q) : k > d => w[k - d] = q[k]  BY <2>1, PushedLast
  <2> QED BY <2>2, <2>3, <2>4, <2>5, <2>6, <2>7 DEF T
<1>4. /\ s \in Seq(Needs) /\ Len(s) = Len(r) + 1 - e /\ Len(s) <= POOLS_KEPT
      /\ s[Len(s)] = need
      /\ \A k \in 1..(Len(s) - 1) : k + e \in 1..Len(r) /\ s[k] = r[k + e]
  <2>1. r \in Seq(Needs) /\ Len(r) <= POOLS_KEPT  BY <1>0
  <2>2. Pushed(r, need) \in Seq(Needs) /\ Len(Pushed(r, need)) = Len(r) + 1 - Shift(r) /\ Len(Pushed(r, need)) <= POOLS_KEPT
    BY <2>1, PushedLast
  <2>3. Pushed(r, need)[Len(Pushed(r, need))] = need
    BY <2>1, PushedLast
  <2>4. \A k \in 1..(Len(Pushed(r, need)) - 1) : k + Shift(r) \in 1..Len(r)
    BY <2>1, PushedLast
  <2>5. \A k \in 1..(Len(Pushed(r, need)) - 1) : Pushed(r, need)[k] = r[k + Shift(r)]
    BY <2>1, PushedLast
  <2> QED BY <2>2, <2>3, <2>4, <2>5
<1>5. /\ d \in {0, 1} /\ (d = 1 <=> Len(q) = POOLS_KEPT)
      /\ e \in {0, 1} /\ (e = 1 <=> Len(r) = POOLS_KEPT)
  BY DEF Shift
<1>6. \A any, n : Serves(bs, any, n) => Serves(cs, any, n)
  BY ServesStays DEF cs
<1>7. Serves(cs, p, need)
  BY <1>0, <1>1, <1>2 DEF Serves, Needs
<1> HIDE DEF w, s, d, e
<1>8. DOMAIN w = 1..Len(w) /\ Len(w) \in Nat /\ Len(s) \in Nat /\ p \notin 1..Len(bs)
  <2>1. p \notin 1..Len(bs)  BY <1>0 DEF p
  <2> QED BY <1>3, <1>4, <2>1, LenProperties
<1>11. /\ Len(w) \in Nat /\ Len(s) \in Nat /\ Len(q) \in Nat /\ Len(r) \in Nat /\ POOLS_KEPT \in Nat \ {0}
       /\ Len(w) = Len(q) + 1 - d /\ Len(s) = Len(r) + 1 - e
       /\ Len(q) <= POOLS_KEPT /\ Len(r) <= POOLS_KEPT
       /\ d \in {0, 1} /\ (d = 1 <=> Len(q) = POOLS_KEPT)
       /\ e \in {0, 1} /\ (e = 1 <=> Len(r) = POOLS_KEPT)
  BY <1>0, <1>3, <1>4, <1>5, <1>8
<1>9. IsInjective(w)
  <2> SUFFICES ASSUME NEW a \in 1..Len(w), NEW b \in 1..Len(w), w[a] = w[b] PROVE a = b
    BY <1>8 DEF IsInjective
  <2>1. \A k \in 1..Len(q) : q[k] \in 1..Len(bs)  BY <1>0, ElementOfSeq
  <2>2. \A k \in 1..Len(w) : k # Len(w) => k \in 1..(Len(w) - 1)  BY <1>11
  <2>3. a = Len(w) <=> b = Len(w)  BY <1>3, <1>8, <2>1, <2>2
  <2>4. CASE a # Len(w) /\ b # Len(w)
    <3>1. a + d \in 1..Len(q) /\ b + d \in 1..Len(q) /\ q[a + d] = q[b + d]
      BY <1>3, <2>2, <2>4
    <3>2. a + d = b + d  BY <1>0, <3>1 DEF ThreadInv, IsInjective
    <3> QED BY <1>5, <3>2
  <2> QED BY <2>3, <2>4
<1>10. Remembers(cs, w, s)
  <2> SUFFICES ASSUME NEW k \in 1..Len(s)
               PROVE  \E m \in 1..Len(w) : Len(w) - m <= Len(s) - k /\ Serves(cs, w[m], s[k])
    BY DEF Remembers
  <2>1. CASE k = Len(s)
    <3>1. Len(w) \in 1..Len(w) /\ Len(w) - Len(w) <= Len(s) - k  BY <1>11, <2>1
    <3>2. Serves(cs, w[Len(w)], s[k])  BY <1>3, <1>4, <1>7, <2>1
    <3> QED BY <3>1, <3>2
  <2>2. CASE k # Len(s)
    <3>1. k \in 1..(Len(s) - 1)  BY <1>8, <2>2
    <3>2. k + e \in 1..Len(r) /\ s[k] = r[k + e]  BY <1>4, <3>1
    <3>3. PICK m \in 1..Len(q) : Len(q) - m <= Len(r) - (k + e) /\ Serves(bs, q[m], r[k + e])
      BY <1>0, <3>2 DEF ThreadInv, Remembers
    <3>4. m > d  BY <1>11, <3>2, <3>3
    <3>5. m - d \in 1..Len(w) /\ w[m - d] = q[m]  BY <1>3, <1>8, <3>4
    <3>6. Len(w) - (m - d) <= Len(s) - k  BY <1>11, <3>3
    <3>7. Serves(cs, w[m - d], s[k])  BY <1>6, <3>2, <3>3, <3>5
    <3> QED BY <3>5, <3>6, <3>7
  <2> QED BY <2>1, <2>2
<1> QED BY <1>3, <1>4, <1>9, <1>10 DEF ThreadInv, p, cs, w, s

\* A thread that does neither.
LEMMA OthersKeepThread ==
  ASSUME NEW bs \in Seq(Needs), NEW q, NEW r, ThreadInv(bs, q, r), NEW need \in Needs
  PROVE  ThreadInv(Append(bs, need), q, r)
<1>1. Len(Append(bs, need)) = Len(bs) + 1 /\ Len(bs) \in Nat  BY AppendProperties, LenProperties
<1>2. 1..Len(bs) \subseteq 1..Len(Append(bs, need))  BY <1>1
<1>3. q \in Seq(1..Len(Append(bs, need)))  BY <1>2, SeqMonotonic DEF ThreadInv
<1>4. Remembers(Append(bs, need), q, r)  BY ServesStays DEF ThreadInv, Remembers
<1> QED BY <1>3, <1>4 DEF ThreadInv

\* A thread that has entered no pool so far.
LEMMA NewThread ==
  ASSUME NEW bs \in Seq(Needs)
  PROVE  ThreadInv(bs, <<>>, <<>>)
<1>1. Len(<<>>) = 0 /\ <<>> \in Seq(Needs) /\ <<>> \in Seq(1..Len(bs)) /\ DOMAIN <<>> = {}  BY EmptySeq
<1> QED BY <1>1, PoolsAssumption DEF ThreadInv, Remembers, IsInjective

\* Every call that enters a pool, or none, and every return keeps it all.
LEMMA PoolsStep == PoolsInv /\ [PoolsNext]_poolVars => PoolsInv'
<1> SUFFICES ASSUME PoolsInv, [PoolsNext]_poolVars PROVE PoolsInv'
  OBVIOUS
<1> DEFINE Frames == [thread : Nat, asked : Asks, pool : Nat]
<1>0. /\ built \in Seq(Needs) /\ frames \in Seq(Frames) /\ Len(built) \in Nat /\ Len(frames) \in Nat
      /\ \A i \in 1..Len(frames) : FrameOf(built, frames[i])
      /\ DOMAIN recent = DOMAIN kept
      /\ \A t \in DOMAIN kept : ThreadInv(built, kept[t], recent[t])
  BY LenProperties DEF PoolsInv
<1>1. Current \in 0..Len(built)
  <2>1. CASE frames = <<>>  BY <1>0, <2>1 DEF Current, OUTSIDE
  <2>2. CASE frames # <<>>
    <3>1. Len(frames) \in 1..Len(frames)  BY <1>0, <2>2, EmptySeq
    <3> QED BY <1>0, <2>2, <3>1 DEF Current, Last, FrameOf
  <2> QED BY <2>1, <2>2
<1>2. ASSUME NEW asked \in Asks, NEW th \in 0..Len(built'), NEW pool \in 0..Len(built'),
             pool # HERE => Serves(built', pool, Need(asked)),
             frames' = Append(frames, [thread |-> th, asked |-> asked, pool |-> pool]),
             built' \in Seq(Needs), built' = built \/ \E n \in Needs : built' = Append(built, n)
      PROVE  /\ frames' \in Seq(Frames)
             /\ \A i \in 1..Len(frames') : FrameOf(built', frames'[i])
  <2> DEFINE f == [thread |-> th, asked |-> asked, pool |-> pool]
  <2>1. Len(built') \in Nat  BY <1>2, LenProperties
  <2>2. f \in Frames /\ FrameOf(built', f)
    BY <1>2, <2>1 DEF FrameOf
  <2>3. /\ frames' \in Seq(Frames) /\ Len(frames') = Len(frames) + 1
        /\ \A i \in 1..Len(frames) : frames'[i] = frames[i]
        /\ frames'[Len(frames) + 1] = f
    <3> HIDE DEF f
    <3>1. frames' = Append(frames, f)  BY <1>2 DEF f
    <3> HIDE DEF Frames
    <3> QED BY <1>0, <2>2, <3>1, AppendProperties
  <2>4. \A g : FrameOf(built, g) => FrameOf(built', g)
    <3>1. CASE built' = built  BY <3>1
    <3>2. CASE \E n \in Needs : built' = Append(built, n)
      <4>1. PICK n \in Needs : built' = Append(built, n)  BY <3>2
      <4>2. Len(built') = Len(built) + 1  BY <1>0, <4>1, AppendProperties
      <4>3. \A e, m : Serves(built, e, m) => Serves(built', e, m)  BY <1>0, <4>1, ServesStays
      <4> QED BY <1>0, <4>2, <4>3 DEF FrameOf
    <3> QED BY <1>2, <3>1, <3>2
  <2> SUFFICES ASSUME NEW i \in 1..Len(frames') PROVE FrameOf(built', frames'[i])
    BY <2>3
  <2>5. i \in 1..Len(frames) \/ i = Len(frames) + 1  BY <1>0, <2>3
  <2> HIDE DEF f
  <2> QED BY <1>0, <2>2, <2>3, <2>4, <2>5
<1>3. ASSUME NEW asked \in Asks, RunHere(asked) \/ BuildFails(asked) PROVE PoolsInv'
  <2>1. /\ frames' = Append(frames, [thread |-> Current, asked |-> asked, pool |-> HERE])
        /\ UNCHANGED <<built, kept, recent>>
    BY <1>3 DEF RunHere, BuildFails
  <2>2. HERE \in 0..Len(built) BY <1>0 DEF HERE
  <2>3. /\ frames' \in Seq(Frames)
        /\ \A i \in 1..Len(frames') : FrameOf(built', frames'[i])
    BY <1>0, <1>1, <1>2, <2>1, <2>2
  <2> QED BY <1>0, <2>1, <2>3 DEF PoolsInv
<1>4. ASSUME NEW asked \in Asks, UseKept(asked) PROVE PoolsInv'
  <2> DEFINE t == Current
             need == Need(asked)
             i == Min(Fitting(t, need))
  <2>0. /\ Fitting(t, need) # {} /\ kept' = Refreshed(t, i) /\ Enter(asked, kept[t][i])
        /\ Served(t, need) /\ UNCHANGED built
    BY <1>4 DEF UseKept
  <2>1. t \in DOMAIN kept
    BY <2>0 DEF Fitting, Kept
  <2>2. kept[t] \in Seq(1..Len(built)) /\ DOMAIN kept[t] = 1..Len(kept[t]) /\ Len(kept[t]) \in Nat
    BY <1>0, <2>1, LenProperties DEF ThreadInv
  <2>3. i \in Fitting(t, need)
    <3>1. Fitting(t, need) \in SUBSET Nat  BY <2>1, <2>2 DEF Fitting, Kept
    <3> QED BY <2>0, <3>1, MinIsLeast
  <2>4. i \in 1..Len(kept[t]) /\ kept[t][i] \in 1..Len(built) /\ Serves(built, kept[t][i], need)
    <3>1. i \in 1..Len(kept[t]) /\ Fits(kept[t][i], need)  BY <2>1, <2>2, <2>3 DEF Fitting, Kept
    <3>2. kept[t][i] \in 1..Len(built)  BY <2>2, <3>1, ElementOfSeq
    <3> QED BY <3>1, <3>2 DEF Fits, Serves
  <2>5. need \in Needs  BY NeedOfAsk
  <2> HIDE DEF t, need, i
  <2>6. kept' = [s \in DOMAIN kept |-> IF s = t THEN Moved(kept[t], i) ELSE kept[s]]
    BY <2>0, <2>1 DEF Refreshed, Set, Moved
  <2>7. recent' = [s \in DOMAIN kept |-> IF s = t THEN Pushed(recent[t], need) ELSE recent[s]]
    <3>1. LastOf(Append(recent[t], need)) = Pushed(recent[t], need)
      BY <1>0, <2>1, <2>5, RecentIsPushed DEF ThreadInv
    <3> QED BY <1>0, <2>0, <2>1, <3>1 DEF Served, Set
  <2>8. ThreadInv(built, Moved(kept[t], i), Pushed(recent[t], need))
    BY <1>0, <2>1, <2>4, <2>5, ReuseKeepsThread
  <2>9. \A s \in DOMAIN kept' : ThreadInv(built', kept'[s], recent'[s])
    BY <1>0, <2>0, <2>6, <2>7, <2>8
  <2>10. /\ frames' \in Seq(Frames)
         /\ \A k \in 1..Len(frames') : FrameOf(built', frames'[k])
    <3>1. kept[t][i] \in 0..Len(built)  BY <1>0, <2>4
    <3>2. frames' = Append(frames, [thread |-> kept[t][i], asked |-> asked, pool |-> kept[t][i]])
      BY <2>0 DEF Enter
    <3>3. Serves(built', kept[t][i], Need(asked)) /\ built' = built  BY <2>0, <2>4 DEF need
    <3> QED BY <1>0, <1>2, <3>1, <3>2, <3>3
  <2> QED BY <1>0, <2>0, <2>6, <2>7, <2>9, <2>10 DEF PoolsInv
<1>5. ASSUME NEW asked \in Asks, Build(asked) PROVE PoolsInv'
  <2> DEFINE t == Current
             need == Need(asked)
             p == Len(built) + 1
             q == Kept(t)
             r == IF t \in DOMAIN recent THEN recent[t] ELSE <<>>
  <2>0. /\ built' = Append(built, need) /\ kept' = Set(kept, t, Append(Room(t), p)) /\ Enter(asked, p)
        /\ Served(t, need)
    BY <1>5 DEF Build
  <2>1. need \in Needs  BY NeedOfAsk
  <2>2. ThreadInv(built, q, r)
    BY <1>0, NewThread DEF Kept
  <2>3. built' \in Seq(Needs) /\ Len(built') = p /\ Serves(built', p, need)
    <3>1. Append(built, need) \in Seq(Needs) /\ Len(Append(built, need)) = p /\ Append(built, need)[p] = need
      BY <1>0, <2>1, AppendProperties
    <3>2. need.stack \in Nat BY <2>1 DEF Needs
    <3> HIDE DEF need
    <3>3. p \in 1..p  BY <1>0
    <3> HIDE DEF p
    <3> QED BY <2>0, <3>1, <3>2, <3>3 DEF Serves
  <2> HIDE DEF t, need, q, r
  <2>4. kept' = [s \in DOMAIN kept \cup {t} |-> IF s = t THEN Pushed(q, p) ELSE kept[s]]
    BY <2>0 DEF Room, Set, Pushed, q
  <2>5. recent' = [s \in DOMAIN kept \cup {t} |-> IF s = t THEN Pushed(r, need) ELSE recent[s]]
    <3>1. LastOf(Append(r, need)) = Pushed(r, need)
      BY <2>1, <2>2, RecentIsPushed DEF ThreadInv
    <3> QED BY <1>0, <2>0, <3>1 DEF Served, Set, r
  <2>6. ThreadInv(built', Pushed(q, p), Pushed(r, need))
    BY <1>0, <2>0, <2>1, <2>2, BuildKeepsThread
  <2>7. \A s \in DOMAIN kept : ThreadInv(built', kept[s], recent[s])
    BY <1>0, <2>0, <2>1, OthersKeepThread
  <2>8. \A s \in DOMAIN kept' : ThreadInv(built', kept'[s], recent'[s])
    BY <2>4, <2>5, <2>6, <2>7
  <2>9. DOMAIN recent' = DOMAIN kept'  BY <2>4, <2>5
  <2>10. /\ frames' \in Seq(Frames)
         /\ \A k \in 1..Len(frames') : FrameOf(built', frames'[k])
    <3>1. p \in 0..Len(built')  BY <1>0, <2>3
    <3>2. frames' = Append(frames, [thread |-> p, asked |-> asked, pool |-> p])
      BY <2>0 DEF Enter
    <3>3. Serves(built', p, Need(asked)) /\ built' \in Seq(Needs)  BY <2>3 DEF need
    <3>4. \E n \in Needs : built' = Append(built, n)  BY <2>0, <2>1
    <3> HIDE DEF p
    <3> QED BY <1>2, <3>1, <3>2, <3>3, <3>4
  <2> QED BY <2>3, <2>8, <2>9, <2>10 DEF PoolsInv
<1>6. CASE Unnest
  <2>1. frames # <<>> /\ frames' = SubSeq(frames, 1, Len(frames) - 1) /\ UNCHANGED <<built, kept, recent>>
    BY <1>6 DEF Unnest, Front
  <2>2. Len(frames) >= 1  BY <1>0, <2>1, EmptySeq
  <2> HIDE DEF Frames
  <2>3. \A k \in 1..(Len(frames) - 1) : frames[k] \in Frames
    <3>1. \A k \in 1..(Len(frames) - 1) : k \in 1..Len(frames)  BY <1>0
    <3> QED BY <1>0, <3>1, ElementOfSeq
  <2>4. /\ frames' \in Seq(Frames) /\ Len(frames') = Len(frames) - 1
        /\ \A k \in 1..(Len(frames) - 1) : frames'[k] = frames[k]
    <3>1. Len(frames) - 1 \in Int  BY <1>0
    <3>2. /\ SubSeq(frames, 1, Len(frames) - 1) \in Seq(Frames)
          /\ Len(SubSeq(frames, 1, Len(frames) - 1)) = IF 1 <= Len(frames) - 1 THEN Len(frames) - 1 - 1 + 1 ELSE 0
          /\ \A k \in 1..(Len(frames) - 1 - 1 + 1) : SubSeq(frames, 1, Len(frames) - 1)[k] = frames[1 + k - 1]
      BY <2>3, <3>1, SubSeqProperties, 1 \in Int
    <3>3. \A k \in 1..(Len(frames) - 1) : k \in 1..(Len(frames) - 1 - 1 + 1) /\ 1 + k - 1 = k  BY <1>0
    <3>4. (IF 1 <= Len(frames) - 1 THEN Len(frames) - 1 - 1 + 1 ELSE 0) = Len(frames) - 1
      <4>1. Len(frames) \in Nat  BY <1>0
      <4>2. CASE Len(frames) = 1  BY <4>2
      <4>3. CASE Len(frames) > 1  BY <4>1, <4>3
      <4>4. Len(frames) = 1 \/ Len(frames) > 1  BY <2>2, <4>1
      <4> QED BY <4>2, <4>3, <4>4
    <3> QED BY <2>1, <3>2, <3>3, <3>4
  <2>5. \A k \in 1..Len(frames') : FrameOf(built', frames'[k])
    <3>1. \A k \in 1..Len(frames') : k \in 1..(Len(frames) - 1) /\ k \in 1..Len(frames)  BY <1>0, <2>4
    <3> QED BY <1>0, <2>1, <2>4, <3>1
  <2> QED BY <1>0, <2>1, <2>4, <2>5 DEF PoolsInv, Frames
<1>7. CASE UNCHANGED poolVars
  BY <1>7 DEF poolVars, PoolsInv
<1> QED BY <1>3, <1>4, <1>5, <1>6, <1>7 DEF PoolsNext, Nest

\* No pool is built at first.
LEMMA PoolsStart == PoolsInit => PoolsInv
<1> SUFFICES ASSUME PoolsInit PROVE PoolsInv
  OBVIOUS
<1>1. /\ <<>> \in Seq(Needs) /\ <<>> \in Seq([thread : Nat, asked : Asks, pool : Nat]) /\ Len(<<>>) = 0
  BY EmptySeq
<1>2. kept = [t \in {OUTSIDE} |-> <<>>] /\ recent = [t \in {OUTSIDE} |-> <<>>]
  BY DEF PoolsInit
<1>3. \A t \in DOMAIN kept : ThreadInv(built, kept[t], recent[t])
  BY <1>1, <1>2, NewThread DEF PoolsInit
<1> QED BY <1>1, <1>2, <1>3 DEF PoolsInit, PoolsInv

(***************************************************************************)
(* Work that enters a pool finds the width and the stack it asked for,     *)
(* whatever its thread dropped since; no thread keeps a pool twice, nor    *)
(* more than POOLS_KEPT of them.                                           *)
(***************************************************************************)
THEOREM PoolsServe == PoolsSpec => []EntersWhatWasAsked
<1>1. PoolsInv => EntersWhatWasAsked
  <2> SUFFICES ASSUME PoolsInv PROVE EntersWhatWasAsked
    OBVIOUS
  <2>1. ASSUME NEW i \in DOMAIN frames, frames[i].pool # HERE
        PROVE  LET pool == built[frames[i].pool]
                   asked == frames[i].asked
               IN /\ pool.width = (IF asked.width = 0 THEN CORES ELSE asked.width)
                  /\ pool.stack >= asked.stack /\ (asked.stack = 0 => pool.stack = 0)
    <3>1. i \in 1..Len(frames)  BY LenProperties DEF PoolsInv
    <3>2. frames[i].asked \in Asks /\ Serves(built, frames[i].pool, Need(frames[i].asked))
      BY <2>1, <3>1 DEF PoolsInv, FrameOf
    <3> DEFINE asked == frames[i].asked
               pool == built[frames[i].pool]
    <3>3. pool \in Needs  BY <3>2, ElementOfSeq DEF PoolsInv, Serves
    <3>4. /\ Need(asked) \in Needs
          /\ Need(asked).width = (IF asked.width = 0 THEN CORES ELSE asked.width)
          /\ Need(asked).stack >= asked.stack
          /\ Need(asked).stack = 0 <=> asked.stack = 0
      BY <3>2, NeedOfAsk
    <3>5. asked.stack \in Nat /\ Need(asked).stack \in Nat /\ pool.stack \in Nat
      BY <3>2, <3>3, <3>4, PoolsAssumption DEF Needs
    <3>6. pool.width = Need(asked).width /\ pool.stack >= Need(asked).stack /\ (pool.stack = 0 <=> Need(asked).stack = 0)
      BY <3>2 DEF Serves
    <3> HIDE DEF asked, pool
    <3>7. /\ pool.width = (IF asked.width = 0 THEN CORES ELSE asked.width)
          /\ pool.stack >= asked.stack /\ (asked.stack = 0 => pool.stack = 0)
      BY <3>4, <3>5, <3>6
    <3> QED BY <3>7 DEF asked, pool
  <2>2. \A t \in DOMAIN kept : Len(kept[t]) <= POOLS_KEPT /\ IsInjective(kept[t])
    BY DEF PoolsInv, ThreadInv
  <2> QED BY <2>1, <2>2 DEF EntersWhatWasAsked
<1> QED BY <1>1, PoolsStart, PoolsStep, PTL DEF PoolsSpec

(***************************************************************************)
(* The pool a thread builds is for a need it has not served lately: of the *)
(* last POOLS_KEPT it served, in any order, it keeps a pool for each.      *)
(***************************************************************************)
THEOREM LastPoolsAreKept == PoolsSpec => RebuildsNothingRecent
<1>1. PoolsInv /\ [PoolsNext]_poolVars =>
        [(built' # built /\ Current \in DOMAIN recent) => Last(built') \notin ToSet(recent[Current])]_poolVars
  <2> SUFFICES ASSUME PoolsInv, PoolsNext, built' # built, Current \in DOMAIN recent
               PROVE  Last(built') \notin ToSet(recent[Current])
    BY DEF poolVars
  <2>1. PICK asked \in Asks : Build(asked)
    BY DEF PoolsNext, Unnest, Nest, RunHere, UseKept, BuildFails
  <2> DEFINE need == Need(asked)
             r == recent[Current]
             q == kept[Current]
  <2>2. built \in Seq(Needs) /\ need \in Needs /\ built' = Append(built, need) /\ Fitting(Current, need) = {}
    BY <2>1, NeedOfAsk DEF PoolsInv, Build
  <2>3. Last(built') = need
    BY <2>2, AppendProperties DEF Last
  <2>4. ThreadInv(built, q, r) /\ Kept(Current) = q
    BY DEF PoolsInv, Kept
  <2>5. DOMAIN q = 1..Len(q) /\ DOMAIN r = 1..Len(r)
    BY <2>4, LenProperties DEF ThreadInv
  <2> HIDE DEF need, r, q
  <2>6. ASSUME NEW k \in 1..Len(r), r[k] = need PROVE FALSE
    <3>1. PICK i \in 1..Len(q) : Serves(built, q[i], need)
      BY <2>4, <2>6 DEF ThreadInv, Remembers
    <3>2. i \in Fitting(Current, need)
      BY <2>4, <2>5, <3>1 DEF Fitting, Fits, Serves
    <3> QED BY <2>2, <3>2
  <2> QED BY <2>3, <2>5, <2>6 DEF ToSet, r
<1> QED BY <1>1, PoolsStart, PoolsStep, PTL DEF PoolsSpec, RebuildsNothingRecent

-----------------------------------------------------------------------------
\* Who holds the sink's lock, and the interpreter's, by what each thread does.
Sinks == [number : Nat, python : BOOLEAN]
LoggerStates ==
  [at : {"python", "native", "emit"}] \cup [at : {"deliver", "called"}, to : Sinks] \cup [at : {"install"}, sink : Sinks]
LogInv ==
  /\ logger \in [Loggers -> LoggerStates] /\ sink \in Sinks
  /\ \A t \in Loggers : logger[t].at \in {"deliver", "called"} => t \in guards /\ logger[t].to = sink
  /\ \A t \in Loggers : logger[t].at = "called" => gil = t

\* Threads, the interpreter and the two setters keep it.
LEMMA LogStepKeeps == LogInv /\ [LogNext]_logVars => LogInv'
<1> SUFFICES ASSUME LogInv, [LogNext]_logVars PROVE LogInv'
  OBVIOUS
<1> USE LoggersAssumption DEF LogInv
<1>1. ASSUME NEW t \in Loggers, NEW c \in LoggerStates, Goes(t, c)
      PROVE  /\ logger' \in [Loggers -> LoggerStates] /\ logger'[t] = c
             /\ \A u \in Loggers \ {t} : logger'[u] = logger[u]
  BY <1>1 DEF Goes
<1>2. ASSUME NEW t \in Loggers, Takes(t) \/ Yields(t) PROVE LogInv'
  BY <1>2 DEF Takes, Yields
<1>3. ASSUME NEW t \in Loggers, Releases(t) PROVE LogInv'
  <2>1. [at |-> "native"] \in LoggerStates  BY DEF LoggerStates
  <2> QED BY <1>1, <1>3, <2>1 DEF Releases
<1>4. ASSUME NEW t \in Loggers, Returns(t) PROVE LogInv'
  <2>1. [at |-> "python"] \in LoggerStates  BY DEF LoggerStates
  <2> QED BY <1>1, <1>4, <2>1 DEF Returns
<1>5. ASSUME NEW t \in Loggers, Emits(t) PROVE LogInv'
  <2>1. [at |-> "emit"] \in LoggerStates  BY DEF LoggerStates
  <2> QED BY <1>1, <1>5, <2>1 DEF Emits
<1>6. ASSUME NEW t \in Loggers, LooksUp(t) PROVE LogInv'
  <2>1. [at |-> "deliver", to |-> sink] \in LoggerStates  BY DEF LoggerStates
  <2> QED BY <1>1, <1>6, <2>1 DEF LooksUp, ReadLocked
<1>7. ASSUME NEW t \in Loggers, Prints(t) PROVE LogInv'
  <2>1. [at |-> "native"] \in LoggerStates  BY DEF LoggerStates
  <2> QED BY <1>1, <1>7, <2>1 DEF Prints
<1>8. ASSUME NEW t \in Loggers, Calls(t) PROVE LogInv'
  <2>1. logger[t] \in [at : {"deliver", "called"}, to : Sinks]
    BY <1>8 DEF Calls, LoggerStates
  <2>2. [logger[t] EXCEPT !.at = "called"] = [at |-> "called", to |-> logger[t].to]
    BY <2>1
  <2>3. [at |-> "called", to |-> logger[t].to] \in LoggerStates
    BY <2>1 DEF LoggerStates
  <2>4. Goes(t, [at |-> "called", to |-> logger[t].to])  BY <1>8, <2>2 DEF Calls
  <2> QED BY <1>1, <1>8, <2>3, <2>4 DEF Calls
<1>9. ASSUME NEW t \in Loggers, CallEnds(t) PROVE LogInv'
  <2>1. [at |-> "native"] \in LoggerStates  BY DEF LoggerStates
  <2> QED BY <1>1, <1>9, <2>1 DEF CallEnds
<1>10. ASSUME NEW t \in Loggers, SetLogLevel(t) PROVE LogInv'
  BY <1>10 DEF SetLogLevel
<1>11. ASSUME NEW t \in Loggers, SetLogSink(t) PROVE LogInv'
  <2>0. sink.number + 1 \in Nat  BY DEF Sinks
  <2>3. PySink(sink.number + 1) \in Sinks /\ [DefaultSink EXCEPT !.number = sink.number + 1] \in Sinks
    BY <2>0 DEF PySink, DefaultSink, Sinks
  <2>1. PICK s \in Sinks : Goes(t, [at |-> "install", sink |-> s])
    BY <1>11, <2>3 DEF SetLogSink
  <2>2. [at |-> "install", sink |-> s] \in LoggerStates  BY DEF LoggerStates
  <2> QED BY <1>1, <1>11, <2>1, <2>2 DEF SetLogSink
<1>12. ASSUME NEW t \in Loggers, Installs(t) PROVE LogInv'
  <2>1. [at |-> "python"] \in LoggerStates  BY DEF LoggerStates
  <2>2. logger[t].sink \in Sinks  BY <1>12 DEF Installs, LoggerStates
  <2> QED BY <1>1, <1>12, <2>1, <2>2 DEF Installs
<1>13. CASE UNCHANGED logVars
  BY <1>13 DEF logVars
<1> QED BY <1>2, <1>3, <1>4, <1>5, <1>6, <1>7, <1>8, <1>9, <1>10, <1>11, <1>12, <1>13 DEF LogNext, LogStep

(***************************************************************************)
(* The sink a record is handed to stays installed until it is done with    *)
(* the record, and a Python sink has the interpreter to itself: for any    *)
(* number of threads, records and sinks installed meanwhile.               *)
(***************************************************************************)
THEOREM SinkIsAlive == LogSpec => []SinkOutlivesItsRecords
<1>1. LogInit => LogInv
  BY DEF LogInit, LogInv, DefaultSink, Sinks, LoggerStates
<1>2. LogInv => SinkOutlivesItsRecords
  BY DEF LogInv, SinkOutlivesItsRecords
<1> QED BY <1>1, <1>2, LogStepKeeps, PTL DEF LogSpec

-----------------------------------------------------------------------------
(***************************************************************************)
(* Sections.  The pieces of a loop tile its items; what each has done is   *)
(* what lies before its next item.                                         *)
(***************************************************************************)
LEMMA DivisionRounds ==
  ASSUME NEW a \in Nat, NEW b \in Nat \ {0}
  PROVE  a \div b \in Nat /\ (a \div b) * b <= a /\ a < (a \div b) * b + b
  OBVIOUS

LEMMA MaxOfTwo == ASSUME NEW a \in Int, NEW b \in Int
                  PROVE  Max({a, b}) = IF a >= b THEN a ELSE b
<1> DEFINE m == IF a >= b THEN a ELSE b
<1>1. m \in {a, b} /\ \A z \in {a, b} : m >= z
  OBVIOUS
<1>2. \A e \in {a, b} : (\A z \in {a, b} : e >= z) => e = m
  OBVIOUS
<1> QED
  BY <1>1, <1>2 DEF Max

LEMMA MinOfTwo == ASSUME NEW a \in Int, NEW b \in Int
                  PROVE  Min({a, b}) = IF a <= b THEN a ELSE b
<1> DEFINE m == IF a <= b THEN a ELSE b
<1>1. m \in {a, b} /\ \A z \in {a, b} : m <= z
  OBVIOUS
<1>2. \A e \in {a, b} : (\A z \in {a, b} : e <= z) => e = m
  OBVIOUS
<1> QED
  BY <1>1, <1>2 DEF Min

SectionTypes == section \in Loops \cup Scopes /\ wide \in BOOLEAN

LEMMA PieceSizes ==
  ASSUME SectionTypes, IsLoop
  PROVE  /\ section.n \in Nat /\ PieceLen \in Nat \ {0} /\ PieceCount \in Nat
         /\ section.n <= PieceCount * PieceLen
         /\ section.n > 0 => (PieceCount - 1) * PieceLen < section.n
         /\ section.n = 0 => PieceCount = 0
<1> DEFINE n == section.n
           w == PIECES_PER_WORKER * Max({1, section.threads})
<1>1. n \in Nat /\ section.threads \in Nat /\ PIECES_PER_WORKER \in Nat \ {0}
  BY SectionsAssumption DEF SectionTypes, IsLoop, IsALoop, IsAScope
<1>2. Max({1, section.threads}) \in Nat \ {0}
  BY <1>1, MaxOfTwo
<1>3. w \in Nat \ {0}
  <2>1. \A e, z \in Nat \ {0} : e * z \in Nat \ {0}
    OBVIOUS
  <2> QED
    BY <1>1, <1>2, <2>1
<1>4. Ceil(n, w) \in Nat
  <2>1. n + w - 1 \in Nat
    BY <1>1, <1>3
  <2> QED
    BY <1>3, <2>1, DivisionRounds DEF Ceil
<1>5. PieceLen \in Nat \ {0}
  <2>1. PieceLen = Max({1, Ceil(n, w)})
    BY DEF PieceLen, w
  <2> QED
    BY <1>4, <2>1, MaxOfTwo
<1> DEFINE L == PieceLen
           c == (n + L - 1) \div L
<1> HIDE DEF w
<1>6. n + L - 1 \in Nat
  BY <1>1, <1>5
<1>7. c \in Nat /\ c * L <= n + L - 1 /\ n + L - 1 < c * L + L
  BY <1>5, <1>6, DivisionRounds
<1>8. PieceCount = c
  BY DEF PieceCount, Ceil
<1> HIDE DEF L, n
<1>9. c * L \in Nat /\ (c - 1) * L = c * L - L
  BY <1>5, <1>7 DEF L
<1>10. n <= c * L /\ (n > 0 => (c - 1) * L < n)
  BY <1>1, <1>5, <1>7, <1>9 DEF L
<1>11. n = 0 => c = 0
  <2> SUFFICES ASSUME n = 0, c # 0 PROVE FALSE
    OBVIOUS
  <2>1. c * L >= L
    BY <1>5, <1>7 DEF L
  <2> QED
    BY <1>5, <1>7, <1>9, <2>1 DEF L
<1> QED
  BY <1>1, <1>5, <1>7, <1>8, <1>10, <1>11 DEF L, n

LEMMA Scales ==
  ASSUME NEW a \in Int, NEW b \in Int, a <= b, NEW L \in Nat PROVE a * L <= b * L
  OBVIOUS

LastPiece == IF wide THEN PieceCount ELSE 1

LEMMA PiecesTile ==
  ASSUME SectionTypes, IsLoop
  PROVE  /\ section.n \in Nat /\ Items = 1..section.n
         /\ LastPiece \in Nat /\ Pieces = 1..LastPiece /\ (LastPiece = 0 => section.n = 0)
         /\ \A p \in Pieces : /\ First(p) \in Nat \ {0} /\ Until(p) \in Nat
                              /\ First(p) <= Until(p) + 1 /\ Until(p) <= section.n
         /\ \A p \in Pieces : First(p) = IF p = 1 THEN 1 ELSE Until(p - 1) + 1
         /\ LastPiece # 0 => Until(LastPiece) = section.n
         /\ \A p, q \in Pieces : p < q => Until(p) < First(q)
         /\ \A i \in Items : \E p \in Pieces : First(p) <= i /\ i <= Until(p)
<1>1. section.n \in Nat /\ Items = 1..section.n
  BY PieceSizes DEF Items
<1>2. CASE ~wide
  BY <1>1, <1>2 DEF LastPiece, Pieces, First, Until
<1>3. CASE wide
  <2> DEFINE n == section.n
             L == PieceLen
             C == PieceCount
             B(p) == p * L
  <2>1. /\ n \in Nat /\ L \in Nat \ {0} /\ C \in Nat /\ n <= B(C) /\ (n = 0 => C = 0)
        /\ (n > 0 => B(C - 1) < n)
    BY PieceSizes
  <2>2. LastPiece = C /\ Pieces = 1..C
    BY <1>3 DEF LastPiece, Pieces
  <2>3. /\ \A p \in Int : B(p) \in Int
        /\ \A p \in Int : B(p - 1) = B(p) - L
        /\ B(0) = 0
    BY <2>1
  <2>4. \A p, q \in Int : p <= q => B(p) <= B(q)
    BY <2>1, Scales
  <2>5. \A p \in 1..C : First(p) = B(p - 1) + 1
    BY <1>3 DEF First
  <2>6. \A p \in 1..C : Until(p) = IF B(p) <= n THEN B(p) ELSE n
    <3> TAKE p \in 1..C
    <3>1. Until(p) = Min({B(p), n})
      BY <1>3 DEF Until
    <3>2. B(p) \in Int /\ n \in Int
      BY <2>1, <2>3
    <3> QED
      BY <3>1, <3>2, MinOfTwo
  <2>7. \A i \in 1..n : \E d \in Nat : B(d) <= i - 1 /\ i - 1 < B(d + 1)
    <3> TAKE i \in 1..n
    <3> DEFINE d == (i - 1) \div L
    <3>1. i - 1 \in Nat
      BY <2>1
    <3>2. d \in Nat /\ B(d) <= i - 1 /\ i - 1 < B(d) + L
      BY <2>1, <3>1, DivisionRounds
    <3> HIDE DEF d
    <3>3. d + 1 \in Int /\ (d + 1) - 1 = d
      BY <3>2
    <3>4. B(d) = B(d + 1) - L
      BY <2>3, <3>3
    <3> HIDE DEF B
    <3> QED
      BY <2>1, <2>3, <3>1, <3>2, <3>3, <3>4
  <2> HIDE DEF n, L, C, B
  <2>8. \A p \in 1..C : p - 1 \in 0..(C - 1) /\ B(p - 1) \in Nat /\ B(p - 1) < n
    <3> TAKE p \in 1..C
    <3>1. p - 1 \in Int /\ 0 <= p - 1 /\ p - 1 <= C - 1 /\ p \in Int /\ n > 0 /\ C - 1 \in Int
      BY <2>1
    <3>2. B(p - 1) <= B(C - 1) /\ B(0) <= B(p - 1)
      BY <2>4, <3>1
    <3>3. B(p - 1) \in Int /\ B(C - 1) \in Int
      BY <2>3, <3>1
    <3> QED
      BY <2>1, <2>3, <3>1, <3>2, <3>3
  <2>9. \A p \in 1..C : /\ First(p) \in Nat \ {0} /\ Until(p) \in Nat
                         /\ First(p) <= Until(p) + 1 /\ Until(p) <= n
    <3> TAKE p \in 1..C
    <3>1. p \in Int /\ B(p) \in Int /\ B(p - 1) = B(p) - L /\ B(p - 1) \in Nat /\ B(p - 1) < n
      BY <2>3, <2>8
    <3> QED
      BY <2>1, <2>5, <2>6, <3>1
  <2>10. \A p \in 1..C : First(p) = IF p = 1 THEN 1 ELSE Until(p - 1) + 1
    <3> TAKE p \in 1..C
    <3>1. CASE p = 1
      BY <2>3, <2>5, <3>1
    <3>2. CASE p # 1
      <4>1. p - 1 \in 1..C /\ B(p - 1) \in Nat /\ B(p - 1) < n
        BY <2>1, <2>8, <3>2
      <4>2. Until(p - 1) = IF B(p - 1) <= n THEN B(p - 1) ELSE n
        BY <2>6, <4>1
      <4> QED
        BY <2>1, <2>5, <3>2, <4>1, <4>2
    <3> QED
      BY <3>1, <3>2
  <2>11. C # 0 => Until(C) = n
    <3> SUFFICES ASSUME C # 0 PROVE Until(C) = n
      OBVIOUS
    <3>1. C \in 1..C /\ C \in Int
      BY <2>1
    <3>2. B(C) \in Int
      BY <2>3, <3>1
    <3> QED
      BY <2>1, <2>6, <3>1, <3>2
  <2>12. \A p, q \in 1..C : p < q => Until(p) < First(q)
    <3> SUFFICES ASSUME NEW p \in 1..C, NEW q \in 1..C, p < q PROVE Until(p) < First(q)
      OBVIOUS
    <3>1. p \in Int /\ q - 1 \in Int /\ p <= q - 1
      BY <2>1
    <3>2. B(p) <= B(q - 1) /\ B(p) \in Int /\ B(q - 1) \in Int
      BY <2>3, <2>4, <3>1
    <3>3. Until(p) <= B(p)
      BY <2>1, <2>6, <3>2
    <3>4. First(q) = B(q - 1) + 1 /\ Until(p) \in Nat
      BY <2>5, <2>9
    <3> QED
      BY <3>2, <3>3, <3>4
  <2>13. \A i \in 1..n : \E p \in 1..C : First(p) <= i /\ i <= Until(p)
    <3> TAKE i \in 1..n
    <3>1. PICK d \in Nat : B(d) <= i - 1 /\ i - 1 < B(d + 1)
      BY <2>7
    <3>2. d + 1 \in Int /\ B(d) \in Int /\ B(d + 1) \in Int /\ (d + 1) - 1 = d
      BY <2>3
    <3>3. d < C
      <4> SUFFICES ASSUME C <= d PROVE FALSE
        BY <2>1
      <4>1. B(C) <= B(d) /\ B(C) \in Int
        BY <2>1, <2>3, <2>4
      <4> QED
        BY <2>1, <3>1, <3>2, <4>1
    <3>4. d + 1 \in 1..C
      BY <2>1, <3>3
    <3>5. First(d + 1) = B(d) + 1 /\ Until(d + 1) = IF B(d + 1) <= n THEN B(d + 1) ELSE n
      BY <2>5, <2>6, <3>2, <3>4
    <3>6. First(d + 1) <= i /\ i <= Until(d + 1)
      BY <2>1, <3>1, <3>2, <3>5
    <3> QED
      BY <3>4, <3>6
  <2>14. C = 0 => n = 0
    BY <2>1, <2>3
  <2> QED
    BY <1>1, <2>1, <2>2, <2>9, <2>10, <2>11, <2>12, <2>13, <2>14 DEF n
<1> QED
  BY <1>2, <1>3

-----------------------------------------------------------------------------
\* What stands before a piece's next item was done, what stands behind it not.
Passed(i) ==
  /\ visits[i] \in {0, 1} /\ (section.op # "any" => visits[i] = 1)
  /\ section.op \in {"map", "owned"} => slotOf[i] = i
  /\ section.op = "any" /\ ~foundAny => i \notin section.holds

Gives(first, m) == [k \in 1..m |-> first + k - 1]

LoopInv ==
  /\ tasks = <<>>
  /\ nextItem \in [Pieces -> Nat] /\ visits \in [Items -> Nat] /\ slotOf \in [Items -> Nat]
  /\ DOMAIN given = Pieces /\ foundAny \in BOOLEAN
  /\ \A p \in Pieces : First(p) <= nextItem[p] /\ nextItem[p] <= Until(p) + 1
  /\ \A p \in Pieces : \A i \in Items :
       First(p) <= i /\ i <= Until(p) => IF i < nextItem[p] THEN Passed(i) ELSE visits[i] = 0
  /\ section.op = "init" => \A p \in Pieces : given[p] = Gives(First(p), nextItem[p] - First(p))
  /\ foundAny => section.op = "any" /\ section.holds # {}

StartsOf(u) == IF u = 0 THEN section.body ELSE section.starts[u]
Begun(t) == \E u \in {0} \cup Tasks : t \in ToSet(StartsOf(u)) /\ (u = 0 \/ taskRuns[u] = 1)

ScopeInv ==
  /\ tasks \in Seq(Tasks) /\ IsInjective(tasks) /\ taskRuns \in [Tasks -> {0, 1}]
  /\ \A t \in ToSet(tasks) : taskRuns[t] = 0
  /\ \A t \in Tasks : Begun(t) <=> t \in ToSet(tasks) \/ taskRuns[t] = 1

SectionInv == SectionTypes /\ (IsLoop => LoopInv) /\ (~IsLoop => ScopeInv)

LEMMA SameSection ==
  ASSUME section' = section, wide' = wide
  PROVE  /\ Items' = Items /\ Pieces' = Pieces /\ Tasks' = Tasks /\ (IsLoop' <=> IsLoop)
         /\ SectionTypes' <=> SectionTypes
         /\ \A p : First(p)' = First(p) /\ Until(p)' = Until(p)
         /\ \A u : StartsOf(u)' = StartsOf(u)
BY DEF Items, Pieces, Tasks, IsLoop, SectionTypes, First, Until, StartsOf, PieceCount, PieceLen, Ceil

LEMMA GivesOneMore ==
  ASSUME NEW f \in Nat, NEW m \in Nat
  PROVE  Append(Gives(f, m), f + m) = Gives(f, m + 1)
<1>1. Gives(f, m) \in Seq(Nat) /\ Len(Gives(f, m)) = m
  BY DEF Gives
<1>2. Gives(f, m + 1) \in Seq(Nat) /\ Len(Gives(f, m + 1)) = m + 1
  BY DEF Gives
<1> DEFINE s == Append(Gives(f, m), f + m)
<1>3. /\ s \in Seq(Nat) /\ Len(s) = m + 1
      /\ s[m + 1] = f + m /\ \A k \in 1..m : s[k] = Gives(f, m)[k]
  BY <1>1, AppendProperties
<1>4. \A k \in 1..(m + 1) : s[k] = Gives(f, m + 1)[k]
  <2> TAKE k \in 1..(m + 1)
  <2>1. k \in 1..m \/ k = m + 1
    OBVIOUS
  <2> HIDE DEF s
  <2> QED
    BY <1>3, <2>1 DEF Gives
<1> HIDE DEF s
<1>5. s = Gives(f, m + 1)
  BY <1>2, <1>3, <1>4, SeqEqual
<1> QED
  BY <1>5 DEF s

LEMMA LoopStarts == ASSUME SectionsInit, IsLoop PROVE SectionTypes /\ LoopInv
<1>1. SectionTypes
  BY DEF SectionsInit, SectionTypes
<1>2. /\ section.n \in Nat /\ Items = 1..section.n
      /\ \A p \in Pieces : /\ First(p) \in Nat \ {0} /\ Until(p) \in Nat
                           /\ First(p) <= Until(p) + 1 /\ Until(p) <= section.n
  <2>1. section.n \in Nat /\ Items = 1..section.n
    BY <1>1, PiecesTile
  <2>2. \A p \in Pieces : /\ First(p) \in Nat \ {0} /\ Until(p) \in Nat
                           /\ First(p) <= Until(p) + 1 /\ Until(p) <= section.n
    BY <1>1, PiecesTile
  <2> QED
    BY <2>1, <2>2
<1>3. /\ nextItem = [p \in Pieces |-> First(p)]
      /\ slotOf = [i \in Items |-> 0] /\ visits = [i \in Items |-> 0]
      /\ given = [p \in Pieces |-> <<>>] /\ foundAny = FALSE /\ tasks = <<>>
  BY DEF SectionsInit, NOTHING_YET
<1>4. \A p \in Pieces : given[p] = Gives(First(p), nextItem[p] - First(p))
  <2> TAKE p \in Pieces
  <2>1. nextItem[p] - First(p) = 0 /\ given[p] = <<>>
    BY <1>2, <1>3
  <2> QED
    BY <2>1 DEF Gives
<1>5. \A p \in Pieces : \A i \in Items :
        First(p) <= i /\ i <= Until(p) => IF i < nextItem[p] THEN Passed(i) ELSE visits[i] = 0
  BY <1>2, <1>3
<1>6. \A p \in Pieces : First(p) <= nextItem[p] /\ nextItem[p] <= Until(p) + 1
  BY <1>2, <1>3
<1> QED
  BY <1>1, <1>2, <1>3, <1>4, <1>5, <1>6 DEF LoopInv

LEMMA ItemRuns ==
  ASSUME SectionTypes, IsLoop, LoopInv, NEW p, RunItem(p) PROVE LoopInv'
<1> DEFINE i == nextItem[p]
           n == section.n
<1>1. /\ p \in Pieces /\ i <= Until(p) /\ ~SeesIt(p)
      /\ nextItem' = [nextItem EXCEPT ![p] = i + 1]
      /\ visits' = [visits EXCEPT ![i] = @ + 1]
      /\ slotOf' = IF section.op \in {"map", "owned"} THEN [slotOf EXCEPT ![i] = i] ELSE slotOf
      /\ given' = IF section.op = "init" THEN [given EXCEPT ![p] = Append(@, i)] ELSE given
      /\ foundAny' = (foundAny \/ (section.op = "any" /\ i \in section.holds))
      /\ section' = section /\ wide' = wide /\ tasks' = tasks
  BY DEF RunItem
<1>2. /\ Items' = Items /\ Pieces' = Pieces
      /\ \A q : First(q)' = First(q) /\ Until(q)' = Until(q)
  BY <1>1, SameSection
<1>3. n \in Nat /\ Items = 1..n
  BY PiecesTile
<1>4. \A q \in Pieces : /\ First(q) \in Nat \ {0} /\ Until(q) \in Nat
                         /\ First(q) <= Until(q) + 1 /\ Until(q) <= n
  BY PiecesTile
<1>5. \A q, r \in Pieces : q < r => Until(q) < First(r)
  BY PiecesTile
<1>6. Pieces = 1..LastPiece /\ LastPiece \in Nat
  BY PiecesTile
<1>7. /\ i \in Nat /\ First(p) <= i /\ i \in Items
  BY <1>1, <1>3, <1>4 DEF LoopInv
<1>8. \A q \in Pieces : First(q) <= i /\ i <= Until(q) => q = p
  <2> SUFFICES ASSUME NEW q \in Pieces, First(q) <= i, i <= Until(q), q # p PROVE FALSE
    OBVIOUS
  <2>1. q < p \/ p < q
    BY <1>1, <1>6
  <2>2. First(q) \in Nat /\ First(p) \in Nat /\ Until(q) \in Nat /\ Until(p) \in Nat
    BY <1>1, <1>4
  <2>3. q < p => Until(q) < First(p)
    BY <1>1, <1>5
  <2>4. p < q => Until(p) < First(q)
    BY <1>1, <1>5
  <2> QED
    BY <1>1, <1>7, <2>1, <2>2, <2>3, <2>4
<1>9. nextItem' \in [Pieces -> Nat] /\ visits' \in [Items -> Nat] /\ slotOf' \in [Items -> Nat]
      /\ DOMAIN given' = Pieces /\ foundAny' \in BOOLEAN
  BY <1>1, <1>7 DEF LoopInv
<1>10. \A q \in Pieces : First(q) <= nextItem'[q] /\ nextItem'[q] <= Until(q) + 1
  BY <1>1, <1>4, <1>7 DEF LoopInv
<1>11. ASSUME NEW q \in Pieces, NEW j \in Items, First(q) <= j, j <= Until(q)
       PROVE  IF j < nextItem'[q] THEN Passed(j)' ELSE visits'[j] = 0
  <2>0. j \in Nat /\ nextItem[q] \in Nat
    BY <1>3 DEF LoopInv
  <2>1. CASE j = i
    <3>1. q = p /\ visits[i] = 0
      BY <1>7, <1>8, <1>11, <2>1 DEF LoopInv
    <3>2. visits'[i] = 1 /\ nextItem'[p] = i + 1
      BY <1>1, <1>7, <3>1 DEF LoopInv
    <3>3. section.op \in {"map", "owned"} => slotOf'[i] = i
      BY <1>1, <1>7 DEF LoopInv
    <3>4. section.op = "any" /\ ~foundAny' => i \notin section.holds
      BY <1>1
    <3>5. Passed(j)'
      BY <1>1, <2>1, <3>2, <3>3, <3>4 DEF Passed
    <3>6. i < nextItem'[p]
      BY <1>7, <3>2
    <3> QED
      BY <2>1, <3>1, <3>5, <3>6
  <2>2. CASE j # i
    <3>1. visits'[j] = visits[j] /\ slotOf'[j] = slotOf[j]
      BY <1>1, <1>7, <2>2 DEF LoopInv
    <3>2. j < nextItem'[q] <=> j < nextItem[q]
      BY <1>1, <1>7, <2>0, <2>2 DEF LoopInv
    <3>3. IF j < nextItem[q] THEN Passed(j) ELSE visits[j] = 0
      BY <1>11 DEF LoopInv
    <3> QED
      BY <1>1, <3>1, <3>2, <3>3 DEF Passed
  <2> QED
    BY <2>1, <2>2
<1>12. ASSUME section.op = "init", NEW q \in Pieces
       PROVE  given'[q] = Gives(First(q), nextItem'[q] - First(q))
  <2>1. given[q] = Gives(First(q), nextItem[q] - First(q))
    BY <1>12 DEF LoopInv
  <2>2. CASE q = p
    <3>1. i - First(p) \in Nat /\ First(p) + (i - First(p)) = i /\ First(p) \in Nat
          /\ (i + 1) - First(p) = (i - First(p)) + 1
      BY <1>1, <1>4, <1>7
    <3>2. given'[p] = Append(given[p], i) /\ nextItem'[p] = i + 1
      BY <1>1, <1>12 DEF LoopInv
    <3>3. Append(Gives(First(p), i - First(p)), i) = Gives(First(p), (i + 1) - First(p))
      BY <3>1, GivesOneMore
    <3> QED
      BY <2>1, <2>2, <3>2, <3>3
  <2>3. CASE q # p
    BY <1>1, <1>12, <2>1, <2>3 DEF LoopInv
  <2> QED
    BY <2>2, <2>3
<1>13. foundAny' => section.op = "any" /\ section.holds # {}
  BY <1>1 DEF LoopInv
<1> QED
  BY <1>1, <1>2, <1>9, <1>10, <1>11, <1>12, <1>13 DEF LoopInv

LEMMA PieceGivesUp ==
  ASSUME SectionTypes, IsLoop, LoopInv, NEW p, GiveUp(p) PROVE LoopInv'
<1>1. /\ p \in Pieces /\ nextItem[p] <= Until(p) /\ section.op = "any" /\ foundAny
      /\ nextItem' = [nextItem EXCEPT ![p] = Until(p) + 1]
      /\ UNCHANGED <<section, wide, slotOf, visits, given, foundAny, tasks>>
  BY DEF GiveUp, SeesIt
<1>2. /\ Items' = Items /\ Pieces' = Pieces
      /\ \A q : First(q)' = First(q) /\ Until(q)' = Until(q)
  BY <1>1, SameSection
<1>3. section.n \in Nat /\ Items = 1..section.n
  BY PiecesTile
<1>4. \A q \in Pieces : /\ First(q) \in Nat \ {0} /\ Until(q) \in Nat
                         /\ First(q) <= Until(q) + 1 /\ Until(q) <= section.n
  BY PiecesTile
<1>5. nextItem' \in [Pieces -> Nat]
      /\ \A q \in Pieces : First(q) <= nextItem'[q] /\ nextItem'[q] <= Until(q) + 1
  BY <1>1, <1>4 DEF LoopInv
<1>6. ASSUME NEW q \in Pieces, NEW j \in Items, First(q) <= j, j <= Until(q)
      PROVE  IF j < nextItem'[q] THEN Passed(j)' ELSE visits'[j] = 0
  <2>1. IF j < nextItem[q] THEN Passed(j) ELSE visits[j] = 0
    BY <1>6 DEF LoopInv
  <2>2. CASE q = p
    <3>1. j < nextItem'[q]
      BY <1>1, <1>3, <1>4, <1>6, <2>2 DEF LoopInv
    <3> QED
      BY <1>1, <2>1, <3>1 DEF Passed
  <2>3. CASE q # p
    BY <1>1, <2>1, <2>3 DEF Passed, LoopInv
  <2> QED
    BY <2>2, <2>3
<1> QED
  BY <1>1, <1>2, <1>5, <1>6 DEF LoopInv

-----------------------------------------------------------------------------
(***************************************************************************)
(* What the pieces give, joined.                                           *)
(***************************************************************************)
LEMMA GivesJoin ==
  ASSUME NEW u \in Nat, NEW v \in Nat, u <= v
  PROVE  Gives(1, u) \o Gives(u + 1, v - u) = Gives(1, v)
<1> DEFINE a == Gives(1, u)
           b == Gives(u + 1, v - u)
           c == Gives(1, v)
<1>1. a \in Seq(Nat) /\ Len(a) = u /\ \A k \in 1..u : a[k] = k
  BY DEF Gives
<1>2. b \in Seq(Nat) /\ Len(b) = v - u /\ \A k \in 1..(v - u) : b[k] = u + k
  BY DEF Gives
<1>3. c \in Seq(Nat) /\ Len(c) = v /\ \A k \in 1..v : c[k] = k
  BY DEF Gives
<1> HIDE DEF a, b, c
<1>4. /\ a \o b \in Seq(Nat) /\ Len(a \o b) = Len(a) + Len(b)
      /\ \A k \in 1..(Len(a) + Len(b)) : (a \o b)[k] = IF k <= Len(a) THEN a[k] ELSE b[k - Len(a)]
  BY <1>1, <1>2, ConcatProperties
<1>5. Len(a \o b) = v
  BY <1>1, <1>2, <1>4
<1>6. \A k \in 1..v : (a \o b)[k] = k
  <2> TAKE k \in 1..v
  <2>1. CASE k <= u
    BY <1>1, <1>2, <1>4, <2>1
  <2>2. CASE ~(k <= u)
    <3>1. k - u \in 1..(v - u) /\ k \in 1..(Len(a) + Len(b)) /\ ~(k <= Len(a))
      BY <1>1, <1>2, <2>2
    <3>2. (a \o b)[k] = b[k - u]
      BY <1>1, <1>4, <3>1
    <3> QED
      BY <1>2, <3>1, <3>2
  <2> QED
    BY <2>1, <2>2
<1>7. a \o b = c
  BY <1>3, <1>4, <1>5, <1>6, SeqEqual
<1> QED
  BY <1>7 DEF a, b, c

LEMMA JoinInOrder ==
  ASSUME SectionTypes, IsLoop, LoopInv, SectionOver, section.op = "init"
  PROVE  Joined = [i \in Items |-> i]
<1> DEFINE n == section.n
           seqs == [p \in 1..LastPiece |-> given[p]]
           G == [p \in 1..LastPiece |-> Gives(1, Until(p))]
<1>1. n \in Nat /\ Items = 1..n
  BY PiecesTile
<1>2. LastPiece \in Nat /\ Pieces = 1..LastPiece /\ (LastPiece = 0 => n = 0)
  BY PiecesTile
<1>3. \A p \in 1..LastPiece : /\ First(p) \in Nat \ {0} /\ Until(p) \in Nat
                          /\ First(p) <= Until(p) + 1 /\ Until(p) <= n
  BY <1>2, PiecesTile
<1>4. \A p \in 1..LastPiece : First(p) = IF p = 1 THEN 1 ELSE Until(p - 1) + 1
  BY <1>2, PiecesTile
<1>5. LastPiece # 0 => Until(LastPiece) = n
  BY PiecesTile
<1>6. \A p \in 1..LastPiece : seqs[p] = Gives(First(p), (Until(p) + 1) - First(p))
  <2> TAKE p \in 1..LastPiece
  <2>1. nextItem[p] = Until(p) + 1
    BY <1>2, <1>3 DEF SectionOver, LoopInv
  <2>2. given[p] = Gives(First(p), nextItem[p] - First(p))
    BY <1>2 DEF LoopInv
  <2>3. seqs[p] = given[p]
    OBVIOUS
  <2>4. Gives(First(p), nextItem[p] - First(p)) = Gives(First(p), (Until(p) + 1) - First(p))
    BY <2>1
  <2> HIDE DEF seqs
  <2> QED
    BY <2>2, <2>3, <2>4
<1>7. Joined = FlattenSeq(seqs)
  <2>1. Cardinality(Pieces) = LastPiece
    BY <1>2, FS_Interval
  <2> QED
    BY <2>1 DEF Joined
<1>8. Len(seqs) = LastPiece
  BY <1>2
<1>9. CASE LastPiece = 0
  <2>1. seqs = <<>> /\ FlattenSeq(seqs) = seqs
    BY <1>8, <1>9 DEF FlattenSeq
  <2>2. [i \in Items |-> i] = <<>>
    BY <1>1, <1>2, <1>9
  <2> QED
    BY <1>7, <2>1, <2>2
<1>10. CASE LastPiece # 0
  <2> DEFINE From(f) == [p \in 1..LastPiece |-> IF p = 1 THEN seqs[p] ELSE f[p - 1] \o seqs[p]]
             flat == CHOOSE f : f = From(f)
  <2>1. FlattenSeq(seqs) = flat[LastPiece]
    BY <1>8, <1>10 DEF FlattenSeq
  <2> HIDE DEF seqs
  <2>2. \A p \in 1..LastPiece : G[p] = IF p = 1 THEN seqs[p] ELSE G[p - 1] \o seqs[p]
    <3> TAKE p \in 1..LastPiece
    <3>1. CASE p = 1
      BY <1>3, <1>4, <1>6, <3>1
    <3>2. CASE p # 1
      <4>1. p - 1 \in 1..LastPiece
        BY <1>2, <3>2
      <4>2. Until(p - 1) \in Nat /\ Until(p) \in Nat /\ Until(p - 1) <= Until(p)
            /\ First(p) = Until(p - 1) + 1 /\ (Until(p) + 1) - First(p) = Until(p) - Until(p - 1)
        BY <1>3, <1>4, <3>2, <4>1
      <4>3. Gives(1, Until(p - 1)) \o Gives(Until(p - 1) + 1, Until(p) - Until(p - 1)) = Gives(1, Until(p))
        BY <4>2, GivesJoin
      <4>4. seqs[p] = Gives(Until(p - 1) + 1, Until(p) - Until(p - 1))
        BY <1>6, <4>2
      <4> QED
        BY <3>2, <4>1, <4>3, <4>4
    <3> QED
      BY <3>1, <3>2
  <2>3. G = From(G)
    BY <2>2
  <2>4. flat = From(flat)
    BY <2>3
  <2> HIDE DEF flat, G
  <2> DEFINE Away == {p \in 1..LastPiece : flat[p] # G[p]}
  <2>5. Away = {}
    <3> SUFFICES ASSUME Away # {} PROVE FALSE
      OBVIOUS
    <3>1. Away \in SUBSET Nat
      BY <1>2
    <3>2. PICK p \in Away : \A q \in Away : p <= q
      <4> HIDE DEF Away
      <4> QED
        BY <3>1, MinIsLeast
    <3>3. p # 1 => p - 1 \in 1..LastPiece /\ p - 1 \notin Away
      BY <1>2, <3>1, <3>2
    <3>4. flat[p] = IF p = 1 THEN seqs[p] ELSE flat[p - 1] \o seqs[p]
      BY <2>4
    <3> QED
      BY <2>2, <3>3, <3>4
  <2>6. LastPiece \in 1..LastPiece
    BY <1>2, <1>10
  <2>7. flat[LastPiece] = Gives(1, n)
    BY <1>5, <1>10, <2>5, <2>6 DEF G
  <2>8. Gives(1, n) = [i \in Items |-> i]
    BY <1>1 DEF Gives
  <2> QED
    BY <1>7, <2>1, <2>7, <2>8
<1> QED
  BY <1>9, <1>10

LEMMA LoopEnds ==
  ASSUME SectionTypes, IsLoop, LoopInv PROVE SectionIsTheLoop
<1> SUFFICES ASSUME SectionOver PROVE SectionIsTheLoop
  BY DEF SectionIsTheLoop
<1>1. section.n \in Nat /\ Items = 1..section.n
  BY PiecesTile
<1>2. \A p \in Pieces : First(p) \in Nat \ {0} /\ Until(p) \in Nat
  BY PiecesTile
<1>3. \A i \in Items : \E p \in Pieces : First(p) <= i /\ i <= Until(p)
  BY PiecesTile
<1>4. \A i \in Items : Passed(i)
  <2> TAKE i \in Items
  <2>1. PICK p \in Pieces : First(p) <= i /\ i <= Until(p)
    BY <1>3
  <2>2. i < nextItem[p]
    BY <1>1, <1>2, <2>1 DEF SectionOver, LoopInv
  <2> QED
    BY <2>1, <2>2 DEF LoopInv
<1>5. section.op = "any" => (foundAny <=> section.holds # {})
  <2>1. section.holds \subseteq Items
    BY <1>1, SectionsAssumption DEF SectionTypes, IsLoop, IsALoop, IsAScope
  <2> QED
    BY <1>4, <2>1 DEF LoopInv, Passed
<1>6. \A i \in Items : visits[i] <= 1
  BY <1>4 DEF Passed
<1> QED
  BY <1>4, <1>5, <1>6, JoinInOrder DEF SectionIsTheLoop, Passed

-----------------------------------------------------------------------------
(***************************************************************************)
(* Scopes: a task that is begun stands among the tasks or ran.             *)
(***************************************************************************)
LEMMA TakenOut ==
  ASSUME NEW S, NEW s \in Seq(S), IsInjective(s), NEW k \in DOMAIN s
  PROVE  /\ RemoveAt(s, k) \in Seq(S) /\ IsInjective(RemoveAt(s, k))
         /\ ToSet(RemoveAt(s, k)) = ToSet(s) \ {s[k]}
<1> DEFINE a == SubSeq(s, 1, k - 1)
           b == SubSeq(s, k + 1, Len(s))
           r == a \o b
           At(i) == IF i < k THEN i ELSE i + 1
<1>1. Len(s) \in Nat /\ k \in 1..Len(s) /\ DOMAIN s = 1..Len(s) /\ \A i \in 1..Len(s) : s[i] \in S
  OBVIOUS
<1>2. a \in Seq(S) /\ Len(a) = k - 1 /\ \A i \in 1..(k - 1) : a[i] = s[i]
  <2>1. 1 \in Int /\ k - 1 \in Int /\ \A i \in 1..(k - 1) : s[i] \in S
    BY <1>1
  <2>2. /\ a \in Seq(S) /\ Len(a) = IF 1 <= k - 1 THEN (k - 1) - 1 + 1 ELSE 0
        /\ \A i \in 1..((k - 1) - 1 + 1) : a[i] = s[1 + i - 1]
    BY <2>1, SubSeqProperties
  <2> HIDE DEF a
  <2> QED
    BY <1>1, <2>2
<1>3. b \in Seq(S) /\ Len(b) = Len(s) - k /\ \A i \in 1..(Len(s) - k) : b[i] = s[k + i]
  <2>1. k + 1 \in Int /\ Len(s) \in Int /\ \A i \in (k + 1)..Len(s) : s[i] \in S
    BY <1>1
  <2>2. /\ b \in Seq(S) /\ Len(b) = IF k + 1 <= Len(s) THEN Len(s) - (k + 1) + 1 ELSE 0
        /\ \A i \in 1..(Len(s) - (k + 1) + 1) : b[i] = s[(k + 1) + i - 1]
    BY <2>1, SubSeqProperties
  <2> HIDE DEF b
  <2>3. Len(s) - (k + 1) + 1 = Len(s) - k /\ \A i \in 1..(Len(s) - k) : (k + 1) + i - 1 = k + i
    BY <1>1
  <2> QED
    BY <1>1, <2>2, <2>3
<1> HIDE DEF a, b
<1>4. /\ r \in Seq(S) /\ Len(r) = Len(a) + Len(b)
      /\ \A i \in 1..(Len(a) + Len(b)) : r[i] = IF i <= Len(a) THEN a[i] ELSE b[i - Len(a)]
  BY <1>2, <1>3, ConcatProperties
<1> HIDE DEF r
<1>5. Len(r) = Len(s) - 1 /\ DOMAIN r = 1..(Len(s) - 1)
  BY <1>1, <1>2, <1>3, <1>4
<1>6. \A i \in 1..(Len(s) - 1) : At(i) \in 1..Len(s) /\ At(i) # k /\ r[i] = s[At(i)]
  <2> TAKE i \in 1..(Len(s) - 1)
  <2>1. CASE i < k
    <3>1. At(i) = i /\ i \in 1..(k - 1) /\ i \in 1..Len(s) /\ i # k /\ i <= Len(a)
      BY <1>1, <1>2, <2>1
    <3>2. i \in 1..(Len(a) + Len(b))
      BY <1>1, <1>2, <1>3
    <3> HIDE DEF At
    <3>3. r[i] = a[i]
      BY <1>4, <3>1, <3>2
    <3>4. a[i] = s[i]
      BY <1>2, <3>1
    <3> QED
      BY <3>1, <3>3, <3>4
  <2>2. CASE ~(i < k)
    <3>1. At(i) = i + 1 /\ i + 1 \in 1..Len(s) /\ i + 1 # k
      BY <1>1, <2>2
    <3> HIDE DEF At
    <3>2. ~(i <= Len(a)) /\ i - Len(a) = i - (k - 1)
      BY <1>1, <1>2, <2>2
    <3>3. i - (k - 1) \in 1..(Len(s) - k) /\ k + (i - (k - 1)) = i + 1
      BY <1>1, <2>2
    <3>4. i \in 1..(Len(a) + Len(b))
      BY <1>1, <1>2, <1>3
    <3>5. r[i] = b[i - Len(a)]
      BY <1>4, <3>2, <3>4
    <3>6. b[i - (k - 1)] = s[k + (i - (k - 1))]
      BY <1>3, <3>3
    <3> QED
      BY <3>1, <3>2, <3>3, <3>5, <3>6
  <2> QED
    BY <2>1, <2>2
<1>7. \A j \in 1..Len(s) : j # k => \E i \in 1..(Len(s) - 1) : At(i) = j
  <2> TAKE j \in 1..Len(s)
  <2>1. CASE j < k
    BY <1>1, <2>1
  <2>2. CASE j > k
    <3>1. j - 1 \in 1..(Len(s) - 1) /\ At(j - 1) = j
      BY <1>1, <2>2
    <3> QED
      BY <3>1
  <2> QED
    BY <1>1, <2>1, <2>2
<1>8. \A i, j \in 1..(Len(s) - 1) : At(i) = At(j) => i = j
  BY <1>1
<1> HIDE DEF At
<1>9. \A i, j \in 1..Len(s) : s[i] = s[j] => i = j
  BY <1>1 DEF IsInjective
<1>10. IsInjective(r)
  BY <1>5, <1>6, <1>8, <1>9 DEF IsInjective
<1>11. ToSet(r) = ToSet(s) \ {s[k]}
  <2>1. ASSUME NEW e \in ToSet(r) PROVE e \in ToSet(s) \ {s[k]}
    <3>1. PICK i \in 1..(Len(s) - 1) : e = r[i]
      BY <1>5 DEF ToSet
    <3> QED
      BY <1>1, <1>6, <1>9, <3>1 DEF ToSet
  <2>2. ASSUME NEW e \in ToSet(s) \ {s[k]} PROVE e \in ToSet(r)
    <3>1. PICK j \in 1..Len(s) : e = s[j]
      BY <1>1 DEF ToSet
    <3>2. PICK i \in 1..(Len(s) - 1) : At(i) = j
      BY <1>7, <2>2, <3>1
    <3> QED
      BY <1>5, <1>6, <3>1, <3>2 DEF ToSet
  <2> QED
    BY <2>1, <2>2
<1> QED
  BY <1>4, <1>10, <1>11 DEF RemoveAt, r, a, b

LEMMA PutBehind ==
  ASSUME NEW S, NEW s \in Seq(S), NEW t \in Seq(S), IsInjective(s), IsInjective(t),
         ToSet(s) \cap ToSet(t) = {}
  PROVE  /\ s \o t \in Seq(S) /\ IsInjective(s \o t) /\ ToSet(s \o t) = ToSet(s) \cup ToSet(t)
<1> DEFINE r == s \o t
           m == Len(s)
           n == Len(t)
<1>1. m \in Nat /\ n \in Nat /\ DOMAIN s = 1..m /\ DOMAIN t = 1..n
  OBVIOUS
<1>2. r \in Seq(S) /\ Len(r) = m + n /\ \A i \in 1..(m + n) : r[i] = IF i <= m THEN s[i] ELSE t[i - m]
  BY ConcatProperties
<1>3. DOMAIN r = 1..(m + n)
  BY <1>1, <1>2
<1> HIDE DEF r, m, n
<1>4. \A i \in 1..(m + n) : \/ i \in 1..m /\ r[i] = s[i]
                            \/ i - m \in 1..n /\ r[i] = t[i - m] /\ i > m
  BY <1>1, <1>2
<1>5. \A i \in 1..m : \A j \in 1..n : s[i] # t[j]
  BY <1>1 DEF ToSet
<1>6. IsInjective(r)
  <2> SUFFICES ASSUME NEW i \in 1..(m + n), NEW j \in 1..(m + n), r[i] = r[j] PROVE i = j
    BY <1>3 DEF IsInjective
  <2>1. CASE i \in 1..m /\ j \in 1..m /\ r[i] = s[i] /\ r[j] = s[j]
    BY <1>1, <2>1 DEF IsInjective
  <2>2. CASE i - m \in 1..n /\ j - m \in 1..n /\ r[i] = t[i - m] /\ r[j] = t[j - m]
    <3>1. i - m = j - m
      BY <1>1, <2>2 DEF IsInjective
    <3> QED
      BY <1>1, <3>1
  <2> QED
    BY <1>4, <1>5, <2>1, <2>2
<1>7. ToSet(r) = ToSet(s) \cup ToSet(t)
  <2>1. ToSet(r) \subseteq ToSet(s) \cup ToSet(t)
    BY <1>1, <1>3, <1>4 DEF ToSet
  <2>2. \A i \in 1..m : i \in 1..(m + n) /\ r[i] = s[i]
    BY <1>1, <1>2
  <2>3. \A j \in 1..n : m + j \in 1..(m + n) /\ r[m + j] = t[j]
    <3> TAKE j \in 1..n
    <3>1. m + j \in 1..(m + n) /\ ~(m + j <= m) /\ (m + j) - m = j
      BY <1>1
    <3> QED
      BY <1>2, <3>1
  <2>4. ToSet(s) \subseteq ToSet(r)
    BY <1>1, <1>3, <2>2 DEF ToSet
  <2>5. ToSet(t) \subseteq ToSet(r)
    BY <1>1, <1>3, <2>3 DEF ToSet
  <2> QED
    BY <2>1, <2>4, <2>5
<1> QED
  BY <1>2, <1>6, <1>7 DEF r

LEMMA ScopeShape ==
  ASSUME SectionTypes, ~IsLoop
  PROVE  /\ Tasks \subseteq Nat \ {0}
         /\ \A u \in {0} \cup Tasks : StartsOf(u) \in Seq(Tasks) /\ IsInjective(StartsOf(u))
         /\ \A t \in Tasks : \E u \in {0} \cup Tasks : u < t /\ t \in ToSet(StartsOf(u))
         /\ \A u, v \in {0} \cup Tasks : u # v => ToSet(StartsOf(u)) \cap ToSet(StartsOf(v)) = {}
<1> DEFINE T == DOMAIN section.starts
           Starts(u) == IF u = 0 THEN section.body ELSE section.starts[u]
<1>1. section \in Scopes
  BY SectionsAssumption DEF SectionTypes, IsLoop, IsALoop
<1>2. Tasks = T
  BY DEF Tasks
<1>3. /\ section.starts \in Seq(Seq(T)) /\ section.body \in Seq(T)
      /\ \A t \in T : \E u \in {0} \cup T : u < t /\ t \in ToSet(Starts(u))
      /\ \A u \in {0} \cup T : IsInjective(Starts(u))
      /\ \A u, v \in {0} \cup T : u # v => ToSet(Starts(u)) \cap ToSet(Starts(v)) = {}
  BY <1>1, SectionsAssumption DEF IsAScope
<1>4. \A u \in {0} \cup T : Starts(u) \in Seq(T)
  BY <1>3
<1>5. T \subseteq Nat \ {0}
  BY <1>3
<1> QED
  BY <1>2, <1>3, <1>4, <1>5 DEF StartsOf

LEMMA ScopeStarts == ASSUME SectionsInit, ~IsLoop PROVE SectionTypes /\ ScopeInv
<1>1. SectionTypes
  BY DEF SectionsInit, SectionTypes
<1>2. tasks = StartsOf(0) /\ taskRuns = [t \in Tasks |-> 0]
  BY DEF SectionsInit, StartsOf
<1>3. tasks \in Seq(Tasks) /\ IsInjective(tasks)
  <2>1. \A u \in {0} \cup Tasks : StartsOf(u) \in Seq(Tasks) /\ IsInjective(StartsOf(u))
    BY <1>1, ScopeShape
  <2> QED
    BY <1>2, <2>1
<1>4. ToSet(tasks) \subseteq Tasks
  BY <1>3 DEF ToSet
<1>5. \A t \in Tasks : Begun(t) <=> t \in ToSet(tasks)
  BY <1>2 DEF Begun
<1> QED
  BY <1>1, <1>2, <1>3, <1>4, <1>5 DEF ScopeInv

LEMMA TaskRuns ==
  ASSUME SectionTypes, ~IsLoop, ScopeInv, RunTask PROVE ScopeInv'
<1>1. PICK k \in (IF wide THEN DOMAIN tasks ELSE {1}) :
        /\ taskRuns' = [taskRuns EXCEPT ![tasks[k]] = @ + 1]
        /\ tasks' = RemoveAt(tasks, k) \o section.starts[tasks[k]]
  BY DEF RunTask
<1> DEFINE t == tasks[k]
           r == RemoveAt(tasks, k)
           more == StartsOf(t)
<1>2. tasks # <<>> /\ tasks \in Seq(Tasks) /\ IsInjective(tasks) /\ UNCHANGED <<section, wide>>
  BY DEF RunTask, ScopeInv
<1>3. k \in DOMAIN tasks
  <2>1. 1 \in DOMAIN tasks
    BY <1>2, EmptySeq, LenProperties
  <2> QED
    BY <2>1
<1>4. t \in Tasks /\ t \in ToSet(tasks) /\ taskRuns[t] = 0
  BY <1>2, <1>3 DEF ScopeInv, ToSet
<1>5. t # 0 /\ more = section.starts[t]
  <2>1. Tasks \subseteq Nat \ {0}
    BY ScopeShape
  <2> QED
    BY <1>4, <2>1 DEF StartsOf
<1>6. more \in Seq(Tasks) /\ IsInjective(more)
  BY <1>4, ScopeShape
<1>7. /\ Tasks' = Tasks /\ \A u : StartsOf(u)' = StartsOf(u)
  BY <1>2, SameSection
<1>8. r \in Seq(Tasks) /\ IsInjective(r) /\ ToSet(r) = ToSet(tasks) \ {t}
  BY <1>2, <1>3, TakenOut
<1>9. taskRuns' = [taskRuns EXCEPT ![t] = @ + 1] /\ tasks' = r \o more
  BY <1>1, <1>5
<1> HIDE DEF t, r, more
<1>10. taskRuns' \in [Tasks -> {0, 1}] /\ taskRuns'[t] = 1
       /\ \A u \in Tasks : u # t => taskRuns'[u] = taskRuns[u]
  BY <1>4, <1>9 DEF ScopeInv
<1>11. \A u \in ToSet(more) : u \in Tasks /\ ~Begun(u)
  <2> TAKE u \in ToSet(more)
  <2>1. u \in Tasks
    BY <1>6 DEF ToSet
  <2>2. \A v \in {0} \cup Tasks : u \in ToSet(StartsOf(v)) => v = t
    <3>1. \A v, w \in {0} \cup Tasks : v # w => ToSet(StartsOf(v)) \cap ToSet(StartsOf(w)) = {}
      BY ScopeShape
    <3> QED
      BY <1>4, <3>1 DEF more
  <2> QED
    BY <1>4, <1>5, <2>1, <2>2 DEF Begun
<1>12. ToSet(r) \cap ToSet(more) = {}
  <2>1. \A u \in ToSet(tasks) : u \in Tasks => Begun(u)
    BY DEF ScopeInv
  <2> QED
    BY <1>8, <1>11, <2>1
<1>13. tasks' \in Seq(Tasks) /\ IsInjective(tasks') /\ ToSet(tasks') = (ToSet(tasks) \ {t}) \cup ToSet(more)
  BY <1>6, <1>8, <1>9, <1>12, PutBehind
<1>14. \A u \in ToSet(tasks') : taskRuns'[u] = 0
  <2> TAKE u \in ToSet(tasks')
  <2>1. CASE u \in ToSet(tasks) /\ u # t
    <3>1. u \in Tasks
      BY <1>2, <2>1 DEF ToSet
    <3> QED
      BY <1>10, <2>1, <3>1 DEF ScopeInv
  <2>2. CASE u \in ToSet(more)
    <3>1. u \in Tasks /\ taskRuns[u] # 1 /\ u # t
      BY <1>4, <1>11, <2>2 DEF ScopeInv
    <3> QED
      BY <1>10, <3>1 DEF ScopeInv
  <2> QED
    BY <1>13, <2>1, <2>2
<1>15. \A u \in Tasks : Begun(u)' <=> Begun(u) \/ u \in ToSet(more)
  <2> TAKE u \in Tasks
  <2>1. Begun(u)' <=> \E v \in {0} \cup Tasks : u \in ToSet(StartsOf(v)) /\ (v = 0 \/ taskRuns'[v] = 1)
    BY <1>7 DEF Begun
  <2>2. \A v \in {0} \cup Tasks : v = 0 \/ taskRuns'[v] = 1 <=> v = 0 \/ taskRuns[v] = 1 \/ v = t
    BY <1>4, <1>10
  <2> QED
    BY <1>4, <2>1, <2>2 DEF Begun, more
<1>16. \A u \in Tasks : Begun(u)' <=> u \in ToSet(tasks') \/ taskRuns'[u] = 1
  BY <1>4, <1>10, <1>13, <1>15 DEF ScopeInv
<1> QED
  BY <1>7, <1>10, <1>13, <1>14, <1>16 DEF ScopeInv

LEMMA ScopeEnds == ASSUME SectionTypes, ~IsLoop, ScopeInv PROVE SectionIsTheLoop
<1> SUFFICES ASSUME SectionOver PROVE \A t \in Tasks : taskRuns[t] = 1
  BY DEF SectionIsTheLoop, IsLoop, LOOP
<1> DEFINE Idle == {t \in Tasks : taskRuns[t] # 1}
<1>1. Tasks \subseteq Nat \ {0}
  BY ScopeShape
<1>2. ToSet(tasks) = {}
  BY DEF SectionOver, ToSet
<1> SUFFICES ASSUME Idle # {} PROVE FALSE
  OBVIOUS
<1>3. Idle \in SUBSET Nat
  BY <1>1
<1>4. PICK t \in Idle : \A i \in Idle : t <= i
  <2> HIDE DEF Idle
  <2> QED
    BY <1>3, MinIsLeast
<1>5. PICK u \in {0} \cup Tasks : u < t /\ t \in ToSet(StartsOf(u))
  <2>1. \A i \in Tasks : \E u \in {0} \cup Tasks : u < i /\ i \in ToSet(StartsOf(u))
    BY ScopeShape
  <2> QED
    BY <1>4, <2>1
<1>6. u = 0 \/ taskRuns[u] = 1
  BY <1>1, <1>4, <1>5
<1>7. Begun(t)
  BY <1>5, <1>6 DEF Begun
<1> QED
  BY <1>2, <1>4, <1>7 DEF ScopeInv

-----------------------------------------------------------------------------
LEMMA SectionStep == SectionInv /\ [SectionsNext]_sectionVars => SectionInv'
<1> SUFFICES ASSUME SectionInv, [SectionsNext]_sectionVars PROVE SectionInv'
  OBVIOUS
<1>1. SectionTypes /\ (IsLoop => LoopInv) /\ (~IsLoop => ScopeInv)
  BY DEF SectionInv
<1>2. section' = section /\ wide' = wide
  BY DEF SectionsNext, RunTask, RunItem, GiveUp, sectionVars
<1>3. SectionTypes' /\ (IsLoop' <=> IsLoop)
  BY <1>1, <1>2, SameSection
<1>4. CASE RunTask
  <2>1. ~IsLoop
    BY <1>1, <1>4 DEF RunTask, LoopInv
  <2> QED
    BY <1>1, <1>3, <1>4, <2>1, TaskRuns DEF SectionInv
<1>5. ASSUME NEW p \in Pieces, RunItem(p) \/ GiveUp(p) PROVE SectionInv'
  <2>1. IsLoop
    BY DEF Pieces
  <2> QED
    BY <1>1, <1>3, <1>5, <2>1, ItemRuns, PieceGivesUp DEF SectionInv
<1>6. CASE UNCHANGED sectionVars
  <2>1. Items' = Items /\ Pieces' = Pieces /\ Tasks' = Tasks
    BY <1>2, SameSection
  <2>2. \A p : First(p)' = First(p) /\ Until(p)' = Until(p)
    BY <1>2, SameSection
  <2>3. \A u : StartsOf(u)' = StartsOf(u)
    BY <1>2, SameSection
  <2>4. LoopInv => LoopInv'
    BY <1>6, <2>1, <2>2 DEF LoopInv, Passed, sectionVars
  <2>5. ScopeInv => ScopeInv'
    BY <1>6, <2>1, <2>3 DEF ScopeInv, Begun, sectionVars
  <2> QED
    BY <1>1, <1>3, <2>4, <2>5 DEF SectionInv
<1> QED
  BY <1>4, <1>5, <1>6 DEF SectionsNext

(***************************************************************************)
(* A parallel section gives what the loop it stands for gives: for any     *)
(* number of items, threads and pieces, every item is done once and what   *)
(* the pieces give is joined in the items' order, whichever piece moves    *)
(* first, `any' stops only on an item that is there, and a scope has run   *)
(* every task, once, however they start one another (parallel.rs).         *)
(***************************************************************************)
THEOREM SectionsAreLoops == SectionsSpec => []SectionIsTheLoop
<1>1. SectionsInit => SectionInv
  BY LoopStarts, ScopeStarts DEF SectionInv
<1>2. SectionInv /\ [SectionsNext]_sectionVars => SectionInv'
  BY SectionStep
<1>3. SectionInv => SectionIsTheLoop
  BY LoopEnds, ScopeEnds DEF SectionInv
<1> QED
  BY <1>1, <1>2, <1>3, PTL DEF SectionsSpec

-----------------------------------------------------------------------------
\* What the books of a block solve are kept in.
ColumnStates ==
  [steps : Int, stepped : Int, est : Int, written : Int, waits : BOOLEAN, evict : BOOLEAN]
BooksInv ==
  /\ col \in [Cols -> ColumnStates]
  /\ x \in [Cols -> Int] /\ out \in [Cols -> Int] /\ res \in [Cols -> Int]
  /\ act \subseteq Cols /\ chk \subseteq Cols
  /\ tol \in Int
  /\ ResidualIsOfTheSolution

LEMMA ReleasedColumn ==
  ASSUME NEW k \in ColumnStates
  PROVE  Released(k) \in ColumnStates /\ Released(k).steps = NoCycle
<1>1. Worst \in Int /\ NoCycle \in Int  BY GmresAssumption DEF NoCycle
<1>2. Released(k) \in ColumnStates
  <2> DEFINE k1 == [k EXCEPT !.steps = NoCycle]
             k2 == [k1 EXCEPT !.est = Worst]
             k3 == [k2 EXCEPT !.written = 0]
  <2>1. Released(k) = k3  BY DEF Released
  <2>2. k1 \in ColumnStates  BY <1>1 DEF ColumnStates
  <2>3. k2 \in ColumnStates
    <3> HIDE DEF k1
    <3> QED BY <1>1, <2>2 DEF ColumnStates
  <2>4. k3 \in ColumnStates
    <3> HIDE DEF k2
    <3> QED BY <2>3 DEF ColumnStates
  <2> HIDE DEF k3
  <2> QED BY <2>1, <2>4
<1>3. Released(k).steps = NoCycle  BY <1>1 DEF Released, ColumnStates
<1> QED BY <1>2, <1>3

LEMMA OpenedColumn ==
  ASSUME NEW k \in ColumnStates, NEW e \in Int
  PROVE  Opened(k, e) \in ColumnStates /\ Opened(k, e).steps = 0
<1> DEFINE w == IF k.written = 0 THEN 1 ELSE k.written
<1>1. w \in Int  BY DEF ColumnStates
<1>2. Opened(k, e) = [k EXCEPT !.steps = 0, !.est = e, !.written = w]  BY DEF Opened
<1> HIDE DEF w
<1>3. Opened(k, e) \in ColumnStates
  <2> DEFINE k1 == [k EXCEPT !.steps = 0]
             k2 == [k1 EXCEPT !.est = e]
             k3 == [k2 EXCEPT !.written = w]
  <2>1. Opened(k, e) = k3  BY <1>2
  <2>2. k1 \in ColumnStates  BY DEF ColumnStates
  <2>3. k2 \in ColumnStates
    <3> HIDE DEF k1
    <3> QED BY <2>2 DEF ColumnStates
  <2>4. k3 \in ColumnStates
    <3> HIDE DEF k2
    <3> QED BY <1>1, <2>3 DEF ColumnStates
  <2> HIDE DEF k3
  <2> QED BY <2>1, <2>4
<1>4. Opened(k, e).steps = 0  BY <1>1, <1>2 DEF ColumnStates
<1> QED BY <1>3, <1>4

LEMMA SteppedColumn ==
  ASSUME NEW k \in ColumnStates, NEW e \in Int, NEW w \in Int
  PROVE  [k EXCEPT !.steps = @ + 1, !.stepped = @ + 1, !.est = e, !.written = w] \in ColumnStates
<1> DEFINE k1 == [k EXCEPT !.steps = k.steps + 1]
           k2 == [k1 EXCEPT !.stepped = k.stepped + 1]
           k3 == [k2 EXCEPT !.est = e]
           k4 == [k3 EXCEPT !.written = w]
<1>1. [k EXCEPT !.steps = @ + 1, !.stepped = @ + 1, !.est = e, !.written = w] = k4
  OBVIOUS
<1>2. k1 \in ColumnStates  BY DEF ColumnStates
<1>3. k2 \in ColumnStates
  <2> HIDE DEF k1
  <2> QED BY <1>2 DEF ColumnStates
<1>4. k3 \in ColumnStates
  <2> HIDE DEF k2
  <2> QED BY <1>3 DEF ColumnStates
<1>5. k4 \in ColumnStates
  <2> HIDE DEF k3
  <2> QED BY <1>4 DEF ColumnStates
<1> HIDE DEF k4
<1> QED BY <1>1, <1>5

\* The columns of which a check forms the solution hold that solution's residual.
LEMMA FormKeeps ==
  ASSUME BooksInv, NEW S \in SUBSET Cols, Form(S), col' = col, x' = x
  PROVE  out' \in [Cols -> Int] /\ res' \in [Cols -> Int] /\ ResidualIsOfTheSolution'
<1>1. PICK formed \in [S -> 0..Worst] :
        /\ \A c \in S : formed[c] \in TrueResiduals(c)
        /\ out' = [c \in Cols |-> IF c \in S THEN formed[c] ELSE out[c]]
        /\ res' = [c \in Cols |-> IF c \in S THEN formed[c] ELSE res[c]]
  BY DEF Form
<1>2. \A c \in S : formed[c] \in Int
  BY GmresAssumption
<1>3. \A c \in S : col[c].steps = NoCycle => formed[c] = x[c]
  BY <1>1 DEF TrueResiduals
<1> QED BY <1>1, <1>2, <1>3 DEF BooksInv, ResidualIsOfTheSolution

LEMMA BooksStart == GmresInit => BooksInv
<1> SUFFICES ASSUME GmresInit PROVE BooksInv
  OBVIOUS
<1>1. Worst \in Int /\ Unchecked \in Int /\ NoCycle \in Int  BY GmresAssumption DEF Unchecked, NoCycle
<1>2. NewColumn \in ColumnStates  BY <1>1 DEF NewColumn, ColumnStates
<1>3. col \in [Cols -> ColumnStates]  BY <1>2 DEF GmresInit
<1>4. x \in [Cols -> Int] /\ out = x /\ res \in [Cols -> Int]  BY <1>1 DEF GmresInit
<1>5. ResidualIsOfTheSolution  BY DEF GmresInit, ResidualIsOfTheSolution, Unchecked
<1> QED BY <1>1, <1>3, <1>4, <1>5 DEF GmresInit, BooksInv

LEMMA BooksStep == BooksInv /\ [GmresNext]_gmresVars => BooksInv'
<1> SUFFICES ASSUME BooksInv, [GmresNext]_gmresVars PROVE BooksInv'
  OBVIOUS
<1>c. \A c \in Cols : col[c] \in ColumnStates
  BY DEF BooksInv
<1>r. \A c \in Cols : Released(col[c]) \in ColumnStates /\ Released(col[c]).steps = NoCycle
  BY <1>c, ReleasedColumn
<1>1. CASE \E t \in Tols : SolveWatched(t)
  <2>1. PICK t \in Tols : SolveWatched(t)  BY <1>1
  <2>2. t \in Int  BY GmresAssumption
  <2>3. \A c \in Cols : [col[c] EXCEPT !.stepped = 0] \in ColumnStates
                        /\ [col[c] EXCEPT !.stepped = 0].steps = col[c].steps
    BY <1>c DEF ColumnStates
  <2>4. col' \in [Cols -> ColumnStates] /\ \A c \in Cols : col'[c].steps = col[c].steps
    BY <2>1, <2>3 DEF SolveWatched
  <2> QED BY <2>1, <2>2, <2>4 DEF SolveWatched, BooksInv, ResidualIsOfTheSolution, Unchecked
<1>2. CASE Restart
  BY <1>2, <1>r DEF Restart, XOfClosed, BooksInv, ResidualIsOfTheSolution, Unchecked
<1>3. CASE Select
  <2> DEFINE full == \E c \in Cols : col[c].steps = M /\ res[c] = Unchecked
             admitted == IF act' = {} /\ ~full THEN {c \in Cols : col[c].waits} ELSE {}
  <2>1. /\ col' = [c \in Cols |-> IF c \in admitted THEN [col[c] EXCEPT !.waits = FALSE] ELSE col[c]]
        /\ res' = [c \in Cols |-> IF c \in admitted THEN Unchecked ELSE res[c]]
    BY <1>3 DEF Select
  <2> HIDE DEF admitted
  <2>3. \A c \in Cols : [col[c] EXCEPT !.waits = FALSE] \in ColumnStates
                        /\ [col[c] EXCEPT !.waits = FALSE].steps = col[c].steps
    BY <1>c DEF ColumnStates
  <2>4. col' \in [Cols -> ColumnStates] /\ \A c \in Cols : col'[c].steps = col[c].steps
    BY <2>1, <2>3, <1>c
  <2>5. act' \subseteq Cols  BY <1>3 DEF Select
  <2> QED BY <1>3, <2>1, <2>4, <2>5 DEF Select, BooksInv, ResidualIsOfTheSolution, Unchecked
<1>4. CASE Evict
  <2>1. PICK to, going, out_of : MakeRoom(to, going, out_of)
    <3>1. PICK free : EvictWithin(free)  BY <1>4 DEF Evict
    <3> QED BY <3>1 DEF EvictWithin
  <2> DEFINE now == {c \in going : res[c] # Unchecked}
  <2>2. /\ x' = XOfClosed(now)
        /\ col' = [c \in Cols |->
             IF c \in now THEN [Released(col[c]) EXCEPT !.waits = IF c \in out_of THEN TRUE ELSE @]
             ELSE IF c \in going THEN [col[c] EXCEPT !.evict = TRUE]
             ELSE col[c]]
        /\ act' = act \ out_of
    BY <2>1 DEF MakeRoom
  <2>n. \A c \in now : res[c] # Unchecked  OBVIOUS
  <2> HIDE DEF now
  <2>3. ASSUME NEW c \in Cols
        PROVE  /\ col'[c] \in ColumnStates
               /\ col'[c].steps = IF c \in now THEN NoCycle ELSE col[c].steps
    <3>1. CASE c \in now
      <4> DEFINE k == Released(col[c])
                 w == IF c \in out_of THEN TRUE ELSE k.waits
      <4>1. k \in ColumnStates /\ k.steps = NoCycle  BY <1>r
      <4>2. col'[c] = [k EXCEPT !.waits = w]  BY <2>2, <3>1
      <4> HIDE DEF k
      <4>3. w \in BOOLEAN  BY <4>1 DEF ColumnStates
      <4> HIDE DEF w
      <4> QED BY <3>1, <4>1, <4>2, <4>3 DEF ColumnStates
    <3>2. CASE c \notin now /\ c \in going
      <4>1. col'[c] = [col[c] EXCEPT !.evict = TRUE]  BY <2>2, <3>2
      <4> QED BY <1>c, <3>2, <4>1 DEF ColumnStates
    <3>3. CASE c \notin now /\ c \notin going
      BY <1>c, <2>2, <3>3
    <3> QED BY <3>1, <3>2, <3>3
  <2>4. col' \in [Cols -> ColumnStates]  BY <2>2, <2>3
  <2>5. UNCHANGED <<tol, out, res, chk>> /\ act' \subseteq Cols  BY <1>4, <2>2 DEF Evict, BooksInv
  <2>6. x' = [c \in Cols |-> IF c \in now THEN out[c] ELSE x[c]]  BY <2>2 DEF XOfClosed
  <2>7. ResidualIsOfTheSolution'
    BY <2>3, <2>5, <2>6, <2>n DEF BooksInv, ResidualIsOfTheSolution
  <2> QED BY <2>4, <2>5, <2>6, <2>7 DEF BooksInv
<1>5. CASE Check
  <2>1. chk' \in SUBSET Cols  BY <1>5 DEF Check, ToCheck
  <2> QED BY <1>5, <2>1, FormKeeps DEF Check, BooksInv
<1>6. CASE HandOut
  <2>1. ToCheck(TRUE) \in SUBSET Cols  BY DEF ToCheck
  <2> QED BY <1>6, <2>1, FormKeeps DEF HandOut, BooksInv
<1>7. CASE Cancel \/ PreconditionerFails
  BY <1>7 DEF Cancel, PreconditionerFails, BooksInv, ResidualIsOfTheSolution
<1>8. CASE RestartAbove
  <2> DEFINE evicted == {c \in chk : col[c].evict}
             again == {c \in chk \ evicted : ~Finished(c)}
  <2>1. PICK start \in [again -> 0..Worst] :
        /\ \A c \in again : IF setup.deflating THEN start[c] <= res[c] ELSE start[c] = res[c]
        /\ out' = [c \in Cols |-> IF c \in again THEN start[c] ELSE out[c]]
        /\ x' = [c \in Cols |-> IF c \in again THEN start[c] ELSE IF c \in evicted THEN out[c] ELSE x[c]]
        /\ res' = [c \in Cols |-> IF c \in again /\ setup.deflating THEN Unchecked ELSE res[c]]
        /\ col' = [c \in Cols |->
             IF c \in evicted THEN [Released(col[c]) EXCEPT !.evict = FALSE, !.waits = ~Finished(c)]
             ELSE IF c \in again THEN Opened(col[c], start[c])
             ELSE col[c]]
    BY <1>8 DEF RestartAbove
  <2>2. chk' = {} /\ UNCHANGED <<tol, act>>  BY <1>8 DEF RestartAbove
  <2>3. \A c \in again : start[c] \in Int  BY GmresAssumption
  <2>4. evicted \cap again = {} /\ evicted \subseteq Cols /\ again \subseteq Cols  BY DEF BooksInv
  <2> HIDE DEF evicted, again
  <2>5. \A c \in Cols : /\ [Released(col[c]) EXCEPT !.evict = FALSE, !.waits = ~Finished(c)] \in ColumnStates
                        /\ [Released(col[c]) EXCEPT !.evict = FALSE, !.waits = ~Finished(c)].steps = NoCycle
    BY <1>r DEF ColumnStates
  <2>6. \A c \in again : Opened(col[c], start[c]) \in ColumnStates /\ Opened(col[c], start[c]).steps = 0
    BY <1>c, <2>3, <2>4, OpenedColumn
  <2>7. /\ col' \in [Cols -> ColumnStates]
        /\ \A c \in Cols : col'[c].steps = IF c \in evicted THEN NoCycle ELSE IF c \in again THEN 0 ELSE col[c].steps
    BY <2>1, <2>5, <2>6, <1>c
  <2>8. ResidualIsOfTheSolution'
    BY <2>1, <2>4, <2>7 DEF BooksInv, ResidualIsOfTheSolution, Unchecked, NoCycle
  <2>9. out' \in [Cols -> Int] /\ x' \in [Cols -> Int]
    BY <2>1, <2>3 DEF BooksInv
  <2>10. res' \in [Cols -> Int]
    <3>1. Unchecked \in Int /\ res \in [Cols -> Int]  BY DEF BooksInv, Unchecked
    <3> QED BY <2>1, <3>1
  <2>11. col' \in [Cols -> ColumnStates]
    BY <2>7
  <2> QED BY <2>2, <2>8, <2>9, <2>10, <2>11 DEF BooksInv
<1>9. CASE Step
  <2>1. PICK est \in [act -> 0..Worst] :
     col' = [c \in Cols |->
          IF c \in act
          THEN [col[c] EXCEPT !.steps = @ + 1, !.stepped = @ + 1, !.est = est[c],
                              !.written = Max({@, col[c].steps + 2})]
          ELSE col[c]]
    BY <1>9 DEF Step
  <2>2. \A c \in act : c \in Cols /\ est[c] \in Int  BY GmresAssumption DEF BooksInv
  <2>3. \A c \in act : Max({col[c].written, col[c].steps + 2}) \in Int
    BY <1>c, <2>2, MaxOfTwo DEF ColumnStates
  <2>4. \A c \in act : [col[c] EXCEPT !.steps = @ + 1, !.stepped = @ + 1, !.est = est[c],
                              !.written = Max({@, col[c].steps + 2})] \in ColumnStates
    BY <1>c, <2>2, <2>3, SteppedColumn
  <2>5. col' \in [Cols -> ColumnStates] /\ \A c \in Cols \ act : col'[c] = col[c]
    BY <2>1, <2>4, <1>c
  <2>6. res' = [c \in Cols |-> IF c \in act THEN Unchecked ELSE res[c]] /\ UNCHANGED <<tol, x, out, act, chk>>
    BY <1>9 DEF Step
  <2>7. ResidualIsOfTheSolution'
    BY <2>5, <2>6 DEF BooksInv, ResidualIsOfTheSolution
  <2> QED BY <2>5, <2>6, <2>7 DEF BooksInv, Unchecked
<1>10. CASE UNCHANGED gmresVars
  BY <1>10 DEF gmresVars, BooksInv, ResidualIsOfTheSolution
<1> QED BY <1>1, <1>2, <1>3, <1>4, <1>5, <1>6, <1>7, <1>8, <1>9, <1>10 DEF GmresNext, InSolve

(***************************************************************************)
(* Room.  The memory of a column alone, as it stands and as it may grow.   *)
(***************************************************************************)
BytesOf(k, b) == IF k.written > 0 THEN Unit(b) + (k.written - 1) * Layer(b) ELSE 0
GrowthOf(k, to, b) ==
  LET written == Max({k.written - 1, k.steps}) IN Layer(b) * (IF to > written THEN to - written ELSE 0)

LEMMA OfColumn ==
  ASSUME NEW c, NEW to, NEW b
  PROVE  Bytes(c, b) = BytesOf(col[c], b) /\ Growth(c, to, b) = GrowthOf(col[c], to, b)
BY DEF Bytes, BytesOf, Holds, Growth, GrowthOf

LEMMA Units == ASSUME NEW b PROVE Unit(b) \in {1, 2} /\ Layer(b) \in {1, 2, 4}
BY DEF Unit, Layer

LEMMA BytesAreNat == ASSUME NEW k \in ColumnStates, NEW b PROVE BytesOf(k, b) \in Nat
<1>1. Unit(b) \in {1, 2} /\ Layer(b) \in {1, 2, 4}  BY Units
<1>2. k.written \in Int  BY DEF ColumnStates
<1> QED BY <1>1, <1>2 DEF BytesOf

\* A column that goes further grows by more.
LEMMA GrowthGrows ==
  ASSUME NEW k \in ColumnStates, NEW b, NEW m \in Int, NEW n \in Int, m <= n
  PROVE  GrowthOf(k, m, b) \in Nat /\ GrowthOf(k, n, b) \in Nat /\ GrowthOf(k, m, b) <= GrowthOf(k, n, b)
<1>1. Layer(b) \in {1, 2, 4}  BY Units
<1>2. k.written - 1 \in Int /\ k.steps \in Int  BY DEF ColumnStates
<1>3. Max({k.written - 1, k.steps}) \in Int  BY <1>2, MaxOfTwo
<1> DEFINE w == Max({k.written - 1, k.steps})
<1>4. GrowthOf(k, m, b) = Layer(b) * (IF m > w THEN m - w ELSE 0)  BY DEF GrowthOf
<1>5. GrowthOf(k, n, b) = Layer(b) * (IF n > w THEN n - w ELSE 0)  BY DEF GrowthOf
<1>6. w \in Int  BY <1>3
<1> HIDE DEF w
<1> QED BY <1>1, <1>4, <1>5, <1>6

RoomInv ==
  /\ BooksInv
  /\ setup \in Setups
  /\ stage = "evict" => \A c \in act : col[c].steps < M

LEMMA RoomStart == GmresInit => RoomInv
BY BooksStart DEF GmresInit, RoomInv

LEMMA RoomStep == RoomInv /\ [GmresNext]_gmresVars => RoomInv'
<1> SUFFICES ASSUME RoomInv, [GmresNext]_gmresVars PROVE RoomInv'
  OBVIOUS
<1>1. BooksInv'  BY BooksStep DEF RoomInv
<1>2. CASE Select
  <2>1. setup' = setup /\ act' = {c \in Cols : CanStep(c)}  BY <1>2 DEF Select
  <2>2. \A c \in Cols : col'[c] = col[c] \/ col'[c] = [col[c] EXCEPT !.waits = FALSE]
    BY <1>2 DEF Select
  <2>3. \A c \in Cols : [col[c] EXCEPT !.waits = FALSE].steps = col[c].steps
    BY DEF RoomInv, BooksInv, ColumnStates
  <2>4. \A c \in act' : col'[c].steps < M
    BY <2>1, <2>2, <2>3 DEF CanStep
  <2> QED BY <1>1, <2>1, <2>4 DEF RoomInv, M
<1>3. CASE UNCHANGED gmresVars
  BY <1>1, <1>3 DEF gmresVars, RoomInv, M
<1>4. ASSUME ~Select, GmresNext PROVE setup' = setup /\ stage' # "evict"
  <2>1. CASE \E t \in Tols : SolveWatched(t)  BY <2>1 DEF SolveWatched
  <2>2. CASE Restart
    BY <2>2 DEF Restart
  <2>3. CASE Evict  BY <2>3 DEF Evict
  <2>4. CASE Check  BY <2>4 DEF Check
  <2>5. CASE HandOut  BY <2>5 DEF HandOut
  <2>6. CASE Cancel \/ PreconditionerFails  BY <2>6 DEF Cancel, PreconditionerFails
  <2>7. CASE RestartAbove  BY <2>7 DEF RestartAbove
  <2>8. CASE Step  BY <2>8 DEF Step
  <2> QED BY <1>4, <2>1, <2>2, <2>3, <2>4, <2>5, <2>6, <2>7, <2>8 DEF GmresNext, InSolve
<1> QED BY <1>1, <1>2, <1>3, <1>4 DEF RoomInv

(***************************************************************************)
(* The stepping columns close from the worst estimate on: those before the *)
(* first at which the closing stops, or all.                               *)
(***************************************************************************)
LEMMA WorseAscends ==
  ASSUME BooksInv
  PROVE  /\ \A c \in act : c \notin Worse(c)
         /\ \A c, d \in act : c = d \/ c \in Worse(d) \/ d \in Worse(c)
         /\ \A c, d \in act : c \in Worse(d) => d \notin Worse(c) /\ Worse(c) \subseteq Worse(d)
<1>1. \A c \in act : c \in Nat /\ col[c].est \in Int
  BY GmresAssumption DEF BooksInv, ColumnStates
<1>2. \A c, d \in act : c \in Worse(d) <=> col[c].est > col[d].est \/ (col[c].est = col[d].est /\ c < d)
  BY DEF Worse, ByEstimate
<1>3. \A d \in act : Worse(d) \subseteq act  BY DEF Worse
<1>4. ASSUME NEW c \in act, NEW d \in act, c \in Worse(d) PROVE d \notin Worse(c) /\ Worse(c) \subseteq Worse(d)
  <2>1. ASSUME NEW e \in Worse(c) PROVE e \in Worse(d)
    <3>1. e \in act  BY <1>3, <2>1
    <3> QED BY <1>1, <1>2, <1>4, <2>1, <3>1
  <2> QED BY <1>1, <1>2, <1>4, <2>1
<1>5. \A c \in act : c \notin Worse(c)  BY <1>1, <1>2
<1>6. \A c, d \in act : c = d \/ c \in Worse(d) \/ d \in Worse(c)  BY <1>1, <1>2
<1> QED BY <1>4, <1>5, <1>6

LEMMA ClosingStops ==
  ASSUME BooksInv, NEW free, NEW b, act \ ClosedForRoom(free, b) # {}
  PROVE  \E d \in act : StopsAt(d, free, b) /\ ClosedForRoom(free, b) = Worse(d)
<1> DEFINE Stopping == {d \in act : StopsAt(d, free, b)}
           C == {Worse(d) : d \in Stopping}
<1>1. \A d \in act : Worse(d) \subseteq act  BY DEF Worse
<1>2. PICK s \in Stopping : TRUE  BY <1>1 DEF ClosedForRoom
<1>3. \A S \in C : IsFiniteSet(S)
  <2>1. IsFiniteSet(act)  BY GmresAssumption, FS_Subset DEF BooksInv
  <2> QED BY <1>1, <2>1, FS_Subset
<1>4. PICK R \in C : \A Q \in C : ~(Q \subseteq R /\ Q # R)
  <2>1. Worse(s) \in C  BY <1>2
  <2> HIDE DEF C
  <2> QED BY <1>3, <2>1, LeastSet
<1>5. PICK d \in Stopping : R = Worse(d)  BY <1>4
<1>6. ASSUME NEW e \in Stopping, e \in Worse(d) PROVE FALSE
  <2>1. Worse(e) \subseteq Worse(d) /\ e \notin Worse(e)  BY <1>6, WorseAscends
  <2> QED BY <1>4, <1>5, <1>6, <2>1
<1>7. ASSUME NEW c \in act PROVE c \in ClosedForRoom(free, b) <=> c \in Worse(d)
  <2>1. ASSUME c \in Worse(d) PROVE \A e \in Worse(c) \cup {c} : ~StopsAt(e, free, b)
    <3>1. Worse(c) \cup {c} \subseteq Worse(d)  BY <2>1, WorseAscends
    <3> QED BY <1>1, <1>6, <3>1
  <2>2. ASSUME c \notin Worse(d) PROVE d \in Worse(c) \cup {c}
    BY <2>2, WorseAscends
  <2> QED BY <1>5, <1>7, <2>1, <2>2 DEF ClosedForRoom
<1>8. ClosedForRoom(free, b) \subseteq act  BY DEF ClosedForRoom
<1> QED BY <1>1, <1>5, <1>7, <1>8

\* What the stepping columns that stay may step on with is at hand.
LEMMA LeftHasRoom ==
  ASSUME BooksInv, \A c \in act : col[c].steps < M, M \in Int,
         NEW free \in Int, NEW b, NEW left, left = act \ ClosedForRoom(free, b), left # {},
         ~ \E c \in left : left = {c} /\ col[c].steps = 0
  PROVE  SumAt([c \in left |-> GrowthOf(col[c], col[c].steps + 1, b)], left)
           <= free + SumAt([c \in Cols |-> BytesOf(col[c], b)], act \ left)
<1>1. PICK d \in act : StopsAt(d, free, b) /\ ClosedForRoom(free, b) = Worse(d)
  BY ClosingStops
<1>2. left = LeftAt(d) /\ act \ left = Worse(d) /\ Worse(d) \subseteq act
  BY <1>1 DEF LeftAt, Worse
<1> DEFINE had == free + SumAt([c \in act |-> Bytes(c, b)], Worse(d))
           step == [c \in left |-> GrowthOf(col[c], col[c].steps + 1, b)]
           full == [c \in act |-> Growth(c, M, b)]
           byt == [c \in Cols |-> BytesOf(col[c], b)]
<1>3. act \subseteq Cols /\ IsFiniteSet(act) /\ left \subseteq act /\ IsFiniteSet(left) /\ IsFiniteSet(Worse(d))
  BY <1>2, GmresAssumption, FS_Subset DEF BooksInv
<1>4. \A c \in act : col[c] \in ColumnStates /\ col[c].steps \in Int
  BY <1>3 DEF BooksInv, ColumnStates
<1>5. SumAt([c \in act |-> Bytes(c, b)], Worse(d)) = SumAt(byt, Worse(d))
  <2>1. \A c \in Worse(d) : /\ [e \in act |-> Bytes(e, b)][c] \in Nat
                            /\ byt[c] = [e \in act |-> Bytes(e, b)][c]
    BY <1>2, <1>3, <1>4, OfColumn, BytesAreNat
  <2> HIDE DEF byt
  <2> QED BY <1>3, <2>1, SumEqual
<1>6. had = free + SumAt(byt, act \ left)
  BY <1>2, <1>5
<1>7. \A c \in left : step[c] \in Nat /\ full[c] \in Nat /\ step[c] <= full[c] /\ step[c] = Growth(c, col[c].steps + 1, b)
  <2> SUFFICES ASSUME NEW c \in left
               PROVE  step[c] \in Nat /\ full[c] \in Nat /\ step[c] <= full[c] /\ step[c] = Growth(c, col[c].steps + 1, b)
    OBVIOUS
  <2>1. c \in act /\ col[c] \in ColumnStates /\ col[c].steps + 1 \in Int /\ col[c].steps + 1 <= M
    BY <1>3, <1>4
  <2>2. step[c] = GrowthOf(col[c], col[c].steps + 1, b) /\ full[c] = GrowthOf(col[c], M, b)
    BY <2>1, OfColumn
  <2> QED BY <2>1, <2>2, OfColumn, GrowthGrows
<1>8. had \in Int
  <2>1. \A c \in act : byt[c] \in Nat  BY <1>3, <1>4, BytesAreNat
  <2> HIDE DEF byt
  <2>2. SumAt(byt, act \ left) \in Nat  BY <1>3, <2>1, FS_Subset, SumType
  <2> QED BY <1>6, <2>2
<1>9. SumAt(step, left) <= SumAt(full, left) /\ SumAt(step, left) \in Nat /\ SumAt(full, left) \in Nat
  <2> HIDE DEF step, full
  <2> QED BY <1>3, <1>7, SumBelow, SumType
<1>10. CASE had >= SumAt(full, left)
  <2> HIDE DEF step, full, had
  <2>1. SumAt(step, left) <= had  BY <1>8, <1>9, <1>10
  <2> QED BY <1>6, <2>1 DEF step
<1>11. CASE left = {d} /\ had >= Growth(d, col[d].steps + 1, b)
  <2>1. SumAt(step, left) = step[d] + SumAt(step, left \ {d})
    <3> HIDE DEF step
    <3> QED BY <1>3, <1>7, <1>11, SumTakes
  <2>2. left \ {d} = {} /\ SumAt(step, {}) = 0  BY <1>11, SumEmpty
  <2>3. step[d] = Growth(d, col[d].steps + 1, b) /\ step[d] \in Nat  BY <1>7, <1>11
  <2> HIDE DEF step, had
  <2>4. SumAt(step, left) <= had  BY <1>11, <2>1, <2>2, <2>3
  <2> QED BY <1>6, <2>4 DEF step
<1>12. had >= SumAt(full, left) \/ (left = {d} /\ had >= Growth(d, col[d].steps + 1, b))
  <2>1. \/ had >= SumAt(full, LeftAt(d))
        \/ LeftAt(d) = {d} /\ (col[d].steps = 0 \/ had >= Growth(d, col[d].steps + 1, b))
    BY <1>1 DEF StopsAt
  <2> HIDE DEF had, full
  <2> QED BY <1>2, <2>1
<1> QED BY <1>10, <1>11, <1>12

LEMMA ReleasedHoldsNothing ==
  ASSUME NEW k \in ColumnStates, NEW w \in BOOLEAN, NEW b
  PROVE  BytesOf([Released(k) EXCEPT !.waits = w], b) = 0
<1>1. Released(k) \in ColumnStates  BY ReleasedColumn
<1>2. Released(k).written = 0  BY GmresAssumption DEF Released, ColumnStates, NoCycle
<1>3. [Released(k) EXCEPT !.waits = w].written = 0  BY <1>1, <1>2 DEF ColumnStates
<1> QED BY <1>3 DEF BytesOf

\* Room as made for a step: the bases after it are no larger than what was held
\* and what was free.
LEMMA RoomAfter ==
  ASSUME RoomInv, M \in Int, stage = "evict", NEW free \in Nat, EvictWithin(free),
         UNCHANGED <<setup, res>>, StepIsNext'
  PROVE  \/ \E c \in act' : act' = {c} /\ col'[c].steps = 0
         \/ (BasisBytes(basis) + StepBytes(act, basis))' \in 0..free + BasisBytes(basis)
<1> SUFFICES ASSUME ~ \E c \in act' : act' = {c} /\ col'[c].steps = 0
             PROVE  (BasisBytes(basis) + StepBytes(act, basis))' \in 0..free + BasisBytes(basis)
  OBVIOUS
<1> DEFINE Free(b) == (free + BasisBytes(basis)) - BasisBytes(b)
           fitting == SelectSeq(Representations, LAMBDA b : Free(b) >= StepBytes(act, b))
           to == IF fitting = <<>> THEN Last(Representations) ELSE Head(fitting)
           gave == SumAt([c \in Cols |-> Bytes(c, to)], NotStepping)
           out_of == ClosedForRoom(Free(to) + gave, to)
<1>1. IF Free(to) >= StepBytes(act, to) THEN MakeRoom(to, {}, {}) ELSE MakeRoom(to, NotStepping \cup out_of, out_of)
  BY DEF EvictWithin
<1>2. IF (free + BasisBytes(basis)) - BasisBytes(to) >= StepBytes(act, to) THEN MakeRoom(to, {}, {})
      ELSE MakeRoom(to, NotStepping \cup ClosedForRoom(((free + BasisBytes(basis)) - BasisBytes(to)) + gave, to),
                    ClosedForRoom(((free + BasisBytes(basis)) - BasisBytes(to)) + gave, to))
  BY <1>1
<1> HIDE DEF to, fitting
<1> HIDE DEF Free, out_of
<1> DEFINE byt == [c \in Cols |-> BytesOf(col[c], to)]
           bytNext == [c \in Cols |-> BytesOf(col'[c], to)]
           stepNext == [c \in act' |-> GrowthOf(col'[c], col'[c].steps + 1, to)]
           held == BasisBytes(basis)
<1>3. BooksInv /\ act \subseteq Cols /\ IsFiniteSet(Cols) /\ \A c \in Cols : col[c] \in ColumnStates
  BY GmresAssumption DEF RoomInv, BooksInv
<1>4. BasisBytes(to) = SumAt(byt, Cols) /\ gave = SumAt(byt, NotStepping)
  <2>1. [c \in Cols |-> Bytes(c, to)] = byt  BY OfColumn
  <2> HIDE DEF byt
  <2> QED BY <2>1 DEF BasisBytes
<1>5. held \in Nat
  <2>1. held = SumAt([c \in Cols |-> BytesOf(col[c], basis)], Cols)  BY OfColumn DEF BasisBytes
  <2>2. \A c \in Cols : [e \in Cols |-> BytesOf(col[e], basis)][c] \in Nat  BY <1>3, BytesAreNat
  <2> QED BY <1>3, <2>1, <2>2, SumType
<1>6. basis' = to
  BY <1>2 DEF MakeRoom
<1>7. /\ BasisBytes(basis)' = SumAt(bytNext, Cols)
      /\ StepBytes(act, basis)' = SumAt(stepNext, act')
  BY <1>6 DEF BasisBytes, StepBytes, Bytes, BytesOf, Holds, Growth, GrowthOf, Unit, Layer
<1>8. \A c \in Cols : byt[c] \in Nat
  BY <1>3, BytesAreNat
<1>9. CASE (free + held) - BasisBytes(to) >= StepBytes(act, to)
  <2>1. MakeRoom(to, {}, {})  BY <1>2, <1>9
  <2>2. col' = col /\ act' = act
    BY <2>1, <1>3 DEF MakeRoom, BooksInv
  <2>3. bytNext = byt /\ SumAt(stepNext, act') = StepBytes(act, to)
    BY <2>2, OfColumn DEF StepBytes
  <2>4. SumAt(byt, Cols) \in Nat
    <3> HIDE DEF byt
    <3> QED BY <1>3, <1>8, SumType
  <2>5. StepBytes(act, to) \in Nat
    <3>1. StepBytes(act, to) = SumAt([c \in act |-> GrowthOf(col[c], col[c].steps + 1, to)], act)
      BY OfColumn DEF StepBytes
    <3>2. \A c \in act : [e \in act |-> GrowthOf(col[e], col[e].steps + 1, to)][c] \in Nat
      <4> SUFFICES ASSUME NEW c \in act PROVE GrowthOf(col[c], col[c].steps + 1, to) \in Nat
        OBVIOUS
      <4>1. col[c] \in ColumnStates /\ col[c].steps + 1 \in Int  BY <1>3 DEF ColumnStates
      <4> QED BY <4>1, GrowthGrows
    <3>3. IsFiniteSet(act)  BY <1>3, FS_Subset
    <3> QED BY <3>1, <3>2, <3>3, SumType
  <2> HIDE DEF byt, bytNext, stepNext, held
  <2> QED BY <1>4, <1>5, <1>7, <1>9, <2>3, <2>4, <2>5 DEF held
<1>10. CASE ~((free + held) - BasisBytes(to) >= StepBytes(act, to))
  <2> DEFINE had == ((free + held) - BasisBytes(to)) + gave
             closed == ClosedForRoom(had, to)
             going == NotStepping \cup closed
             now == {c \in going : res[c] # Unchecked}
  <2>1. MakeRoom(to, going, closed)  BY <1>2, <1>10
  <2>2. closed \subseteq act /\ NotStepping \subseteq Cols \ act
    BY DEF ClosedForRoom, NotStepping
  <2> HIDE DEF closed
  <2>3. /\ act' = act \ closed
        /\ col' = [c \in Cols |->
             IF c \in now THEN [Released(col[c]) EXCEPT !.waits = IF c \in closed THEN TRUE ELSE @]
             ELSE IF c \in going THEN [col[c] EXCEPT !.evict = TRUE]
             ELSE col[c]]
    BY <2>1 DEF MakeRoom
  \* Nothing is checked before the step: all that go are released.
  <2>4. now = going
    <3>1. \A c \in Cols : ~(res[c] = Unchecked /\ col'[c].evict)
      BY DEF StepIsNext, ToCheck
    <3>2. ASSUME NEW c \in going, res[c] = Unchecked PROVE FALSE
      <4>1. c \in Cols /\ c \notin now  BY <1>3, <2>2, <3>2
      <4>2. col'[c] = [col[c] EXCEPT !.evict = TRUE]  BY <2>3, <3>2, <4>1
      <4>3. col'[c].evict = TRUE  BY <1>3, <4>1, <4>2 DEF ColumnStates
      <4> QED BY <3>1, <3>2, <4>1, <4>3
    <3> QED BY <3>2
  <2>5. ASSUME NEW c \in going PROVE bytNext[c] = 0
    <3>1. c \in Cols /\ c \in now  BY <1>3, <2>2, <2>4, <2>5
    <3> DEFINE k == Released(col[c])
               w == IF c \in closed THEN TRUE ELSE k.waits
    <3>2. k \in ColumnStates  BY <1>3, <3>1, ReleasedColumn
    <3>3. col'[c] = [k EXCEPT !.waits = w]  BY <2>3, <3>1
    <3>4. w \in BOOLEAN
      <4> HIDE DEF k
      <4> QED BY <3>2 DEF ColumnStates
    <3> HIDE DEF w
    <3>5. BytesOf([k EXCEPT !.waits = w], to) = 0  BY <1>3, <3>1, <3>4, ReleasedHoldsNothing
    <3> QED BY <3>1, <3>3, <3>5
  <2>6. \A c \in Cols \ going : col'[c] = col[c]
    BY <2>3
  <2> HIDE DEF now
  <2> DEFINE left == act'
  <2>7. left \subseteq act /\ left \cap going = {} /\ left = act \ closed /\ act \ left = closed
    BY <2>2, <2>3
  <2>8. left # {}  BY DEF StepIsNext
  <2>9. had \in Int
    <3>1. SumAt(byt, Cols) \in Nat /\ SumAt(byt, NotStepping) \in Nat
      <4> HIDE DEF byt
      <4>1. NotStepping \in SUBSET Cols  BY <2>2
      <4> QED BY <1>3, <1>8, <4>1, FS_Subset, SumType
    <3> HIDE DEF byt, held, gave
    <3> QED BY <1>4, <1>5, <3>1
  <2>10. SumAt(stepNext, left) <= had + SumAt(byt, closed)
    <3>1. \A c \in left : col'[c] = col[c]  BY <1>3, <2>6, <2>7
    <3>2. stepNext = [c \in left |-> GrowthOf(col[c], col[c].steps + 1, to)]  BY <3>1
    <3>3. ~ \E c \in left : left = {c} /\ col[c].steps = 0  BY <3>1
    <3>4. \A c \in act : col[c].steps < M  BY DEF RoomInv
    <3>5. left = act \ ClosedForRoom(had, to)  BY <2>7 DEF closed
    <3> HIDE DEF had, left, stepNext
    <3>6. SumAt([c \in left |-> GrowthOf(col[c], col[c].steps + 1, to)], left)
            <= had + SumAt([c \in Cols |-> BytesOf(col[c], to)], act \ left)
      BY <1>3, <2>8, <2>9, <3>3, <3>4, <3>5, LeftHasRoom
    <3> QED BY <2>7, <3>2, <3>6
  \* What is held after is what the columns that stay hold.
  <2>11. \A S \in SUBSET Cols : IsFiniteSet(S) /\ SumAt(byt, S) \in Nat
    <3> HIDE DEF byt
    <3> QED BY <1>3, <1>8, FS_Subset, SumType
  <2>12. \A c \in Cols : bytNext[c] \in Nat /\ (c \in left => bytNext[c] = byt[c])
    <3>1. \A c \in Cols \ going : bytNext[c] = byt[c]  BY <2>6
    <3> HIDE DEF byt, bytNext
    <3> QED BY <1>3, <1>8, <2>5, <2>7, <3>1
  <2>13. \A c \in Cols \ left : bytNext[c] = 0
    <3> SUFFICES ASSUME NEW c \in Cols \ left, c \notin going PROVE bytNext[c] = 0
      BY <2>5
    <3>1. c \notin act /\ ~Holds(c)  BY <2>7 DEF NotStepping
    <3>2. col'[c] = col[c]  BY <2>6
    <3> QED BY <3>1, <3>2 DEF Holds, BytesOf
  <2>14. SumAt(bytNext, Cols) = SumAt(byt, left)
    <3> HIDE DEF byt, bytNext
    <3>1. left \in SUBSET Cols /\ IsFiniteSet(left) /\ IsFiniteSet(Cols \ left)  BY <1>3, <2>7, FS_Subset
    <3>2. SumAt(bytNext, Cols) = SumAt(bytNext, left) + SumAt(bytNext, Cols \ left)
      BY <1>3, <2>12, <3>1, SumSplit
    <3>3. SumAt(bytNext, Cols \ left) = 0  BY <2>13, <3>1, SumOfZeros
    <3>4. SumAt(byt, left) = SumAt(bytNext, left)
      <4>1. \A c \in left : byt[c] \in Nat /\ bytNext[c] = byt[c]  BY <1>8, <2>12, <3>1
      <4> QED BY <3>1, <4>1, SumEqual
    <3>5. SumAt(byt, left) \in Nat  BY <2>11, <3>1
    <3> QED BY <3>2, <3>3, <3>4, <3>5
  <2>15. SumAt(byt, Cols) = (SumAt(byt, left) + SumAt(byt, closed)) + SumAt(byt, NotStepping)
    <3> HIDE DEF left
    <3> DEFINE off == Cols \ act
    <3>1. /\ act \in SUBSET Cols /\ off \in SUBSET Cols /\ left \in SUBSET act /\ NotStepping \in SUBSET off
          /\ off \ NotStepping \in SUBSET Cols
      BY <1>3, <2>2, <2>7
    <3>2. \A c \in off \ NotStepping : byt[c] = 0
      BY <3>1 DEF NotStepping, Holds, BytesOf
    <3> HIDE DEF byt, closed
    <3>3. SumAt(byt, Cols) = SumAt(byt, act) + SumAt(byt, off)  BY <1>3, <1>8, <3>1, SumSplit
    <3>4. SumAt(byt, act) = SumAt(byt, left) + SumAt(byt, closed)
      <4>1. \A c \in act : byt[c] \in Nat  BY <1>8, <3>1
      <4> QED BY <2>7, <2>11, <3>1, <4>1, SumSplit, SMTT(30)
    <3>5. SumAt(byt, off) = SumAt(byt, NotStepping) + SumAt(byt, off \ NotStepping)
      <4>1. \A c \in off : byt[c] \in Nat  BY <1>8, <3>1
      <4> HIDE DEF off
      <4> QED BY <2>11, <3>1, <4>1, SumSplit
    <3>6. SumAt(byt, off \ NotStepping) = 0
      <4> HIDE DEF off
      <4> QED BY <2>11, <3>1, <3>2, SumOfZeros
    <3>7. SumAt(byt, NotStepping) \in Nat  BY <2>11, <3>1
    <3> QED BY <3>3, <3>4, <3>5, <3>6, <3>7
  <2>16. /\ SumAt(byt, left) \in Nat /\ SumAt(byt, closed) \in Nat /\ SumAt(byt, NotStepping) \in Nat
         /\ SumAt(stepNext, left) \in Nat
    <3>1. left \in SUBSET Cols /\ closed \in SUBSET Cols /\ NotStepping \in SUBSET Cols  BY <1>3, <2>2, <2>7
    <3>2. \A c \in left : stepNext[c] \in Nat
      <4> SUFFICES ASSUME NEW c \in left PROVE GrowthOf(col'[c], col'[c].steps + 1, to) \in Nat
        OBVIOUS
      <4>1. col'[c] = col[c]  BY <1>3, <2>6, <2>7
      <4>2. col[c] \in ColumnStates /\ col[c].steps + 1 \in Int  BY <1>3, <3>1 DEF ColumnStates
      <4> QED BY <4>1, <4>2, GrowthGrows
    <3> HIDE DEF byt, stepNext, left, closed
    <3>3. SumAt(stepNext, left) \in Nat  BY <2>11, <3>1, <3>2, SumType
    <3> QED BY <2>11, <3>1, <3>3
  <2> HIDE DEF byt, bytNext, stepNext, held, closed
  <2>17. SumAt(bytNext, Cols) + SumAt(stepNext, left) \in 0..free + held
    <3>1. had = ((free + held) - SumAt(byt, Cols)) + SumAt(byt, NotStepping)  BY <1>4
    <3> HIDE DEF had, left, gave
    <3> QED BY <1>5, <2>10, <2>14, <2>15, <2>16, <3>1
  <2> QED BY <1>7, <2>17 DEF held
<1> QED BY <1>9, <1>10

\* What counts as free is at most the rest of the room.
LEMMA FreeIsInRoom ==
  ASSUME NEW room \in Nat, NEW held \in Nat, NEW live \in Nat
  PROVE  LET free == Min({IF room - held > 0 THEN room - held ELSE 0, live})
         IN free \in Nat /\ free + held <= Max({room, held})
<1> DEFINE rest == IF room - held > 0 THEN room - held ELSE 0
<1>1. rest \in Nat  OBVIOUS
<1>2. Min({rest, live}) = IF rest <= live THEN rest ELSE live  BY <1>1, MinOfTwo
<1>3. Max({room, held}) = IF room >= held THEN room ELSE held  BY MaxOfTwo
<1> QED BY <1>2, <1>3

LEMMA EvictMakesRoom == RoomInv /\ [GmresNext]_gmresVars => RoomIsMade
<1> SUFFICES ASSUME RoomInv, [GmresNext]_gmresVars, stage = "evict", stage' = "check", StepIsNext'
             PROVE  \/ \E c \in act' : act' = {c} /\ col'[c].steps = 0
                    \/ (BasisBytes(basis) + StepBytes(act, basis))' <= Max({setup.room, BasisBytes(basis)})
  BY DEF RoomIsMade
<1>1. Evict
  BY DEF GmresNext, InSolve, gmresVars, SolveWatched, Restart, Select, Check, Cancel, RestartAbove, Step,
         PreconditionerFails, HandOut
<1>2. PICK live \in (IF setup.probed THEN {0, Layer(basis), NoBound} ELSE {NoBound}) : EvictWithin(FreeOf(live))
  BY <1>1 DEF Evict
<1>3. live \in Nat /\ UNCHANGED <<setup, res>>
  BY <1>1, <1>2, Units DEF Evict, NoBound
<1>4. setup.room \in Nat /\ M \in Int
  BY GmresAssumption DEF RoomInv, IsSetup, M
<1>5. BasisBytes(basis) \in Nat
  <2>1. BasisBytes(basis) = SumAt([c \in Cols |-> BytesOf(col[c], basis)], Cols)  BY OfColumn DEF BasisBytes
  <2>2. \A c \in Cols : [e \in Cols |-> BytesOf(col[e], basis)][c] \in Nat
    BY BytesAreNat DEF RoomInv, BooksInv
  <2> QED BY GmresAssumption, <2>1, <2>2, SumType
<1>6. FreeOf(live) \in Nat /\ FreeOf(live) + BasisBytes(basis) <= Max({setup.room, BasisBytes(basis)})
  BY <1>3, <1>4, <1>5, FreeIsInRoom DEF FreeOf
<1>7. \/ \E c \in act' : act' = {c} /\ col'[c].steps = 0
      \/ (BasisBytes(basis) + StepBytes(act, basis))' \in 0..FreeOf(live) + BasisBytes(basis)
  BY <1>2, <1>3, <1>4, <1>6, RoomAfter
<1>8. Max({setup.room, BasisBytes(basis)}) \in Nat  BY <1>4, <1>5, MaxOfTwo
<1>9. \A n \in 0..FreeOf(live) + BasisBytes(basis) : n <= Max({setup.room, BasisBytes(basis)})
  BY <1>5, <1>6, <1>8
<1> QED BY <1>7, <1>9

(***************************************************************************)
(* Who is served.  What a call leaves of a column, and why: its true       *)
(* residual is known, no lower than its estimate; above the tolerance with *)
(* steps left it waits for memory, starts a cycle, or is one an earlier    *)
(* call left open that this one has not stepped.                           *)
(***************************************************************************)
Checked(c) == res[c] # Unchecked
UnderCheck(c) == stage = "checked" /\ c \in chk
InLoop == stage \in {"select", "evict", "check", "checked", "step"}
Answered(c) == (c \in carried /\ col[c].stepped = 0) \/ col[c].waits
Excused == \A c \in Cols : (col[c].waits => NothingStepped) /\ (Unserved(c) => Answered(c))

ColumnKept(c) ==
  /\ col[c].steps >= NoCycle /\ col[c].stepped >= 0
  /\ col[c].written >= 0 /\ (col[c].written > 0 <=> col[c].steps # NoCycle)
  /\ col[c].waits => col[c].steps = NoCycle /\ Checked(c) /\ ~UnderCheck(c)
  /\ Checked(c) /\ col[c].steps # NoCycle => col[c].est <= res[c] /\ (col[c].steps = 0 => col[c].est = res[c])
  /\ InLoop /\ ~UnderCheck(c) /\ Checked(c) /\ ~Finished(c) => Answered(c) \/ col[c].steps = 0

\* Once a column has stepped, all have that are in a cycle and may go on.
SteppedTogether == NothingStepped \/ \A c \in Cols : CanStep(c) /\ col[c].steps > 0 => col[c].stepped > 0

AtEvict ==
  /\ act = {c \in Cols : CanStep(c)}
  /\ act = {} /\ (\E c \in Cols : col[c].waits) => \E c \in Cols : col[c].steps = M /\ ~Checked(c)
AtCheck ==
  /\ \A c \in act : CanStep(c)
  /\ \A c \in Cols \ act : CanStep(c) => col[c].evict /\ ~Checked(c)
  /\ act = {} /\ ToCheck(TRUE) = {} /\ (\E c \in Cols : col[c].waits) => NothingStepped

LoopKept ==
  /\ InLoop => result = "none" /\ SteppedTogether
  /\ stage = "evict" => AtEvict
  /\ stage = "check" => AtCheck
  /\ stage = "checked" => \A c \in chk : Checked(c)
  /\ stage = "step" => \A c \in Cols : CanStep(c) <=> c \in act
  /\ stage = "final" => result \in {"none", "stalled"} /\ (result = "none" => ToCheck(TRUE) = {} /\ Excused)
  /\ AtHandOut => Excused

ServedInv == RoomInv /\ tol >= 0 /\ (\A c \in Cols : ColumnKept(c)) /\ LoopKept

\* The numbers the books are kept in.
LEMMA BookTypes ==
  ASSUME BooksInv, setup \in Setups
  PROVE  /\ \A c \in Cols : /\ col[c].steps \in Int /\ col[c].stepped \in Int /\ col[c].est \in Int
                            /\ col[c].written \in Int /\ col[c].waits \in BOOLEAN /\ col[c].evict \in BOOLEAN
                            /\ res[c] \in Int
         /\ tol \in Int /\ M \in Nat \ {0} /\ MaxIter \in Nat
         /\ NoCycle = -1 /\ Unchecked = -1
<1>1. \A c \in Cols : col[c] \in ColumnStates /\ res[c] \in Int  BY DEF BooksInv
<1>2. M \in Nat \ {0} /\ MaxIter \in Nat  BY GmresAssumption DEF IsSetup, M, MaxIter
<1> QED BY <1>1, <1>2 DEF BooksInv, ColumnStates, NoCycle, Unchecked

LEMMA ReleasedFields ==
  ASSUME NEW k \in ColumnStates
  PROVE  /\ Released(k).steps = NoCycle /\ Released(k).written = 0
         /\ Released(k).stepped = k.stepped /\ Released(k).waits = k.waits /\ Released(k).evict = k.evict
BY DEF Released, ColumnStates

LEMMA OpenedFields ==
  ASSUME NEW k \in ColumnStates, NEW e \in Int
  PROVE  /\ Opened(k, e).steps = 0 /\ Opened(k, e).est = e
         /\ Opened(k, e).written = IF k.written = 0 THEN 1 ELSE k.written
         /\ Opened(k, e).stepped = k.stepped /\ Opened(k, e).waits = k.waits /\ Opened(k, e).evict = k.evict
BY DEF Opened, ColumnStates

LEMMA ServedStart == GmresInit => ServedInv
<1> SUFFICES ASSUME GmresInit PROVE ServedInv
  OBVIOUS
<1>1. RoomInv  BY RoomStart
<1>2. ASSUME NEW c \in Cols PROVE ColumnKept(c)
  <2>1. col[c] = NewColumn /\ stage = "idle"  BY DEF GmresInit
  <2> QED BY <2>1 DEF NewColumn, ColumnKept, NoCycle, Checked, InLoop
<1>3. LoopKept  BY DEF GmresInit, LoopKept, InLoop, AtHandOut
<1>4. tol >= 0  BY GmresAssumption DEF GmresInit
<1> QED BY <1>1, <1>2, <1>3, <1>4 DEF ServedInv

\* A call starts.
LEMMA ServedSolve ==
  ASSUME ServedInv, RoomInv', NEW t \in Tols, SolveWatched(t)
  PROVE  ServedInv'
<1>1. t \in Nat /\ BooksInv /\ setup \in Setups /\ BooksInv' /\ setup' \in Setups
  BY GmresAssumption DEF ServedInv, RoomInv
<1>2. \A c \in Cols : /\ col'[c].steps = col[c].steps /\ col'[c].stepped = 0 /\ col'[c].est = col[c].est
                      /\ col'[c].written = col[c].written /\ col'[c].waits = col[c].waits
  BY <1>1 DEF SolveWatched, BooksInv, ColumnStates
<1>3. \A c \in Cols : res'[c] = IF col[c].steps = NoCycle /\ ~col[c].waits /\ res[c] > t THEN Unchecked ELSE res[c]
  BY DEF SolveWatched, StartsAgain
<1>4. stage' = "select" /\ result' = "none" /\ tol' = t /\ carried' = {c \in Cols : col[c].steps # NoCycle}
  BY DEF SolveWatched
<1>5. ASSUME NEW c \in Cols PROVE ColumnKept(c)'
  <2>1. ColumnKept(c)  BY DEF ServedInv
  <2>2. (col[c].waits => col[c].steps = NoCycle /\ Checked(c))'  BY <1>2, <1>3, <2>1 DEF ColumnKept, Checked
  <2>3. (Checked(c) /\ ~Finished(c) => Answered(c))'
    BY <1>1, <1>2, <1>3, <1>4, BookTypes DEF Checked, Finished, Answered
  <2>4. (Checked(c) /\ col[c].steps # NoCycle => col[c].est <= res[c] /\ (col[c].steps = 0 => col[c].est = res[c]))'
    BY <1>2, <1>3, <2>1 DEF ColumnKept, Checked
  <2> QED BY <1>2, <1>4, <2>1, <2>2, <2>3, <2>4 DEF ColumnKept, UnderCheck
<1>6. LoopKept'
  <2>1. NothingStepped'  BY <1>2 DEF NothingStepped
  <2> QED BY <1>4, <2>1 DEF LoopKept, SteppedTogether, AtHandOut
<1> QED BY <1>1, <1>4, <1>5, <1>6 DEF ServedInv

\* restart closes cycles: a column without one is not above the tolerance yet.
LEMMA ServedRestart ==
  ASSUME ServedInv, RoomInv', Restart
  PROVE  ServedInv'
<1>1. BooksInv /\ setup \in Setups  BY DEF ServedInv, RoomInv
<1> DEFINE closed == {c \in Cols : col[c].steps # NoCycle /\ res[c] # Unchecked}
<1>2. /\ col' = [c \in Cols |-> IF c \in closed THEN Released(col[c]) ELSE col[c]]
      /\ res' = [c \in Cols |-> IF c \in closed THEN Unchecked ELSE res[c]]
      /\ UNCHANGED <<tol, stage, result, chk, carried, setup>> /\ stage = "idle"
  BY DEF Restart
<1>3. \A c \in Cols : IF c \in closed
        THEN /\ col'[c].steps = NoCycle /\ col'[c].written = 0 /\ col'[c].stepped = col[c].stepped
             /\ col'[c].waits = col[c].waits /\ res'[c] = Unchecked
        ELSE col'[c] = col[c] /\ res'[c] = res[c]
  BY <1>1, <1>2, ReleasedFields DEF BooksInv
<1>4. \A c \in closed : col[c].steps # NoCycle  OBVIOUS
<1> HIDE DEF closed
<1>5. ASSUME NEW c \in Cols PROVE ColumnKept(c)'
  <2>1. ColumnKept(c)  BY DEF ServedInv
  <2>2. CASE c \in closed
    <3>1. ~col[c].waits  BY <1>4, <2>1, <2>2 DEF ColumnKept
    <3> QED BY <1>2, <1>3, <2>1, <2>2, <3>1, <1>1, BookTypes DEF ColumnKept, Checked, InLoop
  <2>3. CASE c \notin closed
    BY <1>2, <1>3, <2>1, <2>3 DEF ColumnKept, Checked, InLoop, UnderCheck, Finished, Answered
  <2> QED BY <2>2, <2>3
<1>6. LoopKept'
  <2>1. ASSUME Excused PROVE Excused'
    <3>1. NothingStepped => NothingStepped'  BY <1>3 DEF NothingStepped
    <3>2. ASSUME NEW c \in Cols, Unserved(c)' PROVE Answered(c)'
      <4>1. c \notin closed
        <5>1. tol \in Nat /\ tol' = tol  BY <1>1, <1>2, BookTypes DEF ServedInv
        <5>2. res'[c] > tol  BY <3>2, <5>1 DEF Unserved
        <5> QED BY <1>3, <5>1, <5>2 DEF Unchecked
      <4> QED BY <1>2, <1>3, <2>1, <3>2, <4>1 DEF Excused, Unserved, Answered, MaxIter
    <3>3. \A c \in Cols : col'[c].waits => NothingStepped'  BY <1>3, <2>1, <3>1 DEF Excused
    <3> QED BY <3>2, <3>3 DEF Excused
  <2> QED BY <1>2, <2>1 DEF LoopKept, InLoop, AtHandOut, ServedInv
<1> QED BY <1>2, <1>5, <1>6 DEF ServedInv

\* select_active and admit.
LEMMA ServedSelect ==
  ASSUME ServedInv, RoomInv', Select
  PROVE  ServedInv'
<1>1. BooksInv /\ setup \in Setups  BY DEF ServedInv, RoomInv
<1> DEFINE full == \E c \in Cols : col[c].steps = M /\ res[c] = Unchecked
           admitted == IF act' = {} /\ ~full THEN {c \in Cols : col[c].waits} ELSE {}
<1>2. /\ col' = [c \in Cols |-> IF c \in admitted THEN [col[c] EXCEPT !.waits = FALSE] ELSE col[c]]
      /\ res' = [c \in Cols |-> IF c \in admitted THEN Unchecked ELSE res[c]]
      /\ act' = {c \in Cols : CanStep(c)}
      /\ UNCHANGED <<tol, result, chk, carried, setup>> /\ stage = "select" /\ stage' = "evict"
  BY DEF Select
<1>3. \A c \in admitted : col[c].waits  OBVIOUS
<1>4. act' = {} => full \/ admitted = {c \in Cols : col[c].waits}  OBVIOUS
<1>5. full => \E c \in Cols : col[c].steps = M /\ ~Checked(c)  BY DEF Checked
<1> HIDE DEF full, admitted
<1>6. \A c \in Cols : /\ col'[c].steps = col[c].steps /\ col'[c].stepped = col[c].stepped
                      /\ col'[c].est = col[c].est /\ col'[c].written = col[c].written
                      /\ col'[c].waits = (col[c].waits /\ c \notin admitted)
                      /\ res'[c] = IF c \in admitted THEN Unchecked ELSE res[c]
  BY <1>1, <1>2 DEF BooksInv, ColumnStates
<1>7. ASSUME NEW c \in Cols PROVE ColumnKept(c)'
  <2>1. ColumnKept(c)  BY DEF ServedInv
  <2>2. stage # "checked" /\ stage' # "checked" /\ InLoop  BY <1>2 DEF InLoop
  <2>3. CASE c \in admitted
    BY <1>2, <1>6, <2>1, <2>3 DEF ColumnKept, Checked
  <2>4. CASE c \notin admitted
    BY <1>2, <1>6, <2>1, <2>2, <2>4 DEF ColumnKept, Checked, UnderCheck, Finished, Answered, MaxIter
  <2> QED BY <2>3, <2>4
<1>8. \A c \in Cols : CanStep(c)' = CanStep(c)  BY <1>2, <1>6 DEF CanStep, M, MaxIter
<1>9. LoopKept'
  <2>1. SteppedTogether'
    <3>1. SteppedTogether  BY <1>2 DEF ServedInv, LoopKept, InLoop
    <3> QED BY <1>6, <1>8, <3>1 DEF SteppedTogether, NothingStepped
  <2>2. AtEvict'
    <3>1. act' = {c \in Cols : CanStep(c)'}  BY <1>2, <1>8
    <3>2. ASSUME act' = {}, NEW w \in Cols, col'[w].waits PROVE \E c \in Cols : col'[c].steps = M' /\ ~Checked(c)'
      <4>1. full  BY <1>4, <1>6, <3>2
      <4>2. PICK c \in Cols : col[c].steps = M /\ ~Checked(c)  BY <1>5, <4>1
      <4> QED BY <1>2, <1>6, <4>2 DEF Checked, M
    <3> QED BY <3>1, <3>2 DEF AtEvict
  <2>3. result' = "none"  BY <1>2 DEF ServedInv, LoopKept, InLoop
  <2> QED BY <1>2, <2>1, <2>2, <2>3 DEF LoopKept, AtHandOut
<1> QED BY <1>2, <1>7, <1>9 DEF ServedInv

\* Of the stepping columns there is a last one.
LEMMA LastToClose ==
  ASSUME BooksInv, act # {}
  PROVE  \E d \in act : LeftAt(d) = {d}
<1> DEFINE C == {LeftAt(d) : d \in act}
<1>1. \A d \in act : LeftAt(d) \subseteq act /\ d \in LeftAt(d)  BY WorseAscends DEF LeftAt
<1>2. \A S \in C : IsFiniteSet(S)
  <2>1. IsFiniteSet(act)  BY GmresAssumption, FS_Subset DEF BooksInv
  <2> QED BY <1>1, <2>1, FS_Subset
<1>3. PICK R \in C : \A Q \in C : ~(Q \subseteq R /\ Q # R)
  <2>1. PICK s \in act : TRUE  OBVIOUS
  <2>2. LeftAt(s) \in C  BY <2>1
  <2> HIDE DEF C
  <2> QED BY <1>2, <2>2, LeastSet
<1>4. PICK d \in act : R = LeftAt(d)  BY <1>3
<1>5. ASSUME NEW e \in LeftAt(d), e # d PROVE FALSE
  <2>1. e \in act /\ e \notin Worse(d)  BY <1>5 DEF LeftAt
  <2>2. d \in Worse(e) /\ Worse(d) \subseteq Worse(e)  BY <1>5, <2>1, WorseAscends
  <2>3. LeftAt(e) \subseteq R /\ LeftAt(e) # R  BY <1>1, <1>4, <2>2 DEF LeftAt
  <2> QED BY <1>3, <2>1, <2>3
<1> QED BY <1>1, <1>4, <1>5

\* Where all close, the last is in a cycle that has steps.
LEMMA AllCloseLate ==
  ASSUME BooksInv, act # {}, NEW free, NEW b, ClosedForRoom(free, b) = act
  PROVE  \E d \in act : col[d].steps # 0
<1>1. PICK d \in act : LeftAt(d) = {d}  BY LastToClose
<1>2. ~StopsAt(d, free, b)  BY DEF ClosedForRoom
<1> QED BY <1>1, <1>2 DEF StopsAt

\* evict: the columns not stepping that give up their bases are done or as they
\* were found, those that close for room wait, and where all do none had stepped.
LEMMA ServedEvict ==
  ASSUME ServedInv, RoomInv', Evict
  PROVE  ServedInv'
<1>1. BooksInv /\ setup \in Setups /\ AtEvict /\ SteppedTogether /\ result = "none" /\ InLoop
  BY DEF ServedInv, RoomInv, LoopKept, Evict, InLoop
<1>2. PICK free, to, going, out_of :
        /\ MakeRoom(to, going, out_of)
        /\ \/ going = {} /\ out_of = {}
           \/ going = NotStepping \cup out_of /\ out_of = ClosedForRoom(free, to)
  <2>1. PICK room : EvictWithin(room)  BY DEF Evict
  <2> QED BY <2>1 DEF EvictWithin
<1> DEFINE now == {c \in going : res[c] # Unchecked}
<1>3. /\ col' = [c \in Cols |->
           IF c \in now THEN [Released(col[c]) EXCEPT !.waits = IF c \in out_of THEN TRUE ELSE @]
           ELSE IF c \in going THEN [col[c] EXCEPT !.evict = TRUE]
           ELSE col[c]]
      /\ act' = act \ out_of
  BY <1>2 DEF MakeRoom
<1>4. UNCHANGED <<setup, tol, result, res, chk, carried>> /\ stage = "evict" /\ stage' = "check"
  BY DEF Evict
<1>5. out_of \subseteq act /\ going \cap act = out_of /\ going \subseteq Cols
  BY <1>2 DEF ClosedForRoom, NotStepping, BooksInv, ServedInv, RoomInv
<1>6. \A c \in going : c \in now <=> Checked(c)  BY DEF Checked
<1>7. now \subseteq going  OBVIOUS
<1> HIDE DEF now
<1>8. \A c \in Cols :
        IF c \in now
        THEN /\ col'[c].steps = NoCycle /\ col'[c].written = 0 /\ col'[c].stepped = col[c].stepped
             /\ col'[c].waits = (col[c].waits \/ c \in out_of)
        ELSE /\ col'[c].steps = col[c].steps /\ col'[c].written = col[c].written
             /\ col'[c].stepped = col[c].stepped /\ col'[c].est = col[c].est
             /\ col'[c].waits = col[c].waits
             /\ c \in going => col'[c].evict
  <2> SUFFICES ASSUME NEW c \in Cols
               PROVE IF c \in now
                     THEN /\ col'[c].steps = NoCycle /\ col'[c].written = 0 /\ col'[c].stepped = col[c].stepped
                          /\ col'[c].waits = (col[c].waits \/ c \in out_of)
                     ELSE /\ col'[c].steps = col[c].steps /\ col'[c].written = col[c].written
                          /\ col'[c].stepped = col[c].stepped /\ col'[c].est = col[c].est
                          /\ col'[c].waits = col[c].waits
                          /\ c \in going => col'[c].evict
    OBVIOUS
  <2>1. col[c] \in ColumnStates  BY <1>1 DEF BooksInv
  <2>2. CASE c \in now
    <3> DEFINE k == Released(col[c])
    <3>1. k \in ColumnStates /\ k.steps = NoCycle /\ k.written = 0 /\ k.stepped = col[c].stepped
          /\ k.waits = col[c].waits
      BY <2>1, ReleasedColumn, ReleasedFields
    <3>2. col'[c] = [k EXCEPT !.waits = IF c \in out_of THEN TRUE ELSE @]  BY <1>3, <2>2
    <3> HIDE DEF k
    <3>3. CASE c \in out_of
      <4>1. col'[c] = [k EXCEPT !.waits = TRUE]  BY <3>2, <3>3
      <4> QED BY <2>2, <3>1, <3>3, <4>1 DEF ColumnStates
    <3>4. CASE c \notin out_of
      <4>1. col'[c] = [k EXCEPT !.waits = k.waits]  BY <3>2, <3>4
      <4>2. col'[c].steps = k.steps /\ col'[c].written = k.written /\ col'[c].stepped = k.stepped
            /\ col'[c].waits = k.waits
        BY <3>1, <4>1 DEF ColumnStates
      <4>3. k.waits \in BOOLEAN  BY <3>1 DEF ColumnStates
      <4> QED BY <2>2, <3>1, <3>4, <4>2, <4>3
    <3> QED BY <3>3, <3>4
  <2>3. CASE c \notin now /\ c \in going
    <3>1. col'[c] = [col[c] EXCEPT !.evict = TRUE]  BY <1>3, <2>3
    <3> QED BY <2>1, <2>3, <3>1 DEF ColumnStates
  <2>4. CASE c \notin now /\ c \notin going
    BY <1>3, <1>7, <2>4
  <2> QED BY <2>2, <2>3, <2>4
<1>9. \A c \in Cols : CanStep(c) <=> c \in act  BY <1>1 DEF AtEvict
<1>10. \A c \in Cols : CanStep(c)' => CanStep(c) /\ c \notin now
  BY <1>4, <1>8 DEF CanStep, M, MaxIter
<1>11. ASSUME NEW c \in Cols PROVE ColumnKept(c)'
  <2>1. ColumnKept(c)  BY DEF ServedInv
  <2>2. CASE c \in now
    <3>1. c \in going /\ Checked(c)  BY <1>6, <1>7, <2>2
    <3>2. /\ col'[c].steps = NoCycle /\ col'[c].written = 0 /\ col'[c].stepped = col[c].stepped
          /\ col'[c].waits = (col[c].waits \/ c \in out_of) /\ res'[c] = res[c]
      BY <1>4, <1>8, <2>2
    <3>3. ASSUME ~Finished(c), c \notin out_of PROVE Answered(c)
      <4>1. Answered(c) \/ col[c].steps = 0  BY <1>1, <1>4, <2>1, <3>1, <3>3 DEF ColumnKept, UnderCheck
      <4>2. ASSUME col[c].steps = 0 PROVE FALSE
        <5>1. col[c].est = res[c]  BY <1>1, <2>1, <3>1, <4>2, BookTypes DEF ColumnKept
        <5>2. CanStep(c)  BY <1>1, <3>3, <4>2, <5>1, BookTypes DEF CanStep, Finished
        <5> QED BY <1>5, <1>9, <3>1, <3>3, <5>2
      <4> QED BY <4>1, <4>2
    <3>4. (Checked(c) /\ ~Finished(c) => Answered(c))'
      BY <1>4, <3>2, <3>3 DEF Checked, Finished, Answered, MaxIter
    <3>5. Checked(c)' /\ ~UnderCheck(c)'  BY <1>4, <3>1 DEF Checked, UnderCheck
    <3> QED BY <1>1, <2>1, <3>2, <3>4, <3>5, BookTypes DEF ColumnKept
  <2>3. CASE c \notin now
    <3>1. /\ col'[c].steps = col[c].steps /\ col'[c].written = col[c].written
          /\ col'[c].stepped = col[c].stepped /\ col'[c].est = col[c].est
          /\ col'[c].waits = col[c].waits /\ res'[c] = res[c] /\ tol' = tol
      BY <1>4, <1>8, <2>3
    <3>2. ~UnderCheck(c) /\ ~UnderCheck(c)'  BY <1>4 DEF UnderCheck
    <3> QED BY <1>1, <1>4, <2>1, <3>1, <3>2 DEF ColumnKept, Checked, Finished, Answered, MaxIter
  <2> QED BY <2>2, <2>3
<1>12. SteppedTogether'
  BY <1>1, <1>8, <1>10 DEF SteppedTogether, NothingStepped
<1>13. AtCheck'
  <2>1. ASSUME NEW c \in Cols \ act', CanStep(c)' PROVE col'[c].evict /\ ~Checked(c)'
    <3>1. c \in out_of /\ c \notin now /\ c \in going  BY <1>3, <1>5, <1>9, <1>10, <2>1
    <3> QED BY <1>4, <1>6, <1>8, <3>1 DEF Checked
  <2>2. ASSUME act' = {}, ToCheck(TRUE)' = {}, NEW w \in Cols, col'[w].waits PROVE NothingStepped'
    <3>1. \A c \in Cols : Checked(c)  BY <1>4, <2>2 DEF ToCheck, Checked
    <3>2. act # {}
      <4>1. CASE act = {}
        <5>1. w \notin out_of  BY <1>5, <4>1
        <5>2. col[w].waits  BY <1>8, <2>2, <5>1
        <5> QED BY <1>1, <3>1, <4>1, <5>2 DEF AtEvict
      <4> QED BY <4>1
    <3>3. out_of = act  BY <1>3, <1>5, <2>2
    <3>4. PICK d \in act : col[d].steps # 0
      BY <1>1, <1>2, <3>2, <3>3, AllCloseLate
    <3>5. d \in Cols /\ CanStep(d) /\ ColumnKept(d) /\ Checked(d)
      BY <1>1, <1>9, <3>1 DEF BooksInv, ServedInv
    <3>6. col[d].steps > 0 /\ ~col[d].waits
      BY <1>1, <3>4, <3>5, BookTypes DEF CanStep, ColumnKept
    <3>7. ~Finished(d)
      BY <1>1, <3>5, <3>6, BookTypes DEF CanStep, ColumnKept, Finished
    <3>8. col[d].stepped = 0
      BY <1>1, <1>4, <3>5, <3>6, <3>7 DEF ColumnKept, Answered, UnderCheck
    <3>9. NothingStepped  BY <1>1, <3>5, <3>6, <3>8 DEF SteppedTogether
    <3> QED BY <1>8, <3>9 DEF NothingStepped
  <2>3. ASSUME NEW c \in act' PROVE CanStep(c)'
    <3>1. c \in Cols /\ CanStep(c) /\ c \notin now  BY <1>1, <1>3, <1>5, <1>7, <1>9, <2>3 DEF BooksInv
    <3> QED BY <1>4, <1>8, <3>1 DEF CanStep, M, MaxIter
  <2> QED BY <2>1, <2>2, <2>3 DEF AtCheck
<1>14. LoopKept'
  BY <1>1, <1>4, <1>12, <1>13 DEF LoopKept, AtHandOut
<1> QED BY <1>4, <1>11, <1>14 DEF ServedInv

\* What a solution formed is known to lie above.
LEMMA FormedAbove ==
  ASSUME BooksInv, setup \in Setups, NEW S \in SUBSET Cols, Form(S)
  PROVE  \A c \in Cols :
           IF c \in S
           THEN /\ res'[c] # Unchecked
                /\ col[c].steps # NoCycle => col[c].est <= res'[c] /\ (col[c].steps = 0 => col[c].est = res'[c])
           ELSE res'[c] = res[c]
<1>1. PICK formed \in [S -> 0..Worst] :
        /\ \A c \in S : formed[c] \in TrueResiduals(c)
        /\ res' = [c \in Cols |-> IF c \in S THEN formed[c] ELSE res[c]]
  BY DEF Form
<1>2. ASSUME NEW c \in S
      PROVE  /\ formed[c] # Unchecked
             /\ col[c].steps # NoCycle => col[c].est <= formed[c] /\ (col[c].steps = 0 => col[c].est = formed[c])
  <2>1. formed[c] \in Nat  BY GmresAssumption
  <2>2. col[c].est \in Int /\ Worst \in Int  BY GmresAssumption, BookTypes
  <2>3. formed[c] \in (IF col[c].steps = NoCycle THEN {x[c]}
                       ELSE IF col[c].steps = 0 THEN {col[c].est} ELSE col[c].est..Worst)
    BY <1>1 DEF TrueResiduals
  <2> QED BY <2>1, <2>2, <2>3 DEF Unchecked
<1> QED BY <1>1, <1>2

\* check: what it leaves unchecked goes on; with none left to step or to check
\* the call is served.
LEMMA ServedCheck ==
  ASSUME ServedInv, RoomInv', Check
  PROVE  ServedInv'
<1>1. BooksInv /\ setup \in Setups /\ AtCheck /\ SteppedTogether /\ result = "none" /\ InLoop
  BY DEF ServedInv, RoomInv, LoopKept, Check, InLoop
<1>2. /\ chk' = ToCheck(act = {}) /\ chk' \subseteq Cols /\ Form(chk')
      /\ stage' = IF chk' # {} THEN "checked" ELSE IF act # {} THEN "step" ELSE "final"
      /\ UNCHANGED <<setup, tol, result, col, act, carried>> /\ stage = "check"
  BY DEF Check, ToCheck
<1>3. \A c \in Cols :
        IF c \in chk'
        THEN /\ res'[c] # Unchecked
             /\ col[c].steps # NoCycle => col[c].est <= res'[c] /\ (col[c].steps = 0 => col[c].est = res'[c])
        ELSE res'[c] = res[c]
  BY <1>1, <1>2, FormedAbove
<1>4. \A c \in chk' : ~Checked(c)  BY <1>2 DEF ToCheck, Checked
<1>5. ASSUME NEW c \in Cols PROVE ColumnKept(c)'
  <2>1. ColumnKept(c)  BY DEF ServedInv
  <2>2. CASE c \in chk'
    <3>1. ~col[c].waits /\ UnderCheck(c)'  BY <1>2, <1>4, <2>1, <2>2 DEF ColumnKept, UnderCheck
    <3> QED BY <1>2, <1>3, <2>1, <2>2, <3>1 DEF ColumnKept
  <2>3. CASE c \notin chk'
    <3>1. ~UnderCheck(c) /\ ~UnderCheck(c)'  BY <1>2, <2>3 DEF UnderCheck
    <3> QED BY <1>1, <1>2, <1>3, <2>1, <2>3, <3>1 DEF ColumnKept, Checked, Finished, Answered, MaxIter
  <2> QED BY <2>2, <2>3
<1>6. SteppedTogether'
  BY <1>1, <1>2 DEF SteppedTogether, NothingStepped, CanStep, M, MaxIter
<1>7. ASSUME chk' = {}, act # {} PROVE \A c \in Cols : CanStep(c)' <=> c \in act'
  <2>1. ASSUME NEW c \in Cols, CanStep(c), c \notin act PROVE FALSE
    <3>1. col[c].evict /\ res[c] = Unchecked  BY <1>1, <2>1 DEF AtCheck, Checked
    <3>2. c \in ToCheck(act = {})  BY <3>1 DEF ToCheck
    <3> QED BY <1>2, <1>7, <3>2
  <2>2. \A c \in act : CanStep(c)  BY <1>1 DEF AtCheck
  <2> QED BY <1>2, <2>1, <2>2 DEF CanStep, M, MaxIter
<1>8. ASSUME chk' = {}, act = {} PROVE ToCheck(TRUE)' = {} /\ Excused'
  <2>1. ToCheck(TRUE) = {} /\ \A c \in Cols : Checked(c)
    BY <1>2, <1>8 DEF ToCheck, Checked
  <2>2. \A c \in Cols : res'[c] = res[c]  BY <1>3, <1>8
  <2>3. ToCheck(TRUE)' = {}  BY <2>1, <2>2 DEF ToCheck, Checked
  <2>4. ASSUME NEW c \in Cols, Unserved(c) PROVE Answered(c)
    <3>1. ColumnKept(c) /\ ~Finished(c) /\ Checked(c) /\ ~UnderCheck(c)
      BY <1>1, <1>2, <2>1, <2>4, BookTypes DEF ServedInv, Unserved, Finished, UnderCheck
    <3>2. ASSUME col[c].steps = 0 PROVE FALSE
      <4>1. CanStep(c)
        BY <1>1, <2>4, <3>1, <3>2, BookTypes DEF ColumnKept, CanStep, Unserved
      <4> QED BY <1>1, <1>8, <2>1, <4>1 DEF AtCheck
    <3> QED BY <1>1, <3>1, <3>2 DEF ColumnKept
  <2>5. \A c \in Cols : col[c].waits => NothingStepped  BY <1>1, <1>8, <2>1 DEF AtCheck
  <2>6. Excused  BY <2>4, <2>5 DEF Excused
  <2> QED BY <1>2, <2>2, <2>3, <2>6 DEF Excused, Unserved, Answered, NothingStepped, MaxIter
<1>9. \A c \in chk' : Checked(c)'  BY <1>2, <1>3 DEF Checked
<1>10. LoopKept'
  BY <1>1, <1>2, <1>6, <1>7, <1>8, <1>9 DEF LoopKept, AtHandOut
<1> QED BY <1>2, <1>5, <1>10 DEF ServedInv

\* A call cut short says so.
LEMMA ServedCut ==
  ASSUME ServedInv, RoomInv', Cancel \/ PreconditionerFails
  PROVE  ServedInv'
<1>1. /\ UNCHANGED <<setup, tol, col, res, carried>>
      /\ \/ stage' = "final" /\ result' = "stalled" /\ chk' = chk
         \/ stage' = "idle" /\ result' = "failed" /\ chk' = {}
  BY DEF Cancel, PreconditionerFails
<1>2. ASSUME NEW c \in Cols PROVE ColumnKept(c)'
  <2>1. ColumnKept(c) /\ ~InLoop' /\ ~UnderCheck(c)'  BY <1>1 DEF ServedInv, InLoop, UnderCheck
  <2> QED BY <1>1, <2>1 DEF ColumnKept, Checked
<1>3. LoopKept'  BY <1>1 DEF LoopKept, InLoop, AtHandOut
<1> QED BY <1>1, <1>2, <1>3 DEF ServedInv

\* The hand-out checks what a call cut short left; one that was not left nothing.
LEMMA ServedHandOut ==
  ASSUME ServedInv, RoomInv', HandOut
  PROVE  ServedInv'
<1>1. BooksInv /\ setup \in Setups /\ LoopKept  BY DEF ServedInv, RoomInv
<1>2. /\ Form(ToCheck(TRUE)) /\ ToCheck(TRUE) \subseteq Cols
      /\ result' = IF result = "none" THEN "ran" ELSE result
      /\ UNCHANGED <<setup, tol, col, carried>> /\ stage = "final" /\ stage' = "idle"
  BY DEF HandOut, ToCheck
<1>3. \A c \in Cols :
        IF c \in ToCheck(TRUE)
        THEN /\ res'[c] # Unchecked
             /\ col[c].steps # NoCycle => col[c].est <= res'[c] /\ (col[c].steps = 0 => col[c].est = res'[c])
        ELSE res'[c] = res[c]
  BY <1>1, <1>2, FormedAbove
<1>4. ASSUME NEW c \in Cols PROVE ColumnKept(c)'
  <2>1. ColumnKept(c) /\ ~InLoop' /\ ~UnderCheck(c)'  BY <1>2 DEF ServedInv, InLoop, UnderCheck
  <2>2. CASE c \in ToCheck(TRUE)
    <3>1. ~col[c].waits  BY <2>1, <2>2 DEF ColumnKept, ToCheck, Checked
    <3> QED BY <1>2, <1>3, <2>1, <2>2, <3>1 DEF ColumnKept
  <2>3. CASE c \notin ToCheck(TRUE)
    BY <1>2, <1>3, <2>1, <2>3 DEF ColumnKept, Checked
  <2> QED BY <2>2, <2>3
<1>5. ASSUME result = "none" PROVE Excused'
  <2>1. ToCheck(TRUE) = {} /\ Excused  BY <1>1, <1>2, <1>5 DEF LoopKept
  <2>2. \A c \in Cols : res'[c] = res[c]  BY <1>3, <2>1
  <2> QED BY <1>2, <2>1, <2>2 DEF Excused, Unserved, Answered, NothingStepped, MaxIter
<1>6. result \in {"none", "stalled"}  BY <1>1, <1>2 DEF LoopKept
<1>7. LoopKept'  BY <1>2, <1>5, <1>6 DEF LoopKept, InLoop, AtHandOut
<1> QED BY <1>2, <1>4, <1>7 DEF ServedInv

\* restart_above: a column closing for room waits unless it is done, another that
\* is not starts a cycle.
LEMMA ServedRestartAbove ==
  ASSUME ServedInv, RoomInv', RestartAbove
  PROVE  ServedInv'
<1>1. BooksInv /\ setup \in Setups /\ SteppedTogether /\ result = "none" /\ InLoop /\ \A c \in chk : Checked(c)
  BY DEF ServedInv, RoomInv, LoopKept, RestartAbove, InLoop
<1> DEFINE evicted == {c \in chk : col[c].evict}
           again == {c \in chk \ evicted : ~Finished(c)}
<1>2. PICK start \in [again -> 0..Worst] :
        /\ \A c \in again : IF setup.deflating THEN start[c] <= res[c] ELSE start[c] = res[c]
        /\ res' = [c \in Cols |-> IF c \in again /\ setup.deflating THEN Unchecked ELSE res[c]]
        /\ col' = [c \in Cols |->
             IF c \in evicted THEN [Released(col[c]) EXCEPT !.evict = FALSE, !.waits = ~Finished(c)]
             ELSE IF c \in again THEN Opened(col[c], start[c])
             ELSE col[c]]
  BY DEF RestartAbove
<1>3. chk' = {} /\ UNCHANGED <<setup, tol, result, act, carried>> /\ stage = "checked" /\ stage' = "select"
  BY DEF RestartAbove
<1>4. evicted \cap again = {} /\ evicted \subseteq chk /\ again \subseteq chk /\ chk \subseteq Cols
      /\ (\A c \in chk : c \notin evicted /\ c \notin again => Finished(c))
  BY <1>1 DEF BooksInv
<1>5. \A c \in again : start[c] \in Int  BY GmresAssumption
<1> HIDE DEF evicted, again
<1>6. ASSUME NEW c \in Cols
      PROVE  IF c \in evicted
             THEN /\ col'[c].steps = NoCycle /\ col'[c].written = 0 /\ col'[c].stepped = col[c].stepped
                  /\ col'[c].waits = ~Finished(c) /\ res'[c] = res[c]
             ELSE IF c \in again
             THEN /\ col'[c].steps = 0 /\ col'[c].est = start[c] /\ col'[c].stepped = col[c].stepped
                  /\ col'[c].written = (IF col[c].written = 0 THEN 1 ELSE col[c].written)
                  /\ col'[c].waits = col[c].waits /\ res'[c] \in {Unchecked, start[c]}
             ELSE col'[c] = col[c] /\ res'[c] = res[c]
  <2>1. col[c] \in ColumnStates /\ Released(col[c]) \in ColumnStates  BY <1>1, ReleasedColumn DEF BooksInv
  <2>2. CASE c \in evicted
    <3> DEFINE k == Released(col[c])
               j == [k EXCEPT !.evict = FALSE]
    <3>1. k \in ColumnStates /\ k.steps = NoCycle /\ k.written = 0 /\ k.stepped = col[c].stepped
      BY <2>1, ReleasedFields
    <3>2. col'[c] = [j EXCEPT !.waits = ~Finished(c)]  BY <1>2, <2>2
    <3> HIDE DEF k
    <3>3. j \in ColumnStates /\ j.steps = NoCycle /\ j.written = 0 /\ j.stepped = col[c].stepped
      BY <3>1 DEF ColumnStates
    <3>4. res'[c] = res[c]  BY <1>2, <1>4, <2>2
    <3> HIDE DEF j
    <3> QED BY <2>2, <3>2, <3>3, <3>4 DEF ColumnStates
  <2>3. CASE c \notin evicted /\ c \in again
    <3>1. col'[c] = Opened(col[c], start[c]) /\ start[c] \in Int  BY <1>2, <1>5, <2>3
    <3>2. res'[c] \in {Unchecked, start[c]}  BY <1>2, <2>3
    <3> QED BY <2>1, <2>3, <3>1, <3>2, OpenedFields
  <2>4. CASE c \notin evicted /\ c \notin again
    BY <1>2, <2>4
  <2> QED BY <2>2, <2>3, <2>4
<1>7. ASSUME NEW c \in Cols PROVE ColumnKept(c)'
  <2>1. ColumnKept(c) /\ ~UnderCheck(c)'  BY <1>3 DEF ServedInv, UnderCheck
  <2>2. CASE c \in evicted
    <3>1. Checked(c) /\ Checked(c)'  BY <1>1, <1>4, <1>6, <2>2 DEF Checked
    <3>2. Finished(c)' = Finished(c)  BY <1>3, <1>6, <2>2 DEF Finished, MaxIter
    <3>3. ~Finished(c) => col'[c].waits  BY <1>6, <2>2
    <3>4. ~Finished(c)' => Answered(c)'  BY <3>2, <3>3 DEF Answered
    <3>5. col'[c].steps = NoCycle /\ col'[c].steps >= NoCycle /\ col'[c].written = 0 /\ col'[c].stepped >= 0
      BY <1>1, <1>6, <2>1, <2>2, BookTypes DEF ColumnKept
    <3> QED BY <1>1, <2>1, <3>1, <3>4, <3>5, BookTypes DEF ColumnKept
  <2>3. CASE c \notin evicted /\ c \in again
    <3>1. ~col[c].waits  BY <1>3, <1>4, <2>1, <2>3 DEF ColumnKept, UnderCheck
    <3>2. start[c] \in Int /\ NoCycle = -1 /\ Unchecked = -1 /\ col[c].written \in Int
      BY <1>1, <1>5, <2>3, BookTypes
    <3> QED BY <1>6, <2>1, <2>3, <3>1, <3>2 DEF ColumnKept, Checked
  <2>4. CASE c \in chk /\ c \notin evicted /\ c \notin again
    <3>1. Finished(c)  BY <1>4, <2>4
    <3>2. col'[c] = col[c] /\ res'[c] = res[c] /\ tol' = tol  BY <1>3, <1>6, <2>4
    <3>3. Finished(c)'  BY <1>3, <3>1, <3>2 DEF Finished, MaxIter
    <3> QED BY <2>1, <3>2, <3>3 DEF ColumnKept, Checked
  <2>5. CASE c \notin chk
    <3>1. col'[c] = col[c] /\ res'[c] = res[c]  BY <1>4, <1>6, <2>5
    <3>2. ~UnderCheck(c)  BY <2>5 DEF UnderCheck
    <3> QED BY <1>1, <1>3, <2>1, <3>1, <3>2 DEF ColumnKept, Checked, Finished, Answered, MaxIter
  <2> QED BY <1>4, <2>2, <2>3, <2>4, <2>5
<1>8. SteppedTogether'
  <2>1. \A c \in Cols : col'[c].stepped = col[c].stepped  BY <1>6
  <2>2. ASSUME NEW c \in Cols, CanStep(c)', col'[c].steps > 0 PROVE CanStep(c) /\ col[c].steps > 0
    <3>1. c \notin evicted /\ c \notin again  BY <1>6, <2>2 DEF CanStep
    <3> QED BY <1>3, <1>6, <2>2, <3>1 DEF CanStep, M, MaxIter
  <2> QED BY <1>1, <2>1, <2>2 DEF SteppedTogether, NothingStepped
<1>9. LoopKept'  BY <1>1, <1>3, <1>8 DEF LoopKept, AtHandOut
<1> QED BY <1>3, <1>7, <1>9 DEF ServedInv

\* A block step: every column that can goes along.
LEMMA ServedStep ==
  ASSUME ServedInv, RoomInv', Step
  PROVE  ServedInv'
<1>1. BooksInv /\ setup \in Setups /\ act \subseteq Cols /\ result = "none" /\ InLoop
      /\ \A c \in Cols : CanStep(c) <=> c \in act
  BY DEF ServedInv, RoomInv, BooksInv, LoopKept, Step, InLoop
<1>2. PICK est \in [act -> 0..Worst] :
     col' = [c \in Cols |->
          IF c \in act
          THEN [col[c] EXCEPT !.steps = @ + 1, !.stepped = @ + 1, !.est = est[c],
                              !.written = Max({@, col[c].steps + 2})]
          ELSE col[c]]
  BY DEF Step
<1>3. /\ res' = [c \in Cols |-> IF c \in act THEN Unchecked ELSE res[c]]
      /\ UNCHANGED <<setup, tol, act, chk, carried>> /\ stage = "step"
      /\ \/ stage' = "select" /\ result' = result
         \/ stage' = "final" /\ result' = "stalled"
  BY DEF Step
<1>4. ASSUME NEW c \in Cols
      PROVE  IF c \in act
             THEN /\ col'[c].steps = col[c].steps + 1 /\ col'[c].stepped = col[c].stepped + 1
                  /\ col'[c].written >= col[c].steps + 2 /\ col'[c].written \in Int
                  /\ col'[c].waits = col[c].waits /\ res'[c] = Unchecked
             ELSE col'[c] = col[c] /\ res'[c] = res[c]
  <2>1. col[c] \in ColumnStates /\ col[c].written \in Int /\ col[c].steps + 2 \in Int
    BY <1>1, BookTypes DEF BooksInv
  <2> DEFINE w == Max({col[c].written, col[c].steps + 2})
  <2>2. w \in Int /\ w >= col[c].steps + 2  BY <2>1, MaxOfTwo
  <2>3. CASE c \in act
    <3>1. col'[c] = [col[c] EXCEPT !.steps = @ + 1, !.stepped = @ + 1, !.est = est[c], !.written = w]
      BY <1>2, <2>3
    <3> HIDE DEF w
    <3> QED BY <1>3, <2>1, <2>2, <2>3, <3>1 DEF ColumnStates
  <2>4. CASE c \notin act
    BY <1>2, <1>3, <2>4
  <2> QED BY <2>3, <2>4
<1>5. ASSUME NEW c \in Cols PROVE ColumnKept(c)'
  <2>1. ColumnKept(c) /\ ~UnderCheck(c) /\ ~UnderCheck(c)'  BY <1>3 DEF ServedInv, UnderCheck
  <2>2. CASE c \in act
    <3>1. ~col[c].waits  BY <1>1, <2>1, <2>2 DEF CanStep, ColumnKept
    <3> QED BY <1>1, <1>4, <2>1, <2>2, <3>1, BookTypes DEF ColumnKept, Checked
  <2>3. CASE c \notin act
    BY <1>1, <1>3, <1>4, <2>1, <2>3 DEF ColumnKept, Checked, Finished, Answered, MaxIter
  <2> QED BY <2>2, <2>3
<1>6. SteppedTogether'
  <2>1. ASSUME NEW c \in Cols, CanStep(c)' PROVE col'[c].stepped > 0
    <3>1. CASE c \in act
      BY <1>1, <1>4, <3>1, BookTypes DEF ServedInv, ColumnKept
    <3>2. CASE c \notin act
      <4>1. CanStep(c)  BY <1>3, <1>4, <2>1, <3>2 DEF CanStep, M, MaxIter
      <4> QED BY <1>1, <3>2, <4>1
    <3> QED BY <3>1, <3>2
  <2> QED BY <2>1 DEF SteppedTogether
<1>7. LoopKept'  BY <1>1, <1>3, <1>6 DEF LoopKept, InLoop, AtHandOut
<1> QED BY <1>3, <1>5, <1>7 DEF ServedInv

LEMMA ServedNext == ServedInv /\ [GmresNext]_gmresVars => ServedInv'
<1> SUFFICES ASSUME ServedInv, [GmresNext]_gmresVars PROVE ServedInv'
  OBVIOUS
<1>1. RoomInv'  BY RoomStep DEF ServedInv
<1>2. CASE UNCHANGED gmresVars
  <2>1. ASSUME NEW c \in Cols PROVE ColumnKept(c)'
    <3>1. ColumnKept(c)  BY DEF ServedInv
    <3> QED BY <1>2, <3>1 DEF gmresVars, ColumnKept, Checked, UnderCheck, InLoop, Finished, Answered, MaxIter
  <2>2. LoopKept'
    BY <1>2 DEF ServedInv, gmresVars, LoopKept, SteppedTogether, NothingStepped, AtEvict, AtCheck, CanStep,
                ToCheck, Excused, Unserved, Answered, AtHandOut, InLoop, Checked, M, MaxIter
  <2> QED BY <1>1, <1>2, <2>1, <2>2 DEF ServedInv, gmresVars
<1>3. CASE \E t \in Tols : SolveWatched(t)  BY <1>1, <1>3, ServedSolve
<1>4. CASE Restart  BY <1>1, <1>4, ServedRestart
<1>5. CASE Select  BY <1>1, <1>5, ServedSelect
<1>6. CASE Evict  BY <1>1, <1>6, ServedEvict
<1>7. CASE Check  BY <1>1, <1>7, ServedCheck
<1>8. CASE Cancel \/ PreconditionerFails  BY <1>1, <1>8, ServedCut
<1>9. CASE HandOut  BY <1>1, <1>9, ServedHandOut
<1>10. CASE RestartAbove  BY <1>1, <1>10, ServedRestartAbove
<1>11. CASE Step  BY <1>1, <1>11, ServedStep
<1> QED BY <1>2, <1>3, <1>4, <1>5, <1>6, <1>7, <1>8, <1>9, <1>10, <1>11 DEF GmresNext, InSolve

(***************************************************************************)
(* The books of a block solve, for any number of columns, restart, room    *)
(* and representation of the bases: the residual held of a column is that  *)
(* of the solution it would hand out, whatever closed, waited, restarted   *)
(* or failed before; a call that nothing cut short leaves no column out    *)
(* that it could have gone on with; and a block step outgrows neither the  *)
(* room nor what was held already, but for the first one of a column       *)
(* alone.                                                                  *)
(***************************************************************************)
THEOREM BooksHold == GmresSpec => BooksAreKept
<1>1. ServedInv /\ [GmresNext]_gmresVars => RoomIsMade  BY EvictMakesRoom DEF ServedInv
<1>2. ServedInv => ResidualIsOfTheSolution  BY DEF ServedInv, RoomInv, BooksInv
<1>3. ServedInv => ColumnsAreServed
  BY DEF ServedInv, LoopKept, Excused, ColumnsAreServed, Answered
<1> QED BY <1>1, <1>2, <1>3, ServedStart, ServedNext, PTL DEF GmresSpec, BooksAreKept

-----------------------------------------------------------------------------
\* Where the champion is settled, and where the counted seeds have run.
Settled == {"stage2", "await", "reduce", "done"}
Awaited == {"reduce", "done"}

\* A seed's flag, its task, its slot and its history agree.
TasksAgree ==
  \A i \in Seeds :
    /\ runs[i] = IF started[i] THEN 1 ELSE 0
    /\ spawned[i] = IF started[i] /\ i \notin filled THEN 1 ELSE 0
    /\ i \in filled => started[i]

\* The champion of the first k candidates.
ChampionAmong(k) ==
  /\ best = NONE =>
       /\ \A c \in Candidates : c <= k => candidate[c] = NONE
       /\ k > 0 => lastErr = k
  /\ best # NONE =>
       /\ best <= k /\ candidate[best] # NONE
       /\ \A c \in Candidates :
            c <= k /\ candidate[c] # NONE =>
              \/ candidate[best].fill < candidate[c].fill
              \/ candidate[best].fill = candidate[c].fill /\ best <= c

ChampionSoFar ==
  /\ main \in {"scope", "join"} => best = NONE
  /\ main = "choose" => next \in 1..(NumCandidates + 1) /\ ChampionAmong(next - 1)
  /\ main \in Settled => ChampionAmong(NumCandidates) /\ seeds = Count(best)

\* What is started counts, or is the speculated first seed; what counts is
\* started by the end of stage 2 and run by the end of the scope.
StartedSoFar ==
  /\ \A i \in Seeds : started[i] => (i = 0 /\ Parallel) \/ (main \in Settled /\ i < seeds)
  /\ main = "stage2" => next <= seeds /\ \A i \in Seeds : i < next => started[i]
  /\ main \in {"await"} \cup Awaited => \A i \in Seeds : i < seeds => started[i]
  /\ main \in Awaited => \A i \in Seeds : i < seeds => i \in filled

\* The best dissection of the first k seeds.
PickAmong(k) ==
  /\ pick = NONE => \A i \in Seeds : i < k => dissection[i] = NONE
  /\ pick # NONE =>
       /\ pick < k /\ dissection[pick] # NONE
       /\ \A i \in Seeds :
            i < k /\ dissection[i] # NONE =>
              \/ dissection[pick] < dissection[i]
              \/ dissection[pick] = dissection[i] /\ pick <= i

PickSoFar ==
  /\ main \notin Awaited => pick = NONE
  /\ main = "reduce" => next <= seeds /\ PickAmong(next)

IInv == RaceTypeOK /\ TasksAgree /\ ChampionSoFar /\ StartedSoFar /\ PickSoFar
        /\ OutcomeIsSequential

-----------------------------------------------------------------------------
\* The invariant holds in every initial state.
LEMMA InitHolds == RaceInit => IInv
<1> SUFFICES ASSUME RaceInit PROVE IInv  OBVIOUS
<1> USE RaceAssumption DEF RaceInit
<1>1. RaceTypeOK  BY DEF RaceTypeOK, Places, Candidates, Seeds
<1>2. TasksAgree  BY DEF TasksAgree
<1>3. ChampionSoFar /\ StartedSoFar /\ PickSoFar /\ OutcomeIsSequential
  BY DEF ChampionSoFar, StartedSoFar, PickSoFar, OutcomeIsSequential, Settled, Awaited
<1> QED  BY <1>1, <1>2, <1>3 DEF IInv

\* Starting a seed keeps the types of what it changes and the agreement of
\* flags, tasks and slots.
LEMMA StartKeepsTasks ==
  ASSUME RaceTypeOK, TasksAgree, NEW i \in Seeds, Start(i), filled' = filled
  PROVE  /\ started' \in [Seeds -> BOOLEAN] /\ spawned' \in [Seeds -> Nat]
         /\ runs' \in [Seeds -> Nat]
         /\ TasksAgree'
         /\ \A j \in Seeds : started'[j] <=> started[j] \/ j = i
<1> USE DEF RaceTypeOK, Start
<1>1. \A j \in Seeds : started'[j] <=> started[j] \/ j = i  OBVIOUS
<1>2. /\ started' \in [Seeds -> BOOLEAN] /\ spawned' \in [Seeds -> Nat]
      /\ runs' \in [Seeds -> Nat]
  OBVIOUS
<1>3. ASSUME NEW j \in Seeds
      PROVE  /\ runs'[j] = IF started'[j] THEN 1 ELSE 0
             /\ spawned'[j] = IF started'[j] /\ j \notin filled THEN 1 ELSE 0
             /\ j \in filled => started'[j]
  <2>1. CASE j # i  BY <2>1 DEF TasksAgree
  <2>2. CASE j = i /\ started[i]  BY <2>2, <1>1 DEF TasksAgree
  <2>3. CASE j = i /\ ~started[i]  BY <2>3, <1>1 DEF TasksAgree
  <2> QED  BY <2>1, <2>2, <2>3
<1> QED  BY <1>1, <1>2, <1>3 DEF TasksAgree

\* The same, where the first seed is started under a condition.
LEMMA StartIfKeepsTasks ==
  ASSUME RaceTypeOK, TasksAgree, NEW P \in BOOLEAN, StartIf(P), filled' = filled
  PROVE  /\ started' \in [Seeds -> BOOLEAN] /\ spawned' \in [Seeds -> Nat]
         /\ runs' \in [Seeds -> Nat]
         /\ TasksAgree'
         /\ \A j \in Seeds : started'[j] => started[j] \/ (j = 0 /\ P)
         /\ \A j \in Seeds : started[j] => started'[j]
<1>1. 0 \in Seeds  BY RaceAssumption DEF Seeds
<1>2. CASE P
  <2>1. Start(0)  BY <1>2 DEF StartIf
  <2> QED  BY <2>1, <1>1, <1>2, StartKeepsTasks
<1>3. CASE ~P
  <2>1. UNCHANGED <<started, spawned, runs>>  BY <1>3 DEF StartIf
  <2> QED  BY <2>1 DEF RaceTypeOK, TasksAgree
<1> QED  BY <1>2, <1>3

\* Every step keeps the invariant.
LEMMA StepKeeps == IInv /\ [RaceNext]_raceVars => IInv'
<1> SUFFICES ASSUME IInv, [RaceNext]_raceVars PROVE IInv'  OBVIOUS
<1> USE RaceAssumption
<1> USE DEF IInv
<1>1. CASE Open
  <2> USE <1>1 DEF Open, inputs
  <2>1. RaceTypeOK' /\ TasksAgree' /\ \A j \in Seeds : started'[j] => started[j] \/ (j = 0 /\ Parallel)
    <3>1. Eager \in BOOLEAN /\ (Eager => Parallel)  BY DEF Eager, Parallel, RaceTypeOK, Gates
    <3> QED  BY <3>1, StartIfKeepsTasks DEF RaceTypeOK, Places
  <2>2. StartedSoFar'
    BY <2>1 DEF StartedSoFar, Settled, Awaited, Parallel
  <2>3. ChampionSoFar' /\ PickSoFar' /\ OutcomeIsSequential'
    BY DEF ChampionSoFar, PickSoFar, OutcomeIsSequential, Settled, Awaited
  <2> QED  BY <2>1, <2>2, <2>3
<1>2. CASE OrderFirst
  <2> USE <1>2 DEF OrderFirst, inputs
  <2>1. RaceTypeOK' /\ TasksAgree' /\ \A j \in Seeds : started'[j] => started[j] \/ (j = 0 /\ Parallel)
    <3>1. 1 \in Candidates  BY DEF Candidates
    <3>2. Speculates(candidate[1]) \in BOOLEAN /\ (Speculates(candidate[1]) => Parallel)
      BY <3>1 DEF Speculates, Parallel, RaceTypeOK, Gates, Prefix
    <3> QED  BY <3>1, <3>2, StartIfKeepsTasks DEF RaceTypeOK, Places
  <2>2. StartedSoFar'
    BY <2>1 DEF StartedSoFar, Settled, Awaited, Parallel
  <2>3. ChampionSoFar' /\ PickSoFar' /\ OutcomeIsSequential'
    BY DEF ChampionSoFar, PickSoFar, OutcomeIsSequential, Settled, Awaited
  <2> QED  BY <2>1, <2>2, <2>3
<1>3. CASE \E c \in Candidates : OrderRest(c)
  <2>1. PICK c \in Candidates : OrderRest(c)  BY <1>3
  <2> USE <2>1 DEF OrderRest, inputs
  <2>2. RaceTypeOK' /\ TasksAgree'  BY DEF RaceTypeOK, TasksAgree
  <2>3. StartedSoFar'  BY DEF StartedSoFar, Settled, Awaited, Parallel
  <2>4. ChampionSoFar' /\ PickSoFar' /\ OutcomeIsSequential'
    BY DEF ChampionSoFar, PickSoFar, OutcomeIsSequential, Settled, Awaited
  <2> QED  BY <2>2, <2>3, <2>4
<1>4. CASE \E i \in Seeds : Dissect(i)
  <2>1. PICK i \in Seeds : Dissect(i)  BY <1>4
  <2> USE <2>1 DEF Dissect, inputs
  <2>2. RaceTypeOK'
    <3>1. spawned' \in [Seeds -> Nat]  BY DEF RaceTypeOK
    <3> QED  BY <3>1 DEF RaceTypeOK
  <2>3. TasksAgree'
    <3>1. ASSUME NEW j \in Seeds
          PROVE  /\ runs'[j] = IF started'[j] THEN 1 ELSE 0
                 /\ spawned'[j] = IF started'[j] /\ j \notin filled' THEN 1 ELSE 0
                 /\ j \in filled' => started'[j]
      <4>1. CASE j # i  BY <4>1 DEF TasksAgree, RaceTypeOK
      <4>2. CASE j = i
        <5>1. started[i] /\ i \notin filled /\ spawned[i] = 1  BY DEF TasksAgree
        <5> QED  BY <5>1, <4>2 DEF TasksAgree, RaceTypeOK
      <4> QED  BY <4>1, <4>2
    <3> QED  BY <3>1 DEF TasksAgree
  <2>4. StartedSoFar'  BY DEF StartedSoFar, Settled, Awaited, Parallel
  <2>5. ChampionSoFar'
    BY DEF ChampionSoFar, ChampionAmong, Count, Settled
  <2>6. PickSoFar' /\ OutcomeIsSequential'
    <3>1. PickSoFar'  BY DEF PickSoFar, PickAmong, Awaited
    <3>2. OutcomeIsSequential'
      BY DEF OutcomeIsSequential, Sequential, Succeeded, Fill, FirstLeast, Dissected, Counts
    <3> QED  BY <3>1, <3>2
  <2> QED  BY <2>2, <2>3, <2>4, <2>5, <2>6
<1>5. CASE Join
  <2> USE <1>5 DEF Join, inputs
  <2>1. RaceTypeOK' /\ TasksAgree'  BY DEF RaceTypeOK, TasksAgree, Places
  <2>2. StartedSoFar'  BY DEF StartedSoFar, Settled, Awaited, Parallel
  <2>3. ChampionSoFar'
    BY DEF ChampionSoFar, ChampionAmong, Settled, Candidates
  <2>4. PickSoFar' /\ OutcomeIsSequential'
    BY DEF PickSoFar, OutcomeIsSequential, Awaited
  <2> QED  BY <2>1, <2>2, <2>3, <2>4
<1>6. CASE Choose
  <2> USE <1>6 DEF Choose, inputs
  <2>1. next \in Candidates /\ ChampionAmong(next - 1)
    BY DEF ChampionSoFar, Candidates
  <2>2. RaceTypeOK'  BY <2>1 DEF RaceTypeOK
  <2>3. TasksAgree'  BY DEF TasksAgree
  <2>4. StartedSoFar'  BY DEF StartedSoFar, Settled, Awaited, Parallel
  <2>5. ChampionAmong(next - 1)'
    <3> USE <2>1 DEF ChampionAmong
    <3>0. (next - 1)' = next  BY DEF Candidates
    <3> USE <3>0
    <3>1. CASE candidate[next] = NONE
      BY <3>1 DEF Candidates, RaceTypeOK
    <3>2. CASE candidate[next] # NONE /\ best = NONE
      <4>1. best' = next  BY <3>2 DEF Beats
      <4>2. \A c \in Candidates : c <= next => c = next \/ candidate[c] = NONE
        BY <3>2 DEF Candidates
      <4> QED  BY <3>2, <4>1, <4>2 DEF Candidates, RaceTypeOK
    <3>3. CASE candidate[next] # NONE /\ best # NONE
      <4>1. best \in Candidates /\ candidate[best] \in Prefix /\ candidate[next] \in Prefix
        BY <3>3 DEF RaceTypeOK
      <4>2. candidate[best].fill \in Nat /\ candidate[next].fill \in Nat
        BY <4>1 DEF Prefix
      <4>3. \A c \in Candidates : candidate[c] # NONE => candidate[c].fill \in Nat
        BY DEF RaceTypeOK, Prefix
      <4> QED  BY <3>3, <4>1, <4>2, <4>3 DEF Candidates, Beats
    <3> QED  BY <3>1, <3>2, <3>3
  <2>6. ChampionSoFar'
    <3>1. next' \in 1..(NumCandidates + 1)  BY <2>1 DEF Candidates
    <3> QED  BY <3>1, <2>5 DEF ChampionSoFar, Settled
  <2>7. PickSoFar' /\ OutcomeIsSequential'
    BY DEF PickSoFar, OutcomeIsSequential, Awaited
  <2> QED  BY <2>2, <2>3, <2>4, <2>6, <2>7
<1>7. CASE Decide
  <2> USE <1>7 DEF Decide, inputs
  <2>1. RaceTypeOK'
    <3>1. Count(best) \in 0..Ensemble  BY DEF Count
    <3> QED  BY <3>1 DEF RaceTypeOK, Places
  <2>2. TasksAgree'  BY DEF TasksAgree
  <2>3. StartedSoFar'
    BY <2>1 DEF StartedSoFar, Settled, Awaited, Parallel, RaceTypeOK, Seeds
  <2>4. ChampionSoFar'
    <3>1. next = NumCandidates + 1 /\ ChampionAmong(NumCandidates)
      <4>1. next \in 1..(NumCandidates + 1) /\ ChampionAmong(next - 1)
        BY DEF ChampionSoFar
      <4>2. next = NumCandidates + 1 /\ next - 1 = NumCandidates  BY <4>1
      <4> QED  BY <4>1, <4>2
    <3> QED  BY <3>1 DEF ChampionSoFar, ChampionAmong, Count, Settled
  <2>5. PickSoFar' /\ OutcomeIsSequential'
    BY DEF PickSoFar, OutcomeIsSequential, Awaited
  <2> QED  BY <2>1, <2>2, <2>3, <2>4, <2>5
<1>8. CASE StartCounted
  <2> USE <1>8 DEF StartCounted, inputs
  <2>1. next \in Seeds  BY DEF RaceTypeOK, Seeds
  <2>2. RaceTypeOK' /\ TasksAgree' /\ \A j \in Seeds : started'[j] <=> started[j] \/ j = next
    BY <2>1, StartKeepsTasks DEF RaceTypeOK
  <2>3. StartedSoFar'
    BY <2>1, <2>2 DEF StartedSoFar, Settled, Awaited, Parallel, RaceTypeOK, Seeds
  <2>4. ChampionSoFar'
    BY DEF ChampionSoFar, ChampionAmong, Count, Settled
  <2>5. PickSoFar' /\ OutcomeIsSequential'
    BY DEF PickSoFar, OutcomeIsSequential, Awaited
  <2> QED  BY <2>2, <2>3, <2>4, <2>5
<1>9. CASE EndBody
  <2> USE <1>9 DEF EndBody, inputs
  <2>1. RaceTypeOK' /\ TasksAgree'  BY DEF RaceTypeOK, TasksAgree, Places
  <2>2. StartedSoFar'
    BY DEF StartedSoFar, Settled, Awaited, Parallel, RaceTypeOK, Seeds
  <2>3. ChampionSoFar'
    BY DEF ChampionSoFar, ChampionAmong, Count, Settled
  <2>4. PickSoFar' /\ OutcomeIsSequential'
    BY DEF PickSoFar, OutcomeIsSequential, Awaited
  <2> QED  BY <2>1, <2>2, <2>3, <2>4
<1>10. CASE CloseScope
  <2> USE <1>10 DEF CloseScope, inputs
  <2>1. RaceTypeOK' /\ TasksAgree'  BY DEF RaceTypeOK, TasksAgree, Places
  <2>2. StartedSoFar'
    <3>1. ASSUME NEW i \in Seeds, i < seeds PROVE started[i] /\ i \in filled
      BY <3>1 DEF StartedSoFar, Awaited, AllRun, TasksAgree
    <3> QED  BY <3>1 DEF StartedSoFar, Settled, Awaited, Parallel
  <2>3. ChampionSoFar'
    BY DEF ChampionSoFar, ChampionAmong, Count, Settled
  <2>4. PickSoFar' /\ OutcomeIsSequential'
    BY DEF PickSoFar, PickAmong, OutcomeIsSequential, Awaited, RaceTypeOK, Seeds
  <2> QED  BY <2>1, <2>2, <2>3, <2>4
<1>11. CASE Reduce
  <2> USE <1>11 DEF Reduce, inputs
  <2>1. next \in Seeds /\ PickAmong(next)  BY DEF RaceTypeOK, Seeds, PickSoFar
  <2>2. Slot(next) = dissection[next]
    BY <2>1 DEF StartedSoFar, Awaited, Slot
  <2>3. RaceTypeOK' /\ TasksAgree'  BY <2>1 DEF RaceTypeOK, TasksAgree
  <2>4. StartedSoFar'  BY DEF StartedSoFar, Settled, Awaited, Parallel
  <2>5. ChampionSoFar'
    BY DEF ChampionSoFar, ChampionAmong, Count, Settled
  <2>6. PickAmong(next)'
    <3>1. \A i \in Seeds : dissection[i] # NONE => dissection[i] \in Nat
      BY DEF RaceTypeOK
    <3>2. next' = next + 1 /\ dissection' = dissection  OBVIOUS
    <3>3. \A i \in Seeds : i < next + 1 <=> i < next \/ i = next
      BY <2>1 DEF Seeds
    <3>4. CASE Improves(next)
      <4>1. pick' = next /\ dissection[next] # NONE
        BY <3>4, <2>2 DEF Improves
      <4>2. ASSUME NEW i \in Seeds, i < next, dissection[i] # NONE
            PROVE  dissection[next] < dissection[i]
        <5>1. pick # NONE /\ dissection[pick] <= dissection[i] /\ pick \in Seeds
              /\ dissection[pick] # NONE
          <6>1. pick # NONE  BY <4>2, <2>1 DEF PickAmong
          <6>2. pick \in Seeds /\ dissection[pick] # NONE
            BY <6>1, <2>1 DEF PickAmong, RaceTypeOK
          <6>3. dissection[pick] \in Nat /\ dissection[i] \in Nat  BY <6>2, <4>2, <3>1
          <6>4. dissection[pick] < dissection[i] \/ dissection[pick] = dissection[i]
            BY <6>1, <4>2, <2>1 DEF PickAmong
          <6> QED  BY <6>1, <6>2, <6>3, <6>4
        <5>2. dissection[next] < dissection[pick]
          BY <5>1, <3>4, <2>2 DEF Improves
        <5>3. dissection[next] \in Nat  BY <4>1, <2>1, <3>1
        <5>4. dissection[pick] \in Nat  BY <5>1, <3>1
        <5>5. dissection[i] \in Nat  BY <4>2, <3>1
        <5> QED  BY <5>1, <5>2, <5>3, <5>4, <5>5
      <4>3. next \in Nat /\ next # NONE  BY <2>1 DEF Seeds
      <4>4. \A i \in Seeds : i < next + 1 /\ dissection[i] # NONE =>
              dissection[next] < dissection[i] \/ (dissection[next] = dissection[i] /\ next <= i)
        <5>1. \A i \in Seeds : i = next => next <= i  BY <4>3
        <5> QED  BY <5>1, <4>2, <3>3
      <4>5. pick' < next' /\ pick' # NONE /\ dissection'[pick'] # NONE
        <5>1. next < next + 1  BY <4>3
        <5> QED  BY <5>1, <4>1, <4>3, <3>2, Zenon
      <4> QED  BY <4>1, <4>4, <4>5, <3>2 DEF PickAmong
    <3>5. CASE ~Improves(next)
      <4>1. pick' = pick  BY <3>5
      <4>2. CASE pick = NONE
        <5>1. dissection[next] = NONE  BY <3>5, <4>2, <2>2 DEF Improves
        <5> QED  BY <5>1, <4>1, <4>2, <3>2, <3>3, <2>1 DEF PickAmong
      <4>3. CASE pick # NONE
        <5>1. pick \in Seeds /\ pick < next /\ dissection[pick] # NONE
          BY <4>3, <2>1 DEF PickAmong, RaceTypeOK
        <5>2. dissection[next] # NONE => dissection[pick] <= dissection[next]
          BY <5>1, <4>3, <3>1, <3>5, <2>1, <2>2 DEF Improves
        <5>3. dissection[next] # NONE =>
                \/ dissection[pick] < dissection[next]
                \/ dissection[pick] = dissection[next] /\ pick <= next
          BY <5>1, <5>2, <3>1, <2>1 DEF Seeds
        <5>4. pick < next + 1  BY <5>1, <2>1 DEF Seeds
        <5> QED  BY <5>1, <5>3, <5>4, <4>1, <4>3, <3>2, <3>3, <2>1 DEF PickAmong
      <4> QED  BY <4>2, <4>3
    <3> QED  BY <3>4, <3>5
  <2>7. PickSoFar' /\ OutcomeIsSequential'
    <3>1. next + 1 <= seeds  BY <2>1 DEF Seeds, RaceTypeOK
    <3> QED  BY <3>1, <2>6 DEF PickSoFar, OutcomeIsSequential, Awaited
  <2> QED  BY <2>3, <2>4, <2>5, <2>7
<1>12. CASE Return
  <2> USE <1>12 DEF Return, inputs
  <2>1. ChampionAmong(NumCandidates) /\ seeds = Count(best)
    BY DEF ChampionSoFar, Settled
  <2>2. next = seeds /\ PickAmong(seeds)  BY DEF PickSoFar, RaceTypeOK
  <2>3. best = NONE => lastErr = NumCandidates  BY <2>1 DEF ChampionAmong
  <2>4. outcome' \in Outcomes
    <3>1. CASE Replaces
      BY <3>1 DEF Replaces, RaceTypeOK, Outcomes
    <3>2. CASE ~Replaces /\ best # NONE
      BY <3>2 DEF RaceTypeOK, Outcomes
    <3>3. CASE best = NONE
      BY <3>3, <2>3 DEF Replaces, Outcomes, Candidates
    <3> QED  BY <3>1, <3>2, <3>3
  <2>5. RaceTypeOK' /\ TasksAgree'  BY <2>4 DEF RaceTypeOK, TasksAgree, Places
  <2>6. StartedSoFar'  BY DEF StartedSoFar, Settled, Awaited, Parallel
  <2>7. ChampionSoFar'
    BY <2>1 DEF ChampionSoFar, ChampionAmong, Count, Settled
  <2>8. PickSoFar'  BY DEF PickSoFar, Awaited
  <2>9. Sequential(outcome)'
    <3>1. CASE best = NONE
      <4>1. Succeeded = {}
        BY <2>1, <3>1 DEF ChampionAmong, Succeeded, Candidates
      <4>2. outcome' = [kind |-> "error", of |-> NumCandidates]
        BY <3>1, <2>3 DEF Replaces
      <4> QED  BY <4>1, <4>2 DEF Sequential, Succeeded
    <3>2. CASE best # NONE
      <4>1. best \in Candidates /\ candidate[best] \in Prefix
        BY <3>2, <2>1 DEF RaceTypeOK, ChampionAmong
      <4>2. best \in Succeeded /\ FirstLeast(best, Succeeded, Fill)
        BY <4>1, <3>2, <2>1 DEF ChampionAmong, Succeeded, FirstLeast, Fill, Candidates
      <4>3. \A i \in Seeds : i < seeds <=> Counts(i, best)
        BY <4>1, <3>2, <2>1 DEF Count, Counts, Seeds, Prefix, RaceTypeOK, Gates
      <4>4. Dissected(best) = {i \in Seeds : i < seeds /\ dissection[i] # NONE}
        BY <4>3 DEF Dissected
      <4>5. candidate[best].fill \in Nat /\ \A i \in Dissected(best) : dissection[i] \in Nat
        BY <4>1, <4>4 DEF Prefix, RaceTypeOK
      <4>6. CASE pick = NONE
        <5>1. Dissected(best) = {}  BY <4>6, <4>4, <2>2 DEF PickAmong
        <5>2. outcome' = [kind |-> "candidate", of |-> best]
          BY <4>6, <3>2 DEF Replaces
        <5> QED  BY <5>1, <5>2, <4>2 DEF Sequential, Succeeded, Fill, FirstLeast, Dissected, Counts
      <4>7. CASE pick # NONE
        <5>1. pick \in Dissected(best)
          BY <4>7, <4>4, <2>2 DEF PickAmong, RaceTypeOK
        <5>2. FirstLeast(pick, Dissected(best), dissection)
          BY <5>1, <4>7, <4>4, <2>2 DEF PickAmong, FirstLeast
        <5>3. CASE dissection[pick] < candidate[best].fill
          <6>1. outcome' = [kind |-> "dissection", of |-> pick]
            BY <5>3, <4>7, <3>2 DEF Replaces
          <6> QED  BY <6>1, <5>1, <5>2, <5>3, <4>2
                   DEF Sequential, Succeeded, Fill, FirstLeast, Dissected, Counts
        <5>4. CASE ~(dissection[pick] < candidate[best].fill)
          <6>1. outcome' = [kind |-> "candidate", of |-> best]
            BY <5>4, <3>2 DEF Replaces
          <6>2. \A i \in Dissected(best) : candidate[best].fill <= dissection[i]
            BY <5>1, <5>2, <5>4, <4>5 DEF FirstLeast
          <6> QED  BY <6>1, <6>2, <4>2
                   DEF Sequential, Succeeded, Fill, FirstLeast, Dissected, Counts
        <5> QED  BY <5>3, <5>4
      <4> QED  BY <4>6, <4>7
    <3> QED  BY <3>1, <3>2
  <2> QED  BY <2>5, <2>6, <2>7, <2>8, <2>9 DEF OutcomeIsSequential
<1>13. CASE UNCHANGED raceVars
  <2> USE <1>13 DEF raceVars, inputs
  <2>1. RaceTypeOK' /\ TasksAgree'  BY DEF RaceTypeOK, TasksAgree
  <2>2. ChampionSoFar' /\ StartedSoFar' /\ PickSoFar'
    BY DEF ChampionSoFar, ChampionAmong, StartedSoFar, PickSoFar, PickAmong, Count, Parallel
  <2>3. OutcomeIsSequential'
    BY DEF OutcomeIsSequential, Sequential, Succeeded, Fill, FirstLeast, Dissected, Counts
  <2> QED  BY <2>1, <2>2, <2>3
<1> QED
  BY <1>1, <1>2, <1>3, <1>4, <1>5, <1>6, <1>7, <1>8, <1>9, <1>10, <1>11, <1>12, <1>13
  DEF RaceNext, Main

\* IInv is an invariant.
LEMMA InvariantHolds == RaceSpec => []IInv
<1>1. RaceInit => IInv  BY InitHolds
<1>2. IInv /\ [RaceNext]_raceVars => IInv'  BY StepKeeps
<1> QED  BY <1>1, <1>2, PTL DEF RaceSpec

\* Whatever the threads did, race() returns what one thread would.
THEOREM OutcomeHolds == RaceSpec => []OutcomeIsSequential
<1>1. IInv => OutcomeIsSequential  BY DEF IInv
<1> QED  BY <1>1, InvariantHolds, PTL

\* The flags of start() let every seed be dissected at most once.
THEOREM SeedsRunOnce == RaceSpec => []EachSeedOnce
<1>1. IInv => EachSeedOnce  BY DEF IInv, TasksAgree, EachSeedOnce
<1> QED  BY <1>1, InvariantHolds, PTL

\* The scope ends after every dissection that counts, and what is thrown away
\* is at most the first seed's.
THEOREM CountedRanAndWasteIsBounded == RaceSpec => [](CountedSeedsRan /\ WasteIsOneSeed)
<1>1. IInv => CountedSeedsRan
  BY DEF IInv, StartedSoFar, Awaited, CountedSeedsRan
<1>2. IInv => WasteIsOneSeed
  BY DEF IInv, TasksAgree, StartedSoFar, Settled, WasteIsOneSeed
<1> QED  BY <1>1, <1>2, InvariantHolds, PTL

\* Together: the race does what one thread would, and that once.
THEOREM RaceAsOneThread == RaceSpec => []RaceIsSequential
BY OutcomeHolds, SeedsRunOnce, CountedRanAndWasteIsBounded, PTL DEF RaceIsSequential
=============================================================================
