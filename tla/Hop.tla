-------------------------------- MODULE Hop --------------------------------
(***************************************************************************)
(* enter (src/src/numeric/settings.rs) from a worker of a foreign rayon    *)
(* pool: the worker hands its closure to a thread of its own through a     *)
(* slot under a mutex and a condition variable both wait on, blocks until  *)
(* the slot says done, and takes the closure's panic over.  The hop thread *)
(* is started by the first entry, kept for the worker's life, and told to  *)
(* quit when the worker's thread-locals are dropped.                       *)
(*                                                                         *)
(* A closure is abstracted to the number of the call that lent it.  The    *)
(* condition variable may wake a waiter without a notification.            *)
(***************************************************************************)
EXTENDS Naturals

CONSTANT MaxCalls   \* the calls the worker makes in its life

ASSUME MaxCallsAssumption == MaxCalls \in Nat

VARIABLES
  calls,    \* the calls begun; the last one's number names its closure
  shared,   \* Hop::shared: "unset", "none" (no thread) or "some"
  slot,     \* HopShared::slot: [st, job, end]
  holder,   \* who holds the slot's mutex
  asleep,   \* who waits on the condition variable, not yet woken
  wpc,      \* where the worker is
  hpc,      \* where the hop thread is
  job,      \* the closure the hop thread took from the slot
  end,      \* how it ended
  answer    \* what the worker's last call came back with

vars == <<calls, shared, slot, holder, asleep, wpc, hpc, job, end, answer>>

Empty == [st |-> "empty", job |-> 0, end |-> "none"]
Job(k) == [st |-> "job", job |-> k, end |-> "none"]
DoneOk(e) == [st |-> "done", job |-> 0, end |-> "ok"]
Done(e) == [st |-> "done", job |-> 0, end |-> e]
Quit == [st |-> "quit", job |-> 0, end |-> "none"]

TypeOK ==
  /\ calls \in 0..MaxCalls
  /\ shared \in {"unset", "none", "some"}
  /\ slot \in {Empty, Quit} \cup {Job(k) : k \in 1..MaxCalls} \cup {Done("ok"), Done("panic")}
  /\ holder \in {"nobody", "worker", "hop"}
  /\ asleep \subseteq {"worker", "hop"}
  /\ wpc \in {"free", "entering", "locking", "looking", "waiting", "alone", "ran",
              "quit", "gone"}
  /\ hpc \in {"unborn", "locking", "looking", "waiting", "running", "reporting", "gone"}
  /\ job \in 0..MaxCalls
  /\ end \in {"none", "ok", "panic"}
  /\ answer \in {"none", "ok", "panic"}

Init ==
  /\ calls = 0 /\ shared = "unset" /\ slot = Empty /\ holder = "nobody" /\ asleep = {}
  /\ wpc = "free" /\ hpc = "unborn" /\ job = 0 /\ end = "none" /\ answer = "none"

NotifyAll == {}

-----------------------------------------------------------------------------
(***************************************************************************)
(* The worker.                                                             *)
(***************************************************************************)
Call ==
  /\ wpc = "free" /\ calls < MaxCalls
  /\ calls' = calls + 1 /\ answer' = "none"
  /\ wpc' = "entering"
  /\ UNCHANGED <<shared, slot, holder, asleep, hpc, job, end>>

\* `get_or_init(HopShared::start)': the thread starts, or does not.
StartHop ==
  /\ wpc = "entering" /\ shared = "unset"
  /\ \/ shared' = "some" /\ hpc' = "locking" /\ wpc' = "locking"
     \/ shared' = "none" /\ hpc' = hpc /\ wpc' = "alone"
  /\ UNCHANGED <<calls, slot, holder, asleep, job, end, answer>>

FindHop ==
  /\ wpc = "entering" /\ shared # "unset"
  /\ wpc' = IF shared = "some" THEN "locking" ELSE "alone"
  /\ UNCHANGED <<calls, shared, slot, holder, asleep, hpc, job, end, answer>>

\* No hop thread: the worker installs the job itself.
RunAlone ==
  /\ wpc = "alone"
  /\ end' \in {"ok", "panic"}
  /\ wpc' = "ran"
  /\ UNCHANGED <<calls, shared, slot, holder, asleep, hpc, job, answer>>

ReturnAlone ==
  /\ wpc = "ran"
  /\ answer' = end /\ end' = "none"
  /\ wpc' = "free"
  /\ UNCHANGED <<calls, shared, slot, holder, asleep, hpc, job>>

HandOver ==
  /\ wpc = "locking" /\ holder = "nobody"
  /\ holder' = "worker"
  /\ slot' = Job(calls)
  /\ asleep' = NotifyAll
  /\ wpc' = "looking"
  /\ UNCHANGED <<calls, shared, hpc, job, end, answer>>

\* The slot was taken to look at it: anything but its answer is put back.
Dropped(s) == Empty
PutBack(s) == s

AnswerGuessed == slot.st # "job"
AnswerSeen == slot.st = "done"

TakeAnswer ==
  /\ wpc = "looking" /\ AnswerSeen
  /\ slot' = Empty /\ holder' = "nobody"
  /\ answer' = slot.end
  /\ wpc' = "free"
  /\ UNCHANGED <<calls, shared, asleep, hpc, job, end>>

WorkerWaits ==
  /\ wpc = "looking" /\ ~AnswerSeen
  /\ slot' = PutBack(slot)
  /\ holder' = "nobody" /\ asleep' = asleep \cup {"worker"}
  /\ wpc' = "waiting"
  /\ UNCHANGED <<calls, shared, hpc, job, end, answer>>

WorkerWakes ==
  /\ wpc = "waiting" /\ "worker" \notin asleep /\ holder = "nobody"
  /\ holder' = "worker"
  /\ wpc' = "looking"
  /\ UNCHANGED <<calls, shared, slot, asleep, hpc, job, end, answer>>

\* The worker thread ends: Drop for Hop sets the slot, then signals.
NobodyToTell == FALSE
HopToTell == shared = "some"

DropSlot ==
  /\ wpc = "free"
  /\ IF HopToTell
       THEN holder = "nobody" /\ slot' = Quit /\ wpc' = "quit"
       ELSE UNCHANGED slot /\ wpc' = "gone"
  /\ UNCHANGED <<calls, shared, holder, asleep, hpc, job, end, answer>>

DropSignal ==
  /\ wpc = "quit"
  /\ asleep' = NotifyAll
  /\ wpc' = "gone"
  /\ UNCHANGED <<calls, shared, slot, holder, hpc, job, end, answer>>

-----------------------------------------------------------------------------
(***************************************************************************)
(* The hop thread (HopShared::serve).                                      *)
(***************************************************************************)
HopLocks ==
  /\ \/ hpc = "locking"
     \/ hpc = "waiting" /\ "hop" \notin asleep
  /\ holder = "nobody"
  /\ holder' = "hop"
  /\ hpc' = "looking"
  /\ UNCHANGED <<calls, shared, slot, asleep, wpc, job, end, answer>>

TakeJob ==
  /\ hpc = "looking" /\ slot.st = "job"
  /\ job' = slot.job /\ slot' = Empty /\ holder' = "nobody"
  /\ hpc' = "running"
  /\ UNCHANGED <<calls, shared, asleep, wpc, end, answer>>

HopQuits ==
  /\ hpc = "looking" /\ slot.st = "quit"
  /\ slot' = Empty /\ holder' = "nobody"
  /\ hpc' = "gone"
  /\ UNCHANGED <<calls, shared, asleep, wpc, job, end, answer>>

HopWaits ==
  /\ hpc = "looking" /\ slot.st \notin {"job", "quit"}
  /\ slot' = PutBack(slot)
  /\ holder' = "nobody" /\ asleep' = asleep \cup {"hop"}
  /\ hpc' = "waiting"
  /\ UNCHANGED <<calls, shared, wpc, job, end, answer>>

\* The job runs, outside the lock; its panic is caught.
RunJob ==
  /\ hpc = "running"
  /\ end' \in {"ok", "panic"}
  /\ hpc' = "reporting"
  /\ UNCHANGED <<calls, shared, slot, holder, asleep, wpc, job, answer>>

Report ==
  /\ hpc = "reporting" /\ holder = "nobody"
  /\ holder' = "hop"
  /\ slot' = Done(end) /\ job' = 0 /\ end' = "none"
  /\ asleep' = NotifyAll
  /\ hpc' = "looking"
  /\ UNCHANGED <<calls, shared, wpc, answer>>

\* The condition variable wakes somebody for no reason.
SpuriousWake ==
  /\ \E t \in asleep : asleep' = asleep \ {t}
  /\ UNCHANGED <<calls, shared, slot, holder, wpc, hpc, job, end, answer>>

-----------------------------------------------------------------------------
InCall ==
  \/ StartHop \/ FindHop \/ RunAlone \/ ReturnAlone \/ HandOver \/ TakeAnswer \/ WorkerWaits
  \/ WorkerWakes \/ DropSignal

Serve == HopLocks \/ TakeJob \/ HopQuits \/ HopWaits \/ RunJob \/ Report

Next == Call \/ InCall \/ DropSlot \/ Serve \/ SpuriousWake

Spec == Init /\ [][Next]_vars

(***************************************************************************)
(* Both threads are scheduled, the mutex is not withheld from a thread for *)
(* ever, and a job ends.  Nobody is obliged to call, the worker need never *)
(* end, and no spurious wake-up is relied on.                              *)
(***************************************************************************)
FairSpec == Spec /\ SF_vars(InCall) /\ SF_vars(Serve)

-----------------------------------------------------------------------------
InRun == wpc \in {"looking", "waiting"}
Calling == {"entering", "locking", "looking", "waiting", "alone", "ran"}

(***************************************************************************)
(* The closure's lifetime was erased: the hop thread holds it, or finds it *)
(* in the slot, only while the call that lent it is blocked (the SAFETY    *)
(* comments of Hop::run and serve).                                        *)
(***************************************************************************)
ClosureOutlivesUse ==
  /\ hpc \in {"running", "reporting"} => InRun /\ job = calls
  /\ slot.st = "job" => InRun /\ slot.job = calls

(***************************************************************************)
(* The signal is never lost: whoever sleeps sleeps with nothing to do, or  *)
(* the other one will still signal.                                        *)
(***************************************************************************)
NoLostSignal ==
  /\ "hop" \in asleep => slot.st \in {"empty", "done"} \/ wpc = "quit"
  /\ "worker" \in asleep => slot.st # "done"

\* What the hand-over rests on: the loan and the signal.
HandshakeIsSound == ClosureOutlivesUse /\ NoLostSignal

(***************************************************************************)
(* The hand-over keeps the promise.                                        *)
(***************************************************************************)
Promise == INSTANCE HopPromise WITH
  blocked <- wpc \in Calling,
  ran <- end # "none" \/ slot.st = "done",
  outcome <- IF end # "none" THEN end ELSE slot.end
ImplementsPromise == Promise!Spec

\* Every call returns, whatever its job did; a dropped hop's thread ends.
HopAtRest == wpc \notin Calling /\ (wpc \in {"quit", "gone"} => hpc \in {"unborn", "gone"})
HopEnds == []<>HopAtRest
=============================================================================
