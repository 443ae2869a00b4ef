----------------------------- MODULE HopPromise -----------------------------
(***************************************************************************)
(* What enter (src/src/numeric/settings.rs) promises a caller that hands a *)
(* job to another thread: every call runs its own job, once, while the     *)
(* caller is blocked, and comes back with what that job did.               *)
(***************************************************************************)
EXTENDS Naturals

CONSTANT MaxCalls   \* the calls the worker makes in its life

VARIABLES
  calls,     \* the calls begun
  blocked,   \* the caller waits in the call
  ran,       \* the job in hand has run
  outcome,   \* "none", or how the job in hand ended: "ok", "panic"
  answer     \* what the last call came back with

vars == <<calls, blocked, ran, outcome, answer>>

Init == calls = 0 /\ blocked = FALSE /\ ran = FALSE /\ outcome = "none" /\ answer = "none"

Ask ==
  /\ ~blocked /\ calls < MaxCalls
  /\ calls' = calls + 1 /\ blocked' = TRUE /\ answer' = "none"
  /\ UNCHANGED <<ran, outcome>>

Run ==
  /\ blocked /\ ~ran
  /\ ran' = TRUE /\ outcome' \in {"ok", "panic"}
  /\ UNCHANGED <<calls, blocked, answer>>

Answer ==
  /\ blocked /\ ran
  /\ blocked' = FALSE /\ ran' = FALSE /\ answer' = outcome /\ outcome' = "none"
  /\ UNCHANGED calls

Next == Ask \/ Run \/ Answer

Spec == Init /\ [][Next]_vars
=============================================================================
