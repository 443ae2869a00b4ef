------------------------------- MODULE LogSink -------------------------------
(***************************************************************************)
(* The library's one log sink (src/src/logging.rs) and the Python callable *)
(* that may be it (python/src/logging.rs).                                 *)
(*                                                                         *)
(* A record is handed over under the sink's read lock, a sink installed    *)
(* under its write lock.  A thread runs Python holding the interpreter     *)
(* lock (the GIL), which the interpreter takes away from it between any    *)
(* two instructions, and native work without; the records of a             *)
(* factorization's workers are those of the thread that waits for it.  A   *)
(* Python sink takes the GIL for its call.                                 *)
(***************************************************************************)
EXTENDS Naturals

CONSTANTS
  Loggers,      \* the threads
  Environment,  \* what RLA_LOG may say: one of the levels, or UNSET
  SetLevels,    \* the levels that are set
  RecordLevels, \* the levels of the records
  MaxInstalls,  \* sinks installed one after the other (a bound of the model)
  UNSET, NOBODY

ASSUME LoggersAssumption == NOBODY \notin Loggers

\* LogLevel, in its order.
Debug == 1
Info == 2
Warning == 3
Error == 4
Off == 5

VARIABLES
  envLevel,  \* what RLA_LOG says
  active,    \* LEVEL, or UNSET
  sink,      \* SINK: which it is, and whether it is Python's
  gil,       \* who holds the interpreter lock, or NOBODY
  guards,    \* who holds the read lock of SINK
  logger     \* what each thread is doing

logVars == <<envLevel, active, sink, gil, guards, logger>>

DefaultSink == [number |-> 0, python |-> FALSE]
PySink(i) == [number |-> i, python |-> TRUE]

LogInit ==
  /\ envLevel \in Environment /\ active = UNSET
  /\ sink = DefaultSink /\ gil = NOBODY /\ guards = {}
  /\ logger = [t \in Loggers |-> [at |-> "python"]]

Goes(t, c) == logger' = [logger EXCEPT ![t] = c]

Level == IF active # UNSET THEN active ELSE IF envLevel # UNSET THEN envLevel ELSE Warning
Enabled(lvl) == lvl # Off /\ lvl >= Level

-----------------------------------------------------------------------------
(***************************************************************************)
(* The interpreter.                                                        *)
(***************************************************************************)
Takes(t) ==
  /\ logger[t].at = "python" /\ gil = NOBODY /\ gil' = t
  /\ UNCHANGED <<envLevel, active, sink, guards, logger>>
Yields(t) ==
  /\ logger[t].at = "python" /\ gil = t /\ gil' = NOBODY
  /\ UNCHANGED <<envLevel, active, sink, guards, logger>>

\* A factorization or a solve: off the GIL.
Releases(t) ==
  /\ logger[t].at = "python" /\ gil = t
  /\ gil' = NOBODY /\ Goes(t, [at |-> "native"])
  /\ UNCHANGED <<envLevel, active, sink, guards>>
Returns(t) ==
  /\ logger[t].at = "native" /\ Goes(t, [at |-> "python"])
  /\ UNCHANGED <<envLevel, active, sink, gil, guards>>

-----------------------------------------------------------------------------
(***************************************************************************)
(* A record.                                                               *)
(***************************************************************************)
\* One that is not enabled changes nothing.
Emits(t) ==
  /\ logger[t].at = "native" /\ \E lvl \in RecordLevels : Enabled(lvl)
  /\ Goes(t, [at |-> "emit"])
  /\ UNCHANGED <<envLevel, active, sink, gil, guards>>

\* Of a mutant: the sink is looked up and the lock let go.
LetsGo(t) == guards
ReadLocked(t) == guards \cup {t}
LooksUp(t) ==
  /\ logger[t].at = "emit"
  /\ guards' = ReadLocked(t) /\ Goes(t, [at |-> "deliver", to |-> sink])
  /\ UNCHANGED <<envLevel, active, sink, gil>>

\* The default sink prints.
Prints(t) ==
  /\ logger[t].at = "deliver" /\ ~logger[t].to.python
  /\ guards' = guards \ {t} /\ Goes(t, [at |-> "native"])
  /\ UNCHANGED <<envLevel, active, sink, gil>>

\* A Python sink is called under the GIL; what it raises is printed.
Calls(t) ==
  /\ logger[t].at = "deliver" /\ logger[t].to.python /\ gil = NOBODY
  /\ gil' = t /\ Goes(t, [logger[t] EXCEPT !.at = "called"])
  /\ UNCHANGED <<envLevel, active, sink, guards>>
CallEnds(t) ==
  /\ logger[t].at = "called"
  /\ gil' = NOBODY /\ guards' = guards \ {t} /\ Goes(t, [at |-> "native"])
  /\ UNCHANGED <<envLevel, active, sink>>

-----------------------------------------------------------------------------
(***************************************************************************)
(* set_log_level and set_log_sink: Python functions, the GIL is held.      *)
(***************************************************************************)
SetLogLevel(t) ==
  /\ logger[t].at = "python" /\ gil = t
  /\ active' \in SetLevels
  /\ UNCHANGED <<envLevel, sink, gil, guards, logger>>

SetLogSink(t) ==
  /\ logger[t].at = "python" /\ gil = t /\ sink.number < MaxInstalls
  /\ \E s \in {PySink(sink.number + 1), [DefaultSink EXCEPT !.number = sink.number + 1]} :
       Goes(t, [at |-> "install", sink |-> s])
  /\ UNCHANGED <<envLevel, active, sink, gil, guards>>
Installs(t) ==
  /\ logger[t].at = "install" /\ guards = {}
  /\ sink' = logger[t].sink /\ Goes(t, [at |-> "python"])
  /\ UNCHANGED <<envLevel, active, gil, guards>>

-----------------------------------------------------------------------------
LogStep(t) ==
  \/ Takes(t) \/ Yields(t) \/ Releases(t) \/ Returns(t)
  \/ Emits(t) \/ LooksUp(t) \/ Prints(t) \/ Calls(t) \/ CallEnds(t)
  \/ SetLogLevel(t) \/ SetLogSink(t) \/ Installs(t)
LogNext == \E t \in Loggers : LogStep(t)
LogSpec == LogInit /\ [][LogNext]_logVars

\* Threads run and the interpreter switches between them; the GIL, and the write
\* lock, go to everyone who asks for them again and again.
Advances(t) == LooksUp(t) \/ Prints(t) \/ CallEnds(t) \/ Yields(t)
FairLog ==
  LogSpec /\ \A t \in Loggers : WF_logVars(Advances(t)) /\ SF_logVars(Calls(t)) /\ SF_logVars(Installs(t))

-----------------------------------------------------------------------------
(***************************************************************************)
(* A sink a record is being handed to is the one installed: it is not      *)
(* replaced, and dropped, under the call; and a Python sink runs alone.    *)
(***************************************************************************)
SinkOutlivesItsRecords ==
  /\ \A t \in Loggers : logger[t].at \in {"deliver", "called"} => logger[t].to = sink
  /\ \A t \in Loggers : logger[t].at = "called" => gil = t

\* set_log_sink returns: "routes the core's log messages to the sink", and None
\* restores the default.
SinkIsSet == \A t \in Loggers : logger[t].at = "install" ~> logger[t].at # "install"
=============================================================================
