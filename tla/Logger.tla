--------------------------------- MODULE Logger --------------------------------
(***************************************************************************)
(* fastly::log (log.h, src/cpp/log.cpp): the builder, the global logger    *)
(* that init makes of it, and the statements that go through it.  A name   *)
(* that is none throws before anything is changed, and is left out.        *)
(*                                                                         *)
(* What the crate log_fastly does with the calls is external; it is here   *)
(* as log.h describes it and its examples use it.                          *)
(***************************************************************************)
EXTENDS Integers

CONSTANTS
  LogEndpoints, \* names of endpoints
  NoEndpoint,   \* none; the target of a statement without _to
  Filters,      \* bound: the LogLevelFilters that programs use
  LogCalls      \* bound: the calls that configure a builder

ASSUME LogAssumption ==
  /\ NoEndpoint \notin LogEndpoints /\ {"stdout", "stderr"} \cap LogEndpoints = {}
  /\ Filters \subseteq 0 .. 5 /\ LogCalls \in Nat

VARIABLES
  g_builder, \* the LoggerBuilder that is being configured
  g_calls,   \* how many calls configured it
  g_logger,  \* the global logger, a builder that was initialised
  g_max,     \* the global maximum level
  g_last     \* the last statement, and where it was written

gvars == <<g_builder, g_calls, g_logger, g_max, g_last>>

\* LogLevel; a LogLevelFilter is one of them or Off.
Levels == 1 .. 5
Off == 0
\* Where a statement may be written besides its endpoint.
Echoes == {"stdout", "stderr"}

\* registered has a level for each endpoint, Off - 1 for those that are not.
NotRegistered == Off - 1
Configured(live, registered, defaults, max, echo) ==
  [live |-> live, registered |-> registered, defaults |-> defaults, max |-> max,
   echo |-> echo]
Empty(live) ==
  Configured(live, [e \in LogEndpoints |-> NotRegistered],
             [l \in Levels |-> NoEndpoint], Off, {})
NoStatement == [level |-> 1, to |-> NoEndpoint, written |-> {}]

Loggers == [live : BOOLEAN, registered : [LogEndpoints -> -1 .. 5],
            defaults : [Levels -> LogEndpoints \cup {NoEndpoint}], max : 0 .. 5,
            echo : SUBSET Echoes]
Registers(logger) ==
  \A l \in Levels : logger.defaults[l] # NoEndpoint
                      => logger.registered[logger.defaults[l]] # NotRegistered

\* A default endpoint is registered, and nothing is written without a logger.
GTypeOK ==
  /\ g_builder \in Loggers /\ Registers(g_builder)
  /\ g_logger \in Loggers /\ Registers(g_logger)
  /\ g_calls \in Nat
  /\ g_max \in 0 .. 5
  /\ g_last.written \in SUBSET (LogEndpoints \cup Echoes)
  /\ ~g_logger.live => g_logger = Empty(FALSE) /\ g_max = Off /\ g_last = NoStatement

GInit ==
  /\ g_builder = Empty(TRUE) /\ g_calls = 0
  /\ g_logger = Empty(FALSE) /\ g_max = Off /\ g_last = NoStatement

-------------------------------------------------------------------------------
(* LoggerBuilder. *)

Configure(builder) ==
  /\ g_builder.live /\ g_calls < LogCalls
  /\ g_builder' = builder /\ g_calls' = g_calls + 1
  /\ UNCHANGED <<g_logger, g_max, g_last>>

\* endpoint lets all messages through, and keeps no level that was set before.
Registered(builder, e, level) == [builder EXCEPT !.registered[e] = level]
endpoint(e) == Configure(Registered(g_builder, e, 5))
endpoint_level(e, level) == Configure(Registered(g_builder, e, level))

\* A default endpoint is registered if it is not yet.
RegisteredDefault(e) ==
  IF g_builder.registered[e] = NotRegistered THEN Registered(g_builder, e, 5) ELSE g_builder
WithDefaults_Only(e, levels) ==
  [g_builder EXCEPT !.defaults = [l \in Levels |-> IF l \in levels THEN e ELSE @[l]]]
WithDefaults(e, levels) ==
  [RegisteredDefault(e) EXCEPT !.defaults =
     [l \in Levels |-> IF l \in levels THEN e ELSE @[l]]]
default_endpoint(e) == Configure(WithDefaults(e, Levels))
default_level_endpoint(e, level) == Configure(WithDefaults(e, {level}))

max_level_of(level) == Configure([g_builder EXCEPT !.max = level])
Echo(where, enabled) ==
  Configure([g_builder EXCEPT !.echo = IF enabled THEN @ \cup {where} ELSE @ \ {where}])
echo_stdout(enabled) == Echo("stdout", enabled)
echo_stderr(enabled) == Echo("stderr", enabled)

\* init, once; a second logger panics, and the instance ends.
init ==
  /\ g_builder.live
  /\ IF g_logger.live
     THEN /\ g_builder' = Empty(TRUE) /\ g_calls' = 0
          /\ g_logger' = Empty(FALSE) /\ g_max' = Off /\ g_last' = NoStatement
     ELSE /\ g_logger' = g_builder /\ g_max' = g_builder.max
          /\ g_builder' = [g_builder EXCEPT !.live = FALSE]
          /\ UNCHANGED <<g_calls, g_last>>

\* init_simple: one endpoint, the default for all levels.
init_simple(e, level) ==
  /\ g_calls = 0 /\ g_builder.live /\ ~g_logger.live
  /\ g_logger' = [WithDefaults(e, Levels) EXCEPT !.max = level]
  /\ g_max' = level
  /\ g_builder' = [g_logger' EXCEPT !.live = FALSE]
  /\ UNCHANGED <<g_calls, g_last>>

set_max_level(level) ==
  /\ g_logger.live /\ g_max' = level
  /\ UNCHANGED <<g_builder, g_calls, g_logger, g_last>>

-------------------------------------------------------------------------------
(* Statements. *)

\* The endpoint of a statement: its own, if it is registered, or the default.
Endpoint(level, to) ==
  IF to # NoEndpoint /\ g_logger.registered[to] # NotRegistered THEN to
  ELSE g_logger.defaults[level]
Emitted(level, e) ==
  /\ level <= g_max
  /\ e # NoEndpoint /\ level <= g_logger.registered[e]
Echoed(level) == {w \in g_logger.echo : level <= g_max}
log_to(to, level) ==
  /\ g_logger.live
  /\ g_last' = [level |-> level, to |-> to,
                written |-> {e \in {Endpoint(level, to)} : Emitted(level, e)}
                              \cup Echoed(level)]
  /\ UNCHANGED <<g_builder, g_calls, g_logger, g_max>>
error(to) == log_to(to, 1)
warn(to) == log_to(to, 2)
info(to) == log_to(to, 3)
debug(to) == log_to(to, 4)
trace(to) == log_to(to, 5)

GNext ==
  \/ \E e \in LogEndpoints :
       \/ endpoint(e) \/ default_endpoint(e)
       \/ \E level \in Filters : endpoint_level(e, level) \/ init_simple(e, level)
       \/ \E level \in Levels : default_level_endpoint(e, level)
  \/ \E level \in Filters : max_level_of(level) \/ set_max_level(level)
  \/ \E enabled \in BOOLEAN : echo_stdout(enabled) \/ echo_stderr(enabled)
  \/ init
  \/ \E to \in LogEndpoints \cup {NoEndpoint} :
       error(to) \/ warn(to) \/ info(to) \/ debug(to) \/ trace(to)

GSpec == GInit /\ [][GNext]_gvars

===============================================================================
