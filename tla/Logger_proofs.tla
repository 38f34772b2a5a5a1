------------------------------ MODULE Logger_proofs -----------------------------
(***************************************************************************)
(* Proofs about Logger, for any set of endpoints, any filters and any      *)
(* number of calls that configure a builder.                               *)
(***************************************************************************)
EXTENDS Logger, TLAPS

LEMMA EmptyType ==
  ASSUME NEW live \in BOOLEAN
  PROVE  /\ Empty(live) \in Loggers /\ Registers(Empty(live))
         /\ Empty(live).live = live
BY DEF Empty, Configured, Loggers, Echoes, Registers, NotRegistered, Off, Levels

\* The state in which an instance begins, and after the panic of init.
LEMMA LoggerInit == GInit => GTypeOK
<1> SUFFICES ASSUME GInit PROVE GTypeOK
  OBVIOUS
<1>1. /\ g_builder \in Loggers /\ Registers(g_builder)
      /\ g_logger \in Loggers /\ Registers(g_logger)
  BY EmptyType DEF GInit
<1>2. g_calls \in Nat /\ g_max \in 0 .. 5 /\ g_last.written \in SUBSET (LogEndpoints \cup Echoes)
  BY DEF GInit, Off, NoStatement
<1>3. QED
  BY <1>1, <1>2 DEF GInit, GTypeOK

LEMMA LoggerPanics == ASSUME GInit' PROVE GTypeOK'
<1>1. GInit' => GTypeOK'
  BY LoggerInit, PTL
<1>2. QED
  BY <1>1

-------------------------------------------------------------------------------
(* The calls that configure a builder. *)

LEMMA ConfigureStep ==
  ASSUME GTypeOK, NEW made \in Loggers, Registers(made), Configure(made)
  PROVE  GTypeOK'
<1>1. g_calls' \in Nat
  BY DEF Configure, GTypeOK
<1>2. g_builder' = made /\ UNCHANGED <<g_logger, g_max, g_last>>
  BY DEF Configure
<1>3. QED
  BY <1>1, <1>2 DEF GTypeOK

LEMMA RegisteredType ==
  ASSUME NEW made \in Loggers, Registers(made), NEW e \in LogEndpoints, NEW level \in 0 .. 5
  PROVE  /\ Registered(made, e, level) \in Loggers
         /\ Registers(Registered(made, e, level))
         /\ Registered(made, e, level).defaults = made.defaults
         /\ Registered(made, e, level).live = made.live
         /\ Registered(made, e, level).registered[e] = level
BY DEF Registered, Loggers, Registers, NotRegistered, Off

LEMMA WithDefaultsType ==
  ASSUME g_builder \in Loggers, Registers(g_builder), NEW e \in LogEndpoints,
         NEW levels \in SUBSET Levels
  PROVE  /\ WithDefaults(e, levels) \in Loggers
         /\ Registers(WithDefaults(e, levels))
         /\ WithDefaults(e, levels).live = g_builder.live
<1> DEFINE with == RegisteredDefault(e)
<1>1. /\ with \in Loggers /\ Registers(with) /\ with.defaults = g_builder.defaults
      /\ with.live = g_builder.live /\ with.registered[e] # NotRegistered
  <2>1. CASE g_builder.registered[e] = NotRegistered
    <3>1. with = Registered(g_builder, e, 5)
      BY <2>1 DEF RegisteredDefault
    <3>2. 5 \in 0 .. 5 /\ 5 # NotRegistered
      BY DEF NotRegistered, Off
    <3> HIDE DEF with
    <3>3. QED
      BY <3>1, <3>2, RegisteredType
  <2>2. CASE g_builder.registered[e] # NotRegistered
    BY <2>2 DEF RegisteredDefault
  <2>3. QED
    BY <2>1, <2>2
<1> HIDE DEF with
<1>2. WithDefaults(e, levels) =
        [with EXCEPT !.defaults = [l \in Levels |-> IF l \in levels THEN e ELSE with.defaults[l]]]
  BY <1>1 DEF WithDefaults, with, Loggers
<1>3. QED
  BY <1>1, <1>2 DEF Loggers, Registers

LEMMA CallsStep ==
  ASSUME GTypeOK, NEW e \in LogEndpoints, NEW level \in 0 .. 5, NEW levels \in SUBSET Levels,
         \/ Configure(Registered(g_builder, e, level))
         \/ Configure(WithDefaults(e, levels))
  PROVE  GTypeOK'
<1>1. g_builder \in Loggers /\ Registers(g_builder)
  BY DEF GTypeOK
<1>2. CASE Configure(Registered(g_builder, e, level))
  BY <1>1, <1>2, RegisteredType, ConfigureStep
<1>3. CASE Configure(WithDefaults(e, levels))
  BY <1>1, <1>3, WithDefaultsType, ConfigureStep
<1>4. QED
  BY <1>2, <1>3

LEMMA SettingStep ==
  ASSUME GTypeOK, NEW level \in 0 .. 5, NEW enabled \in BOOLEAN,
         max_level_of(level) \/ echo_stdout(enabled) \/ echo_stderr(enabled)
  PROVE  GTypeOK'
<1>1. g_builder \in Loggers /\ Registers(g_builder)
  BY DEF GTypeOK
<1>2. CASE max_level_of(level)
  <2> DEFINE made == [g_builder EXCEPT !.max = level]
  <2>1. made \in Loggers /\ Registers(made)
    BY <1>1 DEF Loggers, Registers
  <2> HIDE DEF made
  <2>2. QED
    BY <1>2, <2>1, ConfigureStep DEF max_level_of, made
<1>3. ASSUME NEW where \in Echoes, Echo(where, enabled) PROVE GTypeOK'
  <2> DEFINE made == [g_builder EXCEPT !.echo = IF enabled THEN @ \cup {where}
                                                ELSE @ \ {where}]
  <2>1. made \in Loggers /\ Registers(made)
    BY <1>1 DEF Loggers, Registers
  <2> HIDE DEF made
  <2>2. QED
    BY <1>3, <2>1, ConfigureStep DEF Echo, made
<1>4. QED
  BY <1>2, <1>3 DEF echo_stdout, echo_stderr, Echoes

-------------------------------------------------------------------------------
(* The global logger. *)

LEMMA initStep == ASSUME GTypeOK, init PROVE GTypeOK'
<1>1. CASE g_logger.live
  BY <1>1, LoggerPanics DEF init, GInit
<1>2. CASE ~g_logger.live
  <2>1. /\ g_logger' = g_builder /\ g_max' = g_builder.max
        /\ g_builder' = [g_builder EXCEPT !.live = FALSE]
        /\ UNCHANGED <<g_calls, g_last>> /\ g_builder.live
    BY <1>2 DEF init
  <2>2. g_builder \in Loggers /\ Registers(g_builder)
    BY DEF GTypeOK
  <2>3. g_builder' \in Loggers /\ Registers(g_builder')
    BY <2>1, <2>2 DEF Loggers, Registers
  <2>4. QED
    BY <2>1, <2>2, <2>3 DEF GTypeOK, Loggers
<1>3. QED
  BY <1>1, <1>2

LEMMA init_simpleStep ==
  ASSUME GTypeOK, NEW e \in LogEndpoints, NEW level \in 0 .. 5, init_simple(e, level)
  PROVE  GTypeOK'
<1> DEFINE with == WithDefaults(e, Levels)
<1>1. with \in Loggers /\ Registers(with) /\ with.live
  BY WithDefaultsType DEF GTypeOK, init_simple
<1> HIDE DEF with
<1>2. /\ g_logger' = [with EXCEPT !.max = level] /\ g_max' = level
      /\ UNCHANGED <<g_calls, g_last>>
      /\ g_builder' = [g_logger' EXCEPT !.live = FALSE]
  BY DEF init_simple, with
<1>3. /\ g_logger' \in Loggers /\ Registers(g_logger') /\ g_logger'.live
      /\ g_builder' \in Loggers /\ Registers(g_builder')
  BY <1>1, <1>2 DEF Loggers, Registers
<1>4. QED
  BY <1>2, <1>3 DEF GTypeOK

LEMMA set_max_levelStep ==
  ASSUME GTypeOK, NEW level \in 0 .. 5, set_max_level(level)
  PROVE  GTypeOK'
BY DEF GTypeOK, set_max_level

\* What a statement writes: an endpoint that has a level, and the echo.
LEMMA log_toStep ==
  ASSUME GTypeOK, NEW to \in LogEndpoints \cup {NoEndpoint}, NEW level \in Levels,
         log_to(to, level)
  PROVE  GTypeOK'
<1>1. Endpoint(level, to) \in LogEndpoints \cup {NoEndpoint}
  BY DEF GTypeOK, Loggers, Endpoint
<1>2. g_last'.written \in SUBSET (LogEndpoints \cup Echoes)
  <2>1. g_logger.echo \subseteq Echoes
    BY DEF GTypeOK, Loggers
  <2>2. QED
    BY <1>1, <2>1 DEF log_to, Emitted, Echoed
<1>3. QED
  BY <1>2 DEF GTypeOK, log_to

LEMMA LoggerStep == GTypeOK /\ [GNext]_gvars => GTypeOK'
<1> SUFFICES ASSUME GTypeOK, [GNext]_gvars PROVE GTypeOK'
  OBVIOUS
<1>1. ASSUME NEW e \in LogEndpoints, endpoint(e) \/ default_endpoint(e) PROVE GTypeOK'
  <2>1. 5 \in 0 .. 5 /\ Levels \in SUBSET Levels
    OBVIOUS
  <2>2. CASE endpoint(e)
    <3>1. Configure(Registered(g_builder, e, 5))
      BY <2>2 DEF endpoint
    <3>2. QED
      BY <2>1, <3>1, CallsStep
  <2>3. CASE default_endpoint(e)
    <3>1. Configure(WithDefaults(e, Levels))
      BY <2>3 DEF default_endpoint
    <3>2. QED
      BY <2>1, <3>1, CallsStep
  <2>4. QED
    BY <1>1, <2>2, <2>3
<1>2. ASSUME NEW e \in LogEndpoints, NEW level \in Filters, endpoint_level(e, level)
      PROVE  GTypeOK'
  BY <1>2, CallsStep, LogAssumption DEF endpoint_level
<1>3. ASSUME NEW e \in LogEndpoints, NEW level \in Filters, init_simple(e, level)
      PROVE  GTypeOK'
  BY <1>3, init_simpleStep, LogAssumption
<1>4. ASSUME NEW e \in LogEndpoints, NEW level \in Levels, default_level_endpoint(e, level)
      PROVE  GTypeOK'
  BY <1>4, CallsStep DEF default_level_endpoint
<1>5. ASSUME NEW level \in Filters, max_level_of(level) \/ set_max_level(level) PROVE GTypeOK'
  BY <1>5, SettingStep, set_max_levelStep, LogAssumption
<1>6. ASSUME NEW enabled \in BOOLEAN, echo_stdout(enabled) \/ echo_stderr(enabled)
      PROVE  GTypeOK'
  <2>1. 0 \in 0 .. 5
    OBVIOUS
  <2>2. QED
    BY <1>6, <2>1, SettingStep
<1>7. CASE init
  BY <1>7, initStep
<1>8. ASSUME NEW to \in LogEndpoints \cup {NoEndpoint},
             error(to) \/ warn(to) \/ info(to) \/ debug(to) \/ trace(to)
      PROVE  GTypeOK'
  BY <1>8, log_toStep DEF error, warn, info, debug, trace, Levels
<1>9. CASE UNCHANGED gvars
  BY <1>9 DEF gvars, GTypeOK
<1>10. QED
  BY <1>1, <1>2, <1>3, <1>4, <1>5, <1>6, <1>7, <1>8, <1>9 DEF GNext

-------------------------------------------------------------------------------

\* Every default endpoint of a logger is registered, and nothing is written
\* where there is no logger (LoggerBuilder in log.h, log_fastly).
THEOREM LoggerTyped == GSpec => []GTypeOK
BY LoggerInit, LoggerStep, PTL DEF GSpec

===============================================================================
