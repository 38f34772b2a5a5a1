--------------------------------- MODULE Backend -------------------------------
(***************************************************************************)
(* fastly::backend (backend.h, src/cpp/backend.cpp, src/backend.rs): the   *)
(* durations of a BackendBuilder on their way to the host and back through *)
(* the getters of Backend.  They are 64 bits wide in C++, 32 in the bridge *)
(* and durations in Rust; some are milliseconds, some seconds.  The other  *)
(* setters pass a string, a version or a truth value on and are left out.  *)
(***************************************************************************)
EXTENDS Integers

CONSTANTS
  BackendNames, \* the names of backends
  WordSize,     \* the values of a number in the bridge, 2^32 in the code
  Second,       \* the milliseconds of a second, 1000 in the code
  MsTimes,      \* bound: the milliseconds that programs give to setters
  SecsTimes     \* bound: the seconds

ASSUME BackendAssumption ==
  /\ WordSize \in Nat \ {0} /\ Second \in Nat \ {0}
  /\ MsTimes \cup SecsTimes \subseteq Nat

VARIABLES
  t_builder, \* the name that is built, or NoName
  t_asked,   \* [TimeFields -> what the program asked for, in milliseconds]
  t_set,     \* [TimeFields -> what the builder has in Rust, in milliseconds]
  t_hosts    \* [BackendNames -> the durations asked for, and those of the host]

tvars == <<t_builder, t_asked, t_set, t_hosts>>

MsFields == {"connect_timeout", "first_byte_timeout", "between_bytes_timeout",
             "http_keepalive_time"}
SecsFields == {"tcp_keepalive_interval", "tcp_keepalive_time"}
TimeFields == MsFields \cup SecsFields
NoName == "none"
NoTime == 0
NoTimes == [f \in TimeFields |-> NoTime]
NoBackend == [asked |-> NoTimes, set |-> NoTimes, known |-> FALSE]
U32Max == WordSize - 1

Durations == [TimeFields -> Nat]

\* Rust has no milliseconds but of 32 bits, and seconds of 32 bits.
TTypeOK ==
  /\ t_builder \in BackendNames \cup {NoName}
  /\ t_asked \in Durations /\ t_set \in Durations
  /\ t_hosts \in [BackendNames -> [asked : Durations, set : Durations, known : BOOLEAN]]
  /\ \A f \in MsFields : t_set[f] <= U32Max
  /\ \A f \in SecsFields : t_set[f] <= Second * U32Max
  /\ t_builder = NoName => t_asked = NoTimes /\ t_set = NoTimes

TInit ==
  /\ t_builder = NoName /\ t_asked = NoTimes /\ t_set = NoTimes
  /\ t_hosts = [n \in BackendNames |-> NoBackend]

builder_of(n) ==
  /\ t_builder = NoName /\ t_builder' = n
  /\ UNCHANGED <<t_asked, t_set, t_hosts>>

\* What is left of 64 bits in the parameter of the bridge.
Bridged(t) == t % WordSize
SetTime(f, asked, set) ==
  /\ t_builder # NoName
  /\ t_asked' = [t_asked EXCEPT ![f] = asked]
  /\ t_set' = [t_set EXCEPT ![f] = set]
  /\ UNCHANGED <<t_builder, t_hosts>>
connect_timeout(t) == SetTime("connect_timeout", t, Bridged(t))
first_byte_timeout(t) == SetTime("first_byte_timeout", t, Bridged(t))
between_bytes_timeout(t) == SetTime("between_bytes_timeout", t, Bridged(t))
http_keepalive_time(t) == SetTime("http_keepalive_time", t, Bridged(t))

\* tcp_keepalive_interval_secs and tcp_keepalive_time_secs: the parameter is a
\* uint32_t, and zero panics, which ends the instance and all that it has built.
Forget ==
  /\ t_builder' = NoName /\ t_asked' = NoTimes /\ t_set' = NoTimes
  /\ t_hosts' = [n \in BackendNames |-> NoBackend]
tcp_keepalive_secs(f, secs) ==
  /\ secs <= U32Max
  /\ IF secs = 0 THEN t_builder # NoName /\ Forget
     ELSE SetTime(f, Second * secs, Second * secs)

\* finish: the builder goes, whether the host takes the backend or refuses it,
\* as it does with a name that it has.
finish_backend ==
  /\ t_builder # NoName
  /\ \/ /\ ~t_hosts[t_builder].known
        /\ t_hosts' = [t_hosts EXCEPT ![t_builder] =
                         [asked |-> t_asked, set |-> t_set, known |-> TRUE]]
     \/ UNCHANGED t_hosts
  /\ t_builder' = NoName /\ t_asked' = NoTimes /\ t_set' = NoTimes

\* The getters.  ensure_u32 keeps what does not fit at its greatest.
EnsureU32_Wraps(t) == t % WordSize
EnsureU32(t) == IF t > U32Max THEN U32Max ELSE t
Field(f) == IF f = "between_bytes_timeout" THEN "first_byte_timeout" ELSE f
get_time(n, f) == EnsureU32(t_hosts[n].set[Field(f)])

TNext ==
  \/ \E n \in BackendNames : builder_of(n)
  \/ \E t \in MsTimes :
       \/ connect_timeout(t) \/ first_byte_timeout(t)
       \/ between_bytes_timeout(t) \/ http_keepalive_time(t)
  \/ \E f \in SecsFields, secs \in SecsTimes : tcp_keepalive_secs(f, secs)
  \/ finish_backend

TSpec == TInit /\ [][TNext]_tvars

-------------------------------------------------------------------------------
(* Properties.                                                             *)

\* backend.cpp:106: a duration that a program asks for comes back as it was, if
\* its milliseconds fit in 32 bits; longer ones are shortened and never lengthened.
\* get_between_byte_timeout answers for another duration.
TimesComeBack ==
  \A n \in BackendNames : t_hosts[n].known =>
    \A f \in TimeFields \ {"between_bytes_timeout"} :
      LET asked == t_hosts[n].asked[f]
      IN  /\ get_time(n, f) <= asked
          /\ asked <= U32Max => get_time(n, f) = asked
          /\ f \in SecsFields /\ asked > U32Max => get_time(n, f) = U32Max

===============================================================================
