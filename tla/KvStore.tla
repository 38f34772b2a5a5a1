-------------------------------- MODULE KvStore --------------------------------
(***************************************************************************)
(* fastly::kv_store (kv_store.h, src/cpp/kv_store.cpp): one key of a store *)
(* that the instances of several clients use.                              *)
(* Each call passes an error pointer to Rust, which sets it on every path; *)
(* a handle of a pending operation is a number that a program may copy.    *)
(*                                                                         *)
(* The store is external: it gives each value a new generation, checks the *)
(* mode and the generation of an insert, and may fail.  A handle is waited *)
(* for once, by the wait of its own kind, and its number is not used       *)
(* again.                                                                  *)
(***************************************************************************)
EXTENDS Integers, Sequences

CONSTANTS
  Clients, \* the instances
  U32Size, \* the values of a time to live on the Rust side, 2^32 in the code
  Ttls,    \* the times to live that programs ask for
  KvMax,   \* bound: the generations, but for those of pending operations
  KvPending \* bound: the asynchronous operations

ASSUME KvAssumption ==
  /\ U32Size \in Nat \ {0} /\ Ttls \subseteq Int
  /\ KvMax \in Nat /\ KvPending \in Nat

VARIABLES
  k_item,     \* the value of the key: its generation (0: none), its time to live
  k_last,     \* the last generation that the store gave
  k_response, \* current_generation() of the last LookupResponse, 0: none
  k_builder,  \* [Clients -> InsertBuilder]
  k_ops       \* the asynchronous operations, in the order they were sent

kvars == <<k_item, k_last, k_response, k_builder, k_ops>>

NoTtl == -1

\* A value: how it came into the store, and the generation that it replaced.
Value(gen, with, over) ==
  [gen |-> gen, asked |-> with.asked, ttl |-> with.ttl, want |-> with.want, over |-> over]

\* want and asked are what the program gave to if_generation_match and
\* time_to_live, match and ttl what Rust has.
NoBuilder == [live |-> FALSE, want |-> 0, match |-> 0,
              asked |-> NoTtl, ttl |-> NoTtl]
NoValue == Value(0, NoBuilder, 0)

\* A lookup has the builder that nobody made, and so has an erase.
Op(kind, with) ==
  [kind |-> kind, with |-> with, state |-> "sent", gen |-> 0, waited |-> FALSE]
Kind == {"insert", "lookup", "erase"}
U32 == 0 .. U32Size - 1

KvBuilders == [live : BOOLEAN, want : Nat, match : Nat, asked : Int, ttl : U32 \cup {NoTtl}]
KvOps == [kind : Kind, with : KvBuilders, state : {"sent", "ok", "refused"},
          gen : Nat, waited : BOOLEAN]

\* No time to live but one of 32 bits gets to Rust, and no response has a
\* generation but one that the store gave.
KTypeOK ==
  /\ k_item \in [gen : Nat, asked : Int, ttl : U32 \cup {NoTtl}, want : Nat, over : Nat]
  /\ k_last \in Nat /\ k_item.gen <= k_last
  /\ k_response \in 0 .. k_last
  /\ k_builder \in [Clients -> KvBuilders]
  /\ k_ops \in Seq(KvOps)

KInit ==
  /\ k_item = NoValue /\ k_last = 0
  /\ k_response = 0 /\ k_ops = <<>>
  /\ k_builder = [c \in Clients |-> NoBuilder]

-------------------------------------------------------------------------------
(* InsertBuilder.  Each setter moves the box to Rust and back. *)

build_insert(c) ==
  /\ ~k_builder[c].live
  /\ k_builder' = [k_builder EXCEPT ![c] = [NoBuilder EXCEPT !.live = TRUE]]
  /\ UNCHANGED <<k_item, k_last, k_response, k_ops>>
SetBuilder(c, with) ==
  /\ k_builder[c].live
  /\ k_builder' = [k_builder EXCEPT ![c] = with]
  /\ UNCHANGED <<k_item, k_last, k_response, k_ops>>
\* mode, background_fetch and metadata keep what else was set.  What becomes of
\* a mode is the store's, as a refusal.
Others_Afresh(b) == [b EXCEPT !.match = 0]
Others(b) == b
mode(c) == SetBuilder(c, Others(k_builder[c]))

\* With a generation of whatever response, or one that the store never gave.
if_generation_match(c, gen) ==
  SetBuilder(c, [k_builder[c] EXCEPT !.want = gen, !.match = gen])

\* ttl.count() is 64 bits wide and the parameter of Rust 32.
ToU32_Seconds(ttl) == 1000 * (ttl % U32Size)
ToU32_Signed(ttl) == ttl
ToU32(ttl) == ttl % U32Size
time_to_live(c, ttl) ==
  SetBuilder(c, [k_builder[c] EXCEPT !.asked = ttl, !.ttl = ToU32(ttl)])

-------------------------------------------------------------------------------
(* Operations. *)

\* What the store makes of an operation, and of the item.  A generation is that
\* of the value there is, if there is one.
Fits(op) ==
  /\ op.with.match # 0 => k_item.gen \in {0, op.with.match}
  /\ op.kind \in {"lookup", "erase"} => k_item.gen # 0
Outcomes(op) ==
  {[op EXCEPT !.state = "refused"]} \cup
  {[op EXCEPT !.state = state, !.gen = k_item.gen] : state \in {s \in {"ok"} : Fits(op)}}
Applied(done) ==
  LET inserted == done.kind = "insert" /\ done.state = "ok"
      erased == done.kind = "erase" /\ done.state = "ok"
  IN  /\ k_last' = IF inserted THEN k_last + 1 ELSE k_last
      /\ k_item' = IF inserted THEN Value(k_last + 1, done.with, k_item.gen)
                   ELSE IF erased THEN NoValue ELSE k_item

\* A LookupResponse, of a lookup that succeeded.
Respond(op) ==
  k_response' = IF op.kind = "lookup" /\ op.state = "ok" THEN op.gen ELSE k_response

\* The builder is gone, whether the call succeeds or fails.
Consumed(c, kind) ==
  k_builder' = IF kind = "insert" THEN [k_builder EXCEPT ![c] = NoBuilder] ELSE k_builder
Asked(c, kind) == Op(kind, IF kind = "insert" THEN k_builder[c] ELSE NoBuilder)
Can(c, kind) == kind = "insert" => k_last < KvMax /\ k_builder[c].live

\* lookup, insert and erase, and the execute of their builders.
execute_kv(c, kind) ==
  /\ Can(c, kind)
  /\ \E done \in Outcomes(Asked(c, kind)) : Applied(done) /\ Respond(done)
  /\ Consumed(c, kind) /\ UNCHANGED k_ops

\* execute_async; when it answers an error there is no handle.
execute_async_kv(c, kind) ==
  /\ Can(c, kind) /\ Len(k_ops) < KvPending
  /\ \E sent \in {<<>>, <<Asked(c, kind)>>} : k_ops' = k_ops \o sent
  /\ Consumed(c, kind) /\ UNCHANGED <<k_item, k_last, k_response>>

\* The store does what is pending, in any order.
Arrive(h) ==
  /\ k_ops[h].state = "sent"
  /\ \E done \in Outcomes(k_ops[h]) :
       Applied(done) /\ k_ops' = [k_ops EXCEPT ![h] = done]
  /\ UNCHANGED <<k_response, k_builder>>

\* pending_lookup_wait and its likes: the number may have been waited for
\* before, or by the wait of another kind, which may use the handle up or not.
\* A wait blocks as long as the operation is only sent.
Told(op, kind) ==
  IF op.waited \/ kind # op.kind THEN "InvalidStoreHandle" ELSE op.state
pending_wait(h, kind) ==
  /\ Told(k_ops[h], kind) # "sent"
  /\ \E waited \in {TRUE, k_ops[h].waited \/ kind = k_ops[h].kind} :
       k_ops' = [k_ops EXCEPT ![h].waited = waited]
  /\ Respond([k_ops[h] EXCEPT !.state = Told(k_ops[h], kind)])
  /\ UNCHANGED <<k_item, k_last, k_builder>>

-------------------------------------------------------------------------------

KNext ==
  \/ \E c \in Clients :
       \/ build_insert(c) \/ mode(c)
       \/ \E gen \in 1 .. KvMax : if_generation_match(c, gen)
       \/ \E ttl \in Ttls : time_to_live(c, ttl)
       \/ \E kind \in Kind : execute_kv(c, kind) \/ execute_async_kv(c, kind)
  \/ \E h \in 1 .. Len(k_ops) :
       Arrive(h) \/ \E kind \in Kind : pending_wait(h, kind)

KSpec == KInit /\ [][KNext]_kvars

-------------------------------------------------------------------------------
(* Properties.                                                             *)

\* test/kv_store.cpp:118: an insert with if_generation_match replaces the value
\* of that generation or none: whatever is pending, set in between, refused or
\* late, no client overwrites an update that it has not seen.
NoLostUpdate == k_item.want # 0 => k_item.over \in {0, k_item.want}

\* kv_store.cpp:39: an item never outlives the time to live that was asked for,
\* if it was not negative; the bits that are cut off can only shorten it.
NeverOutlives ==
  k_item.asked >= 0 => k_item.ttl <= k_item.asked
===============================================================================
