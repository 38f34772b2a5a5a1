----------------------------- MODULE Stores_proofs -----------------------------
(***************************************************************************)
(* Proofs about LookupHeaders, KvStore, Backend and CacheItem: components  *)
(* that share no state, each for every value of its constants.             *)
(***************************************************************************)
EXTENDS LookupHeaders, CacheItem, KvStore, Backend, SequenceTheorems, TLAPS

\* No handle of a header is ever open: the temporary that the optional was
\* assigned from closes it.  An object that is not there has no handle, so that
\* a new builder has none.
HeadersInv ==
  /\ LTypeOK /\ open_requests = {} /\ RefusedIffHeaders
  /\ \A b \in Builders : builder[b] = "none" => request_headers[b] = None

LEMMA HeadersInit == LInit => HeadersInv
BY DEF LInit, HeadersInv, LTypeOK, RefusedIffHeaders

LEMMA NewStep == ASSUME HeadersInv, NEW b \in Builders, NewBuilderObject(b) PROVE HeadersInv'
BY DEF HeadersInv, LTypeOK, RefusedIffHeaders, NewBuilderObject

LEMMA header_valuesStep ==
  ASSUME HeadersInv, NEW b \in Builders, NEW c \in Builders, NEW name \in Names,
         header_values(b, c, name)
  PROVE  HeadersInv'
<1>1. PICK h \in Handles, opened \in SUBSET Handles :
        /\ Uses(b, h, opened) /\ open_requests' = opened
        /\ SetHeader(h, name, opened, request_headers[b] = None)
        /\ request_headers' = [request_headers EXCEPT ![b] = h, ![c] = h]
  BY DEF header_values
<1>2. open_requests' = {}
  BY <1>1 DEF HeadersInv, Uses, Assigned
<1>3. headers' \in [Handles -> SUBSET Names]
  BY <1>1 DEF HeadersInv, LTypeOK, SetHeader
<1>4. LTypeOK'
  BY <1>1, <1>2, <1>3, HeadersAssumption DEF HeadersInv, LTypeOK, header_values
<1>5. RefusedIffHeaders'
  BY DEF HeadersInv, RefusedIffHeaders, header_values
<1>6. \A o \in Builders : builder'[o] = "none" => request_headers'[o] = None
  BY <1>1 DEF HeadersInv, LTypeOK, header_values
<1>7. QED
  BY <1>2, <1>4, <1>5, <1>6 DEF HeadersInv

LEMMA CopyToStep ==
  ASSUME HeadersInv, NEW b \in Builders, NEW c \in Builders,
         NEW left \in {"live", "moved"}, CopyTo(b, c, left)
  PROVE  HeadersInv'
BY DEF HeadersInv, LTypeOK, RefusedIffHeaders, CopyTo

LEMMA DestroyStep == ASSUME HeadersInv, NEW b \in Builders, DestroyBuilder(b) PROVE HeadersInv'
BY DEF HeadersInv, LTypeOK, RefusedIffHeaders, DestroyBuilder

\* The host sees a handle if, and only if, a header was asked for, and it is
\* never one that is open.
LEMMA executeStep == ASSUME HeadersInv, NEW b \in Builders, execute(b) PROVE HeadersInv'
<1>1. /\ answer' \in LookupAnswers
      /\ answer'.code = BadHandle <=> answer'.asked # {}
  BY DEF HeadersInv, LTypeOK, execute, Looked, LookupAnswers, BadHandle
<1>2. QED
  BY <1>1 DEF HeadersInv, LTypeOK, RefusedIffHeaders, execute

LEMMA HeadersStep == HeadersInv /\ [LNext]_lvars => HeadersInv'
<1> SUFFICES ASSUME HeadersInv, [LNext]_lvars PROVE HeadersInv'
  OBVIOUS
<1>1. CASE \E b \in Builders : NewBuilderObject(b) \/ DestroyBuilder(b) \/ execute(b)
  BY <1>1, NewStep, DestroyStep, executeStep
<1>2. CASE \E b, c \in Builders : on_behalf_of(b, c) \/ CopyBuilder(b, c)
  BY <1>2, CopyToStep DEF on_behalf_of, CopyBuilder
<1>3. CASE \E b, c \in Builders, name \in Names : header_values(b, c, name)
  BY <1>3, header_valuesStep
<1>4. CASE UNCHANGED lvars
  BY <1>4 DEF lvars, HeadersInv, LTypeOK, RefusedIffHeaders
<1>5. QED
  BY <1>1, <1>2, <1>3, <1>4 DEF LNext

\* The options keep a number if, and only if, a header was asked for.
THEOREM HeadersTyped == LSpec => []LTypeOK
<1>1. HeadersInv => LTypeOK
  BY DEF HeadersInv
<1>2. QED
  BY HeadersInit, HeadersStep, <1>1, PTL DEF LSpec

\* An operation is refused if, and only if, a header was asked for, whatever
\* builders are chained, copied, kept and dropped.
THEOREM HeadersRefused == LSpec => []RefusedIffHeaders
<1>1. HeadersInv => RefusedIffHeaders
  BY DEF HeadersInv
<1>2. QED
  BY HeadersInit, HeadersStep, <1>1, PTL DEF LSpec

-------------------------------------------------------------------------------
(* KvStore. *)

LEMMA ToU32Type ==
  ASSUME NEW ttl \in Int
  PROVE  ToU32(ttl) \in U32 /\ (ttl >= 0 => ToU32(ttl) <= ttl)
BY KvAssumption DEF ToU32, U32

\* What a builder or an operation may have: the generation that the program
\* gave is the one that Rust has, and the time to live is no longer.
Honest(with) == with.match = with.want /\ (with.asked >= 0 => with.ttl <= with.asked)

KvInv ==
  /\ KTypeOK /\ NoLostUpdate /\ NeverOutlives
  /\ \A c \in Clients : Honest(k_builder[c])
  /\ \A h \in 1 .. Len(k_ops) : Honest(k_ops[h].with) /\ k_ops[h].gen <= k_last

LEMMA NoBuilderType == NoBuilder \in KvBuilders /\ Honest(NoBuilder)
BY DEF NoBuilder, KvBuilders, NoTtl, Honest

LEMMA KvInit == KInit => KvInv
BY DEF KInit, KvInv, KTypeOK, KvBuilders, NoBuilder, NoTtl, NoValue, Value, NoLostUpdate,
   NeverOutlives, Honest

\* A builder's setters, given what they make of the builder.
LEMMA SetBuilderStep ==
  ASSUME KvInv, NEW c \in Clients, NEW with \in KvBuilders, Honest(with),
         k_builder' = [k_builder EXCEPT ![c] = with],
         UNCHANGED <<k_item, k_last, k_response, k_ops>>
  PROVE  KvInv'
BY DEF KvInv, KTypeOK, NoLostUpdate, NeverOutlives

LEMMA BuilderStep ==
  ASSUME KvInv, NEW c \in Clients,
         \/ build_insert(c) \/ mode(c)
         \/ \E gen \in 1 .. KvMax : if_generation_match(c, gen)
         \/ \E ttl \in Ttls : time_to_live(c, ttl)
  PROVE  KvInv'
<1>0. k_builder[c] \in KvBuilders /\ Honest(k_builder[c])
  BY DEF KvInv, KTypeOK
<1>1. CASE build_insert(c)
  <2> DEFINE with == [NoBuilder EXCEPT !.live = TRUE]
  <2>1. with \in KvBuilders /\ Honest(with)
    BY NoBuilderType DEF NoBuilder, KvBuilders, Honest
  <2>2. QED
    BY <1>1, <2>1, SetBuilderStep DEF build_insert
<1>2. CASE mode(c)
  BY <1>0, <1>2, SetBuilderStep DEF mode, SetBuilder, Others
<1>3. ASSUME NEW gen \in 1 .. KvMax, if_generation_match(c, gen) PROVE KvInv'
  <2> DEFINE with == [k_builder[c] EXCEPT !.want = gen, !.match = gen]
  <2>0. gen \in Nat
    BY KvAssumption
  <2>1. with \in KvBuilders
    BY <1>0, <2>0 DEF KvBuilders
  <2>2. with.match = gen /\ with.want = gen
        /\ with.asked = k_builder[c].asked /\ with.ttl = k_builder[c].ttl
    BY <1>0 DEF KvBuilders
  <2>3. Honest(with)
    BY <1>0, <2>2 DEF Honest
  <2>4. QED
    BY <1>3, <2>1, <2>3, SetBuilderStep DEF if_generation_match, SetBuilder
<1>4. ASSUME NEW ttl \in Ttls, time_to_live(c, ttl) PROVE KvInv'
  <2> DEFINE with == [k_builder[c] EXCEPT !.asked = ttl, !.ttl = ToU32(ttl)]
  <2>1. ttl \in Int /\ ToU32(ttl) \in U32 /\ (ttl >= 0 => ToU32(ttl) <= ttl)
    BY KvAssumption, ToU32Type
  <2>2. with \in KvBuilders /\ Honest(with)
    BY <1>0, <2>1 DEF KvBuilders, Honest
  <2>3. QED
    BY <1>4, <2>2, SetBuilderStep DEF time_to_live, SetBuilder
<1>5. QED
  BY <1>1, <1>2, <1>3, <1>4

\* What the store makes of an operation.
LEMMA OutcomeType ==
  ASSUME NEW op \in KvOps, KTypeOK, NEW done \in Outcomes(op)
  PROVE  /\ done \in KvOps /\ done.with = op.with /\ done.kind = op.kind
         /\ done.state \in {"ok", "refused"}
         /\ done.state = "ok" => Fits(op) /\ done.gen = k_item.gen
<1>1. k_item.gen \in Nat
  BY DEF KTypeOK
<1>2. CASE done = [op EXCEPT !.state = "refused"]
  BY <1>2 DEF KvOps
<1>3. CASE Fits(op) /\ done = [op EXCEPT !.state = "ok", !.gen = k_item.gen]
  BY <1>1, <1>3 DEF KvOps
<1>4. QED
  BY <1>2, <1>3 DEF Outcomes

LEMMA AppliedStep ==
  ASSUME KvInv, NEW op \in KvOps, Honest(op.with), NEW done \in Outcomes(op), Applied(done)
  PROVE  /\ k_last' \in Nat /\ k_last <= k_last'
         /\ k_item' \in [gen : Nat, asked : Int, ttl : U32 \cup {NoTtl}, want : Nat, over : Nat]
         /\ k_item'.gen <= k_last'
         /\ NoLostUpdate' /\ NeverOutlives'
<1>1. KTypeOK /\ NoLostUpdate /\ NeverOutlives
  BY DEF KvInv
<1>2. /\ done \in KvOps /\ done.with = op.with /\ done.kind = op.kind
      /\ done.state = "ok" => Fits(op)
  BY <1>1, OutcomeType
<1>3. done.with \in KvBuilders
  BY <1>2 DEF KvOps
<1>4. CASE done.kind = "insert" /\ done.state = "ok"
  <2>1. k_last' = k_last + 1 /\ k_item' = Value(k_last + 1, done.with, k_item.gen)
    BY <1>4 DEF Applied
  <2>2. op.with.match # 0 => k_item.gen \in {0, op.with.match}
    BY <1>2, <1>4 DEF Fits
  <2>3. QED
    BY <1>1, <1>2, <1>3, <2>1, <2>2
       DEF Value, KvBuilders, Honest, NoLostUpdate, NeverOutlives, KTypeOK
<1>5. CASE ~(done.kind = "insert" /\ done.state = "ok")
  <2>1. k_last' = k_last /\ k_item' \in {NoValue, k_item}
    BY <1>5 DEF Applied
  <2>2. NoValue \in [gen : Nat, asked : Int, ttl : U32 \cup {NoTtl}, want : Nat, over : Nat]
        /\ NoValue.gen = 0 /\ NoValue.want = 0 /\ NoValue.asked = -1
    BY DEF NoValue, Value, NoBuilder, NoTtl
  <2>3. QED
    BY <1>1, <2>1, <2>2 DEF NoLostUpdate, NeverOutlives, KTypeOK
<1>6. QED
  BY <1>4, <1>5

LEMMA AskedType ==
  ASSUME KvInv, NEW c \in Clients, NEW kind \in Kind
  PROVE  Asked(c, kind) \in KvOps /\ Honest(Asked(c, kind).with)
BY NoBuilderType DEF Asked, Op, KvOps, KvInv, KTypeOK

LEMMA ConsumedStep ==
  ASSUME KvInv, NEW c \in Clients, NEW kind, Consumed(c, kind)
  PROVE  /\ k_builder' \in [Clients -> KvBuilders]
         /\ \A o \in Clients : Honest(k_builder'[o])
<1>1. \A o \in Clients : Honest(k_builder[o])
  BY DEF KvInv
<1>2. k_builder \in [Clients -> KvBuilders]
  BY DEF KvInv, KTypeOK
<1>3. CASE kind = "insert"
  <2>1. k_builder' = [k_builder EXCEPT ![c] = NoBuilder]
    BY <1>3 DEF Consumed
  <2>2. QED
    BY <1>1, <1>2, <2>1, NoBuilderType
<1>4. CASE kind # "insert"
  BY <1>1, <1>2, <1>4 DEF Consumed
<1>5. QED
  BY <1>3, <1>4

LEMMA RespondStep ==
  ASSUME KvInv, NEW op \in KvOps, Respond(op), k_last' \in Nat, k_last <= k_last',
         op.state = "ok" => op.gen <= k_last
  PROVE  k_response' \in 0 .. k_last'
BY DEF Respond, KvInv, KTypeOK, KvOps

LEMMA execute_kvStep ==
  ASSUME KvInv, NEW c \in Clients, NEW kind \in Kind, execute_kv(c, kind)
  PROVE  KvInv'
<1>1. PICK done \in Outcomes(Asked(c, kind)) : Applied(done) /\ Respond(done)
  BY DEF execute_kv
<1>2. Asked(c, kind) \in KvOps /\ Honest(Asked(c, kind).with)
  BY AskedType
<1>3. KTypeOK /\ k_last \in Nat /\ k_item.gen <= k_last
  BY DEF KvInv, KTypeOK
<1>4. done \in KvOps /\ (done.state = "ok" => done.gen <= k_last)
  BY <1>2, <1>3, OutcomeType
<1>5. /\ k_last' \in Nat /\ k_last <= k_last'
      /\ k_item' \in [gen : Nat, asked : Int, ttl : U32 \cup {NoTtl}, want : Nat, over : Nat]
      /\ k_item'.gen <= k_last' /\ NoLostUpdate' /\ NeverOutlives'
  BY <1>1, <1>2, AppliedStep
<1>6. /\ k_builder' \in [Clients -> KvBuilders]
      /\ \A o \in Clients : Honest(k_builder'[o])
  BY ConsumedStep DEF execute_kv
<1>7. k_response' \in 0 .. k_last'
  BY <1>1, <1>4, <1>5, RespondStep
<1>8. /\ k_ops' = k_ops /\ k_ops \in Seq(KvOps)
      /\ \A h \in 1 .. Len(k_ops) : Honest(k_ops[h].with) /\ k_ops[h].gen <= k_last
  BY DEF execute_kv, KvInv, KTypeOK
<1>9. \A h \in 1 .. Len(k_ops) : k_ops[h].gen \in Nat
  <2>1. \A h \in 1 .. Len(k_ops) : k_ops[h] \in KvOps
    BY <1>8, ElementOfSeq
  <2>2. QED
    BY <2>1 DEF KvOps
<1>10. \A h \in 1 .. Len(k_ops') : Honest(k_ops'[h].with) /\ k_ops'[h].gen <= k_last'
  BY <1>3, <1>5, <1>8, <1>9
<1>11. KTypeOK'
  BY <1>3, <1>5, <1>6, <1>7, <1>8 DEF KTypeOK
<1>12. QED
  BY <1>5, <1>6, <1>10, <1>11 DEF KvInv

LEMMA execute_async_kvStep ==
  ASSUME KvInv, NEW c \in Clients, NEW kind \in Kind, execute_async_kv(c, kind)
  PROVE  KvInv'
<1>1. Asked(c, kind) \in KvOps /\ Honest(Asked(c, kind).with) /\ Asked(c, kind).gen = 0
  BY AskedType DEF Asked, Op
<1>2. /\ KTypeOK /\ k_last \in Nat /\ k_last' = k_last
      /\ UNCHANGED <<k_item, k_response>> /\ k_ops \in Seq(KvOps)
      /\ \A h \in 1 .. Len(k_ops) : Honest(k_ops[h].with) /\ k_ops[h].gen <= k_last
  BY DEF execute_async_kv, KvInv, KTypeOK
<1>3. k_ops' \in {k_ops, Append(k_ops, Asked(c, kind))}
  <2> DEFINE it == Asked(c, kind)
  <2>1. k_ops' = k_ops \o <<>> \/ k_ops' = k_ops \o <<it>>
    BY DEF execute_async_kv
  <2>2. it \in KvOps /\ k_ops \in Seq(KvOps)
    BY <1>1, <1>2
  <2> HIDE DEF it
  <2>3. k_ops \o <<>> = k_ops /\ k_ops \o <<it>> = Append(k_ops, it)
    BY <2>2
  <2>4. QED
    BY <2>1, <2>3 DEF it
<1>4. /\ k_builder' \in [Clients -> KvBuilders]
      /\ \A o \in Clients : Honest(k_builder'[o])
  BY ConsumedStep DEF execute_async_kv
<1>5. /\ k_ops' \in Seq(KvOps)
      /\ \A h \in 1 .. Len(k_ops') : Honest(k_ops'[h].with) /\ k_ops'[h].gen <= k_last'
  <2>1. CASE k_ops' = k_ops
    BY <1>2, <2>1
  <2>2. CASE k_ops' = Append(k_ops, Asked(c, kind))
    BY <1>1, <1>2, <2>2, AppendProperties
  <2>3. QED
    BY <1>3, <2>1, <2>2
<1>6. NoLostUpdate' /\ NeverOutlives'
  BY <1>2 DEF KvInv, NoLostUpdate, NeverOutlives
<1>7. QED
  BY <1>2, <1>4, <1>5, <1>6 DEF KvInv, KTypeOK

LEMMA ArriveStep ==
  ASSUME KvInv, NEW h \in 1 .. Len(k_ops), Arrive(h)
  PROVE  KvInv'
<1>1. PICK done \in Outcomes(k_ops[h]) :
        Applied(done) /\ k_ops' = [k_ops EXCEPT ![h] = done]
  BY DEF Arrive
<1>2. /\ KTypeOK /\ k_last \in Nat /\ k_item.gen <= k_last /\ k_ops \in Seq(KvOps)
      /\ \A i \in 1 .. Len(k_ops) : Honest(k_ops[i].with) /\ k_ops[i].gen <= k_last
      /\ UNCHANGED <<k_response, k_builder>>
  BY DEF Arrive, KvInv, KTypeOK
<1>3. \A i \in 1 .. Len(k_ops) : k_ops[i] \in KvOps /\ k_ops[i].gen \in Nat
  <2>1. \A i \in 1 .. Len(k_ops) : k_ops[i] \in KvOps
    BY <1>2, ElementOfSeq
  <2>2. QED
    BY <2>1 DEF KvOps
<1>4. /\ done \in KvOps /\ Honest(done.with) /\ done.gen <= k_last /\ done.gen \in Nat
  <2>1. k_ops[h] \in KvOps /\ Honest(k_ops[h].with) /\ k_ops[h].gen <= k_last
    BY <1>2, <1>3
  <2>2. done \in KvOps /\ done.with = k_ops[h].with
    BY <1>2, <2>1, OutcomeType
  <2>3. done.gen \in {k_ops[h].gen, k_item.gen}
    BY <2>1 DEF Outcomes, KvOps
  <2>4. QED
    BY <1>2, <2>1, <2>2, <2>3 DEF KvOps
<1>5. /\ k_last' \in Nat /\ k_last <= k_last'
      /\ k_item' \in [gen : Nat, asked : Int, ttl : U32 \cup {NoTtl}, want : Nat, over : Nat]
      /\ k_item'.gen <= k_last' /\ NoLostUpdate' /\ NeverOutlives'
  BY <1>1, <1>2, <1>3, AppliedStep
<1>6. /\ k_ops' \in Seq(KvOps) /\ Len(k_ops') = Len(k_ops)
      /\ \A i \in 1 .. Len(k_ops) : k_ops'[i] = IF i = h THEN done ELSE k_ops[i]
  BY <1>1, <1>2, <1>4, ExceptSeq
<1>7. ASSUME NEW i \in 1 .. Len(k_ops')
      PROVE  Honest(k_ops'[i].with) /\ k_ops'[i].gen <= k_last'
  <2>1. CASE i = h
    <3>1. k_ops'[i] = done
      BY <1>6, <2>1
    <3>2. done.gen <= k_last'
      BY <1>2, <1>4, <1>5
    <3>3. QED
      BY <1>4, <3>1, <3>2
  <2>2. CASE i # h
    <3>1. k_ops'[i] = k_ops[i] /\ i \in 1 .. Len(k_ops)
      BY <1>6, <2>2
    <3>2. Honest(k_ops[i].with) /\ k_ops[i].gen <= k_last /\ k_ops[i].gen \in Nat
      BY <1>2, <1>3, <3>1
    <3>3. k_ops[i].gen <= k_last'
      BY <1>2, <1>5, <3>2
    <3>4. QED
      BY <3>1, <3>2, <3>3
  <2>3. QED
    BY <2>1, <2>2
<1>8. ASSUME NEW c \in Clients
      PROVE  Honest(k_builder[c])
  BY DEF KvInv
<1>9. k_response \in 0 .. k_last'
  BY <1>2, <1>5 DEF KTypeOK
<1>10. QED
  BY <1>2, <1>5, <1>6, <1>7, <1>8, <1>9 DEF KvInv, KTypeOK

LEMMA pending_waitStep ==
  ASSUME KvInv, NEW h \in 1 .. Len(k_ops), NEW kind \in Kind, pending_wait(h, kind)
  PROVE  KvInv'
<1>1. PICK waited \in {TRUE, k_ops[h].waited \/ kind = k_ops[h].kind} :
        k_ops' = [k_ops EXCEPT ![h].waited = waited]
  BY DEF pending_wait
<1> DEFINE op == [k_ops[h] EXCEPT !.waited = waited]
           seen == [k_ops[h] EXCEPT !.state = Told(k_ops[h], kind)]
<1>2. /\ KTypeOK /\ k_last \in Nat /\ k_ops \in Seq(KvOps)
      /\ \A i \in 1 .. Len(k_ops) : Honest(k_ops[i].with) /\ k_ops[i].gen <= k_last
      /\ UNCHANGED <<k_item, k_last, k_builder>> /\ Respond(seen)
  BY DEF pending_wait, KvInv, KTypeOK
<1>3. k_ops[h] \in KvOps
  BY <1>2, ElementOfSeq
<1>4. op \in KvOps /\ op.with = k_ops[h].with /\ op.gen = k_ops[h].gen
  <2>1. waited \in BOOLEAN
    BY <1>1, <1>3 DEF KvOps
  <2>2. QED
    BY <1>3, <2>1 DEF KvOps
<1>5. /\ k_ops' \in Seq(KvOps) /\ Len(k_ops') = Len(k_ops)
      /\ \A i \in 1 .. Len(k_ops) : k_ops'[i] = IF i = h THEN op ELSE k_ops[i]
  <2>1. k_ops' = [k_ops EXCEPT ![h] = op]
    BY <1>1
  <2> HIDE DEF op
  <2>2. QED
    BY <1>2, <1>4, <2>1, ExceptSeq
<1>6. k_response' \in 0 .. k_last
  <2>1. seen.gen \in Nat /\ seen.gen <= k_last
    BY <1>2, <1>3 DEF KvOps
  <2>2. QED
    BY <1>2, <2>1 DEF Respond, KTypeOK
<1>7. NoLostUpdate' /\ NeverOutlives'
  BY <1>2 DEF KvInv, NoLostUpdate, NeverOutlives
<1> HIDE DEF op
<1>8. QED
  BY <1>2, <1>4, <1>5, <1>6, <1>7 DEF KvInv, KTypeOK

LEMMA KvStep == KvInv /\ [KNext]_kvars => KvInv'
<1> SUFFICES ASSUME KvInv, [KNext]_kvars PROVE KvInv'
  OBVIOUS
<1>1. ASSUME NEW c \in Clients,
             \/ build_insert(c) \/ mode(c)
             \/ \E gen \in 1 .. KvMax : if_generation_match(c, gen)
             \/ \E ttl \in Ttls : time_to_live(c, ttl)
             \/ \E kind \in Kind : execute_kv(c, kind) \/ execute_async_kv(c, kind)
      PROVE  KvInv'
  BY <1>1, BuilderStep, execute_kvStep, execute_async_kvStep
<1>2. ASSUME NEW h \in 1 .. Len(k_ops), Arrive(h) \/ \E kind \in Kind : pending_wait(h, kind)
      PROVE  KvInv'
  BY <1>2, ArriveStep, pending_waitStep
<1>3. CASE UNCHANGED kvars
  BY <1>3 DEF kvars, KvInv, KTypeOK, NoLostUpdate, NeverOutlives
<1>4. QED
  BY <1>1, <1>2, <1>3 DEF KNext

\* What the store and Rust have is of their types, for any width of a number.
THEOREM KvTyped == KSpec => []KTypeOK
<1>1. KvInv => KTypeOK
  BY DEF KvInv
<1>2. QED
  BY KvInit, KvStep, <1>1, PTL DEF KSpec

\* No insert with if_generation_match overwrites a value of another generation,
\* for any generations that any number of clients ask for.
THEOREM KvNoLostUpdate == KSpec => []NoLostUpdate
<1>1. KvInv => NoLostUpdate
  BY DEF KvInv
<1>2. QED
  BY KvInit, KvStep, <1>1, PTL DEF KSpec

\* The bits of a time to live that are cut off can only shorten it.
THEOREM KvNeverOutlives == KSpec => []NeverOutlives
<1>1. KvInv => NeverOutlives
  BY DEF KvInv
<1>2. QED
  BY KvInit, KvStep, <1>1, PTL DEF KSpec

-------------------------------------------------------------------------------
(* Backend. *)

LEMMA BridgedType ==
  ASSUME NEW t \in Nat
  PROVE  /\ Bridged(t) \in Nat /\ Bridged(t) <= U32Max /\ Bridged(t) <= t
         /\ t <= U32Max => Bridged(t) = t
BY BackendAssumption DEF Bridged, U32Max

\* What is left of a duration that was asked for: of milliseconds what fits in 32
\* bits, of seconds all.
Left(want, has) ==
  /\ \A f \in MsFields : /\ has[f] <= want[f] /\ has[f] <= U32Max
                         /\ want[f] <= U32Max => has[f] = want[f]
  /\ \A f \in SecsFields : has[f] = want[f]

TimesInv ==
  /\ TTypeOK /\ Left(t_asked, t_set)
  /\ \A n \in BackendNames : Left(t_hosts[n].asked, t_hosts[n].set)

LEMMA NoTimesType == NoTimes \in Durations /\ Left(NoTimes, NoTimes)
BY BackendAssumption DEF NoTimes, NoTime, Durations, Left, U32Max, TimeFields

LEMMA NoBackendType ==
  NoBackend \in [asked : Durations, set : Durations, known : BOOLEAN]
  /\ Left(NoBackend.asked, NoBackend.set)
BY NoTimesType DEF NoBackend

\* Seconds of 32 bits, in milliseconds, are no less than none.
LEMMA SecondsType ==
  ASSUME NEW secs \in Nat, secs <= U32Max
  PROVE  Second * secs \in Nat /\ Second * secs <= Second * U32Max
<1>1. U32Max \in Nat /\ Second \in Nat
  BY BackendAssumption DEF U32Max
<1>2. Second * secs \in Nat /\ Second * (U32Max - secs) \in Nat
  BY <1>1
<1>3. Second * U32Max = Second * secs + Second * (U32Max - secs)
  BY <1>1
<1>4. QED
  BY <1>1, <1>2, <1>3

LEMMA NoTimesFit ==
  /\ \A f \in MsFields : NoTimes[f] <= U32Max
  /\ \A f \in SecsFields : NoTimes[f] <= Second * U32Max
<1>1. 0 <= U32Max /\ 0 <= Second * U32Max
  <2>1. 0 \in Nat /\ 0 <= U32Max /\ Second * 0 = 0
    BY BackendAssumption DEF U32Max
  <2>2. QED
    BY <2>1, SecondsType
<1>2. QED
  BY <1>1 DEF NoTimes, NoTime, TimeFields

LEMMA TimesInit == TInit => TimesInv
BY NoTimesType, NoBackendType, NoTimesFit DEF TInit, TimesInv, TTypeOK

LEMMA SetTimeStep ==
  ASSUME TimesInv, NEW f \in TimeFields, NEW want \in Nat, NEW has \in Nat,
         SetTime(f, want, has),
         f \in MsFields => /\ has <= want /\ has <= U32Max
                           /\ want <= U32Max => has = want,
         f \in SecsFields => has = want /\ has <= Second * U32Max
  PROVE  TimesInv'
<1>1. /\ t_asked' = [t_asked EXCEPT ![f] = want] /\ t_set' = [t_set EXCEPT ![f] = has]
      /\ UNCHANGED <<t_builder, t_hosts>> /\ t_builder # NoName
  BY DEF SetTime
<1>2. t_asked \in Durations /\ t_set \in Durations
  BY DEF TimesInv, TTypeOK
<1>3. t_asked' \in Durations /\ t_set' \in Durations
  BY <1>1, <1>2 DEF Durations
<1>4. Left(t_asked', t_set')
  BY <1>1, <1>2 DEF TimesInv, Left, Durations, TimeFields
<1>5. /\ \A g \in MsFields : t_set'[g] <= U32Max
      /\ \A g \in SecsFields : t_set'[g] <= Second * U32Max
  BY <1>1, <1>2 DEF TimesInv, TTypeOK, Durations, TimeFields
<1>6. QED
  BY <1>1, <1>3, <1>4, <1>5 DEF TimesInv, TTypeOK

LEMMA MsStep ==
  ASSUME TimesInv, NEW t \in Nat, NEW f \in MsFields, SetTime(f, t, Bridged(t))
  PROVE  TimesInv'
<1>1. f \in TimeFields /\ f \notin SecsFields
  BY DEF TimeFields, MsFields, SecsFields
<1>2. QED
  BY <1>1, BridgedType, SetTimeStep

LEMMA SecsStep ==
  ASSUME TimesInv, NEW secs \in Nat, NEW f \in SecsFields, tcp_keepalive_secs(f, secs)
  PROVE  TimesInv'
<1>1. f \in TimeFields /\ f \notin MsFields
  BY DEF TimeFields, MsFields, SecsFields
<1>2. CASE secs = 0
  BY <1>2, NoTimesType, NoBackendType, NoTimesFit
     DEF tcp_keepalive_secs, Forget, TimesInv, TTypeOK
<1>3. CASE secs # 0
  <2>1. SetTime(f, Second * secs, Second * secs) /\ secs <= U32Max
    BY <1>3 DEF tcp_keepalive_secs
  <2>2. Second * secs \in Nat /\ Second * secs <= Second * U32Max
    BY <2>1, SecondsType
  <2>3. QED
    BY <1>1, <2>1, <2>2, SetTimeStep
<1>4. QED
  BY <1>2, <1>3

LEMMA finish_backendStep == ASSUME TimesInv, finish_backend PROVE TimesInv'
<1>1. /\ t_builder \in BackendNames \cup {NoName} /\ t_builder # NoName
      /\ t_asked \in Durations /\ t_set \in Durations /\ Left(t_asked, t_set)
      /\ t_hosts \in [BackendNames -> [asked : Durations, set : Durations, known : BOOLEAN]]
      /\ \A n \in BackendNames : Left(t_hosts[n].asked, t_hosts[n].set)
  BY DEF finish_backend, TimesInv, TTypeOK
<1>2. /\ t_builder' = NoName /\ t_asked' = NoTimes /\ t_set' = NoTimes
      /\ t_hosts' \in {t_hosts, [t_hosts EXCEPT ![t_builder] =
                                    [asked |-> t_asked, set |-> t_set, known |-> TRUE]]}
  BY DEF finish_backend
<1>3. /\ t_hosts' \in [BackendNames -> [asked : Durations, set : Durations, known : BOOLEAN]]
      /\ \A n \in BackendNames : Left(t_hosts'[n].asked, t_hosts'[n].set)
  <2> DEFINE built == [asked |-> t_asked, set |-> t_set, known |-> TRUE]
  <2>1. built \in [asked : Durations, set : Durations, known : BOOLEAN]
        /\ Left(built.asked, built.set)
    BY <1>1
  <2> HIDE DEF built
  <2>2. CASE t_hosts' = t_hosts
    BY <1>1, <2>2
  <2>3. CASE t_hosts' = [t_hosts EXCEPT ![t_builder] = built]
    <3>1. \A n \in BackendNames : t_hosts'[n] = IF n = t_builder THEN built ELSE t_hosts[n]
      BY <1>1, <2>3
    <3>2. t_hosts' \in [BackendNames -> [asked : Durations, set : Durations, known : BOOLEAN]]
      BY <1>1, <2>1, <2>3
    <3>3. \A n \in BackendNames : Left(t_hosts'[n].asked, t_hosts'[n].set)
      BY <1>1, <2>1, <3>1
    <3>4. QED
      BY <3>2, <3>3
  <2>4. QED
    BY <1>2, <2>2, <2>3 DEF built
<1>4. QED
  BY <1>2, <1>3, NoTimesType, NoTimesFit DEF TimesInv, TTypeOK

LEMMA TimesStep == TimesInv /\ [TNext]_tvars => TimesInv'
<1> SUFFICES ASSUME TimesInv, [TNext]_tvars PROVE TimesInv'
  OBVIOUS
<1>1. ASSUME NEW n \in BackendNames, builder_of(n) PROVE TimesInv'
  BY <1>1 DEF builder_of, TimesInv, TTypeOK
<1>2. ASSUME NEW t \in MsTimes,
             \/ connect_timeout(t) \/ first_byte_timeout(t)
             \/ between_bytes_timeout(t) \/ http_keepalive_time(t)
      PROVE  TimesInv'
  <2>1. t \in Nat
    BY BackendAssumption
  <2>2. PICK f \in MsFields : SetTime(f, t, Bridged(t))
    BY <1>2 DEF connect_timeout, first_byte_timeout, between_bytes_timeout,
       http_keepalive_time, MsFields
  <2>3. QED
    BY <2>1, <2>2, MsStep
<1>3. ASSUME NEW f \in SecsFields, NEW secs \in SecsTimes, tcp_keepalive_secs(f, secs)
      PROVE  TimesInv'
  BY <1>3, BackendAssumption, SecsStep
<1>4. CASE UNCHANGED tvars
  BY <1>4 DEF tvars, TimesInv, TTypeOK
<1>5. QED
  BY <1>1, <1>2, <1>3, <1>4, finish_backendStep DEF TNext

\* The durations of builders and backends are of their types, for any width.
THEOREM TimesTyped == TSpec => []TTypeOK
<1>1. TimesInv => TTypeOK
  BY DEF TimesInv
<1>2. QED
  BY TimesInit, TimesStep, <1>1, PTL DEF TSpec

LEMMA TimesAnswered == TimesInv => TimesComeBack
<1> SUFFICES ASSUME TimesInv, NEW n \in BackendNames,
                    NEW f \in TimeFields \ {"between_bytes_timeout"}
             PROVE  LET want == t_hosts[n].asked[f]
                    IN  /\ get_time(n, f) <= want
                        /\ want <= U32Max => get_time(n, f) = want
                        /\ f \in SecsFields /\ want > U32Max => get_time(n, f) = U32Max
  BY DEF TimesComeBack
<1> DEFINE want == t_hosts[n].asked[f]
           has == t_hosts[n].set[f]
<1>1. want \in Nat /\ has \in Nat /\ U32Max \in Nat
  BY BackendAssumption DEF TimesInv, TTypeOK, Durations, U32Max
<1>2. get_time(n, f) = IF has > U32Max THEN U32Max ELSE has
  BY DEF get_time, EnsureU32, Field
<1>3. CASE f \in MsFields
  <2>1. f \notin SecsFields
    BY <1>3 DEF MsFields, SecsFields
  <2>2. has <= want /\ has <= U32Max /\ (want <= U32Max => has = want)
    <3>1. Left(t_hosts[n].asked, t_hosts[n].set)
      BY DEF TimesInv
    <3>2. QED
      BY <1>3, <3>1 DEF Left
  <2>3. QED
    BY <1>1, <1>2, <2>1, <2>2
<1>4. CASE f \in SecsFields
  <2>1. has = want
    BY <1>4 DEF TimesInv, Left
  <2>2. QED
    BY <1>1, <1>2, <2>1
<1>5. QED
  BY <1>3, <1>4 DEF TimeFields

\* A duration that fits comes back as it was, and a longer one is shortened.
THEOREM TimesTold == TSpec => []TimesComeBack
BY TimesInit, TimesStep, TimesAnswered, PTL DEF TSpec

-------------------------------------------------------------------------------
(* CacheItem. *)

\* What the builder has of the option o, and what was asked for.
LastAskedFor(o, j) == j \in AskedFor(o) /\ \A l \in AskedFor(o) : l <= j
OptionFits(o) ==
  \/ AskedFor(o) = {} /\ i_options[o] = NotSet
  \/ \E j \in AskedFor(o) : LastAskedFor(o, j) /\ i_options[o] = i_calls[j][2]

\* A builder has of each option what was last asked of it; a Replace that was not
\* executed holds its handle; whoever has a Found has one of an item; and no item
\* is younger than the clock says.
ItemInv ==
  /\ ITypeOK /\ ReplaceIsHeld
  /\ \A o \in UsedOptions : OptionFits(o)
  /\ i_kind = "replace" => "replace" \in i_shares
  /\ i_shares \ {"replace"} # {} => i_begun # NoItem
  /\ i_item.born <= i_now /\ i_begun.born <= i_now
  /\ i_ttl.what = "reading" => i_ttl.max_age = i_begun.max_age /\ i_begun # NoItem

LEMMA NoOptionsType == NoOptions \in [UsedOptions -> OptionValues \cup {NotSet}]
BY DEF NoOptions

\* A new builder has nothing, and was asked for nothing.
LEMMA NewFits ==
  ASSUME i_options' = NoOptions, i_calls' = <<>>
  PROVE  /\ i_options' \in [UsedOptions -> OptionValues \cup {NotSet}]
         /\ i_calls' \in Seq(UsedOptions \X OptionValues)
         /\ \A o \in UsedOptions : OptionFits(o)'
<1>1. ASSUME NEW o \in UsedOptions PROVE OptionFits(o)'
  <2>1. AskedFor(o)' = {}
    BY DEF AskedFor
  <2>2. i_options'[o] = NotSet
    BY DEF NoOptions
  <2>3. QED
    BY <2>1, <2>2 DEF OptionFits
<1>2. QED
  BY <1>1, NoOptionsType

\* Whoever leaves the builder alone leaves it fitting.
LEMMA KeptFits ==
  ASSUME ItemInv, UNCHANGED <<i_options, i_calls>>
  PROVE  /\ i_options' \in [UsedOptions -> OptionValues \cup {NotSet}]
         /\ i_calls' \in Seq(UsedOptions \X OptionValues)
         /\ \A o \in UsedOptions : OptionFits(o)'
<1>1. ASSUME NEW o \in UsedOptions PROVE OptionFits(o)'
  <2>1. OptionFits(o) /\ AskedFor(o)' = AskedFor(o)
    BY DEF ItemInv, AskedFor
  <2>2. QED
    BY <2>1 DEF OptionFits, LastAskedFor
<1>2. QED
  BY <1>1 DEF ItemInv, ITypeOK

LEMMA NotReadType ==
  NotRead \in [what : {"none", "reading", "ttl"}, max_age : 0 .. LastTime,
               age : 0 .. LastTime + 1, ttl : 0 .. LastTime]
BY ItemAssumption DEF NotRead

LEMMA ItemInit == IInit => ItemInv
<1> SUFFICES ASSUME IInit PROVE ItemInv
  OBVIOUS
<1>1. ITypeOK
  BY NoOptionsType, NotReadType, ItemAssumption DEF IInit, ITypeOK
<1>2. ASSUME NEW o \in UsedOptions PROVE OptionFits(o)
  BY DEF IInit, OptionFits, AskedFor, NoOptions
<1>3. QED
  BY <1>1, <1>2, ItemAssumption DEF IInit, ItemInv, ReplaceIsHeld, NoItem, NotRead

LEMMA TickStep == ASSUME ItemInv, ITick PROVE ItemInv'
<1>1. i_item.born \in Int /\ i_begun.born \in Int /\ i_now \in Nat
  BY ItemAssumption DEF ItemInv, ITypeOK, Items, NoItem
<1>2. QED
  BY <1>1, KeptFits, ItemAssumption DEF ITick, ItemInv, ITypeOK, ReplaceIsHeld

LEMMA NewBuilderStep ==
  ASSUME ItemInv, NEW kind \in Kinds \ {"replace"}, NewBuilder(kind)
  PROVE  ItemInv'
BY NewFits DEF NewBuilder, ItemInv, ITypeOK, ReplaceIsHeld

LEMMA SetterStep ==
  ASSUME ItemInv, NEW kind, NEW o \in UsedOptions, NEW v \in OptionValues, Setter(kind, o, v)
  PROVE  ItemInv'
<1> DEFINE n == Len(i_calls)
           empty == o \in ListOptions /\ v = 0
<1>1. /\ i_options \in [UsedOptions -> OptionValues \cup {NotSet}]
      /\ i_calls \in Seq(UsedOptions \X OptionValues) /\ \A u \in UsedOptions : OptionFits(u)
  BY DEF ItemInv, ITypeOK
<1>2. /\ i_options' = [i_options EXCEPT ![o] = IF empty THEN i_options[o] ELSE v]
      /\ i_calls' = Append(i_calls, <<o, v>>)
  BY DEF Setter, SetTo
<1>3. /\ i_options' \in [UsedOptions -> OptionValues \cup {NotSet}]
      /\ i_calls' \in Seq(UsedOptions \X OptionValues)
  BY <1>1, <1>2
<1>4. /\ n \in Nat /\ DOMAIN i_calls = 1 .. n /\ DOMAIN i_calls' = 1 .. n + 1
      /\ i_calls'[n + 1] = <<o, v>> /\ \A j \in 1 .. n : i_calls'[j] = i_calls[j]
  BY <1>1, <1>2
<1>5. ASSUME NEW u \in UsedOptions
      PROVE  AskedFor(u)' = AskedFor(u) \cup (IF u = o /\ ~empty THEN {n + 1} ELSE {})
  BY <1>4 DEF AskedFor
<1>6. ASSUME NEW u \in UsedOptions PROVE OptionFits(u)'
  <2>1. AskedFor(u) \subseteq 1 .. n
    BY <1>4 DEF AskedFor
  <2>2. CASE u = o /\ ~empty
    <3>1. n + 1 \in AskedFor(u)' /\ \A l \in AskedFor(u)' : l <= n + 1
      BY <1>4, <1>5, <2>1, <2>2
    <3>2. i_options'[u] = v /\ i_calls'[n + 1][2] = v
      BY <1>1, <1>2, <1>4, <2>2
    <3>3. QED
      BY <3>1, <3>2 DEF OptionFits, LastAskedFor
  <2>3. CASE ~(u = o /\ ~empty)
    <3>1. AskedFor(u)' = AskedFor(u) /\ i_options'[u] = i_options[u]
      BY <1>1, <1>2, <1>5, <2>3
    <3>2. \A j \in AskedFor(u) : i_calls'[j] = i_calls[j]
      BY <1>4, <2>1
    <3>3. QED
      BY <1>1, <3>1, <3>2 DEF OptionFits, LastAskedFor
  <2>4. QED
    BY <2>2, <2>3
<1>7. QED
  BY <1>3, <1>6 DEF Setter, ItemInv, ITypeOK, ReplaceIsHeld

LEMMA StoredType ==
  ASSUME ItemInv, NEW ttl \in 0 .. LastTime
  PROVE  Stored(ttl) \in Items /\ Stored(ttl).born <= i_now
<1>1. i_now \in 0 .. LastTime /\ i_options \in [UsedOptions -> OptionValues \cup {NotSet}]
  BY DEF ItemInv, ITypeOK
<1>2. AgeOf(i_options) \in 0 .. 1
  BY DEF AgeOf
<1>3. Masked(i_options) \in [UsedOptions -> OptionValues \cup {NotSet}]
  BY <1>1 DEF Masked
<1>4. i_now - AgeOf(i_options) \in -1 .. LastTime /\ i_now - AgeOf(i_options) <= i_now
  BY <1>1, <1>2, ItemAssumption
<1>5. QED
  BY <1>3, <1>4 DEF Stored, Items

LEMMA execute_builderStep ==
  ASSUME ItemInv, NEW kind, NEW ttl \in 0 .. LastTime, execute_builder(kind, ttl)
  PROVE  ItemInv'
<1>1. i_item' \in Items \cup {NoItem} /\ i_item'.born <= i_now
  BY StoredType DEF execute_builder, ItemInv, ITypeOK
<1>2. QED
  BY <1>1, NewFits DEF execute_builder, ItemInv, ITypeOK, ReplaceIsHeld

LEMMA beginStep == ASSUME ItemInv, begin PROVE ItemInv'
<1> DEFINE found == [i_item EXCEPT !.options = NoOptions]
<1>1. /\ found \in Items \cup {NoItem} /\ found.born = i_item.born
      /\ i_item # NoItem => found # NoItem
  <2>1. CASE i_item = NoItem
    <3>1. NoItem.options = NoOptions
      BY DEF NoItem
    <3>2. [NoItem EXCEPT !.options = NoOptions] = [NoItem EXCEPT !.options = NoItem.options]
      BY <3>1
    <3>3. [NoItem EXCEPT !.options = NoItem.options] = NoItem
      BY Zenon DEF NoItem
    <3>4. QED
      BY <2>1, <3>2, <3>3
  <2>2. CASE i_item \in Items
    <3>1. /\ found \in Items /\ found.born = i_item.born /\ found.max_age = i_item.max_age
          /\ i_item.max_age \in 0 .. LastTime
      BY <2>2, NoOptionsType DEF Items
    <3>2. found # NoItem
      BY <3>1, ItemAssumption DEF NoItem
    <3>3. QED
      BY <3>1, <3>2
  <2>3. QED
    BY <2>1, <2>2 DEF ItemInv, ITypeOK
<1>2. /\ i_begun' \in {i_begun, found} /\ i_shares' \subseteq {"replace", "existing"} \cup i_shares
      /\ "existing" \in i_shares' => i_item # NoItem /\ i_begun' = found
      /\ i_shares = {}
  BY DEF begin
<1>3. ReplaceIsHeld'
  BY DEF begin, ItemInv, ReplaceIsHeld
<1>4. ITypeOK'
  BY <1>1, <1>2, NewFits, NotReadType
     DEF begin, ItemInv, ITypeOK, Kinds, Places_of_Replace
<1>5. /\ i_begun'.born <= i_now
      /\ i_shares' \ {"replace"} # {} => i_begun' # NoItem
  BY <1>1, <1>2 DEF ItemInv
<1>6. \A o \in UsedOptions : OptionFits(o)'
  BY NewFits DEF begin
<1>7. QED
  BY <1>3, <1>4, <1>5, <1>6 DEF begin, ItemInv, NotRead

\* What becomes of the handle when other objects hold it.
LEMMA ShareStep ==
  ASSUME ItemInv, NEW shares \in SUBSET (Places_of_Replace \cup Founds), Share(shares),
         i_handle # "none",
         "existing" \in shares => "existing" \in i_shares,
         shares \ {"replace"} # {} => i_shares \ {"replace"} # {},
         i_ttl.what # "reading",
         \/ UNCHANGED <<i_kind, i_options, i_calls>> /\ ("replace" \in i_shares => "replace" \in shares)
         \/ i_kind' = "none" /\ i_options' = NoOptions /\ i_calls' = <<>>,
         UNCHANGED <<i_item, i_now>>
  PROVE  ItemInv'
<1>1. /\ i_shares' = shares
      /\ i_handle' = IF shares = {} THEN "none" ELSE i_handle
      /\ i_begun' \in {i_begun, NoItem} /\ (shares # {} => i_begun' = i_begun)
      /\ i_ttl' \in {i_ttl, NotRead}
  BY DEF Share, Handle
<1>2. ReplaceIsHeld'
  BY <1>1 DEF ItemInv, ReplaceIsHeld
<1>3. /\ i_options' \in [UsedOptions -> OptionValues \cup {NotSet}]
      /\ i_calls' \in Seq(UsedOptions \X OptionValues)
      /\ \A o \in UsedOptions : OptionFits(o)'
  BY NewFits, KeptFits
<1>4. ITypeOK'
  BY <1>1, <1>3, NoOptionsType, NotReadType DEF ItemInv, ITypeOK
<1>5. NoItem.born <= i_now /\ NotRead.what # "reading"
  BY ItemAssumption DEF ItemInv, ITypeOK, NoItem, NotRead
<1>6. QED
  BY <1>1, <1>2, <1>3, <1>4, <1>5 DEF ItemInv

LEMMA CopyExistingStep ==
  ASSUME ItemInv, NEW f \in Founds, CopyExisting(f), i_ttl.what # "reading"
  PROVE  ItemInv'
<1>1. f # "replace" /\ f # "existing"
  BY ItemAssumption
<1>2. i_shares \in SUBSET (Places_of_Replace \cup Founds)
  BY DEF ItemInv, ITypeOK
<1>3. "existing" \in i_shares /\ i_handle # "none" /\ Share(i_shares \cup {f})
      /\ UNCHANGED <<i_kind, i_options, i_calls, i_item, i_now>>
  BY DEF CopyExisting, ItemInv, ReplaceIsHeld
<1>4. QED
  BY <1>1, <1>2, <1>3, ShareStep

LEMMA DropShareStep ==
  ASSUME ItemInv, NEW f \in Founds, DropShare(f), i_ttl.what # "reading"
  PROVE  ItemInv'
<1>1. f # "replace" /\ f # "existing"
  BY ItemAssumption
<1>2. i_shares \in SUBSET (Places_of_Replace \cup Founds)
  BY DEF ItemInv, ITypeOK
<1>3. f \in i_shares /\ i_handle # "none" /\ Share(i_shares \ {f})
      /\ UNCHANGED <<i_kind, i_options, i_calls, i_item, i_now>>
  BY DEF DropShare, ItemInv, ReplaceIsHeld
<1>4. QED
  BY <1>1, <1>2, <1>3, ShareStep

LEMMA DropReplaceStep ==
  ASSUME ItemInv, DropReplace, i_ttl.what # "reading"
  PROVE  ItemInv'
<1>1. /\ i_shares \ Places_of_Replace \in SUBSET (Places_of_Replace \cup Founds)
      /\ "existing" \notin i_shares \ Places_of_Replace
  BY DEF ItemInv, ITypeOK, Places_of_Replace
<1>2. /\ i_handle # "none" /\ Share(i_shares \ Places_of_Replace)
      /\ i_kind' = "none" /\ i_options' = NoOptions /\ i_calls' = <<>>
      /\ UNCHANGED <<i_item, i_now>>
  BY DEF DropReplace, ItemInv, ReplaceIsHeld
<1>3. (i_shares \ Places_of_Replace) \ {"replace"} # {} => i_shares \ {"replace"} # {}
  OBVIOUS
<1>4. QED
  BY <1>1, <1>2, <1>3, ShareStep

LEMMA execute_replaceStep ==
  ASSUME ItemInv, NEW ttl \in 0 .. LastTime, execute_replace(ttl), i_ttl.what # "reading"
  PROVE  ItemInv'
<1>1. i_item' \in Items \cup {NoItem} /\ i_item'.born <= i_now
  BY StoredType DEF execute_replace, ItemInv, ITypeOK
<1>2. i_handle' \in {"open", "spent"} /\ "replace" \in i_shares' /\ "existing" \notin i_shares'
  BY DEF execute_replace, ItemInv
<1>3. QED
  BY <1>1, <1>2, NewFits DEF execute_replace, ItemInv, ITypeOK, ReplaceIsHeld

\* While the getters of remaining_ttl run there is an item.
LEMMA TimesOfBegun ==
  ASSUME ItemInv, i_begun # NoItem
  PROVE  max_age \in 0 .. LastTime /\ age \in 0 .. LastTime + 1
<1>1. i_begun \in Items /\ i_begun.born <= i_now /\ i_now \in 0 .. LastTime
  BY DEF ItemInv, ITypeOK
<1>2. i_begun.max_age \in 0 .. LastTime /\ i_begun.born \in -1 .. LastTime
  BY <1>1 DEF Items
<1>3. QED
  BY <1>1, <1>2, ItemAssumption DEF max_age, age

LEMMA remaining_ttl_beginsStep == ASSUME ItemInv, remaining_ttl_begins PROVE ItemInv'
<1>1. i_begun # NoItem
  BY DEF remaining_ttl_begins, CanGet, ItemInv
<1>2. i_ttl' = [NotRead EXCEPT !.what = "reading", !.max_age = max_age]
  BY DEF remaining_ttl_begins, Reads, Got
<1>3. i_ttl' \in [what : {"none", "reading", "ttl"}, max_age : 0 .. LastTime,
                  age : 0 .. LastTime + 1, ttl : 0 .. LastTime]
  BY <1>1, <1>2, TimesOfBegun, NotReadType
<1>4. i_ttl'.max_age = i_begun.max_age
  BY <1>2 DEF NotRead, max_age
<1>5. QED
  BY <1>1, <1>3, <1>4, KeptFits DEF remaining_ttl_begins, ItemInv, ITypeOK, ReplaceIsHeld

\* remaining_ttl returns what is left of the item's time to live.
LEMMA remaining_ttlAnswer ==
  ASSUME ItemInv, remaining_ttl
  PROVE  i_ttl' = [NotRead EXCEPT !.what = "ttl", !.ttl = Rest(age, max_age)]
<1>1. i_ttl \in [what : {"none", "reading", "ttl"}, max_age : 0 .. LastTime,
                 age : 0 .. LastTime + 1, ttl : 0 .. LastTime]
      /\ i_ttl.max_age = max_age
  BY DEF remaining_ttl, ItemInv, ITypeOK, max_age
<1> DEFINE read == [i_ttl EXCEPT !.age = age]
<1>2. read.age = age /\ read.max_age = max_age
  BY <1>1
<1>3. i_ttl' = [NotRead EXCEPT !.what = "ttl", !.ttl = Rest(read.age, read.max_age)]
  BY DEF remaining_ttl, Reads, Got
<1>4. QED
  BY <1>2, <1>3

LEMMA remaining_ttlStep == ASSUME ItemInv, remaining_ttl PROVE ItemInv'
<1>1. max_age \in 0 .. LastTime /\ age \in 0 .. LastTime + 1
  BY TimesOfBegun DEF remaining_ttl, ItemInv
<1>2. Rest(age, max_age) \in 0 .. LastTime
  BY <1>1, ItemAssumption DEF Rest
<1>3. i_ttl' = [NotRead EXCEPT !.what = "ttl", !.ttl = Rest(age, max_age)]
  BY remaining_ttlAnswer
<1>4. i_ttl' \in [what : {"none", "reading", "ttl"}, max_age : 0 .. LastTime,
                  age : 0 .. LastTime + 1, ttl : 0 .. LastTime] /\ i_ttl'.what = "ttl"
  BY <1>2, <1>3, NotReadType
<1>5. QED
  BY <1>4, KeptFits DEF remaining_ttl, ItemInv, ITypeOK, ReplaceIsHeld

LEMMA ItemStep == ItemInv /\ [INext]_ivars => ItemInv'
<1> SUFFICES ASSUME ItemInv, [INext]_ivars PROVE ItemInv'
  OBVIOUS
<1>1. CASE UNCHANGED ivars
  BY <1>1, KeptFits DEF ivars, ItemInv, ITypeOK, ReplaceIsHeld
<1>2. CASE i_ttl.what # "reading" /\ \E o \in UsedOptions, v \in OptionValues :
             \/ UpdateSetter(o, v) \/ TransactionInsertSetter(o, v)
             \/ InsertSetter(o, v) \/ ReplaceSetter(o, v)
  BY <1>2, SetterStep DEF UpdateSetter, TransactionInsertSetter, InsertSetter, ReplaceSetter
<1>3. QED
  BY <1>1, <1>2, TickStep, NewBuilderStep, execute_builderStep, beginStep, CopyExistingStep,
     DropShareStep, execute_replaceStep, DropReplaceStep, remaining_ttl_beginsStep,
     remaining_ttlStep DEF INext

\* Builders, items, the handle and the clock are of their types.
THEOREM ItemTyped == ISpec => []ITypeOK
<1>1. ItemInv => ITypeOK
  BY DEF ItemInv
<1>2. QED
  BY ItemInit, ItemStep, <1>1, PTL DEF ISpec

\* The handle of a Replace is open as long as an object holds it.
THEOREM ItemReplaceIsHeld == ISpec => []ReplaceIsHeld
<1>1. ItemInv => ReplaceIsHeld
  BY DEF ItemInv
<1>2. QED
  BY ItemInit, ItemStep, <1>1, PTL DEF ISpec

\* The time to live that is returned is no longer than what is left of it.
THEOREM ItemTtlIsLeft == ISpec => TtlIsLeft
<1> DEFINE Answer == i_ttl'.what = "ttl" /\ i_ttl.what = "reading"
                       => i_ttl'.ttl <= Rest(age, max_age)
<1>1. ItemInv /\ [INext]_ivars => [Answer]_ivars
  <2> SUFFICES ASSUME ItemInv, INext, i_ttl'.what = "ttl", i_ttl.what = "reading"
               PROVE  i_ttl'.ttl <= Rest(age, max_age)
    BY DEF ivars
  <2>1. remaining_ttl
    BY DEF INext, ITick
  <2>2. i_ttl'.ttl = Rest(age, max_age)
    BY <2>1, remaining_ttlAnswer DEF NotRead
  <2>3. max_age \in Int /\ age \in Int
    BY TimesOfBegun DEF ItemInv
  <2>4. QED
    BY <2>2, <2>3 DEF Rest
<1>2. QED
  BY ItemInit, ItemStep, <1>1, PTL DEF ISpec, TtlIsLeft

\* What is written of an option is what the builder was last asked for.
THEOREM ItemStoredIsAsked == ISpec => StoredIsAsked
<1> DEFINE Written(o) ==
             IF AskedFor(o) = {} THEN i_item'.options[o] = NotSet
             ELSE \E j \in AskedFor(o) :
                    /\ \A l \in AskedFor(o) : l <= j
                    /\ i_item'.options[o] =
                         IF i_calls[j] = <<"sensitive_data", 0>> THEN NotSet ELSE i_calls[j][2]
           Honestly == i_item' # i_item => \A o \in UsedOptions : Written(o)
<1>1. ItemInv /\ [INext]_ivars => [Honestly]_ivars
  <2> SUFFICES ASSUME ItemInv, INext, i_item' # i_item, NEW o \in UsedOptions PROVE Written(o)
    BY DEF ivars
  <2>1. PICK ttl \in 0 .. LastTime : i_item' = Stored(ttl)
    BY DEF INext, ITick, NewBuilder, UpdateSetter, TransactionInsertSetter, InsertSetter,
       ReplaceSetter, Setter, execute_builder, begin, CopyExisting, DropShare,
       execute_replace, DropReplace, remaining_ttl_begins, remaining_ttl
  <2>2. i_item'.options[o] =
          IF o = "sensitive_data" /\ i_options[o] = 0 THEN NotSet ELSE i_options[o]
    BY <2>1 DEF Stored, Masked
  <2>3. CASE AskedFor(o) = {}
    BY <2>2, <2>3 DEF ItemInv, OptionFits
  <2>4. CASE AskedFor(o) # {}
    <3>1. PICK j \in AskedFor(o) : LastAskedFor(o, j) /\ i_options[o] = i_calls[j][2]
      BY <2>4 DEF ItemInv, OptionFits
    <3>2. j \in DOMAIN i_calls /\ i_calls[j] \in UsedOptions \X OptionValues /\ i_calls[j][1] = o
      BY DEF AskedFor, ItemInv, ITypeOK
    <3>3. i_calls[j] = <<o, i_options[o]>>
      BY <3>1, <3>2
    <3>4. i_calls[j] = <<"sensitive_data", 0>> <=> o = "sensitive_data" /\ i_options[o] = 0
      BY <3>3
    <3>5. i_item'.options[o] =
            IF i_calls[j] = <<"sensitive_data", 0>> THEN NotSet ELSE i_calls[j][2]
      BY <2>2, <3>1, <3>4
    <3>6. QED
      BY <2>4, <3>1, <3>5 DEF LastAskedFor
  <2>5. QED
    BY <2>3, <2>4
<1>2. QED
  BY ItemInit, ItemStep, <1>1, PTL DEF ISpec, StoredIsAsked

===============================================================================
