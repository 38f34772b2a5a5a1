# A verification of the Fastly Compute SDK for C++

The SDK gives a C++ program on Fastly's Compute platform access to the services
of its host: HTTP messages and their bodies, the cache, the KV store, ESI and
smaller services.  It is a thin layer with three floors.  C++ classes
(`include/fastly`, `src/cpp`) call Rust wrappers (`src/*.rs`, through the cxx
bridge declared in `src/lib.rs`), which call the Rust SDK; the core cache and
edge rate limiting call the host's ABI (`src/cpp/fastly.h`) directly.  A program
runs in a wasm instance: one thread, no exceptions, and an abort ends it.  Many
instances run at a time and meet in the host: in its cache, its stores and its
backends.

So the state the SDK itself keeps is small, and what can go wrong in it is of
three kinds:

* **buffers** between a C++ stream and a body of the host, which must not lose,
  double or reorder a byte;
* **ownership** of host handles and Rust boxes, which objects share, move, copy
  and drop in any order a program likes;
* **protocols** with the host that several instances run at a time: request
  collapsing in the cache, asynchronous requests to backends and stores.

These are what the modules here are about.  A fourth kind sits where a call crosses
from one language to the other: numbers that lose width, errors that come back through
a pointer, functors that are copied, options that are set in any order and handed
over at once.  Conversions of text (header values, URLs, status codes) are left out.

## Inventory

| Component | State it keeps | Operations | What is hard about it |
|---|---|---|---|
| Body (`http/body.h`, `body.cpp`) | put area, get area, stream state, box of the host's body | constructors, `<<`, flush, `>>`, `read`, `write`, `append`, move, handing over | two paths to the host's body, one buffered and one not; partial writes; buffer boundaries; the byte 0xFF |
| StreamingBody | put area, box | `<<`, flush, `write`, `append`, `finish`, move | failures of the flush inside `finish` and the move, which nobody is told of |
| Core cache, transactions (`cache/core.h`, `core.cpp`) | a handle shared by Transaction, Found and builders; a busy handle | lookup, async lookup and wait, found, insert, stream back, update, cancel | the handle carries an obligation that others wait on; it is closed by whichever object goes last |
| Core cache, options and metadata | the write options of four classes of builders | setters, execute; age, max_age, remaining_ttl | options set twice, emptied, masked; two host calls for one answer while time goes on |
| Core cache, replace | a handle shared by Replace and Found | begin, execute | an error between the handle and its owner; copies of the existing object that outlive it |
| Lookup options | a request handle in an optional | header, header_values | copies of an object that closes its handle |
| Simple cache (`cache/simple.h`, `simple.cpp`) | none: a sequence of host calls with a user closure in the middle | get, get_or_set, get_or_set_with, purge | races of instances, failing and trapping closures, nested calls, expiry and purge at any moment |
| HTTP exchanges (`http/request.h`, `request.cpp`, `request.rs`) | boxes of Request, PendingRequest, Response | send, send_async, streaming, poll, wait, select | answers in any order, boxes that move out of objects that stay in scope |
| HTTP messages (`request.cpp`, `response.cpp`) | a box with fields and a body | constructors, clones, set_ and with_ methods, bodies in and out, to the client | errors on each call; options that override one another; who has the body |
| HTTP headers and Rust iterator ranges (`header.h`, `rust_iterator_range.h`) | a header map; a Rust iterator, the element a C++ iterator holds | set, append, remove, get; begin, ++, * | several C++ iterators over one Rust iterator; changes inside a loop |
| KV store | boxes of builders, handles as numbers | lookup, insert, erase, list, synchronous or not | copyable pending handles; conditions against other clients; widths of times |
| ESI | a box of the processor, callbacks | process_response, process_document | a box that is used once, callbacks in any order, copied functors |
| Logging | a builder's box, one global logger | endpoints, defaults, levels, init; statements | defaults are combined in order; three filters decide where a statement goes |
| Backend | a builder's box | setters, finish, getters | durations of 64, 32 and 128 bits |
| ERL, config store, secret store, geo, device detection, security, purge, status codes, errors | none | one host call each | conversions |

## Modules

| Module | Models | Kind |
|---|---|---|
| `BodyStream` | Body: buffers, both paths to the host, moves and the host's refusals | component |
| `ByteStream` | what a Body promises: a queue of bytes | abstract specification |
| `BodyStream_proofs`, `BodyQueue_proofs` | theorems about BodyStream | proofs |
| `CacheTransaction` | the objects of the transactional cache and the obligations of the host | component |
| `MCCacheTransaction`, `CacheTransaction_proofs` | its instance for TLC, its theorems | |
| `SimpleCache` | get_or_set_with, as clients of CacheTransaction (which it EXTENDS) | composition |
| `SingleFlight` | what all the calls of get_or_set_with promise together | abstract specification |
| `MCSimpleCache`, `SimpleCache_proofs` | its instances for TLC, its theorems | |
| `HttpExchange` | requests to backends, the objects that own them, backends that answer at any time | component |
| `Answers` | what a request promises: one outcome, its own | abstract specification |
| `HttpExchange_proofs` | theorems about HttpExchange | proofs |
| `StreamingBody` | the writing end of a body that somebody else reads | component |
| `HttpMessage` | Request and Response as a program builds, clones, takes apart and sends them | component |
| `HeaderRanges` | headers, and loops over them | component |
| `CacheItem` | options of the cache's builders, metadata of an item, Replace | component |
| `LookupHeaders`, `MCLookupHeaders` | the header handle of the cache's builders, and its instance for TLC | component |
| `KvStore` | one key of a store, several clients | component |
| `Logger` | the builder, the global logger, statements | component |
| `Backend` | durations on their way to the host and back | component |
| `Esi` | a processor and its callbacks | component |
| `MCComponents` | the ten components above that share no state, one at a time | instance for TLC |
| `Stores_proofs` | theorems about LookupHeaders, KvStore, Backend, CacheItem | proofs |
| `Logger_proofs` | theorems about Logger | proofs |
| `Messages_proofs` | theorems about Esi, StreamingBody, HttpMessage, HeaderRanges | proofs |

What composes what: SimpleCache is made of CacheTransaction's actions, and SingleFlight is what
it comes to.  HttpExchange moves the boxes of the messages that HttpMessage builds; CacheTransaction
moves the handles of the items that CacheItem describes, and the bodies that StreamingBody
writes.  In those pairs the one module has what the other leaves open (whether there is a
message, what is in it), and no operation of the code depends on both halves, so that they are
checked apart.

### BodyStream

`put` is what lies between `pbase` and `pptr`, `get` what lies between `gptr` and
`egptr`, `host` the bytes behind the box `bod` that were written and not yet
read, `bad` the badbit.  One action is one call of the program with all that it
sets off: `Put` is `operator<<` of a byte with the `overflow` it may cause,
`Construct` the whole of `*this << body_str << std::flush`, `Take` the `sbumpc`
of `operator>>`, of `istreambuf_iterator` and so of `take_body_string`, with the
`underflow` it may cause.  Where `overflow` loops until the host has taken
everything, the model writes the bytes the host takes in all (`Accepted`): all of
them, or with `HostEofs` any number of them, after which a write of the host
returns 0 and the call fails.  `in`, `out` and `eof` say what the last call put
in, what it got, and whether it answered end of file; the program sees no more.

`Next` lets a program make any call in any order.  `CarefulNext` is the program
that the documentation leads one to write if one knows of the two paths: it
flushes before it goes past the put area, drains the get area before it goes past
that, and looks at the stream state before it moves a body.  For that program
(and any host) a Body is the queue of `ByteStream`; for the other, only what
`EofIsGenuine` says is left, and the run that looks for what body.h says of
`take_body_string` finds a program for which it is not so.

A read or a write that the host answers with an error aborts the instance
(`underflow`, `overflow`) or changes nothing (`read`, `write`), and has no action.

### CacheTransaction

A member of `Txs` is a place for the objects that one lookup gives rise to.
`refs[t]` is what holds the number of its handle: the running call, the
PendingTransaction, the Transaction, a Found, a builder.  `Drop` is the
destructor of one of them, and `~CacheHandle` runs with the last.  `lost` are the
handles whose number the code forgets: `FailLookup` (`CACHE_TRY` returns between
the host's call and `make_shared`) and `PlainLookup` without a result, or with a state
query that fails (core.cpp:721-733).  `HandlesAreHeld` is about the others.

The host is external and is what the SDK's documents and the state bits say of
it: of all the open handles that missed a key one is obliged (`obliged`), a
pending lookup is answered when there is a fresh item, or a stale one that
somebody is updating, or when nobody is obliged; a handle that is closed gives
its obligation back, an instance that ends closes all it has.  A call that the
host refuses changes nothing.  Items expire and are purged at any time.  `body`
tells a body that is still being written from a complete and a broken one, as
readers may stream it meanwhile.

### SimpleCache

`pc[t]` is the place of a call of `get_or_set_with` between two host calls, so
that the host calls of all instances interleave.  The locals of the C++ function
are the state of the transaction below: `Return` is any of its `return`s, with
the destructors it runs.  A closure ends with an entry or with `nullopt`, or its
instance traps (`End`), or it makes a call of its own (`Outer`, `Below`).  `code`
is the `CacheError` that the call returned; all errors that come from the host
are `Host`.

`WaitsFor(t)` is what keeps a call from going on: for a lookup that the host cannot answer the
call that is obliged for its key, for a closure the calls it made.  `NobodyWaitsInVain` says
of every state what `CallsReturn` says of every behaviour, and says why: the one who is waited
for is under way, or has forgotten its obligation (violation 3 below), and there is no circle of
waiting, if there is none of keys (`KeysAreOrdered`).

### HttpExchange

An exchange is named by the request it begins with.  Its Rust box is in one
object at a time: in the `Request` (`request[x]` is `"made"`, and `"moved"` when
`send` has moved the box out of the object, which stays in scope and is empty),
in a PendingRequest (`box[p]`, where a place `p` is a variable or an element of a
vector), or in the call that blocks (`vecreqs`, as the vector is called in
`select`).  A program has one thread, so while `call` is not `"none"` only
backends move, and the call returns (`Return`) when one of its requests is
`Ready`.  `net[x]` is how far the backend is: it answers (`Answer`) once it has the
whole body, and may fail at any time (`Fail`); both are external, as are refusals of
the host (`Refuse`).  A streaming request waits for its `StreamingBody`: `finish`
completes it, `DropStream` cuts it off.  `select` hands its vector to Rust, gets the
other requests back in a new one, and does so before it looks at whether the ready
one is an error (`Others`).

`CallsCanReturn` is the same for exchanges: everything a blocked call waits for is done, or with
a backend that has its whole body, or in the midst of a body that the program has open; and
wherever `select` comes back first, the others find an empty place (`Placed`).  `EndStream` is
what it depends on: a stream that the program drops must tell the backend.

Using an object that is empty is an error of the program and has no action.
`poll` and `wait` are modelled although request.h:43-66 declares them, and
`cloned_sent_req`, in the private part of the class, where only `select` and
`Request` reach them: their definitions are there, and their documentation addresses
programs.

### LookupHeaders

`request_headers[b]` is the optional of the options of a builder `b`, which still holds
the number when the builder was moved from; `open_requests` are the request handles that the
host has open.  `header_values` is one call: with an empty optional it makes a
handle and assigns a temporary to the optional, and the temporary closes the handle
again (`Assigned`), before the header is set.  `asked` is what the program set along
the chain of builders, `answer` what the last `execute` came to.  The host may give
any number that is not open; `headers` is its table.  All four kinds of builders that
have headers work this way.

`RefusedIffHeaders` says exactly what comes of it: the copies that are closed again and again
never disturb an operation without headers, and one with headers is always refused.
That the numbers might be given out again to requests of the program itself, which
the destructors of builders would then close, is left out: whether the host does is
not to be seen in this code.

### StreamingBody

`s_put` is the put area, `s_received` what the reader of the body gets.  The n-th byte that
the program puts in is the number n, so that a byte which is lost, doubled or out of place
shows.  The host takes any part of what it is given (`STaken`).  A move syncs the old object
and ignores what comes of it (body.h:71), and so does `finish` with its flush (body.cpp:138);
a Body that is moved into the parameter of `append` was synced in the same way
(body.h:71 again).  `s_told` is set when a stream turned bad, which the program can see, `s_untold`
when bytes were refused in a call that says nothing of it, `s_ahead` when a call overtook the
bytes that wait.  `FinishedIsWhole` says that these three are all that can go wrong with a
stream that was finished.  The body of `set_body` (request.cpp:225) goes the same way.

### HttpMessage

A box has a message: the set of the fields that were set in it, and its body (`BodyOf`), or
`NoBody`.  A `set_` method has the object itself as `c`, a `with_` method the object that the
message is moved to, unless an error is answered.  `Try` is a method whose argument Rust may
refuse, `Plain` one that cannot fail; `m_error` is the object whose last call answered an error.
`Clone` is either of the two clones, `take_backend_request` the request that a response was
the answer to, once.  Two methods are not what their siblings are: `with_ttl` calls `set_pass`
(request.cpp:568), and `set_body_text_html` of a response has its returns the wrong way round
(response.cpp:109).  A second `from_client` or `send_to_client`, and a content type that is no
header value, panic in the Rust SDK: `Panic` ends the instance, and the next one begins with
nothing.  `m_once` is what an instance has done of these once.

### HeaderRanges

`h_map` has the values of each name in the order they were put in, `r_left[r]` what the
iterator of Rust under the range `r` has left, `r_cache[r]` the `cache_` of a C++ iterator that
the loop has not looked at.  Rust collects clones when the range is made, so that `Kept` leaves the
range alone when the message changes.  `begin` and `++` both are `Fetch`, as each takes the next
element, whichever loop it is for.  In which order Rust lists the headers is not in this
repository but for the values of one name, which come in the order they were put in:
`Listings` has every order of the names, and `get_headers` takes any.

### CacheItem

`i_options` is what the builder has collected, `i_calls` the setters that were called on it, with
what they were given, `i_item` the item that comes of it; the four classes of builders differ in
the setters they have.  `StoredIsAsked` goes back to the calls: what an item has of an option is what
the last call gave that asked for something of it (`AskedFor`), and nothing of an earlier builder.
`Masked` is `as_abi`.  `is_stale` is a bit that the host keeps, and is not here.  The time of the host goes on between any two calls and in the middle of
`remaining_ttl`, which reads `max_age` and then `age` (core.cpp:515).  `i_shares` are the objects
that hold the `CacheReplaceHandle`: the Replace, the Found inside it, and copies of that one.

### KvStore

One key of a store.  `k_builder[c]` is the InsertBuilder of a client: `want` and `asked` are the
arguments of its setters, `match` and `ttl` what Rust has, between which lies a truncation to 32
bits (kv_store.cpp:39).  A program may ask for any generation, that of a response it has or one
that the store never gave.  `k_ops` are the asynchronous operations, which the store takes in any
order (`Arrive`), and whose handles are numbers that may be waited for again, or by the wait of
another kind (`pending_wait`); `k_response` is the generation in the last LookupResponse that any
program got.  The store is external.  That it compares generations is what its documents promise
(`Fits`); that an insert with a generation succeeds where there is no value is what
test/kv_store.cpp:118 requires; and what it answers to a handle that is used up or of another
kind (`Told`) no property depends on.

### Logger

`g_builder` is configured call by call, `init` makes it the global logger, once.  What a
default or a level means is in the crate log_fastly, which is not in the repository; the
model has it as log.h:39-200 describes it, with its definitions marked as external.  As log.cpp
forwards each call, nothing but the types is asked of it.

### Backend

Durations are 64 bits wide in C++, 32 in the bridge (`Bridged`) and clamped on their way back
(`EnsureU32`).  `t_asked` is what the program gave, `t_set` what the builder has, `t_hosts`
both of each backend that the host has taken.

### Esi

`e_processor` is the box that goes into the one call (esi.cpp:102).  Fragments are found in order and
answered in any.  A callback works on a copy of the functor of the program (esi.cpp:23), so
that there is no state of functors to model.

### MCComponents

The ten components that share no state, in one run: `part` is chosen at the start, and the others
stand still.  What the run shows is what ten runs would show, one for each.  Clients of the KV store
are symmetric.

## Runs

| Run | Question | Bounds |
|---|---|---|
| `BodyStream_queue` | is a carefully used Body a queue, also when the host refuses bytes? | 3 bodies, bytes {x, 0xFF}, buffers of 2, 3 bytes in all, refusing host |
| `CacheTransaction_any` | do shared handles live exactly as long as they must? | 2 lookups of 2 instances, 1 key, 2 bodies, symmetry |
| `SimpleCache_race` | does collapsing work, is the own entry whole? | 3 instances, 1 key, 2 bodies, failing state queries, symmetry |
| `SimpleCache_returns` | does every call return, also with nested calls, and does nobody wait in vain or in a circle? | 2 instances, one of them with a call from a closure, 2 keys, 1 body, failing state queries, traps |
| `HttpExchange_any` | does every request come to one result, its own; can `send`, `wait` and `select` return, and do they? | 3 requests, 3 places |
| `Components_any` | the properties of the ten components that share no state, for any order of calls | below |
| `BodyStream_take_entire` | violation: "Take the entire body" | 1 body |
| `BodyStream_vec_fill` | violation: a body made from a vector holds it | 1 body |
| `SimpleCache_hands_on` | violation: an error of the caller that is responsible hands the obligation on | 2 instances, 1 key |
| `LookupHeaders_used` | violation: "Sets a ... header for this lookup" | 3 builders, 2 handles, 2 names, symmetry |
| `HttpMessage_with_ttl` | violation: with_ttl is "equivalent" to set_ttl | 2 messages, 1 body |
| `HttpMessage_html` | violation: a call that has set the body answers no error | 2 messages, 1 body |

What `Components_any` asks, and of what:

| Component | Properties | Bounds |
|---|---|---|
| BodyStream | `EofIsGenuine` | 2 bodies, the bytes and buffers above, refusing host |
| LookupHeaders | `RefusedIffHeaders` | 3 builders, 2 handles, 1 name |
| StreamingBody | `FinishedIsWhole`, `NoByteTwice` | a buffer of 2, 4 bytes, refusing host |
| HttpMessage | `OneBodyOwner`, `RequestErrors` | 2 messages, 2 bodies, `MaxSet` 2 |
| HeaderRanges | `LoopsSeeSnapshot` | 2 names, 2 values, 1 range, 2 values in the message |
| CacheItem | `ReplaceIsHeld`, `TtlIsLeft`, `StoredIsAsked` | 2 options, 2 setters on a builder, 1 copy of the existing object, clock 0..1 |
| KvStore | `NoLostUpdate`, `NeverOutlives` | 2 clients, words of 4 values, 2 generations, 1 pending operation, symmetry |
| Logger | type invariant | 2 endpoints, levels 0, 3 and 5 in filters, 2 calls that configure |
| Backend | `TimesComeBack` | 1 backend, words of 4 values, seconds of 2 milliseconds |
| Esi | type invariant | 3 fragments |

and the type invariant of each but Backend, StreamingBody and LookupHeaders, whose types are
proved only.

Why the bounds are enough.  A buffer of 2 has an empty, a partly full and a full
state, and 3 bytes overflow it; two byte values tell order and the special byte
apart.  Three bodies let a body be appended to one and moved to another.  One key
suffices for a race, as nothing couples keys but a closure that asks for a second
one, which `SimpleCache_returns` has.  Bodies 1..MaxBodies are reused when nobody has them
any more; two let a new body be written while an old one is read.  Three requests and three
places let a `select` of three return one and two others, next to a `poll` that moves a box
from place to place; no operation looks at more than one request of its own.

Two messages are an object and where it is moved or cloned to.  `MaxSet` bounds the fields of
all messages and the bodies together when a field is set; the fields interact in pairs (pass
and an override, url and a part of it).  Two options are a list, which an empty argument leaves
alone, and a plain one that is also the age of an item; two setters on a builder set one of them
again, or each of them once, in either order.  A time to live of 5 does not fit a
word of 4 values; in Backend, 2 seconds of 2 milliseconds do not either, so
that both conversions overflow.  Two clients and two generations make a lost update.  With filters 0, 3 and 5
there is a level on each side of a filter, and none.  Three fragments make a callback follow
another of its kind and one of the other kind.  Bounds on sets of calls and numbers are in guards, each
named at its CONSTANT; what the runs show for these bounds the theorems show for all,
except for liveness.

Fairness (`FairSpec`).  A step of a program that can be taken is taken at the
latest when nothing else happens: wasm instances are run by the host without
waiting for each other, so weak fairness of `Step` for each call.  `Resolve` is
strong: an item may come and expire again and again under a waiting lookup, and the
host is assumed not to miss its chance for ever.  An instance that has returned from its last
call ends (`Exit`, weak), which is what gives back an obligation that a failed
state query has forgotten; nothing makes an instance trap.

In `HttpExchange` backends answer or time out (weak fairness of `Answer` or `Fail`, but not of
`Fail` while a body is still open: a program may stream as long as it likes), and a
blocked call with a ready request returns (weak fairness of `Return`).  So `CallsReturn` is asked for calls
one of whose requests has its whole body.  A program that waits for a request whose
`StreamingBody` it has not finished (request.h:318) may block for ever, as it is itself what
the backend waits for.  Its run does not check for deadlock: a program that is done with its
requests stops.  All other runs do.

In the cache, `CallsReturn`, like the part of `NobodyWaitsInVain` that speaks of circles, needs that closures do not ask for each other's keys in a circle:
`Below` of the model is acyclic.  Two instances whose closures for k1 and k2 ask for
k2 and k1 wait for each other for ever, and no timeout in the SDK ends it.  Its one exception
is an instance that never ends because it waits for an obligation that it has itself
forgotten (violation 3 below), or for a call that waits for that.

## Proofs

All theorems hold for any values of the constants that the assumptions of the
modules allow: any number of bodies, keys, calls, instances, any buffer size.  Every safety
invariant, action property and refinement that a run checks is stated by one of them.

* `BodyStream_proofs`: `TypeCorrect`, `EofCorrect` by induction over all actions.
* `BodyQueue_proofs`: `CarefulIsQueue`.  Every step of `CarefulNext` is a step of
  `ByteStream` under the mapping content = get \o host \o put, failed = bad.  The facts
  it needs beyond the types are about sequences: how cutting a prefix off and
  putting a suffix on commute with concatenation.
* `CacheTransaction_proofs`: the inductive invariant `CacheInv` is the conjunction of the
  type invariant, `ObjectsHaveHandles`, `HandlesAreHeld`, `ObligationsAreOpen` (only an open
  handle is obliged), `OneSetterPerKey` and `WritersAreDistinct` (no two StreamingBody objects
  write one body, without which ending one body could cut another short).
* `SimpleCache_proofs`: `SimpleInv` adds for each place of a call which references and bodies
  exist there (`PlaceFits`), that a lookup which is tested is obliged or has found an item
  (`LookupFinds`, the reason why `InvalidOperation` never arises: only the host's answer to the
  handle decides, and what happens to the item later does not take it back), and that the
  streamed back body is the one just finished (`StreamsBack`).  From it follow `NeverInvalid`,
  `OwnEntryReturned` and the refinement `FlightRefined`.  `WaitInv` adds that a call of a closure
  has a key that the closure may ask for, and its caller stays in the closure (`InnerFits`), and that
  during a lookup the running call alone holds the handle (`LookupHolds`).  `WaitsEnd` then has two
  arguments.  Who is obliged is under way, or forgot its handle: `PlaceFits` says so of each place.
  And who is obliged and waits does so in its closure (`SetterAtClosure`).  So if all in a set of calls
  waited for others of the set, each would have the key of a closure in it; by `KeysAreOrdered` the
  closure of one of these keys asks for none of them, and has no call in the set to wait for
  (`NoCircle`).
  `KeysAreOrdered` is a hypothesis of that conjunct alone and not an assumption of the
  module, as nothing in the code keeps programs to it.
* `HttpExchange_proofs`: `ExchangeInv` is the type invariant, `OneOwner` and `Unsent` (a request
  that was not sent has left no trace at the backend).  `PlacedBoxes` is what the vector that
  `select` makes preserves: nothing overwritten, nothing lost, nothing twice.  From the invariant
  `EveryRequestAnswered`, with one lemma for each kind of step.  `CanReturnInv` adds that a request
  which was sent is with a backend or has an error for a result, that `send` has no open stream, and that the
  others of each request that a blocked call has fit into empty places (`Fits`): they came out of
  places that nobody fills meanwhile.  From it `BlockedCanReturn`.
* `Stores_proofs`: four invariants.  `HeadersInv` adds to what is checked that no header handle is
  ever open between two calls, and that an object without a builder has no number; this is
  why every operation with headers is refused.  `KvInv` says of every builder and every
  pending operation that it is `Honest` (its `match` is its `want`, its `ttl` at most its
  `asked`), as an item is made of what was sent earlier; with that `NoLostUpdate` and
  `NeverOutlives` are kept by whatever arrives.  `TimesInv` relates what was asked to what is set, in the builder and in the
  host (`Left`).  `ItemInv` adds that each option is what the last of the calls gave that asked
  for something of it (`OptionFits`), that a Replace holds its handle, and that nothing was born after now; the last is what makes the order of the
  two reads in `remaining_ttl` the right one, as an age only grows.
* `Logger_proofs`: `LoggerTyped`, the type invariant, is inductive as it is.
* `Messages_proofs`: `EsiInv` adds that a processor which was not used has no result.  `StreamInv` adds that in a
  stream which nothing went wrong with the bytes received are 1..k and those that wait k+1..n
  (`Ordered`), and that no byte which waits was received or waits twice unless the stream was bad
  (`Distinct`), which is what a flush in `finish` needs to make the stream whole.  `MessagesInv` is the type invariant and
  `OneBodyOwner`, which only together are inductive.  `RangesInv` says of each
  range, element by element (`LoopFits`), that what is left is the end of what it was made of, that
  the element in `cache_` is the one before, and that what loops looked at came before that, in order.  It
  needs of `Listings` and `Orders` only that they are finite sequences of headers (`ListingsAreElements`), so
  that `RangesSeeSnapshot` holds for whatever order Rust lists them in.

Only model-checked: `CallsReturn` twice (liveness under fairness is out of the prover's
reach; `NobodyWaitsInVain` and `CallsCanReturn` are what can be proved of it, that no state is
a dead end for a call), and the violations.

## What the violations say

1. `TakesEntireBody`: a body whose 1st, 513th, ... byte is 0xFF reads as a shorter one, because
   `underflow` returns a plain char (body.cpp:22).
2. `VecFillsBody`: `Body(std::vector<uint8_t>)` makes an empty body (body.h:155).
3. `ErrorHandsOn`: when `cache_get_state` fails after a lookup (core.cpp:328), the handle is
   forgotten with its obligation.  Others who look the key up wait until the instance ends, and
   the instance itself waits for ever if it asks again.
4. `HeadersAreUsed`: no header of a cache lookup or insert ever takes effect, because the handle of the
   header list is closed by the temporary it is copied from (core.cpp:61).
5. `TtlIsNotPass`: `with_ttl(n)` calls `set_pass(n)` (request.cpp:568), so that a request with a time to live
   passes the cache, and the time to live is never set.
6. `ResponseErrors`: `set_body_text_html` of a response answers an error when it has set the
   body, and success when it has not (response.cpp:109).

More places where code and documentation differ can be read off the code and most of them off the models, though no run is
about them.

* `a << "x"; a.append(b)` puts b before x (body.cpp:58, against "Append another body onto the end
  of this body", body.h:107), and a body b that was partly read loses its get area.
* `a << "x"; a.write("y")` puts y before x (body.cpp:74, against "Write bytes to the end of this
  body", body.h:99).
* A body whose last flush the host refused is handed on as if it were whole, by the move constructor
  (body.h:71), `set_body` (request.cpp:225) and `finish` (body.cpp:138).
* The closure of `get_or_set_with` also runs for the one lookup that has to update a stale value
  (simple.h:201, against "only run when no value is present", simple.h:176).
* `remaining_ttl` is a difference of two times (core.cpp:515), and is_stale a bit of the host's state
  (core.cpp:556), so that an item which was purged softly may be stale and have time left
  (against "Zero if the cached item is stale", core.h:547).
* `get_between_byte_timeout` answers for the first byte (backend.cpp:61; `Field` in Backend).

## Hazards without a property

PROJECT.json lists what can go wrong in this code, at its line.  Some of it no property covers.

* The first three places of the list above.  The models do what the code does; `IsQueue` is about
  programs that flush and drain first, and `FinishedIsWhole` about streams of which nothing was lost
  in silence.  Neither says anything of other programs.
* Objects that were moved from: a second `select` on one vector, a second `send` of one Request, a
  second call of one Processor.  They hold a null box, whose use is undefined; no action uses one.
* The handle that a plain lookup forgets when there is no item (core.cpp:733).  It is in `lost`,
  and stays open until the instance ends.
* What the KV store answers to a handle that was waited for before, and what a functor of ESI
  remembers: the one is up to the host, the other is gone with the copy.

## Not modelled, and why

* Trailers of bodies: the host keeps them beside the bytes, and no buffer is involved.
* The second call of `user_metadata` with a larger buffer, ranges of a stream, `hits`,
  `known_length` and `is_stale`: reads that change nothing.  Strategies of Replace and
  `always_use_requested_range`: one word passed to the host, which alone acts on it.
* The computation of the surrogate keys of the simple cache: text.
* Getters of messages, of KV items and of backends other than durations; null boxes in
  objects that were moved from, whose use is an error of the program.
* KV listings and their pages: one call to the host for each page, with a cursor as text.
* Setters of Backend that pass on a string, a version or a truth value.
* Names of log endpoints that are refused before anything is changed.
* Status codes, methods, error codes and header values: tables and conversions of text.
* Geolocation, device detection, security, config store, secret store, edge rate limiting: a
  host call each; the state, where there is any, is the host's.
* `lib.rs`, mostly declarations that a code generator reads, and the vendored code.

## What is left

1. The pages of a KV listing, whose cursor outlives changes of the store.
2. HttpExchange and HttpMessage as one module, if an operation comes to depend on both.
3. Tables checked against a reference: status codes, the error codes of the bridge.
4. An abstract specification of a replace handle, as SingleFlight is one of get_or_set_with.
