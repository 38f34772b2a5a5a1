------------------------------ MODULE HeaderRanges -----------------------------
(***************************************************************************)
(* The headers of a Request or Response (the methods of request.cpp and    *)
(* response.cpp, alike in both) and the ranges that a program loops over   *)
(* them with (http/header.h, detail/rust_iterator_range.h).  A range has a *)
(* box with an iterator of Rust; the C++ iterators of a range have no      *)
(* place of their own in it: each ++, and each begin, takes the next       *)
(* element off the one iterator underneath, whichever loop it is in.       *)
(***************************************************************************)
EXTENDS Integers, Sequences, FiniteSets

CONSTANTS
  HNames,  \* the names of headers
  HValues, \* their values
  Ranges,  \* the HeadersRange, HeaderValuesRange and HeaderNamesRange objects
  HMax     \* bound: the values in a message

ASSUME HeaderNamesAssumption == IsFiniteSet(HNames)

VARIABLES
  h_map,     \* [HNames -> Seq(HValues)], the headers of the message
  r_made,    \* [Ranges -> the elements when the range was made]
  r_left,    \* [Ranges -> the elements that Rust's iterator has left]
  r_cache,   \* [Ranges -> cache_ of the loop's iterator, that was not looked at]
  r_seen,    \* [Ranges -> the elements that the loops looked at]
  r_skipped  \* the ranges with an element that was taken and never looked at

hvars == <<h_map, r_made, r_left, r_cache, r_seen, r_skipped>>

\* The values of the headers map, each where it is among those of its name.
Positions(map) == UNION {{name} \X (1 .. Len(map[name])) : name \in HNames}

\* The sequences that have each element of S once.
Orders(S) ==
  {order \in [1 .. Cardinality(S) -> S] :
     \A i, j \in 1 .. Cardinality(S) : i # j => order[i] # order[j]}

\* The pairs of a message, as Rust may list them: names in any order, the values
\* of a name together and in the order they were put in.
Listings(map) ==
  {[i \in DOMAIN order |-> <<order[i][1], map[order[i][1]][order[i][2]]>>] :
     order \in {o \in Orders(Positions(map)) :
                  \A i, j \in DOMAIN o :
                    i < j /\ o[i][1] = o[j][1] => o[j][2] = o[i][2] + (j - i)}}
Elements == Seq(HNames \X HValues)

\* An iterator has at most one element that nobody has looked at yet.
HTypeOK ==
  /\ h_map \in [HNames -> Seq(HValues)]
  /\ r_made \in [Ranges -> Elements]
  /\ r_left \in [Ranges -> Elements]
  /\ r_cache \in [Ranges -> Elements] /\ \A r \in Ranges : Len(r_cache[r]) <= 1
  /\ r_seen \in [Ranges -> Elements]
  /\ r_skipped \in SUBSET Ranges

HInit ==
  /\ h_map = [name \in HNames |-> <<>>]
  /\ r_made = [r \in Ranges |-> <<>>] /\ r_left = r_made
  /\ r_cache = r_made /\ r_seen = r_made /\ r_skipped = {}

-------------------------------------------------------------------------------
(* Headers.  A name that is none is refused, and nothing happens.            *)

contains_header(name) == h_map[name] # <<>>
get_header(name) == Head(h_map[name])

\* What the ranges have left when the headers are map: Rust collects clones of
\* the elements when a range is made.
Kept_Live(map) ==
  [r \in Ranges |->
     IF r_left[r] = <<>> THEN <<>>
     ELSE LET now == CHOOSE listing \in Listings(map) : TRUE
          IN  SubSeq(now, Len(r_seen[r] \o r_cache[r]) + 1, Len(now))]
Kept(map) == r_left

ChangeHeaders(map) ==
  /\ Cardinality(Positions(map)) <= HMax
  /\ h_map' = map
  /\ r_left' = Kept(map)
  /\ UNCHANGED <<r_made, r_cache, r_seen, r_skipped>>
set_name(name, value) == ChangeHeaders([h_map EXCEPT ![name] = <<value>>])
append_name(name, value) == ChangeHeaders([h_map EXCEPT ![name] = Append(@, value)])
remove_name(name) ==
  contains_header(name) /\ ChangeHeaders([h_map EXCEPT ![name] = <<>>])

-------------------------------------------------------------------------------
(* Ranges. *)

\* A new range over elements; the box of an old one goes.
NewRange(r, elements) ==
  /\ r_made' = [r_made EXCEPT ![r] = elements]
  /\ r_left' = [r_left EXCEPT ![r] = elements]
  /\ r_cache' = [r_cache EXCEPT ![r] = <<>>]
  /\ r_seen' = [r_seen EXCEPT ![r] = <<>>]
  /\ r_skipped' = r_skipped \ {r}
  /\ UNCHANGED h_map
get_headers(r) == \E listing \in Listings(h_map) : NewRange(r, listing)
get_header_all(r, name) ==
  NewRange(r, [k \in 1 .. Len(h_map[name]) |-> <<name, h_map[name][k]>>])

\* A name comes with the first of its values.
get_header_names(r) ==
  \E names \in Orders({name \in HNames : contains_header(name)}) :
    NewRange(r, [i \in DOMAIN names |-> <<names[i], get_header(names[i])>>])

\* begin and ++ : next of the range goes to cache_, which keeps its last value
\* at the end of the range.  An element that was in cache_ unlooked at is lost.
TakeNext_Keeps(r) ==
  /\ r_cache' = [r_cache EXCEPT ![r] =
                   IF r_left[r] = <<>> THEN @ ELSE Append(@, Head(r_left[r]))]
  /\ r_left' = [r_left EXCEPT ![r] = IF @ = <<>> THEN @ ELSE Tail(@)]
TakeNext(r) ==
  /\ r_cache' = [r_cache EXCEPT ![r] =
                   IF r_left[r] = <<>> THEN <<>> ELSE <<Head(r_left[r])>>]
  /\ r_left' = [r_left EXCEPT ![r] = IF @ = <<>> THEN @ ELSE Tail(@)]
Fetch(r) ==
  /\ TakeNext(r)
  /\ r_skipped' = r_skipped \cup (IF r_cache[r] = <<>> THEN {} ELSE {r})
  /\ UNCHANGED <<h_map, r_made, r_seen>>

\* operator* in the body of the loop.
Look(r) ==
  /\ r_cache[r] # <<>>
  /\ r_seen' = [r_seen EXCEPT ![r] = @ \o r_cache[r]]
  /\ r_cache' = [r_cache EXCEPT ![r] = <<>>]
  /\ UNCHANGED <<h_map, r_made, r_left, r_skipped>>

HNext ==
  \/ \E name \in HNames, value \in HValues :
       set_name(name, value) \/ append_name(name, value)
  \/ \E name \in HNames : remove_name(name)
  \/ \E r \in Ranges :
       \/ get_headers(r) \/ get_header_names(r) \/ Fetch(r) \/ Look(r)
       \/ \E name \in HNames : get_header_all(r, name)

HSpec == HInit /\ [][HNext]_hvars

-------------------------------------------------------------------------------
(* Properties.                                                             *)

\* The elements that went to a loop and are behind it, looked at or lost.
Taken(r) == Len(r_made[r]) - Len(r_cache[r]) - Len(r_left[r])

\* What loops looked at is at rising places of what was taken.
InOrder(r) ==
  \E at \in [1 .. Len(r_seen[r]) -> 1 .. Taken(r)] :
    /\ \A i, j \in 1 .. Len(r_seen[r]) : i < j => at[i] < at[j]
    /\ \A i \in 1 .. Len(r_seen[r]) : r_seen[r][i] = r_made[r][at[i]]

\* rust_iterator_range.h:69: whatever changes in the message, and however loops
\* over one range are broken off and begun again, the range still gives the rest
\* of the headers of the moment it was made, and together the loops look at each
\* of those at most once and in order; at every one of them, if neither ++ nor
\* begin went past one that was not looked at.
LoopsSeeSnapshot ==
  \A r \in Ranges :
    /\ Taken(r) >= 0
    /\ r_cache[r] \o r_left[r] = SubSeq(r_made[r], Taken(r) + 1, Len(r_made[r]))
    /\ InOrder(r)
    /\ r \notin r_skipped => r_seen[r] \o r_cache[r] \o r_left[r] = r_made[r]

===============================================================================
