------------------------------- MODULE CacheItem -------------------------------
(***************************************************************************)
(* What becomes of an item of the core cache (cache/core.h, src/cpp/cache/ *)
(* core.cpp): the options that a builder collects, one call after the      *)
(* other, and hands to the host in one struct with a mask; the getters of  *)
(* Found; and Replace, whose CacheReplaceHandle is shared by the object    *)
(* and by each Found that was copied from it.  Headers are in              *)
(* LookupHeaders, obligations and transactions in CacheTransaction.        *)
(*                                                                         *)
(* The value 0 of an option is an empty list, a duration of zero or false. *)
(***************************************************************************)
EXTENDS Integers, Sequences, FiniteSets

CONSTANTS
  Founds,      \* the copies that a program keeps of existing_object()
  UsedOptions, \* bound: the options that programs use
  LastTime,    \* bound: of the host's clock, and of any duration
  SetterCalls  \* bound: the setters that are called on a builder

ASSUME ItemAssumption == LastTime \in Nat /\ Founds \cap {"replace", "existing"} = {}

VARIABLES
  i_kind,    \* the builder that the program has: its class, or "none"
  i_options, \* [UsedOptions -> what options_ has, NotSet if nothing]
  i_calls,   \* the setters called on the builder, with what they were given
  i_item,    \* the item in the cache: its options, max_age and birth
  i_now,     \* the host's clock
  i_handle,  \* of the CacheReplaceHandle: "none", "open" or "spent"
  i_shares,  \* the objects that hold it
  i_begun,   \* the item that begin found, but for its options
  i_ttl      \* remaining_ttl of the Replace's Found: what was read or returned

ivars == <<i_kind, i_options, i_calls, i_item, i_now, i_handle, i_shares, i_begun, i_ttl>>

NotSet == -1
OptionValues == {0, 1}
ListOptions == {"vary_rule", "surrogate_keys"}
NoOptions == [o \in UsedOptions |-> NotSet]
NoItem == [options |-> NoOptions, max_age |-> -1, born |-> 0]
Items == [options : [UsedOptions -> OptionValues \cup {NotSet}],
          max_age : 0 .. LastTime, born : -1 .. LastTime]

\* The setters that each class of builders has.
UpdateOptions == {"vary_rule", "initial_age", "edge_max_age", "stale_while_revalidate",
                  "surrogate_keys", "user_metadata", "service"}
TransactionInsertOptions == UpdateOptions \cup {"length", "sensitive_data"}
InsertOptions == TransactionInsertOptions
ReplaceOptions == TransactionInsertOptions \ {"service"}
SettersOf(kind) == CASE kind = "update" -> UpdateOptions
                     [] kind = "transaction_insert" -> TransactionInsertOptions
                     [] kind = "insert" -> InsertOptions
                     [] kind = "replace" -> ReplaceOptions
Kinds == {"update", "transaction_insert", "insert", "replace"}

NotRead == [what |-> "none", max_age |-> 0, age |-> 0, ttl |-> 0]

\* The Replace itself, and the Found in its existing_object_.
Places_of_Replace == {"replace", "existing"}

ITypeOK ==
  /\ i_kind \in Kinds \cup {"none"}
  /\ i_options \in [UsedOptions -> OptionValues \cup {NotSet}]
  /\ i_calls \in Seq(UsedOptions \X OptionValues)
  /\ i_item \in Items \cup {NoItem} /\ i_begun \in Items \cup {NoItem}
  /\ i_now \in 0 .. LastTime
  /\ i_handle \in {"none", "open", "spent"}
  /\ i_shares \in SUBSET (Places_of_Replace \cup Founds)
  /\ i_ttl \in [what : {"none", "reading", "ttl"}, max_age : 0 .. LastTime,
                age : 0 .. LastTime + 1, ttl : 0 .. LastTime]

IInit ==
  /\ i_kind = "none" /\ i_options = NoOptions /\ i_calls = <<>>
  /\ i_item = NoItem /\ i_now = 0
  /\ i_handle = "none" /\ i_shares = {} /\ i_begun = NoItem /\ i_ttl = NotRead

ITick == i_now < LastTime /\ i_now' = i_now + 1
         /\ UNCHANGED <<i_kind, i_options, i_calls, i_item, i_handle, i_shares, i_begun, i_ttl>>

-------------------------------------------------------------------------------
(* Builders. *)

\* insert, and Transaction::insert and update.
NewBuilder(kind) ==
  /\ i_kind = "none" /\ i_kind' = kind
  /\ i_options' = NoOptions /\ i_calls' = <<>>
  /\ UNCHANGED <<i_item, i_now, i_handle, i_shares, i_begun, i_ttl>>

\* vary_by and surrogate_keys leave an option alone for an empty list.
SetTo_Forgets(o, v) == IF o \in ListOptions /\ v = 0 THEN NotSet ELSE v
SetTo(o, v) == IF o \in ListOptions /\ v = 0 THEN i_options[o] ELSE v
Setter(kind, o, v) ==
  /\ i_kind = kind /\ o \in SettersOf(kind)
  /\ i_options' = [i_options EXCEPT ![o] = SetTo(o, v)]
  /\ Len(i_calls) < SetterCalls /\ i_calls' = Append(i_calls, <<o, v>>)
  /\ UNCHANGED <<i_kind, i_item, i_now, i_handle, i_shares, i_begun, i_ttl>>
UpdateSetter(o, v) == Setter("update", o, v)
TransactionInsertSetter(o, v) == Setter("transaction_insert", o, v)
InsertSetter(o, v) == Setter("insert", o, v)
ReplaceSetter(o, v) == Setter("replace", o, v)

\* as_abi: the host looks at what the mask names and takes its default for the
\* rest; false is never named.
Masked(options) ==
  [o \in UsedOptions |-> IF o = "sensitive_data" /\ options[o] = 0 THEN NotSet ELSE options[o]]

\* The host's part: an insert makes the item anew, an update replaces all that
\* is known of it.
AgeOf(options) == IF "initial_age" \in UsedOptions /\ options["initial_age"] = 1 THEN 1 ELSE 0
Stored(max_age) ==
  [options |-> Masked(i_options), max_age |-> max_age,
   born |-> i_now - AgeOf(i_options)]
execute_builder(kind, max_age) ==
  /\ i_kind = kind /\ kind # "replace"
  /\ \/ UNCHANGED i_item
     \/ (kind = "update" => i_item # NoItem) /\ i_item' = Stored(max_age)
  /\ i_kind' = "none" /\ i_options' = NoOptions /\ i_calls' = <<>>
  /\ UNCHANGED <<i_now, i_handle, i_shares, i_begun, i_ttl>>

-------------------------------------------------------------------------------
(* Replace. *)

\* The handle closes with the last object that holds it.
Handle_Kept(shares) == i_handle
Handle(shares) == IF shares = {} THEN "none" ELSE i_handle
Share(shares) ==
  /\ i_shares' = shares /\ i_handle' = Handle(shares)
  /\ i_begun' = IF shares = {} THEN NoItem ELSE i_begun
  /\ i_ttl' = IF shares = {} THEN NotRead ELSE i_ttl

\* ReplaceBuilder::begin.  The shared_ptr is made before the state is asked for,
\* so that an error closes the handle.
begin ==
  /\ i_kind = "none" /\ i_shares = {}
  /\ \/ /\ i_kind' = "replace" /\ i_handle' = "open"
        /\ i_shares' = {"replace"} \cup (IF i_item = NoItem THEN {} ELSE {"existing"})
        /\ i_begun' = [i_item EXCEPT !.options = NoOptions]
     \/ UNCHANGED <<i_kind, i_handle, i_shares, i_begun>>
  /\ i_options' = NoOptions /\ i_calls' = <<>> /\ i_ttl' = NotRead
  /\ UNCHANGED <<i_item, i_now>>

\* A copy of existing_object(), and its end.
CopyExisting(f) ==
  /\ "existing" \in i_shares /\ f \notin i_shares
  /\ Share(i_shares \cup {f})
  /\ UNCHANGED <<i_kind, i_options, i_calls, i_item, i_now>>
DropShare(f) ==
  /\ f \in i_shares /\ Share(i_shares \ {f})
  /\ UNCHANGED <<i_kind, i_options, i_calls, i_item, i_now>>

\* Replace::execute: existing_object_ goes before the host is called; the Replace
\* still has the handle, and goes, with it, later.
execute_replace(max_age) ==
  /\ i_kind = "replace"
  /\ \/ i_item' = Stored(max_age) /\ i_handle' = "spent"
     \/ UNCHANGED i_item /\ i_handle' \in {"open", "spent"}
  /\ i_shares' = i_shares \ {"existing"}
  /\ i_kind' = "none" /\ i_options' = NoOptions /\ i_calls' = <<>>
  /\ UNCHANGED <<i_now, i_begun, i_ttl>>
DropReplace ==
  /\ "replace" \in i_shares /\ Share(i_shares \ Places_of_Replace)
  /\ i_kind' = "none" /\ i_options' = NoOptions /\ i_calls' = <<>>
  /\ UNCHANGED <<i_item, i_now>>

\* Getters of Found; each aborts when the host refuses.
CanGet == i_handle = "open" /\ i_shares \ {"replace"} # {}
age == i_now - i_begun.born
max_age == i_begun.max_age
Got(getter) == IF getter = "age" THEN age ELSE max_age

\* remaining_ttl calls two of them, and time goes on between the calls.
Reads_AgeFirst == <<"age", "max_age">>
Reads == <<"max_age", "age">>
Rest_NoClamp(a, b) == b - a
Rest(a, b) == IF a >= b THEN 0 ELSE b - a
remaining_ttl_begins ==
  /\ CanGet /\ i_ttl.what # "reading"
  /\ i_ttl' = [NotRead EXCEPT !.what = "reading", ![Reads[1]] = Got(Reads[1])]
  /\ UNCHANGED <<i_kind, i_options, i_calls, i_item, i_now, i_handle, i_shares, i_begun>>
remaining_ttl ==
  /\ i_ttl.what = "reading"
  /\ LET read == [i_ttl EXCEPT ![Reads[2]] = Got(Reads[2])]
     IN  i_ttl' = [NotRead EXCEPT !.what = "ttl", !.ttl = Rest(read.age, read.max_age)]
  /\ UNCHANGED <<i_kind, i_options, i_calls, i_item, i_now, i_handle, i_shares, i_begun>>

-------------------------------------------------------------------------------

\* One thread: while a getter runs, nothing goes on but time.
INext ==
  \/ ITick
  \/ remaining_ttl
  \/ /\ i_ttl.what # "reading"
     /\ \/ \E kind \in Kinds \ {"replace"} : NewBuilder(kind)
        \/ \E o \in UsedOptions, v \in OptionValues :
             \/ UpdateSetter(o, v) \/ TransactionInsertSetter(o, v)
             \/ InsertSetter(o, v) \/ ReplaceSetter(o, v)
        \/ \E kind \in Kinds, ttl \in 0 .. LastTime : execute_builder(kind, ttl)
        \/ begin
        \/ \E f \in Founds : CopyExisting(f) \/ DropShare(f)
        \/ \E ttl \in 0 .. LastTime : execute_replace(ttl)
        \/ DropReplace
        \/ remaining_ttl_begins

ISpec == IInit /\ [][INext]_ivars

-------------------------------------------------------------------------------
(* Properties.                                                             *)

\* core.h: "The existing object cannot be accessed after calling
\* Replace::execute()"; and, however it was copied, the handle is open as long
\* as an object holds it, and no longer, also when begin fails.
ReplaceIsHeld ==
  /\ i_handle = "none" <=> i_shares = {}
  /\ "existing" \in i_shares => i_handle = "open"

\* core.cpp:515: remaining_ttl takes two calls, and never promises more than is
\* left when it returns, whatever time it takes.
TtlIsLeft ==
  [][i_ttl'.what = "ttl" /\ i_ttl.what = "reading"
       => i_ttl'.ttl <= Rest(age, max_age)]_ivars

\* The calls of setters that asked for something of the option o: one that was
\* given an empty list asks for nothing.
AskedFor(o) == {j \in DOMAIN i_calls : i_calls[j][1] = o /\ ~(o \in ListOptions /\ i_calls[j][2] = 0)}

\* An item has of each option what the last call on the builder that wrote it
\* asked for, whichever calls were made before and between, and nothing of an
\* item or a builder before; to ask for false is to ask for nothing.
StoredIsAsked ==
  [][i_item' # i_item =>
       \A o \in UsedOptions :
         IF AskedFor(o) = {} THEN i_item'.options[o] = NotSet
         ELSE \E j \in AskedFor(o) :
                /\ \A l \in AskedFor(o) : l <= j
                /\ i_item'.options[o] =
                     IF i_calls[j] = <<"sensitive_data", 0>> THEN NotSet ELSE i_calls[j][2]]_ivars

===============================================================================
