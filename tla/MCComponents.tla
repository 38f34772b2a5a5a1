------------------------------ MODULE MCComponents -----------------------------
(***************************************************************************)
(* The components that share no state with one another: in a behaviour one *)
(* of them, the part, runs, and the others stay as they begin.             *)
(***************************************************************************)
EXTENDS BodyStream, LookupHeaders, StreamingBody, HttpMessage, HeaderRanges,
        CacheItem, KvStore, Logger, Backend, Esi, TLC

VARIABLE part

rest == <<vars, lvars, svars, mvars, hvars, ivars, kvars, gvars, tvars, evars>>
Parts == {"BodyStream", "LookupHeaders", "StreamingBody", "HttpMessage", "HeaderRanges",
          "CacheItem", "KvStore", "Logger", "Backend", "Esi"}

MCInit ==
  /\ part \in Parts
  /\ Init /\ LInit /\ SInit /\ MInit /\ HInit /\ IInit /\ KInit /\ GInit /\ TInit
  /\ EInit

\* The variables of the parts but p.
Still(p) ==
  /\ part' = part
  /\ p # "BodyStream" => UNCHANGED vars
  /\ p # "LookupHeaders" => UNCHANGED lvars
  /\ p # "StreamingBody" => UNCHANGED svars
  /\ p # "HttpMessage" => UNCHANGED mvars
  /\ p # "HeaderRanges" => UNCHANGED hvars
  /\ p # "CacheItem" => UNCHANGED ivars
  /\ p # "KvStore" => UNCHANGED kvars
  /\ p # "Logger" => UNCHANGED gvars
  /\ p # "Backend" => UNCHANGED tvars
  /\ p # "Esi" => UNCHANGED evars

MCNext ==
  \/ part = "BodyStream" /\ Next /\ Still(part)
  \/ part = "LookupHeaders" /\ LNext /\ Still(part)
  \/ part = "StreamingBody" /\ SNext /\ Still(part)
  \/ part = "HttpMessage" /\ MNext /\ Still(part)
  \/ part = "HeaderRanges" /\ HNext /\ Still(part)
  \/ part = "CacheItem" /\ INext /\ Still(part)
  \/ part = "KvStore" /\ KNext /\ Still(part)
  \/ part = "Logger" /\ GNext /\ Still(part)
  \/ part = "Backend" /\ TNext /\ Still(part)
  \/ part = "Esi" /\ ENext /\ Still(part)

MCSpec == MCInit /\ [][MCNext]_<<part, rest>>

MCSymmetry == Permutations(Clients)

===============================================================================
