---------------------------- MODULE MCComponents ----------------------------
(***************************************************************************)
(* Instances of Components for TLC, small and made so that the interesting *)
(* cases happen: three addresses for a table of two, two callers and one   *)
(* reconfiguration, three accounts on two proxies, three requests for a    *)
(* log of two entries, a clock that may be set back once, two refusals in  *)
(* one burst, three tracks of two recordings, and a webhook that changes   *)
(* back.                                                                   *)
(***************************************************************************)
EXTENDS Components, TLC

\* Both are interchangeable.
Symmetry == Permutations(Addresses) \cup Permutations(Callers)

Orders == {<< >>, <<"p", "q">>, <<"q">>}

Response(class, cache, status, busy, rejected) ==
  [class |-> class, cache |-> cache, status |-> status, busy |-> busy, rejected |-> rejected]
Responses == {Response("playback", "MISS", 202, FALSE, FALSE),
              Response("search", "HIT", 200, FALSE, FALSE),
              Response("catalog", "MISS", 429, TRUE, FALSE),
              Response("service", "", 403, FALSE, TRUE)}

Catalogue == {[isrc |-> "x", seconds |-> 10], [isrc |-> "x", seconds |-> 13]}

=============================================================================
