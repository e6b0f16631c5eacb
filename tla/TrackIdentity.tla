---------------------------- MODULE TrackIdentity ----------------------------
(***************************************************************************)
(* Whether audio that Tidal answers under another track id may be served   *)
(* (routes/track.rs).  Tidal replaces retired ids by their re-release, and *)
(* substitutes siblings; the two are told apart by ISRC and length, which  *)
(* two catalog requests fetch.  The verdict is cached per pair of ids.     *)
(* Concurrent calls may each find the cache empty; a catalog request may   *)
(* fail at any time; the owner may clear the cache.                        *)
(***************************************************************************)
EXTENDS Integers

CONSTANTS Tracks,      \* track ids
          Recordings,  \* what /v1/tracks may say of one: [isrc, seconds]
          Tolerance,   \* SAME_RECORDING_SECONDS
          Calls        \* concurrent calls of a playback route

VARIABLES catalog,    \* Tidal: [Tracks -> [isrc, seconds]]
          verdicts,   \* ResponseCache::replacements: [pair -> verdict]
          call        \* [Calls -> [pc, asked, seen, wanted, got]]

vars == <<catalog, verdicts, call>>

Unread == [isrc |-> "unread", seconds |-> 0]
NotCached == "not cached"
Pairs == Tracks \X Tracks
Fresh == [pc |-> "idle", asked |-> CHOOSE t \in Tracks : TRUE,
          seen |-> CHOOSE t \in Tracks : TRUE, wanted |-> Unread, got |-> Unread]
Goto(c, pc) == call' = [call EXCEPT ![c].pc = pc]

\* Recording::difference
Difference(x, y) ==
  IF x.isrc = y.isrc /\ x.seconds - y.seconds \in (-Tolerance)..Tolerance
  THEN "same" ELSE "differs"

Key_SeenOnly(asked, seen) == <<seen, seen>>
Key(asked, seen) == <<asked, seen>>

---------------------------------------------------------------------------
\* fetch_track_playback and fetch_manifest_inner: Tidal's answer names another
\* track.  One that names this track, or no verifiable id, is served, and a PREVIEW is
\* refused before; neither comes here.
Play(c) ==
  /\ call[c].pc = "idle"
  /\ \E asked, seen \in Tracks :
       /\ asked # seen
       /\ call' = [call EXCEPT ![c] = [Fresh EXCEPT !.pc = "compare",
                                                    !.asked = asked, !.seen = seen]]
  /\ UNCHANGED <<catalog, verdicts>>

\* substitution_refusal: a cached verdict decides, else both recordings are read.
CachedVerdict(c) ==
  LET v == verdicts[Key(call[c].asked, call[c].seen)]
  IN  /\ call[c].pc = "compare"
      /\ Goto(c, CASE v = NotCached -> "read"
                   [] v = "same"    -> "served"
                   [] OTHER         -> "differs")
      /\ UNCHANGED <<catalog, verdicts>>

\* recording: make_catalog_authed_request may fail, and then nothing is known.
ReadWanted(c) ==
  /\ call[c].pc = "read" /\ call[c].wanted = Unread
  /\ call' = [call EXCEPT ![c].wanted = catalog[call[c].asked]]
  /\ UNCHANGED <<catalog, verdicts>>
ReadGot(c) ==
  /\ call[c].pc = "read" /\ call[c].got = Unread
  /\ call' = [call EXCEPT ![c].got = catalog[call[c].seen]]
  /\ UNCHANGED <<catalog, verdicts>>
Unreadable(c) ==
  /\ call[c].pc = "read"
  /\ Unread \in {call[c].wanted, call[c].got}
  /\ Goto(c, "unknown")
  /\ UNCHANGED <<catalog, verdicts>>

\* Left uncached unless both were read.
Cacheable(c) == Unread \notin {call[c].wanted, call[c].got}
Judge(c) ==
  LET known == Unread \notin {call[c].wanted, call[c].got}
      v == IF known THEN Difference(call[c].wanted, call[c].got) ELSE "differs"
  IN  /\ call[c].pc \in {"read", "unknown"}
      /\ known <=> call[c].pc = "read"
      /\ verdicts' = IF Cacheable(c)
                     THEN [verdicts EXCEPT ![Key(call[c].asked, call[c].seen)] = v]
                     ELSE verdicts
      /\ Goto(c, IF v = "same" THEN "served" ELSE IF known THEN "differs" ELSE "refused")
      /\ UNCHANGED catalog

\* The answer is sent; "differs" and "refused" are the 409 to the caller.
Answered(c) ==
  /\ call[c].pc \in {"served", "differs", "refused"}
  /\ call' = [call EXCEPT ![c] = Fresh]
  /\ UNCHANGED <<catalog, verdicts>>

\* Six hours pass, the cache is full, or invalidate_all.
Forgotten == /\ \E k \in Pairs : /\ verdicts[k] # NotCached
                                 /\ verdicts' = [verdicts EXCEPT ![k] = NotCached]
             /\ UNCHANGED <<catalog, call>>

---------------------------------------------------------------------------
Init == /\ catalog \in [Tracks -> Recordings]
        /\ verdicts = [k \in Pairs |-> NotCached]
        /\ call = [c \in Calls |-> Fresh]
Next == \/ \E c \in Calls : \/ Play(c) \/ CachedVerdict(c) \/ ReadWanted(c) \/ ReadGot(c)
                            \/ Unreadable(c) \/ Judge(c) \/ Answered(c)
        \/ Forgotten
Spec == Init /\ [][Next]_vars

---------------------------------------------------------------------------
Verdicts == {NotCached, "same", "differs"}
TypeOK == /\ catalog \in [Tracks -> Recordings]
          /\ verdicts \in [Pairs -> Verdicts]
          /\ \A c \in Calls : call[c].asked \in Tracks /\ call[c].seen \in Tracks

\* "Never serve track Y for track X": what is served under another id is the same
\* recording, whichever calls filled the cache.
ServedIsRequested ==
  \A c \in Calls : call[c].pc = "served" =>
    Difference(catalog[call[c].asked], catalog[call[c].seen]) = "same"

\* "The metadata may be readable on the next request": an unreadable recording never
\* leaves a verdict behind, so a re-release is refused only while it is unreadable.
VerdictsCompared ==
  \A c \in Calls : call[c].pc = "differs" =>
    Difference(catalog[call[c].asked], catalog[call[c].seen]) = "differs"

=============================================================================
