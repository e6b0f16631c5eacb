--------------------------- MODULE MCPlaybackQueue ---------------------------
(* Instances of PlaybackQueue for TLC. *)
EXTENDS PlaybackQueue, TLC

CONSTANTS r1, r2, r3, t1, e1, e2

Reqs3 == {r1, r2, r3}
Reqs2 == {r1, r2}

\* Two requests for one cacheable track and one operation that is not cached.
Mixed3 == [r \in Reqs3 |-> IF r = r3 THEN Uncached ELSE t1]

\* Both requests ask for the same track.
SameTrack2 == [r \in Reqs2 |-> t1]

\* The two requests for the track are interchangeable.
SymmetryCached == Permutations({r1, r2})
=============================================================================
