--------------------------- MODULE MCRestoreOffer ---------------------------
(***************************************************************************)
(* One Chromium browser with two profiles.  Slots c1 and c2 are pipes of   *)
(* the same extension (an old relay and its replacement), c3 belongs to    *)
(* the other profile.  The relay sees one browser process, so it stamps    *)
(* the same key on all of them.  The liveness run has two browsers         *)
(* instead, each known by its relay-derived key alone.                     *)
(***************************************************************************)
EXTENDS RestoreOffer, TLC

CONSTANTS c1, c2, c3, chrome, edge, relay, ext1, ext2, p1, p2, w1, w2, sBoth, sOne, sRelay

MCBrowserOf == [c \in Conn |-> chrome]
MCBrowserOfTwo == [c \in Conn |-> IF c = c3 THEN edge ELSE chrome]
MCProfileOf == [c \in Conn |-> IF c = c3 THEN p2 ELSE p1]
MCRelayKey == [c \in Conn |-> relay]
MCHelloIds == [c \in Conn |-> IF c = c3 THEN {ext2} ELSE {ext1}]
MCHelloIdsNone == [c \in Conn |-> {NoKey}]

Holds(k, ws) == <<chrome, k>> :> ws
Nothing == [k \in ClaimKey |-> {}]

\* Both profiles stored; only the first; a session captured before any hello.
MCStored ==
    [s \in Snapshot |->
        CASE s = sBoth -> Holds(ext1, {w1}) @@ Holds(ext2, {w2}) @@ Nothing
          [] s = sOne -> Holds(ext1, {w1, w2}) @@ Nothing
          [] s = sRelay -> Holds(relay, {w1}) @@ <<edge, relay>> :> {w2} @@ Nothing]
MCTicks == {{w1}}
MCPrivateIn == [s \in Snapshot |-> IF s = sBoth THEN {<<chrome, ext1>>} ELSE {}]
=============================================================================
