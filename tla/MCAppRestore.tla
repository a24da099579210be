---------------------------- MODULE MCAppRestore ----------------------------
(***************************************************************************)
(* AppRestore on a laptop with a second display above its own.  One unit   *)
(* is 40 pixels.  A packaged editor that shows documents in two windows,   *)
(* and a browser with two profiles.                                        *)
(***************************************************************************)
EXTENDS AppRestore, TLC

CONSTANTS n1, n2, b1, host, editor, browser, frame, note, web, d1, d2, f1, f2, laptop, monitor
CONSTANTS chrome, p1, p2, home1, home2, t1, t2

MCWindow ==
    LET framed == [sort |-> "window", process |-> host, child |-> editor]
    IN  n1 :> framed @@ n2 :> framed @@ b1 :> [sort |-> "window", process |-> browser, child |-> NONE]

MCProcess ==
    LET of(app) == [app |-> app, token |-> "plain", readable |-> TRUE, arguments |-> {}]
    IN  host :> of(frame) @@ editor :> of(note) @@ browser :> of(web)

MCAbout ==
    frame :> [exe |-> "frame host", kind |-> "win32"] @@
    note :> [exe |-> "other", kind |-> "uwp"] @@
    web :> [exe |-> "browser", kind |-> "win32"]

MCNameOf == d1 :> f1 @@ d2 :> f2

R(x, y, w, h) == [x |-> x, y |-> y, w |-> w, h |-> h]

MCScreen ==
    laptop :> [bounds |-> R(0, 0, 36, 24), work |-> R(0, 0, 36, 23), dpi |-> 144, primary |-> TRUE] @@
    monitor :> [bounds |-> R(-6, -27, 48, 27), work |-> R(-6, -27, 48, 26), dpi |-> 96, primary |-> FALSE]

OnMonitor == R(40, -20, 30, 26)
AtTheEdge == R(-4, 10, 5, 2)
Palette == R(38, 30, 1, 8)
MCRect == {OnMonitor}

\* Two documents and a browser; the second window hardly visible, or narrow and
\* out of sight.
MCSession ==
    {[open |-> <<n1, b1, n2>>, doc |-> n1 :> d1 @@ n2 :> d2 @@ b1 :> NONE,
      rect |-> n1 :> OnMonitor @@ n2 :> r @@ b1 :> OnMonitor,
      recent |-> f1 :> d1 @@ f2 :> d2, displays |-> Display] : r \in {AtTheEdge, Palette}}

MCBrowserId == frame :> NONE @@ note :> NONE @@ web :> chrome
MCBrowserOf == [p \in Profile |-> chrome]
MCHomeOf == p1 :> home1 @@ p2 :> home2
MCProfileOf == t1 :> p1 @@ t2 :> p2
MCCommandDir == [b \in Browser |-> Nowhere]
=============================================================================
