-------------------------- MODULE MCDesktopCapture --------------------------
(***************************************************************************)
(* DesktopCapture on a laptop with a second display above its own.  One    *)
(* unit is 40 pixels.  A packaged editor with two windows, and a browser.  *)
(***************************************************************************)
EXTENDS DesktopCapture, TLC

CONSTANTS n1, n2, b1, host, editor, browser, frame, note, web, d1, f1, laptop, monitor

\* The editor's windows are frames of the host.
MCWindow ==
    LET framed == [sort |-> "window", process |-> host, child |-> editor]
    IN  n1 :> framed @@ n2 :> framed @@ b1 :> [sort |-> "window", process |-> browser, child |-> NONE]

\* The browser was given an address with a query.
MCProcess ==
    LET of(app, arguments) == [app |-> app, token |-> "plain", readable |-> TRUE, arguments |-> arguments]
    IN  host :> of(frame, {}) @@ editor :> of(note, {}) @@
        browser :> of(web, {[sort |-> "query", doc |-> NONE]})

MCAbout ==
    frame :> [exe |-> "frame host", kind |-> "win32"] @@
    note :> [exe |-> "other", kind |-> "uwp"] @@
    web :> [exe |-> "browser", kind |-> "win32"]

MCNameOf == d1 :> f1

R(x, y, w, h) == [x |-> x, y |-> y, w |-> w, h |-> h]

MCScreen ==
    laptop :> [bounds |-> R(0, 0, 36, 24), work |-> R(0, 0, 36, 23), dpi |-> 144, primary |-> TRUE] @@
    monitor :> [bounds |-> R(-6, -27, 48, 27), work |-> R(-6, -27, 48, 26), dpi |-> 96, primary |-> FALSE]

OnMonitor == R(0, -20, 30, 18)
MCRect == {OnMonitor, R(2, 2, 30, 18)}

\* Both applications, with a document.
MCSession ==
    {[open |-> <<n1, b1, n2>>, doc |-> n1 :> d1 @@ n2 :> NONE @@ b1 :> NONE,
      rect |-> [w \in Window |-> OnMonitor], recent |-> f1 :> d1, displays |-> Display]}
=============================================================================
