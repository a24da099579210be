----------------------------- MODULE Placement -----------------------------
(***************************************************************************)
(* Where a stored window goes on the displays there are now.               *)
(*                                                                         *)
(* A rectangle is [x, y, w, h], a display its bounds, its work area, its   *)
(* dpi and whether it is the primary one.  Scaling truncates; the rounding *)
(* of the floating point the code scales with is left out.                 *)
(***************************************************************************)
EXTENDS Integers, FiniteSetsExt

CONSTANTS
    Display,      \* display keys
    screen,       \* Display -> [bounds, work, dpi, primary]
    MinVisibleW,  \* MIN_VISIBLE_W
    MinVisibleH   \* MIN_VISIBLE_H

Rectangle == [x : Int, y : Int, w : Nat, h : Nat]

Inside(r, b) == b.x <= r.x /\ r.x + r.w <= b.x + b.w /\ b.y <= r.y /\ r.y + r.h <= b.y + b.h

ASSUME ScreenAssumption ==
    /\ IsFiniteSet(Display)
    /\ screen \in [Display -> [bounds : Rectangle, work : Rectangle, dpi : Nat \ {0}, primary : BOOLEAN]]
    /\ \A d \in Display : Inside(screen[d].work, screen[d].bounds)
    /\ {MinVisibleW, MinVisibleH} \subseteq Nat \ {0}

Enough == MinVisibleW * MinVisibleH

Smaller(a, b) == IF a < b THEN a ELSE b
Larger(a, b) == IF a > b THEN a ELSE b
Clamp(n, low, high) == Smaller(Larger(n, low), high)

Overlap(r, b) ==
    LET ox == Smaller(r.x + r.w, b.x + b.w) - Larger(r.x, b.x)
        oy == Smaller(r.y + r.h, b.y + b.h) - Larger(r.y, b.y)
    IN  IF ox > 0 /\ oy > 0 THEN ox * oy ELSE 0

\* The most of r that one display shows.
VisibleArea(r, current) == Max({0} \cup {Overlap(r, screen[d].bounds) : d \in current})

\* The display a window is on: the one that shows most of it, else the primary one,
\* or none.  Of several the first enumerated, which is left open here.
DisplayForRect(current, r) ==
    LET most == VisibleArea(r, current)
        on == {d \in current : IF most > 0 THEN Overlap(r, screen[d].bounds) = most ELSE screen[d].primary}
    IN  IF on = {} THEN {} ELSE {CHOOSE d \in on : TRUE}

PickTarget(key, current) ==
    LET primary == {d \in current : screen[d].primary}
    IN  IF key \subseteq current /\ key # {} THEN CHOOSE d \in key : TRUE
        ELSE CHOOSE d \in IF primary # {} THEN primary ELSE current : TRUE

Distance(r, b) ==
    LET dx == (b.x + b.w \div 2) - (r.x + r.w \div 2)
        dy == (b.y + b.h \div 2) - (r.y + r.h \div 2)
    IN  dx * dx + dy * dy

Nearest(r, current) ==
    CHOOSE d \in current : \A e \in current :
        Distance(r, screen[d].bounds) <= Distance(r, screen[e].bounds)

\* No larger than the largest work area.
Shrunk(r, current) ==
    LET area(d) == screen[d].work.w * screen[d].work.h
        biggest == CHOOSE d \in current : \A e \in current : area(d) >= area(e)
    IN  [r EXCEPT !.w = Smaller(@, screen[biggest].work.w), !.h = Smaller(@, screen[biggest].work.h)]

Pulled(r, t) ==
    [r EXCEPT !.x = Clamp(@, t.x, Larger(t.x + t.w - MinVisibleW, t.x)),
              !.y = Clamp(@, t.y, Larger(t.y + t.h - MinVisibleH, t.y))]

Centred(r, t) == [r EXCEPT !.x = t.x + Larger(t.w - r.w, 0) \div 2, !.y = t.y + Larger(t.h - r.h, 0) \div 2]

\* Mutant: only pulled to the edge.
ClampNoCentre(r, current) ==
    LET s == Shrunk(r, current)
    IN  IF VisibleArea(s, current) >= Enough THEN s ELSE Pulled(s, screen[Nearest(s, current)].work)

\* Left where it is when enough of it shows, else pulled onto the nearest display.
ClampOnScreen(r, current) ==
    LET s == Shrunk(r, current)
        t == screen[Nearest(s, current)].work
        p == Pulled(s, t)
    IN  IF VisibleArea(s, current) >= Enough THEN s
        ELSE IF VisibleArea(p, current) >= Enough THEN p
        ELSE Centred(p, t)

\* Its display is gone: scaled down to fit, and centred.
Moved(r, t) ==
    LET byWidth == t.w * r.h <= t.h * r.w
        num == IF byWidth THEN t.w ELSE t.h
        den == IF byWidth THEN r.w ELSE r.h
        w == IF num < den THEN (r.w * num) \div den ELSE r.w
        h == IF num < den THEN (r.h * num) \div den ELSE r.h
    IN  [x |-> t.x + (t.w - w) \div 2, y |-> t.y + (t.h - h) \div 2, w |-> w, h |-> h]

Rescaled(r, from, to) == IF from = to THEN r ELSE [r EXCEPT !.w = (@ * to) \div from, !.h = (@ * to) \div from]

\* key: the display it was stored on, a set of one or none; dpi: of that display.
MapToCurrent(r, key, dpi, current) ==
    IF current = {} THEN r
    ELSE LET d == PickTarget(key, current)
             there == IF key = {d} THEN r ELSE Moved(r, screen[d].work)
         IN  ClampOnScreen(Rescaled(there, dpi, screen[d].dpi), current)
=============================================================================
