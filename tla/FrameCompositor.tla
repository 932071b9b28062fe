--------------------------- MODULE FrameCompositor ---------------------------
(***************************************************************************)
(* frame_iphone_screenshot of scripts/render-iphone-framed-screenshots.py  *)
(* (lines 51-187): the geometry derived from the screenshot size and the   *)
(* ordered stack of full-canvas layers alpha-composited onto the canvas.   *)
(*                                                                         *)
(* Geometry is integer arithmetic.  int(x * c) of a ratio c is the exact   *)
(* floor of x * c, except where the float product of an exact integer can  *)
(* land just below it; of the ratios used, only 0.7 and 0.018 do so for   *)
(* the sizes checked, and those two products are chosen in Init among the *)
(* values the float computation can give.                                  *)
(*                                                                         *)
(* Pixels are abstracted to a few probe points placed by the geometry.    *)
(* The state records, for each probe, which layers' colours the pixel is  *)
(* made of: a layer that is opaque at the probe replaces them, a           *)
(* translucent one adds itself.  Within one layer, shapes drawn with       *)
(* ImageDraw on an RGBA image replace the pixels under them (ImageDraw     *)
(* blends only when an RGB image is drawn in RGBA mode), so a layer's      *)
(* alpha at a probe is that of the last shape covering it.                 *)
(***************************************************************************)
EXTENDS Integers, Sequences, FiniteSets

CONSTANTS
  Widths,    \* screenshot widths to check
  Heights    \* screenshot heights to check

ASSUME Widths \subseteq Nat \ {0} /\ Heights \subseteq Nat \ {0}

MaxOf(a, b) == IF a >= b THEN a ELSE b
MinOf(a, b) == IF a <= b THEN a ELSE b

(* int(x * num / den) for x >= 0, computed exactly.                        *)
Trunc(x, num, den) == (x * num) \div den

(* The values int(x * num / den) takes when the product is a float: one    *)
(* below the exact value is possible only when the exact value is an       *)
(* integer.                                                                *)
FloatTrunc(x, num, den) ==
  IF x > 0 /\ (x * num) % den = 0
  THEN {Trunc(x, num, den) - 1, Trunc(x, num, den)}
  ELSE {Trunc(x, num, den)}

-----------------------------------------------------------------------------
(* Lines 55-56: bezel and shell thickness.                                 *)
bezel(w) == MaxOf(44, Trunc(w, 55, 1000))
shell(w) == MaxOf(10, Trunc(w, 10, 1000))

(* Lines 60-61: canvas padding.                                            *)
canvas_pad_x(w) == MaxOf(140, Trunc(w, 19, 100))
canvas_pad_y(h) == MaxOf(170, Trunc(h, 9, 100))

(* Line 117: screen corner radius.                                         *)
screen_radius(w) == MaxOf(44, Trunc(w, 48, 1000))

VARIABLES
  sw, sh,      \* screen.size
  cam_dx,      \* int(island_h * 0.7) as the float product gives it
  shadow_dy,   \* int(sh * 0.018) as the float product gives it
  n,           \* number of layers composited so far
  shows        \* for each probe, the layers whose colour the pixel holds

vars == <<sw, sh, cam_dx, shadow_dy, n, shows>>

(* Lines 57-72: the chassis and the canvas around it.                      *)
phone_w == sw + (bezel(sw) + shell(sw)) * 2
phone_h == sh + (bezel(sw) + shell(sw)) * 2
phone_left == canvas_pad_x(sw)
phone_top == canvas_pad_y(sh)
phone_right == phone_left + phone_w
phone_bottom == phone_top + phone_h

(* Lines 113-116: the screen rectangle.                                    *)
screen_left == phone_left + shell(sw) + bezel(sw)
screen_top == phone_top + shell(sw) + bezel(sw)
screen_right == screen_left + sw
screen_bottom == screen_top + sh

(* Lines 135-138 and 146-148: dynamic island and lens.                     *)
island_w == Trunc(sw, 26, 100)
island_h == MaxOf(52, Trunc(sh, 29, 1000))
island_x == screen_left + (sw - island_w) \div 2
island_y == screen_top + MaxOf(14, Trunc(bezel(sw), 20, 100))
cam_r == MaxOf(6, Trunc(island_h, 14, 100))
cam_x == island_x + island_w - cam_dx
cam_y == island_y + island_h \div 2

(* Lines 156-158: side buttons.                                            *)
side_w == MaxOf(4, Trunc(sw, 4, 1000))
right_x0 == phone_right - shell(sw) - 1
left_x0 == phone_left + 1

-----------------------------------------------------------------------------
(* A shape drawn by ImageDraw: the box [x0, x1] \X [y0, y1] (both ends     *)
(* included), corner radius r, outline width ow (0 for a fill), and the    *)
(* alpha of its colour.                                                    *)
Shape(x0, y0, x1, y1, r, ow, a) ==
  [x0 |-> x0, y0 |-> y0, x1 |-> x1, y1 |-> y1, r |-> r, ow |-> ow, a |-> a]

(* A point of the rounded rectangle: in the box, and within the corner     *)
(* circle when in a corner square.  Pillow shrinks the radius to half the  *)
(* box when it does not fit.                                               *)
InRounded(p, x0, y0, x1, y1, r0) ==
  LET r == MinOf(r0, MinOf((x1 - x0) \div 2, (y1 - y0) \div 2))
      cx == IF p[1] < x0 + r THEN x0 + r ELSE IF p[1] > x1 - r THEN x1 - r ELSE p[1]
      cy == IF p[2] < y0 + r THEN y0 + r ELSE IF p[2] > y1 - r THEN y1 - r ELSE p[2]
  IN /\ x0 <= p[1] /\ p[1] <= x1 /\ y0 <= p[2] /\ p[2] <= y1
     /\ (p[1] - cx) * (p[1] - cx) + (p[2] - cy) * (p[2] - cy) <= r * r

(* The pixels a shape paints: the rounded rectangle, minus its interior    *)
(* inset by the width for an outline.                                      *)
Paints(s, p) ==
  /\ InRounded(p, s.x0, s.y0, s.x1, s.y1, s.r)
  /\ s.ow > 0 => ~InRounded(p, s.x0 + s.ow, s.y0 + s.ow, s.x1 - s.ow,
                            s.y1 - s.ow, MaxOf(0, s.r - s.ow))

(* The alpha of a list of shapes at p: the last shape painting it wins.    *)
AlphaOf(shapes, p) ==
  LET hits == {k \in DOMAIN shapes : Paints(shapes[k], p)}
  IN IF hits = {} THEN 0
     ELSE shapes[CHOOSE k \in hits : \A j \in hits : j <= k].a

-----------------------------------------------------------------------------
(* The shapes of each layer, in canvas coordinates.                        *)

(* Lines 75-85: the shadow, offset and blurred.  It is modelled over its   *)
(* unblurred rectangle; the blur only lowers its alpha of 120 there and    *)
(* spreads it, so it is translucent wherever it reaches.                   *)
ShadowShapes ==
  LET dx == Trunc(sw, 8, 1000) IN
  <<Shape(phone_left + dx, phone_top + shadow_dy, phone_right + dx,
          phone_bottom + shadow_dy, Trunc(phone_w, 14, 100), 0, 120)>>

(* Lines 89-107: the body filled through its rounded mask, then the light  *)
(* edge outline and the dark shell outline drawn onto the same RGBA image. *)
BodyShapes ==
  LET r == Trunc(phone_w, 14, 100) IN
  << Shape(phone_left, phone_top, phone_right, phone_bottom, r, 0, 255),
     Shape(phone_left + 1, phone_top + 1, phone_right - 2, phone_bottom - 2, r,
           MaxOf(2, Trunc(sw, 3, 1000)), 140),
     Shape(phone_left + shell(sw), phone_top + shell(sw),
           phone_right - shell(sw), phone_bottom - shell(sw),
           Trunc(phone_w, 12, 100), MaxOf(2, Trunc(sw, 28, 10000)), 180) >>

(* Lines 120-126: the near-black cavity around the screen.                 *)
CavityShapes ==
  <<Shape(screen_left - 2, screen_top - 2, screen_right + 2, screen_bottom + 2,
          screen_radius(sw) + 4, 0, 255)>>

(* Lines 129-131: the screenshot pasted through rounded_mask((sw, sh)),    *)
(* whose rectangle [(0, 0), (sw, sh)] is clipped to the sw x sh mask.      *)
GlassShapes ==
  <<Shape(screen_left, screen_top, screen_right, screen_bottom,
          screen_radius(sw), 0, 255)>>

(* Lines 139-150: the island and the two lens circles over it.             *)
IslandShapes ==
  << Shape(island_x, island_y, island_x + island_w, island_y + island_h,
           island_h \div 2, 0, 255),
     Shape(cam_x - cam_r, cam_y - cam_r, cam_x + cam_r, cam_y + cam_r, cam_r, 0, 255),
     Shape(cam_x - cam_r \div 2, cam_y - cam_r \div 2, cam_x + cam_r \div 2,
           cam_y + cam_r \div 2, cam_r \div 2, 0, 255) >>

(* Lines 154-173: one button on the right edge, two on the left.           *)
ButtonShapes ==
  << Shape(right_x0, phone_top + Trunc(phone_h, 32, 100), right_x0 + side_w,
           phone_top + Trunc(phone_h, 52, 100), side_w, 0, 220),
     Shape(left_x0 - side_w, phone_top + Trunc(phone_h, 24, 100), left_x0,
           phone_top + Trunc(phone_h, 34, 100), side_w, 0, 220),
     Shape(left_x0 - side_w, phone_top + Trunc(phone_h, 38, 100), left_x0,
           phone_top + Trunc(phone_h, 48, 100), side_w, 0, 220) >>

(* Lines 177-185: the glass edge highlight.                                *)
HighlightShapes ==
  <<Shape(screen_left, screen_top, screen_right, screen_bottom,
          screen_radius(sw), MaxOf(2, Trunc(sw, 26, 10000)), 95)>>

(* The alpha a layer has at p once it is composited.  The body layer is    *)
(* pasted into the canvas layer through its own alpha (line 110), which    *)
(* squares a partial alpha; the glass layer is cut to the sw x sh mask.    *)
LayerAlpha(name, p) ==
  CASE name = "shadow"    -> AlphaOf(ShadowShapes, p)
    [] name = "body"      -> (AlphaOf(BodyShapes, p) * AlphaOf(BodyShapes, p)) \div 255
    [] name = "cavity"    -> AlphaOf(CavityShapes, p)
    [] name = "glass"     -> IF p[1] < screen_right /\ p[2] < screen_bottom
                             THEN AlphaOf(GlassShapes, p) ELSE 0
    [] name = "island"    -> AlphaOf(IslandShapes, p)
    [] name = "buttons"   -> AlphaOf(ButtonShapes, p)
    [] name = "highlight" -> AlphaOf(HighlightShapes, p)

-----------------------------------------------------------------------------
(* Probe points, placed by the geometry.                                   *)
Probe ==
  [ screen_center |-> <<screen_left + sw \div 2, screen_top + sh \div 2>>,
    island        |-> <<island_x + island_w \div 4, island_y + island_h \div 2>>,
    lens          |-> <<cam_x, cam_y>>,
    bezel         |-> <<phone_left + shell(sw) + bezel(sw) \div 2, phone_top + phone_h \div 2>>,
    screen_corner |-> <<screen_left + 1, screen_top + 1>>,
    edge_ring     |-> <<phone_left + 1, phone_top + phone_h \div 2>>,
    shell_ring    |-> <<phone_left + shell(sw) + 1, phone_top + phone_h \div 2>> ]

Probes == DOMAIN Probe

-----------------------------------------------------------------------------
(* Mutation of the code, used to show that the properties below can fail:  *)
(* the screenshot is pasted before the cavity.                             *)
LayerOrderCavityLast ==
  <<"shadow", "body", "glass", "cavity", "island", "buttons", "highlight">>

(* Lines 86-185: the layers in the order they are composited onto the      *)
(* background gradient.                                                    *)
LayerOrder ==
  <<"shadow", "body", "cavity", "glass", "island", "buttons", "highlight">>

(* Lines 65-67: the canvas starts as the background gradient everywhere.  *)
Init ==
  /\ sw \in Widths
  /\ sh \in Heights
  /\ cam_dx \in FloatTrunc(island_h, 7, 10)
  /\ shadow_dy \in FloatTrunc(sh, 18, 1000)
  /\ n = 0
  /\ shows = [q \in Probes |-> {"background"}]

(* Image.alpha_composite(canvas_rgba, layer) of the next layer: where the  *)
(* layer is opaque it replaces the pixel, where translucent it blends.     *)
Composite ==
  /\ n < Len(LayerOrder)
  /\ LET name == LayerOrder[n + 1] IN
       shows' = [q \in Probes |->
                   LET a == LayerAlpha(name, Probe[q]) IN
                   IF a = 255 THEN {name}
                   ELSE IF a > 0 THEN shows[q] \cup {name}
                   ELSE shows[q]]
  /\ n' = n + 1
  /\ UNCHANGED <<sw, sh, cam_dx, shadow_dy>>

Next == Composite

Spec == Init /\ [][Next]_vars

-----------------------------------------------------------------------------
Done == n = Len(LayerOrder)


(* Spec section 4.4, layer order: in the finished frame the screenshot     *)
(* covers the cavity and the chassis at the screen's centre, the island    *)
(* and its lens cover the screenshot, and the screen's rounded corner,    *)
(* which the glass mask of lines 129-132 leaves out, shows the body's      *)
(* fill beneath the cavity, never the background.  It rests on the order   *)
(* of the seven alpha_composite calls and on each layer's extent.          *)
ContentOnTop ==
  Done =>
    /\ shows.screen_center = {"glass"}
    /\ shows.island = {"island"}
    /\ shows.lens = {"island"}
    /\ "background" \notin shows.screen_corner

(* Spec sections 3 and 4.4: the chassis is a solid body; no pixel of the   *)
(* phone, its edge strokes included, lets the background gradient or the   *)
(* shadow show through.                                                    *)
ChassisOpaque ==
  Done => \A q \in Probes : shows[q] \cap {"background", "shadow"} = {}

=============================================================================
