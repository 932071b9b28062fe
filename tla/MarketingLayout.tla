--------------------------- MODULE MarketingLayout ---------------------------
(***************************************************************************)
(* render_marketing_asset of scripts/render-marketing-screenshots.py      *)
(* (lines 139-262) and the font resolver load_font (lines 81-90): the     *)
(* vertical layout of one marketing slide (badge, headline, subtitle,     *)
(* device panel) and the screenshot scaled into the panel.                 *)
(*                                                                         *)
(* The source size, the font files the machine has, and the shape of the  *)
(* two wrapped texts are chosen in Init.  wrap_text with max_lines=2       *)
(* returns one or two lines (see WrapText).  A text block is measured as  *)
(* multiline_textbbox does: each line but the last advances by the height *)
(* of "A" (abstracted to the font size) plus the spacing, and the last    *)
(* line reaches a quarter of the size further down when it has a          *)
(* descender.  The default font load_default() returns has size 10.       *)
(*                                                                         *)
(* int(x * c) is the exact floor for every ratio used here and the sizes   *)
(* checked (0.018 differs from it only at multiples of 1500).  The two     *)
(* float products of the resize (line 239) are chosen among the values    *)
(* the float computation can give.                                         *)
(***************************************************************************)
EXTENDS Integers, Sequences, FiniteSets

CONSTANTS
  Sizes      \* source screenshot sizes <<width, height>> to check

ASSUME Sizes \subseteq (Nat \ {0}) \X (Nat \ {0})

MaxOf(a, b) == IF a >= b THEN a ELSE b
MinOf(a, b) == IF a <= b THEN a ELSE b
Trunc(x, num, den) == (x * num) \div den
FloorDiv(a, b) == IF a >= 0 THEN a \div b ELSE -((-a + b - 1) \div b)

(* The values int(x * num / den) takes when the quotient is a float.       *)
FloatTrunc(x, num, den) ==
  IF x > 0 /\ num > 0 /\ (x * num) % den = 0
  THEN {FloorDiv(x * num, den) - 1, FloorDiv(x * num, den)}
  ELSE {FloorDiv(x * num, den)}

(* Lines 56-66: the candidate font files, in the order they are tried.     *)
FONT_BOLD_CANDIDATES == <<"SFNSRounded", "SFNS", "Helvetica">>
FONT_REGULAR_CANDIDATES == <<"SFNS", "Helvetica", "Avenir">>
FontPaths == {"SFNSRounded", "SFNS", "Helvetica", "Avenir"}

DEFAULT_FONT_SIZE == 10

VARIABLES
  width, height,  \* source.size
  fontFile,       \* per candidate path: "absent", "broken" (truetype
                  \* raises OSError) or "ok"
  headLines,      \* number of lines of the wrapped headline
  subLines,       \* number of lines of the wrapped subtitle
  headDesc,       \* whether the last headline line has a descender
  subDesc,        \* whether the last subtitle line has a descender
  decodes,        \* whether Image.open can decode the source file
  pc,             \* "fonts", "layout", "resize", "paste", "done", "raised"
  fonts,          \* the four fonts load_font returned
  frame,          \* the panel rectangle
  resized,        \* resized.size
  app             \* the paste position <<app_x, app_y>>

vars == <<width, height, fontFile, headLines, subLines, headDesc, subDesc,
          decodes, pc, fonts, frame, resized, app>>

Env == <<width, height, fontFile, headLines, subLines, headDesc, subDesc,
         decodes>>

(* load_font (lines 81-90): the first candidate that exists and loads, at  *)
(* the requested size; the built-in default font when none does.           *)
load_font(size, bold) ==
  LET cands == IF bold THEN FONT_BOLD_CANDIDATES ELSE FONT_REGULAR_CANDIDATES
      ok == {k \in DOMAIN cands : fontFile[cands[k]] = "ok"}
  IN IF ok = {} THEN [file |-> "default", size |-> DEFAULT_FONT_SIZE]
     ELSE [file |-> cands[CHOOSE k \in ok : \A j \in ok : k <= j], size |-> size]

(* The height multiline_textbbox gives a block of n lines.                 *)
TextBlock(font, n, spacing, desc) ==
  (n - 1) * (font.size + spacing) + font.size + (IF desc THEN font.size \div 4 ELSE 0)

side_padding == Trunc(width, 55, 1000)

(* Lines 230-236: the content rectangle inside the panel.                  *)
inset == Trunc(width, 28, 1000)
content_left == frame.left + inset
content_right == frame.right - inset
content_top == frame.top + inset
content_bottom == frame.bottom - inset
content_w == content_right - content_left
content_h == content_bottom - content_top

-----------------------------------------------------------------------------
(* Mutation of the code, used to show that the property below can fail:   *)
(* the min of line 238 taken as a max.                                     *)
WidthLimitedMax == content_w * height >= content_h * width

(* Line 238: scale = min(content_w / width, content_h / height) is the     *)
(* width ratio.                                                            *)
WidthLimited == content_w * height <= content_h * width

Init ==
  /\ \E sz \in Sizes : width = sz[1] /\ height = sz[2]
  /\ fontFile \in [FontPaths -> {"absent", "broken", "ok"}]
  /\ headLines \in {1, 2}
  /\ subLines \in {1, 2}
  /\ headDesc \in BOOLEAN
  /\ subDesc \in BOOLEAN
  /\ decodes \in BOOLEAN
  /\ pc = "fonts"
  /\ fonts = [r \in {} |-> 0]
  /\ frame = [top |-> 0, bottom |-> 0, left |-> 0, right |-> 0]
  /\ resized = <<0, 0>>
  /\ app = <<0, 0>>

(* Lines 147-157: the source is opened and the four fonts are resolved.    *)
LoadFonts ==
  /\ pc = "fonts"
  /\ decodes
  /\ fonts' = [badge    |-> load_font(MaxOf(26, Trunc(width, 27, 1000)), TRUE),
               headline |-> load_font(MaxOf(44, Trunc(width, 62, 1000)), TRUE),
               subtitle |-> load_font(MaxOf(26, Trunc(width, 30, 1000)), FALSE),
               device   |-> load_font(MaxOf(24, Trunc(width, 25, 1000)), TRUE)]
  /\ pc' = "layout"
  /\ UNCHANGED <<Env, frame, resized, app>>

(* Line 147: Image.open or convert raises on a file PIL cannot decode;   *)
(* nothing in the function catches it.                                     *)
OpenRaises ==
  /\ pc = "fonts"
  /\ ~decodes
  /\ pc' = "raised"
  /\ UNCHANGED <<Env, fonts, frame, resized, app>>

(* Lines 159-228: badge and device label, headline and subtitle stacked   *)
(* below the badge, then the shadow and the panel below the subtitle.      *)
Layout ==
  /\ pc = "layout"
  /\ LET top_padding == Trunc(height, 45, 1000)
         badge_bottom == top_padding + Trunc(height, 5, 100)
         headline_y == badge_bottom + Trunc(height, 18, 1000)
         headline_bottom == headline_y +
           TextBlock(fonts.headline, headLines, Trunc(height, 6, 1000), headDesc)
         subtitle_y == headline_bottom + Trunc(height, 12, 1000)
         subtitle_bottom == subtitle_y +
           TextBlock(fonts.subtitle, subLines, Trunc(height, 4, 1000), subDesc)
     IN frame' = [top    |-> subtitle_bottom + Trunc(height, 3, 100),
                  bottom |-> height - Trunc(height, 38, 1000),
                  left   |-> side_padding,
                  right  |-> width - side_padding]
  /\ pc' = "resize"
  /\ UNCHANGED <<Env, fonts, resized, app>>

(* The sizes int(width * scale), int(height * scale) can take (line 239).  *)
ResizedSizes ==
  IF WidthLimited
  THEN FloatTrunc(width, content_w, width) \X FloatTrunc(height, content_w, width)
  ELSE FloatTrunc(width, content_h, height) \X FloatTrunc(height, content_h, height)

(* Lines 238-239: the source is resized to fit the content rectangle.      *)
Resize ==
  /\ pc = "resize"
  /\ \E r \in ResizedSizes :
       /\ r[1] > 0 /\ r[2] > 0
       /\ resized' = r
  /\ pc' = "paste"
  /\ UNCHANGED <<Env, fonts, frame, app>>

(* Line 239: a size that is not positive makes Image.resize raise          *)
(* ValueError; nothing in the function catches it.                         *)
ResizeRaises ==
  /\ pc = "resize"
  /\ \E r \in ResizedSizes : r[1] <= 0 \/ r[2] <= 0
  /\ pc' = "raised"
  /\ UNCHANGED <<Env, fonts, frame, resized, app>>

(* Lines 241-262: the screenshot is centred in the content rectangle,     *)
(* pasted through its rounded mask, bordered, and the slide saved.         *)
Paste ==
  /\ pc = "paste"
  /\ app' = <<content_left + FloorDiv(content_w - resized[1], 2),
              content_top + FloorDiv(content_h - resized[2], 2)>>
  /\ pc' = "done"
  /\ UNCHANGED <<Env, fonts, frame, resized>>

(* Lines 261-262: the output folder cannot be created or the PNG cannot  *)
(* be written (permissions, a full disk); the OSError propagates.          *)
SaveRaises ==
  /\ pc = "paste"
  /\ pc' = "raised"
  /\ UNCHANGED <<Env, fonts, frame, resized, app>>

Next ==
  \/ OpenRaises \/ LoadFonts \/ Layout \/ Resize \/ ResizeRaises
  \/ Paste \/ SaveRaises

Spec == Init /\ [][Next]_vars

-----------------------------------------------------------------------------
(* Spec section 4.4: the screenshot is scaled into the panel's content     *)
(* rectangle preserving its aspect ratio (to within the one pixel the     *)
(* truncation of line 239 loses) and centred in it, and never overflows   *)
(* it, whichever fonts were found and however the texts wrapped, for      *)
(* every size whose resize does not raise.                                 *)
ScreenshotFitsPanel ==
  pc = "done" =>
    /\ content_left <= app[1] /\ app[1] + resized[1] <= content_right
    /\ content_top <= app[2] /\ app[2] + resized[2] <= content_bottom
    /\ \/ resized[1] >= content_w - 1
       \/ resized[2] >= content_h - 1
    /\ resized[1] * height - resized[2] * width \in (-(width + height))..(width + height)

=============================================================================
