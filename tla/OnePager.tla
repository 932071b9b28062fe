------------------------------- MODULE OnePager -------------------------------
(***************************************************************************)
(* tmp/pdfs/generate_notelayer_onepager.py: choose_sizes (lines 121-133)  *)
(* picks the first of five font-size options whose measure_height (lines  *)
(* 94-118) fits the usable page height, and draw_pdf (lines 136-192)      *)
(* draws the page top-down with those sizes.                               *)
(*                                                                         *)
(* Lengths are in tenths of a point, so every constant of the file is an  *)
(* integer.  The text of SECTIONS enters only through how many lines      *)
(* simpleSplit wraps it to, which depends on Helvetica's glyph widths:    *)
(* each measurement chooses the total number of body lines and of source  *)
(* lines, at least one per item, and never more at a smaller size than at *)
(* a larger one (every width scales with the size).  draw_pdf wraps at    *)
(* the chosen size, so it meets the counts that size was measured with.   *)
(***************************************************************************)
EXTENDS Integers, Sequences

CONSTANTS
  ItemsPerSection,  \* the number of items of each entry of SECTIONS
  MaxBodyLines,     \* bound on the wrapped body lines of all items
  MaxSourceLines    \* bound on the wrapped lines of the sources paragraph

NSections == Len(ItemsPerSection)
NItems == LET Sum[k \in 0..NSections] ==
                IF k = 0 THEN 0 ELSE Sum[k - 1] + ItemsPerSection[k]
          IN Sum[NSections]

ASSUME /\ NSections >= 1
       /\ MaxBodyLines >= NItems
       /\ MaxSourceLines >= 1

(* Lines 83-86: letter, in tenths of a point.                              *)
PAGE_HEIGHT == 7920
TOP_MARGIN == 360
BOTTOM_MARGIN == 280

(* Lines 122-128: <<body_size, heading_size, source_size>>, largest first. *)
Options == <<<<96, 110, 68>>, <<93, 108, 66>>, <<90, 106, 64>>,
             <<87, 104, 62>>, <<84, 102, 60>>>>

(* Line 129.                                                               *)
UsableHeight == PAGE_HEIGHT - TOP_MARGIN - BOTTOM_MARGIN

(* Lines 95-100 and 139-144: the sizes and leadings both functions derive. *)
TitleSize(o)      == o[2] + 50
SubtitleSize(o)   == o[1] - 6
BodyLeading(o)    == o[1] + 31
HeadingLeading(o) == o[2] + 20
SourceLeading(o)  == o[3] + 20

(* Helvetica's descender, 207/1000 of the size, rounded up.                *)
Descender(size) == (size * 207 + 999) \div 1000

(* Mutation of the code, used to show that MeasureCoversDraw can fail:     *)
(* the 1.8 pt gap after each item (line 110) left out of the measure.      *)
MeasureNoItemGap(o, b, s) ==
  TitleSize(o) + 60 + SubtitleSize(o) + 140
  + NSections * (HeadingLeading(o) + 20 + 36)
  + b * BodyLeading(o)
  + SourceLeading(o) + 10 + s * SourceLeading(o)

(* measure_height (lines 94-118) with b body lines and s source lines.     *)
measure_height(o, b, s) ==
  TitleSize(o) + 60 + SubtitleSize(o) + 140
  + NSections * (HeadingLeading(o) + 20 + 36)
  + b * BodyLeading(o) + NItems * 18
  + SourceLeading(o) + 10 + s * SourceLeading(o)

(* How far draw_pdf (lines 147-190) moves y down from the top margin:      *)
(* title, subtitle, rule, each heading and wrapped item, the gap after    *)
(* each section, the "Evidence files" label and the sources.               *)
DrawDescent(o, b, s) ==
  TitleSize(o) + 60 + SubtitleSize(o) + 120 + 100
  + NSections * (HeadingLeading(o) + 18)
  + b * BodyLeading(o) + NItems * 18
  + SourceLeading(o) + s * SourceLeading(o)

VARIABLES
  pc,        \* "choose", "draw", "drawn"
  k,         \* the option choose_sizes is at
  body,      \* body lines at the last size measured
  source,    \* source lines at the last size measured
  fitted,    \* whether choose_sizes returned from inside its loop
  lowest     \* the lowest point draw_pdf inks: the last baseline less
             \* the descender of the sources font

vars == <<pc, k, body, source, fitted, lowest>>

Init ==
  /\ pc = "choose"
  /\ k = 1
  /\ body = MaxBodyLines
  /\ source = MaxSourceLines
  /\ fitted = FALSE
  /\ lowest = PAGE_HEIGHT

(* Lines 130-132: option k is measured; it is returned when it fits.       *)
Try ==
  /\ pc = "choose"
  /\ k <= Len(Options)
  /\ \E b \in NItems..body, s \in 1..source :
       /\ body' = b /\ source' = s
       /\ IF measure_height(Options[k], b, s) <= UsableHeight
          THEN pc' = "draw" /\ fitted' = TRUE /\ UNCHANGED k
          ELSE k' = k + 1 /\ UNCHANGED <<pc, fitted>>
  /\ UNCHANGED lowest

(* Line 133: no option fits; the smallest, measured last, is used anyway.  *)
Fallback ==
  /\ pc = "choose"
  /\ k > Len(Options)
  /\ k' = Len(Options)
  /\ pc' = "draw"
  /\ UNCHANGED <<body, source, fitted, lowest>>

(* Lines 136-192 (and main, lines 195-198): the page is drawn with the     *)
(* chosen sizes; the last source line sits one source leading above the   *)
(* final y.                                                                *)
DrawPdf ==
  /\ pc = "draw"
  /\ LET o == Options[k]
     IN lowest' = PAGE_HEIGHT - TOP_MARGIN
                  - (DrawDescent(o, body, source) - SourceLeading(o))
                  - Descender(o[3])
  /\ pc' = "drawn"
  /\ UNCHANGED <<k, body, source, fitted>>

Next == Try \/ Fallback \/ DrawPdf

Spec == Init /\ [][Next]_vars

-----------------------------------------------------------------------------
(* choose_sizes trusts measure_height to stand for what draw_pdf draws:    *)
(* when an option fits, no drawn glyph reaches into the bottom margin,     *)
(* although the two functions space the subtitle, the rule, the headings  *)
(* and the section gaps differently.                                       *)
MeasureCoversDraw ==
  pc = "drawn" /\ fitted => lowest >= BOTTOM_MARGIN

=============================================================================
