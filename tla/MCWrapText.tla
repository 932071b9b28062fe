----------------------------- MODULE MCWrapText -----------------------------
(***************************************************************************)
(* Bounds for checking WrapText.  Widths are in character cells of a       *)
(* monospace font.  A 2-cell and a 5-cell word let two or three words      *)
(* share a line; a 9-cell word is longer than the 8 cells below which      *)
(* textwrap.shorten leaves the last line untouched, and wider than the     *)
(* narrower max_width.  Up to five words give three full lines.            *)
(***************************************************************************)
EXTENDS WrapText

MCWordLengths == {2, 5, 9}
MCMaxWords == 5
MCMaxWidths == {8, 12}
(* The callers pass max_lines=2 (lines 180 and 191); 3 is the default.     *)
MCMaxLines == {2, 3}
(* max_lines=1 is a legal argument no caller passes today.                 *)
=============================================================================
