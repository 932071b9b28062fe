------------------------------ MODULE MCOnePager ------------------------------
(***************************************************************************)
(* Bounds for checking OnePager: the five sections of SECTIONS with their *)
(* 2, 2, 7, 6 and 5 items, and line counts up to where even the smallest  *)
(* option no longer fits (about 45 body lines with 5 source lines), so    *)
(* every option is the one chosen for some content, and the fallback is   *)
(* taken.                                                                  *)
(***************************************************************************)
EXTENDS OnePager

MCItemsPerSection == <<2, 2, 7, 6, 5>>
MCMaxBodyLines == 50
MCMaxSourceLines == 8
=============================================================================
