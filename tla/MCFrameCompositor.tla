------------------------- MODULE MCFrameCompositor -------------------------
(* Screenshot sizes for FrameCompositor: the portrait sizes of iPhone      *)
(* screenshots.                                                            *)
EXTENDS FrameCompositor

MCWidths == {750, 1080, 1170, 1179, 1290, 1320}
MCHeights == {1334, 2340, 2532, 2556, 2796, 2868}
=============================================================================
