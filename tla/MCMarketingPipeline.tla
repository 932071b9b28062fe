------------------------- MODULE MCMarketingPipeline -------------------------
(***************************************************************************)
(* Bounds for MarketingPipeline: the two device folders, two SHOT_DECK     *)
(* entries, a real iPhone screenshot size and one too small for the panel, *)
(* on a machine where every font file loads.                               *)
(***************************************************************************)
EXTENDS MarketingPipeline

MCDevices == <<"iphone", "ipad">>
MCNShots == 2
MCSizes == {<<1320, 2868>>, <<300, 200>>}
MCFontStates == {"ok"}
=============================================================================
