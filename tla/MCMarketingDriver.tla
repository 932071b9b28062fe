-------------------------- MODULE MCMarketingDriver --------------------------
(***************************************************************************)
(* Bounds for checking MarketingDriver: the two device folders of          *)
(* DEVICE_LABELS and three of the six SHOT_DECK entries, enough for a      *)
(* missing file between two rendered ones and a failing render before a    *)
(* good one, in either device.                                             *)
(***************************************************************************)
EXTENDS MarketingDriver

MCDevices == <<"iphone", "ipad">>
MCNShots == 3
=============================================================================
