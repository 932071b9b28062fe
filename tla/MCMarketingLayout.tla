------------------------- MODULE MCMarketingLayout -------------------------
(* Source sizes for MarketingLayout: App Store screenshot sizes of iPhone  *)
(* and iPad, portrait and landscape, and small images.                     *)
EXTENDS MarketingLayout

MCSizes == {<<1320, 2868>>, <<1290, 2796>>, <<1242, 2208>>, <<2048, 2732>>,
            <<2732, 2048>>, <<640, 320>>, <<300, 200>>}
=============================================================================
