----------------------------- MODULE MCStartup -----------------------------
EXTENDS Startup, TLC

CONSTANTS b1, b2, b3, x

MCBuiltins == <<b1, b2, b3>>
MCTypes == {"poster", "fanart", "theme"}
MCDefaultType == (b1 :> "poster") @@ (b2 :> "fanart") @@ (b3 :> "theme")
MCDefaultOrder == (b1 :> 1) @@ (b2 :> 2) @@ (b3 :> 3)
MCOrders == {0, 2, 5}
=============================================================================
