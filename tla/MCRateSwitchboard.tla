--------------------------- MODULE MCRateSwitchboard ------------------------
(* Two aggregators of the main network and an account of another program; vectors of two. *)
EXTENDS RateSwitchboard, TLC

CONSTANTS sol, eth, other, System

MCOwner == sol :> SWITCHBOARD_V2_MAINNET @@ eth :> SWITCHBOARD_V2_DEVNET @@ other :> System
=============================================================================
