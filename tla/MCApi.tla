------------------------------- MODULE MCApi -------------------------------
(***************************************************************************)
(* A small instance of Api: u pays three assets for two shares, may redeem *)
(* one for two and may send one to v, who then holds a share no table      *)
(* knows of.                                                               *)
(***************************************************************************)
EXTENDS Api, TLC

CONSTANTS u, v, dep, wdr, snd

MCAccount == {u, v}
MCTx      == {dep, wdr, snd}
MCIndexed == {dep, wdr}
MCFrom    == dep :> Nobody @@ wdr :> u @@ snd :> u
MCTo      == dep :> u @@ wdr :> Nobody @@ snd :> v
MCShares  == dep :> 2 @@ wdr :> 1 @@ snd :> 1
MCAssets  == dep :> 3 @@ wdr :> 2 @@ snd :> 0
=============================================================================
