--------------------------- MODULE MCPushActiveSet --------------------------
(***************************************************************************)
(* An instance of PushActiveSet for TLC: a node of 9 SOL among peers of    *)
(* 0, 1 and 8 SOL, so that their messages fall into two buckets and the  *)
(* highest bucket holds stakes past its own bound.                         *)
(***************************************************************************)
EXTENDS PushActiveSet, TLC

CONSTANTS self, unstaked, small, large

MCStakes == self :> 9 @@ unstaked :> 0 @@ small :> 1 @@ large :> 8
=============================================================================
