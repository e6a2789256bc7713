-------------------------- MODULE MCStreamRequest --------------------------
(* StreamRequest on two credentials, one with a pool of two models.         *)
EXTENDS StreamRequest, TLC

CONSTANTS a1, a2

MCAuths    == {a1, a2}
MCPoolSize == (a1 :> 2) @@ (a2 :> 1)
MCRetry    == (a1 :> 1) @@ (a2 :> 0)
=============================================================================
