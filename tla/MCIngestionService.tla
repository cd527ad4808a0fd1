-------------------------- MODULE MCIngestionService --------------------------
(***************************************************************************)
(* Small instances of the ingestion service for TLC.                       *)
(***************************************************************************)
EXTENDS IngestionService, TLC

CONSTANTS u1, u2, u3, c1, c2, p1, p2

SameFile == (u1 :> c1) @@ (u2 :> c1)
TwoAndOne == (u1 :> c1) @@ (u2 :> c1) @@ (u3 :> c2)

OnOnePod == (u1 :> p1) @@ (u2 :> p1)
Spread == (u1 :> p1) @@ (u2 :> p2) @@ (u3 :> p1)
=============================================================================
