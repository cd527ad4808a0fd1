-------------------------- MODULE MCEventSubscriber --------------------------
(***************************************************************************)
(* Small instances of the event subscriber for TLC.                        *)
(***************************************************************************)
EXTENDS EventSubscriber, TLC

CONSTANTS e1, i1, i2, w1, w2

OneEach == (w1 :> i1) @@ (w2 :> i2)
=============================================================================
