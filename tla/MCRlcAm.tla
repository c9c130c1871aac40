-------------------------------- MODULE MCRlcAm --------------------------------
(* Instances of RlcAm for TLC.                                             *)
EXTENDS RlcAm

TwoSdus == <<2, 1>>
OneSdu == <<2>>
ThreeShortSdus == <<1, 1, 1>>
Either == {TRUE, FALSE}
================================================================================
