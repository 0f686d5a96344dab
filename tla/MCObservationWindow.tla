------------------------ MODULE MCObservationWindow -------------------------
(***************************************************************************)
(* Constants for model checking ObservationWindow: how the wall clock may  *)
(* be set during a bundle.                                                 *)
(***************************************************************************)
EXTENDS ObservationWindow

NeverStepped   == {}
SteppedBack    == {<<1, 0>>}
SteppedForward == {<<0, 1>>}
=============================================================================
