--------------------------- MODULE MCSessionReplay ---------------------------
(* Small instances of SessionReplay: the second and the fourth event are     *)
(* updates, so an update comes before and after a structural event.          *)
EXTENDS SessionReplay

SomeUpdates == {2, 4}
=============================================================================
