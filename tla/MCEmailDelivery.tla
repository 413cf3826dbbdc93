-------------------------- MODULE MCEmailDelivery --------------------------
(* Small instances of EmailDelivery for TLC.  Its workers are alike, but a    *)
(* liveness property is checked, so no symmetry is declared.                  *)
EXTENDS EmailDelivery
=============================================================================
