---------------------------- MODULE MCReservations ----------------------------
(* Slots of two units at any of three times, in two zones; a wait of three     *)
(* units is too long for a timer.                                              *)
EXTENDS Reservations

MCStarts == {1, 2, 3}
===============================================================================
