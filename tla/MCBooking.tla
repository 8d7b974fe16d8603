------------------------------ MODULE MCBooking ------------------------------
(***************************************************************************)
(* Small instances of Booking for TLC.  Seats, users and identifiers are   *)
(* model values that nothing tells apart.                                  *)
(***************************************************************************)
EXTENDS BookingProperties, TLC

Symmetry == Permutations(Seat) \cup Permutations(User) \cup Permutations(Res) \cup Permutations(Http)
=============================================================================
