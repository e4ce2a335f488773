-------------------------- MODULE MCBookingMirror --------------------------
(* A booking of two rooms, or of one. *)
EXTENDS BookingMirror

CONSTANTS b1, b2, d1, d2

MCRooms == [b \in Bookings |-> IF b = b1 THEN 2 ELSE 1]
=============================================================================
