------------------------------ MODULE MCDeadline ------------------------------
(* Deadline for TLC: a second of eight nanoseconds, integers of seven bits. *)
EXTENDS Deadline

MCAnyTimeout == 0..MaxInt

(* The largest number stoll reads: as milliseconds it wraps to less than 0. *)
MCLargest == {MaxInt}
=============================================================================
