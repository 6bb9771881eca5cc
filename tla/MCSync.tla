------------------------------- MODULE MCSync -------------------------------
(* Four threads around one lock and one semaphore: two can sleep on either
   while the others acquire and release. *)
EXTENDS Sync

MCPermits == {-1, 0, 2}

=============================================================================
