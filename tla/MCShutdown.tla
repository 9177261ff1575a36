------------------------------ MODULE MCShutdown ------------------------------
(* Small instances of Shutdown for TLC. *)
EXTENDS Shutdown

One == {"http"}
Two == {"https", "redirect"}

=============================================================================
