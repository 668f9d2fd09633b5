----------------------------- MODULE MCStartup -----------------------------
(* Startup on small instances. *)
EXTENDS Startup

AllRequests == States
SafeRequest == {SAFE}
=============================================================================
