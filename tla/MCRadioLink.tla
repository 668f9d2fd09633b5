---------------------------- MODULE MCRadioLink ----------------------------
(***************************************************************************)
(* RadioLink on a small instance.                                          *)
(***************************************************************************)
EXTENDS RadioLink

\* The radio is switched on and off; the handshake is skipped from the start
\* or never.
MCConfigurations == {[radioEnabled |-> on, skipRadioHandshake |-> FALSE] : on \in BOOLEAN}
=============================================================================
