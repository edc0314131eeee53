------------------------------ MODULE MCTimers ------------------------------
(***************************************************************************)
(* An HPET of two femtoseconds a count and a sleep of five: 10 ms last     *)
(* three units of time.                                                    *)
(***************************************************************************)
EXTENDS Timers

\* Two stores apart, the count and the flag: no time to speak of.
PromptlyEnabled == Places \ {"arm", "enable"}

=============================================================================
