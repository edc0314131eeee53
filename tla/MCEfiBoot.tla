------------------------------ MODULE MCEfiBoot ------------------------------
(***************************************************************************)
(* Firmware with at most three configuration tables and two video modes.   *)
(* Both ACPI tables carry the RSDP's signature, as they do on a machine.   *)
(***************************************************************************)
EXTENDS EfiBoot

Tables == {[guid |-> "acpi_20", signed |-> TRUE], [guid |-> "acpi_10", signed |-> TRUE],
           [guid |-> "other", signed |-> FALSE]}

AnyTables == UNION {[1 .. n -> Tables] : n \in 0 .. 3}

AnyModes == {<<"800x600">>, <<"640x480">>, <<"800x600", "640x480">>,
             <<"640x480", "800x600">>}

\* The firmware is quiet from the size of its memory map to the end.
QuietAtExit == Places \ {"map_buffer", "map", "exit"}

=============================================================================
