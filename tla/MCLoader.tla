------------------------------ MODULE MCLoader ------------------------------
(***************************************************************************)
(* Kernel files of at most two program headers for a memory of five pages  *)
(* of two cells, of which the firmware keeps the first and the fourth.     *)
(***************************************************************************)
EXTENDS Loader

Segments ==
  [load : {TRUE}, offset : {0, 2}, filesz : 0 .. 3, memsz : 1 .. 3, addr : {2, 4, 8}]
    \cup {[load |-> FALSE, offset |-> 0, filesz |-> 1, memsz |-> 1, addr |-> 6]}

Sequences == {<<s>> : s \in Segments} \cup {<<s, t>> : s, t \in Segments}

AFile(id, size, segs) == [identity |-> id, size |-> size, segs |-> segs]

\* Well-formed kernels, and files of any identity without segments.
GoodFiles ==
  {f \in {AFile("elf64_lsb", 5, s) : s \in Sequences} : WellFormed(f)}
    \cup {AFile(id, 5, <<>>) : id \in Identities}

=============================================================================
