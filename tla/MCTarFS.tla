------------------------------- MODULE MCTarFS -------------------------------
(* TarFS for TLC: the archives. *)
EXTENDS TarFS

Dir == [type |-> "dir", size |-> 0, nul |-> {}]

Text(n) == [type |-> "file", size |-> n, nul |-> {}]

\* Programs: a 0 byte early, as in the header of an ELF file, or only among the
\* last bytes
Program(n, zeros) == [type |-> "file", size |-> n, nul |-> zeros]

Programs == {Program(7, {2, 3, 5}), Program(5, {1}), Program(8, {7})}

\* Up to three entries, of all sizes around one and two blocks
MixedArchives ==
    UNION {[1 .. n -> {Dir} \cup {Text(s) : s \in 0 .. 9} \cup Programs] : n \in 0 .. 3}

\* One long text file
LongArchive == {<<Text(7)>>}

=============================================================================
