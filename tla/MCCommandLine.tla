---------------------------- MODULE MCCommandLine ----------------------------
(* Every short line over a few characters, and numbers of one and two digits. *)
EXTENDS CommandLine

\* At most one blank between name and argument, and one in the argument
FewBlanks(lines) == {l \in lines : Cardinality({n \in DOMAIN l : l[n] = Space}) <= 2}

Tails == FewBlanks(SeqOf({Space, Tab, "1", "0", "-", "&"}, 3))

Numbers == {0, 1, 9, 10, 42, 90, 99}

MCLines ==
    {<<name>> \o t : name \in {"sleep", "kill", "cat"}, t \in Tails}
    \cup {<<name>> \o t : name \in {"echo", "ls", "x"}, 
                          t \in FewBlanks(SeqOf({Space, Tab, "echo", "1"}, 3))}
    \cup FewBlanks(SeqOf({Space, "ls"}, 3))
    \cup {<<"sleep", Space>> \o itoap(n) \o t : n \in Numbers, 
                                                 t \in {<<>>, <<Space, "&">>, <<"&">>}}
    \cup {<<"kill", Space, "-", "9", Space>> \o itoap(n) : n \in Numbers}
    \cup {[k \in 1 .. CommLen - 1 |-> "1"]}

MCLeftovers == {<<>>, <<"1">>, <<Space, "1">>}

=============================================================================
