------------------------------- MODULE MCScreen -------------------------------
(* Screen on rows of three characters. *)
EXTENDS Screen

MCPrompt   == <<"p", "q">>
MCTexts    == {<<"a">>, <<"a", "b", NL>>, <<NL, NL>>, <<CR>>}
MCResidues == {<<>>, <<"junk">>}

=============================================================================
