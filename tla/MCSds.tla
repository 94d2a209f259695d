------------------------------- MODULE MCSds --------------------------------
(***************************************************************************)
(* Small texts and separators for model checking Sds.                      *)
(***************************************************************************)
EXTENDS Sds

\* Nothing, a plain byte, a blank, bytes after a NUL, a longer text, a quote
\* and the end of a line.
AllPieces == {<<>>, <<"a">>, <<Space>>, <<NUL, "a">>, <<"a", "a", "n">>,
              <<Quote>>, <<NL>>}
AllSeparators == {<<"a">>, <<Space>>, <<"a", "a">>, <<"a", Space>>}
=============================================================================
