------------------------------ MODULE MCShell ------------------------------
\* Lines of one to three stages.  Programs: gen writes as much as a pipe holds,
\* flood one unit more, cat copies its input; the others print nothing.  Two
\* lines in a row, so that the second meets what the first one has left.
EXTENDS Shell, TLC

MCOutput == "gen" :> 2 @@ "flood" :> 3

MCLines ==
  {<<"gen", "a", "|", "cat", "|", "cat">>, <<"gen", "a", "&", "|", "cat">>,
   <<"flood", "|", "cat">>, <<"pwd", "|", "|", "cat">>, <<"|", "cat", "|", "echo">>,
   <<"cat", "|", "echo", "a">>, <<"&", "|", "pwd">>, <<"gen", "|">>, <<"gen", "|", "exit">>,
   <<"cat", "<", "f">>, <<"gen", "a", ">", "f", "|", "cat">>, <<"gen", "b", "|", "cat", "&">>}
=============================================================================
