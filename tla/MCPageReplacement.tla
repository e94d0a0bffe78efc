------------------------- MODULE MCPageReplacement -------------------------
\* Two matrices of 1, 4 or 9 elements on pages of 1 to 6 elements, and ranges
\* of up to six frames: from none at all to more than the pages there are.
EXTENDS PageReplacement

MCSizes  == {<<1, 1>>, <<2, 1>>, <<2, 2>>, <<2, 4>>, <<3, 3>>, <<3, 6>>}
MCRanges == {<<0, 0>>, <<1, 3>>, <<2, 6>>, <<3, 2>>}
=============================================================================
