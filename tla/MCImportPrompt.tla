--------------------------- MODULE MCImportPrompt ---------------------------
(***************************************************************************)
(* ImportPrompt with the lengths of a backup divided by four, for three keys:  *)
(* as in the code, the length of the largest backup is not a multiple of three *)
(* and a backup of more than a few keys is longer than a line, whose buffer     *)
(* holds one character less than whole groups of four.  The characters pass    *)
(* each test of the decoder and fail each.                                    *)
(***************************************************************************)
EXTENDS ImportPrompt

MCQuads ==
    {EncodedGroup(g) : g \in {<<255>>, <<17, 34>>, <<200, 1, 7>>}} \cup
    {<<1, 2, Pad, Pad>>, <<1, 2, 3, Pad>>, <<1, 2, Pad, 4>>,
     <<1, Pad, 3, 4>>, <<1, 2, 3, Other>>}
=============================================================================
