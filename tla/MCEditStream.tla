---------------------------- MODULE MCEditStream ----------------------------
(* EditStream with a file of three lines, one of them indented. *)
EXTENDS EditStream

MCFile == <<<<"a">>, <<"i", "b">>, <<"c">>>>
\* Behind the first fence, Fence is text as any other.
MCTokens == {Newline, Fence, Indent}
=============================================================================
