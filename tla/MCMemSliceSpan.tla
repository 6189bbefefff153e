--------------------------- MODULE MCMemSliceSpan ---------------------------
(* Two spans over buffers of one or two distinct bytes. *)
EXTENDS MemSliceSpan

MCTexts == {<<"a", "b">>, <<"c">>}
=============================================================================
