--------------------------- MODULE MCUniLbsClient ---------------------------
(* Two hosts and the loopback address, lists with repeated addresses, and a *)
(* resolver that fails.                                                     *)
EXTENDS UniLbsClient

MCLists == {<<>>, <<"a">>, <<"b", "a">>, <<"a", "a">>, <<"b", "a", "b">>}
MCAnswers == {<<>>, <<"a">>, <<"b", "b">>, <<"a", "b">>}
=============================================================================
