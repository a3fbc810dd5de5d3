----------------------------- MODULE MCReverseDNS -----------------------------
(* Four targets of which the second is a name; lookups answer with nothing, *)
(* with a blank name before a real one, or with two names.                  *)
EXTENDS ReverseDNS

MCAddresses == {1, 3, 4}
MCNames     == {<<>>, <<Blank, "a">>, <<"a", "b">>}
=============================================================================
