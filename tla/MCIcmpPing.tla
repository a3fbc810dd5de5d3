------------------------------ MODULE MCIcmpPing ------------------------------
(* Two targets of which the first may resolve to two addresses, or one     *)
(* target with one.                                                        *)
EXTENDS IcmpPing

MCAddresses  == <<2, 1>>
MCOneAddress == <<1>>
=============================================================================
