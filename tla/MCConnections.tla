----------------------------- MODULE MCConnections ----------------------------
(***************************************************************************)
(* Connections for TLC, with the parameters that a statement may have: two *)
(* without a name, one name with two prefixes, and both kinds.  A minute   *)
(* is 16, so that the offsets of two of the time zones have seconds.       *)
(***************************************************************************)
EXTENDS Connections

MCSignatures ==
    {<< <<>>, <<>> >>, << <<":", "a">>, <<"@", "a">> >>, << <<"$", "b">>, <<>>, <<":", "a">> >>}

MCZones == {-24, -8, 0, 16}
===============================================================================
