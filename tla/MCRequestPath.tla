---------------------------- MODULE MCRequestPath ----------------------------
(* Instances of RequestPath for TLC: the texts of clients and what the      *)
(* platform holds.                                                          *)
EXTENDS RequestPath

Res(h, type, usable) == [h |-> h, type |-> type, usable |-> usable]
PU(puid, usable, res) == [puid |-> puid, type |-> "ST", usable |-> usable, res |-> res]

\* A station resource that is offline moves the cameras behind it forward,
\* and a resource is beyond the cap; a unit that is offline; one more unit
\* than the code asks for.
PU1 == PU(<<"1">>, TRUE, <<Res(11, "ST", FALSE), Res(12, "IV", FALSE), Res(13, "IV", TRUE),
                           Res(14, "IV", TRUE)>>)
PU2 == PU(<<"2">>, FALSE, <<Res(21, "IV", TRUE)>>)
PU3 == PU(<<"1", "2">>, TRUE, <<Res(31, "ST", TRUE), Res(32, "IV", TRUE)>>)
PU4 == PU(<<"3">>, TRUE, <<Res(41, "OA", TRUE), Res(42, "IV", TRUE)>>)

\* Small units, of which any call may fail.
PU5 == PU(<<"2">>, FALSE, <<>>)
PU6 == PU(<<"1">>, TRUE, <<Res(61, "ST", FALSE), Res(62, "IV", TRUE)>>)
PU7 == PU(<<"1">>, TRUE, <<Res(71, "IV", FALSE)>>)

MCContent ==
    {[platform |-> TRUE, pus |-> <<PU2, PU3, PU1, PU4>>,
      fails |-> {"open", "platform", "list", "puid", "fork"}],
     [platform |-> TRUE, pus |-> <<PU5, PU6>>, fails |-> {"puid", "usable", "type"}]}
    \cup {[platform |-> FALSE, pus |-> <<pu>>, fails |-> {"device", "usable", "type", "fork"}] :
            pu \in {PU2, PU7}}

MCMessage ==
    {<<"1", Nul>>, <<"1", "2", ",", "1">>, <<"2", ",", "0">>, <<"1", ",", "-", "1">>,
     <<"3", ",", "1", ",", "2">>}
MCDeviceKey == <<"3">>
=============================================================================
