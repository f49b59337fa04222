----------------------------- MODULE MCService -----------------------------
EXTENDS Service

MCNumber ==
    [w \in {"0", "443", "8080", "8443", "9000", "65535", "65536"} |->
        CASE w = "0" -> 0 [] w = "443" -> 443 [] w = "8080" -> 8080
          [] w = "8443" -> 8443 [] w = "9000" -> 9000
          [] w = "65535" -> 65535 [] w = "65536" -> 65536]

MCParts == [w \in {"my data"} |-> <<"my", "data">>]

MCAvailablePorts == <<8081, 8082>>

\* Every list of up to three of these words, and longer ones:
\* generated certificates and none; every kind of port, valid or not; every
\* way to name files and directories; values that look like flags.
MCCommands ==
    UNION {[1 .. n -> {"--port", "443", "--tls", "--data-dir"}] : n \in 0 .. 3} \cup
    {<<"--key", "k">>,
     <<"--port", "0", "--port", "65536">>,
     <<"--port", "65535", "--port", "--recent", "8443">>,
     <<"--port", "8443", "--port", "x", "--data-dir", "d">>,
     <<"--data-dir", "--tls", "--port", "8080">>,
     <<"--data-dir", "my data", "--tls", "--port", "9000">>,
     <<"--cert", "c", "--key", "k", "--tls-disable">>,
     <<"--cert", "c", "--data-dir", "d", "--data-dir">>,
     <<"--port", "443", "--tls-disable", "--tls">>,
     <<"--tls-disable">>,
     <<"--port", "9000", "--tls">>,
     <<"--port", "9000", "--recent", "8080", "--list-recent-public">>}

\* As MCCommands, and TLS disabled on the port of TLS.
MCCommandsTLS == {<<>>, <<"--tls-disable">>, <<"--port", "9000", "--tls-disable">>}

\* No command line is one of those that ServiceProofs.tla excludes.
ASSUME MCCommandsAssumption == OwnFiles /\ NoFlagAsCert

MCAddresses == {<<8, 8>>, <<172, 15>>, <<172, 16>>, <<172, 31>>, <<172, 32>>, <<192, 168>>, <<10, 0>>}

MCHostOutputs == {<<>>, <<<<172, 31>>, <<172, 32>>>>, <<<<192, 168>>, <<10, 0>>>>}
=============================================================================
