-------------------------------- MODULE MCHeaders --------------------------------
(***************************************************************************)
(* Constant values for checking module Headers: two proxies in a row, and  *)
(* messages with up to two values under the names that are read and up to  *)
(* one under a name of each other kind.                                    *)
(***************************************************************************)
EXTENDS Headers

MCParts ==
    LET piece(n) == [len |-> n, hex |-> TRUE, zeros |-> FALSE]
        zeros(n) == [len |-> n, hex |-> TRUE, zeros |-> TRUE]
        upper(n) == [len |-> n, hex |-> FALSE, zeros |-> FALSE]
    IN  [v \in Value |->
            CASE v = "wellFormed" -> <<zeros(2), piece(32), piece(16), piece(2)>>
              [] v = "zeroId"     -> <<zeros(2), zeros(32), piece(16), piece(2)>>
              [] v = "upperCase"  -> <<zeros(2), piece(32), upper(16), piece(2)>>
              [] v = "fiveParts"  -> <<zeros(2), piece(32), piece(16), piece(2), piece(2)>>
              [] v = "binary"     -> <<>>
              [] OTHER            -> <<upper(4)>>]

MCPath == <<"client", "proxy", "proxy", "server">>
MCIpText == <<"ip1", "ip2", "ip3", "ip4">>
MCAddrText == <<"addr1", "addr2", "addr3", "addr4">>

Traceparents == {"wellFormed", "zeroId", "upperCase", "fiveParts", "binary"}

UpTo(n, S) == UNION {[1..k -> S] : k \in 0..n}

Any == UpTo(1, {"any"})

Message(accept, te, host, forwardedFor, forwardedHost, traceparent, tracestate) ==
    [n \in Names |->
        CASE n = "accept" -> accept
          [] n \in {"te", "connection"} -> te
          [] n = "host" -> host
          [] n = "x-forwarded-for" -> forwardedFor
          [] n = "x-forwarded-host" -> forwardedHost
          [] n = "traceparent" -> traceparent
          [] n \in {"tracestate", "baggage"} -> tracestate
          [] OTHER -> <<>>]

Accepts == {<<>>, <<"any">>, <<"any", "other">>}

MCRequests ==
    {Message(a, t, h, ff, fh, tp, ts) :
        a \in Accepts, t \in Any, h \in UpTo(2, {"addr2", "name"}),
        ff \in Any, fh \in Any, tp \in UpTo(2, Traceparents), ts \in Any}

MCResponses ==
    {Message(a, t, <<>>, <<>>, <<>>, <<>>, ts) :
        a \in Accepts, t \in Any, ts \in Any}
=================================================================================
