--------------------------------- MODULE Headers ---------------------------------
(***************************************************************************)
(* What proxy.rs does to the headers of a message: insert_x_forwarded_     *)
(* headers, strip_hop_by_hop_headers and the propagation of trace context. *)
(* A request travels along Path from a client through one or more proxies  *)
(* to a server, and the server's response travels back.                    *)
(*                                                                         *)
(* A HeaderMap is a function from names (which it compares without regard  *)
(* to case) to the sequence of values received under that name: get reads  *)
(* the first of them, insert replaces them all, remove drops them all.     *)
(***************************************************************************)
EXTENDS Naturals, Sequences

CONSTANTS
    EndToEnd,       \* the header names that the proxy does not mention
    Value,          \* header values
    Parts,          \* Parts[v]: the pieces of v between dashes, <<>> if v is not readable text
    Path,           \* the client, the proxies and the server
    IpText,         \* IpText[p]: the IP address of the p-th on the path, as a value
    AddrText,       \* AddrText[p]: its socket address
    Requests,       \* what clients send
    Responses       \* what servers answer

HopByHop == {"connection", "keep-alive", "proxy-authenticate", "proxy-authorization",
             "te", "trailers", "transfer-encoding", "upgrade"}
TraceContext == {"traceparent", "tracestate", "baggage"}
Rewritten == {"x-forwarded-for", "x-forwarded-proto", "x-forwarded-host", "host"}
Names == HopByHop \cup TraceContext \cup Rewritten \cup EndToEnd

HeaderMap == [Names -> Seq(Value)]

\* Of a piece of a value: its length, whether all its characters are lower-case
\* hexadecimal digits, and whether all are zeros.
Piece == [len : Nat, hex : BOOLEAN, zeros : BOOLEAN]

ASSUME HeadersAssumption ==
    /\ EndToEnd \cap (HopByHop \cup TraceContext \cup Rewritten) = {}
    /\ Parts \in [Value -> Seq(Piece)]
    /\ Len(Path) \in Nat /\ Len(Path) >= 3
    /\ {IpText, AddrText} \subseteq [1..Len(Path) -> Value]
    /\ "http" \in Value
    /\ Requests \subseteq HeaderMap
    /\ Responses \subseteq HeaderMap

VARIABLES
    kind,       \* "request" on the way to the server, "response" on the way back
    at,         \* where on the path the message has arrived
    headers,    \* its headers there
    sent        \* its headers as the client or the server sent them

vars == <<kind, at, headers, sent>>

Insert(h, n, v) == [h EXCEPT ![n] = <<v>>]
RemoveAll(h, S) == [n \in Names |-> IF n \in S THEN <<>> ELSE h[n]]

---------------------------------------------------------------------------------
(***************************************************************************)
(* Variants of the definitions below that a plausible mistake would give;  *)
(* none is used by the specification.                                      *)
(***************************************************************************)
\* Host is overwritten before it has been read.
InsertXForwardedHostLast(h, client, backend) ==
    LET rewritten == Insert(h, "host", AddrText[backend])
    IN  [rewritten EXCEPT !["x-forwarded-for"] = <<IpText[client]>>,
                          !["x-forwarded-proto"] = <<"http">>,
                          !["x-forwarded-host"] = rewritten["host"]]

\* One name of the list is missing.
StripHopByHopButTe(h) == RemoveAll(h, HopByHop \ {"te"})

\* A message that names connection options loses all its headers but the known ones.
StripUnknown(h) ==
    RemoveAll(h, HopByHop \cup IF h["connection"] # <<>> THEN EndToEnd ELSE {})

\* Only the broken header itself is dropped.
StripTraceparentOnly(h) == RemoveAll(h, {"traceparent"})

---------------------------------------------------------------------------------
InsertXForwarded(h, client, backend) ==
    LET forwarded == Insert(Insert(h, "x-forwarded-for", IpText[client]),
                            "x-forwarded-proto", "http")
        rewritten == Insert(forwarded, "host", AddrText[backend])
    IN  IF forwarded["host"] = <<>> THEN rewritten
        ELSE Insert(rewritten, "x-forwarded-host", Head(forwarded["host"]))

StripHopByHop(h) == RemoveAll(h, HopByHop)

\* The conditions of validate_traceparent on the text of one value.
WellFormed(v) ==
    LET p == Parts[v]
    IN  /\ Len(p) = 4
        /\ p[1].len = 2 /\ p[1].zeros
        /\ p[2].len = 32 /\ p[3].len = 16 /\ p[4].len = 2
        /\ p[2].hex /\ p[3].hex /\ p[4].hex
        /\ ~p[2].zeros /\ ~p[3].zeros

ValidTraceparent(h) == h["traceparent"] # <<>> /\ WellFormed(Head(h["traceparent"]))

StripTraceContext(h) == RemoveAll(h, TraceContext)

PropagateOrStrip(h) == IF ValidTraceparent(h) THEN h ELSE StripTraceContext(h)

Rewrite(h, client, backend) ==
    PropagateOrStrip(StripHopByHop(InsertXForwarded(h, client, backend)))

---------------------------------------------------------------------------------
(***************************************************************************)
(* The message has arrived at the first proxy, at position 2; the proxy at *)
(* position p takes position p - 1 for its client and p + 1 for its        *)
(* backend.                                                                *)
(***************************************************************************)
Init ==
    /\ kind = "request"
    /\ at = 2
    /\ headers \in Requests
    /\ sent = headers

\* The request side of handle_request.
Forward ==
    /\ kind = "request"
    /\ at < Len(Path)
    /\ headers' = Rewrite(headers, at - 1, at + 1)
    /\ at' = at + 1
    /\ UNCHANGED <<kind, sent>>

\* The server answers.
Respond ==
    /\ kind = "request"
    /\ at = Len(Path)
    /\ kind' = "response"
    /\ headers' \in Responses
    /\ sent' = headers'
    /\ at' = at - 1

\* The response side of handle_request.
Return ==
    /\ kind = "response"
    /\ at > 1
    /\ headers' = StripHopByHop(headers)
    /\ at' = at - 1
    /\ UNCHANGED <<kind, sent>>

\* The client, answered, sends its next request.
Send ==
    /\ kind = "response"
    /\ at = 1
    /\ kind' = "request"
    /\ at' = 2
    /\ headers' \in Requests
    /\ sent' = headers'

Next == Forward \/ Respond \/ Return \/ Send

Spec == Init /\ [][Next]_vars

---------------------------------------------------------------------------------
TypeOK ==
    /\ kind \in {"request", "response"}
    /\ at \in 1..Len(Path)
    /\ headers \in HeaderMap
    /\ sent \in HeaderMap

\* A proxy has handled the message.
Handled == IF kind = "request" THEN at > 2 ELSE at < Len(Path) - 1

(***************************************************************************)
(* Nothing that a proxy has handled, in either direction, carries a        *)
(* hop-by-hop header of either side (README, "Header handling").           *)
(***************************************************************************)
NoHopByHop == Handled => \A n \in HopByHop : headers[n] = <<>>

(***************************************************************************)
(* Through any number of proxies the three headers of a request's trace    *)
(* context stay together: all arrive as the client sent them when its      *)
(* first traceparent is well formed, and none arrives otherwise.           *)
(***************************************************************************)
TraceContextWhole ==
    kind = "request" /\ at > 2 =>
        \A n \in TraceContext :
            headers[n] = IF ValidTraceparent(sent) THEN sent[n] ELSE <<>>

(***************************************************************************)
(* A forwarded request names the party before the proxy and the party      *)
(* behind it once each, whatever the client claimed, and tells which host  *)
(* the proxy was asked for when it was asked for one: the client's Host    *)
(* at the first proxy, the proxy's own address at a later one.             *)
(***************************************************************************)
ForwardedTruthfully ==
    kind = "request" /\ at > 2 =>
        /\ headers["x-forwarded-for"] = <<IpText[at - 2]>>
        /\ headers["host"] = <<AddrText[at]>>
        /\ sent["host"] # <<>> /\ at = 3 =>
              headers["x-forwarded-host"] = <<Head(sent["host"])>>
        /\ at > 3 => headers["x-forwarded-host"] = <<AddrText[at - 1]>>

(***************************************************************************)
(* Every other header arrives with the values and in the order it was      *)
(* sent, in both directions.                                               *)
(***************************************************************************)
EndToEndUntouched == \A n \in EndToEnd : headers[n] = sent[n]

(***************************************************************************)
(* README, "Header handling": a malformed traceparent is stripped, "so a   *)
(* downstream service never inherits a broken trace".                      *)
(***************************************************************************)
NoBrokenTrace ==
    kind = "request" /\ at > 2 =>
        \A i \in DOMAIN headers["traceparent"] : WellFormed(headers["traceparent"][i])
=================================================================================
