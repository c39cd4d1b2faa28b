------------------------------ MODULE HeadersProofs ------------------------------
(***************************************************************************)
(* Theorems about module Headers, for any headers, values, validity of     *)
(* traceparents and number of proxies.                                     *)
(***************************************************************************)
EXTENDS Headers, TLAPS

\* Removing headers gives a header map without them and with all the others.
LEMMA RemoveAllFacts ==
    ASSUME NEW h \in HeaderMap, NEW S
    PROVE  /\ RemoveAll(h, S) \in HeaderMap
           /\ \A n \in Names : RemoveAll(h, S)[n] = IF n \in S THEN <<>> ELSE h[n]
<1>1. <<>> \in Seq(Value)
  OBVIOUS
<1>2. \A n \in Names : h[n] \in Seq(Value)
  BY DEF HeaderMap
<1> QED
  BY <1>1, <1>2 DEF RemoveAll, HeaderMap

\* Inserting a header gives a header map that differs in that header only.
LEMMA InsertFacts ==
    ASSUME NEW h \in HeaderMap, NEW k \in Names, NEW v \in Value
    PROVE  /\ Insert(h, k, v) \in HeaderMap
           /\ Insert(h, k, v)[k] = <<v>>
           /\ \A n \in Names \ {k} : Insert(h, k, v)[n] = h[n]
<1>1. <<v>> \in Seq(Value)
  OBVIOUS
<1> QED
  BY <1>1 DEF Insert, HeaderMap

\* The first four steps of insert_x_forwarded_headers and the last one.
LEMMA InsertXForwardedFacts ==
    ASSUME NEW h \in HeaderMap, NEW c \in 1..Len(Path), NEW b \in 1..Len(Path)
    PROVE  LET r == InsertXForwarded(h, c, b)
           IN  /\ r \in HeaderMap
               /\ r["x-forwarded-for"] = <<IpText[c]>>
               /\ r["host"] = <<AddrText[b]>>
               /\ h["host"] # <<>> => r["x-forwarded-host"] = <<Head(h["host"])>>
               /\ \A n \in Names \ Rewritten : r[n] = h[n]
<1> DEFINE one == Insert(h, "x-forwarded-for", IpText[c])
           two == Insert(one, "x-forwarded-proto", "http")
           three == Insert(two, "host", AddrText[b])
           four == Insert(three, "x-forwarded-host", Head(two["host"]))
<1>1. {"x-forwarded-for", "x-forwarded-proto", "host", "x-forwarded-host"} = Rewritten
      /\ Rewritten \subseteq Names
  BY DEF Rewritten, Names
<1>2. IpText[c] \in Value /\ AddrText[b] \in Value /\ "http" \in Value
  BY HeadersAssumption
<1>3. /\ one \in HeaderMap
      /\ one["x-forwarded-for"] = <<IpText[c]>>
      /\ \A n \in Names \ {"x-forwarded-for"} : one[n] = h[n]
  BY <1>1, <1>2, InsertFacts
<1>4. /\ two \in HeaderMap
      /\ \A n \in Names \ {"x-forwarded-proto"} : two[n] = one[n]
  <2> HIDE DEF one
  <2> QED
    BY <1>1, <1>2, <1>3, InsertFacts
<1>5. /\ three \in HeaderMap
      /\ three["host"] = <<AddrText[b]>>
      /\ \A n \in Names \ {"host"} : three[n] = two[n]
  <2> HIDE DEF two
  <2> QED
    BY <1>1, <1>2, <1>4, InsertFacts
<1>6. two["host"] = h["host"]
  BY <1>1, <1>3, <1>4
<1>7. CASE h["host"] = <<>>
  <2>1. InsertXForwarded(h, c, b) = three
    BY <1>6, <1>7 DEF InsertXForwarded
  <2> HIDE DEF one, two, three
  <2> QED
    BY <1>1, <1>3, <1>4, <1>5, <1>7, <2>1
<1>8. CASE h["host"] # <<>>
  <2>1. InsertXForwarded(h, c, b) = four
    BY <1>6, <1>8 DEF InsertXForwarded
  <2>2. Head(h["host"]) \in Value
    <3>1. h["host"] \in Seq(Value)
      BY <1>1 DEF HeaderMap
    <3> QED
      BY <3>1, <1>8
  <2>3. four = Insert(three, "x-forwarded-host", Head(h["host"]))
    BY <1>6
  <2> HIDE DEF one, two, three, four
  <2>4. /\ four \in HeaderMap
        /\ four["x-forwarded-host"] = <<Head(h["host"])>>
        /\ \A n \in Names \ {"x-forwarded-host"} : four[n] = three[n]
    <3>1. PICK v \in Value : v = Head(h["host"])
      BY <2>2
    <3>2. three \in HeaderMap /\ "x-forwarded-host" \in Names /\ four = Insert(three, "x-forwarded-host", v)
      BY <1>1, <1>5, <2>3, <3>1
    <3>3. QED
      BY <3>1, <3>2, InsertFacts
  <2> QED
    BY <1>1, <1>3, <1>4, <1>5, <2>1, <2>4
<1> QED
  BY <1>7, <1>8

\* What the request side of handle_request makes of headers h.
Rewrites(h, r, c, b) ==
    /\ r \in HeaderMap
    /\ \A n \in HopByHop : r[n] = <<>>
    /\ \A n \in TraceContext : r[n] = IF ValidTraceparent(h) THEN h[n] ELSE <<>>
    /\ r["x-forwarded-for"] = <<IpText[c]>>
    /\ r["host"] = <<AddrText[b]>>
    /\ h["host"] # <<>> => r["x-forwarded-host"] = <<Head(h["host"])>>
    /\ \A n \in EndToEnd : r[n] = h[n]

\* The request side of handle_request is what Rewrites says.
LEMMA RewriteFacts ==
    ASSUME NEW h \in HeaderMap, NEW c \in 1..Len(Path), NEW b \in 1..Len(Path)
    PROVE  Rewrites(h, Rewrite(h, c, b), c, b)
<1> DEFINE inserted == InsertXForwarded(h, c, b)
           stripped == RemoveAll(inserted, HopByHop)
           r == Rewrite(h, c, b)
<1>1. /\ HopByHop \cap TraceContext = {} /\ HopByHop \cap Rewritten = {}
      /\ TraceContext \cap Rewritten = {}
      /\ EndToEnd \cap (HopByHop \cup TraceContext \cup Rewritten) = {}
      /\ HopByHop \cup TraceContext \cup Rewritten \cup EndToEnd = Names
      /\ "traceparent" \in TraceContext
      /\ {"x-forwarded-for", "host", "x-forwarded-host"} \subseteq Rewritten
  BY HeadersAssumption DEF HopByHop, TraceContext, Rewritten, Names
<1>2. /\ inserted \in HeaderMap
      /\ inserted["x-forwarded-for"] = <<IpText[c]>>
      /\ inserted["host"] = <<AddrText[b]>>
      /\ h["host"] # <<>> => inserted["x-forwarded-host"] = <<Head(h["host"])>>
      /\ \A n \in Names \ Rewritten : inserted[n] = h[n]
  BY InsertXForwardedFacts
<1>3. r = PropagateOrStrip(stripped)
  BY DEF Rewrite, StripHopByHop
<1> HIDE DEF inserted, r
<1>4. /\ stripped \in HeaderMap
      /\ \A n \in Names : stripped[n] = IF n \in HopByHop THEN <<>> ELSE inserted[n]
  BY <1>2, RemoveAllFacts
<1> HIDE DEF stripped
<1>5. stripped["traceparent"] = h["traceparent"]
  BY <1>1, <1>2, <1>4
<1>6. ValidTraceparent(stripped) = ValidTraceparent(h)
  BY <1>5 DEF ValidTraceparent
<1>7. Rewrites(h, r, c, b)
  <2>1. CASE ValidTraceparent(h)
    <3>1. r = stripped
      BY <1>3, <1>6, <2>1 DEF PropagateOrStrip
    <3> QED
      BY <1>1, <1>2, <1>4, <2>1, <3>1 DEF Rewrites
  <2>2. CASE ~ValidTraceparent(h)
    <3>1. r = RemoveAll(stripped, TraceContext)
      BY <1>3, <1>6, <2>2 DEF PropagateOrStrip, StripTraceContext
    <3>2. /\ r \in HeaderMap
          /\ \A n \in Names : r[n] = IF n \in TraceContext THEN <<>> ELSE stripped[n]
      BY <1>4, <3>1, RemoveAllFacts
    <3> QED
      BY <1>1, <1>2, <1>4, <2>2, <3>2 DEF Rewrites
  <2> QED
    BY <2>1, <2>2
<1> QED
  BY <1>7 DEF r

---------------------------------------------------------------------------------
(***************************************************************************)
(* The four safety properties, strengthened by what a message is before    *)
(* the first proxy has handled it.                                         *)
(***************************************************************************)
Unhandled == kind = "request" => at >= 2 /\ (at = 2 => headers = sent)

HeadersInv ==
    /\ TypeOK
    /\ Unhandled
    /\ NoHopByHop
    /\ TraceContextWhole
    /\ ForwardedTruthfully
    /\ EndToEndUntouched

\* It holds of a request that has just been sent.
LEMMA HeadersInvInit == Init => HeadersInv
<1> SUFFICES ASSUME Init PROVE HeadersInv
  OBVIOUS
<1>1. kind = "request" /\ at = 2 /\ headers = sent /\ headers \in HeaderMap
  BY HeadersAssumption DEF Init
<1> QED
  BY <1>1, HeadersAssumption
  DEF HeadersInv, TypeOK, Unhandled, NoHopByHop, TraceContextWhole, ForwardedTruthfully,
      EndToEndUntouched, Handled

\* A proxy handles a request.
LEMMA ForwardStep == HeadersInv /\ Forward => HeadersInv'
<1> SUFFICES ASSUME HeadersInv, Forward PROVE HeadersInv'
  OBVIOUS
<1> USE HeadersAssumption
<1>1. /\ kind = "request" /\ kind' = "request" /\ sent' = sent
      /\ at \in 2..(Len(Path) - 1) /\ at' = at + 1
      /\ headers \in HeaderMap /\ sent \in HeaderMap
      /\ headers' = Rewrite(headers, at - 1, at + 1)
  BY DEF HeadersInv, TypeOK, Unhandled, Forward
<1>2. at - 1 \in 1..Len(Path) /\ at + 1 \in 1..Len(Path)
  BY <1>1
<1>3. /\ headers' \in HeaderMap
      /\ \A n \in HopByHop : headers'[n] = <<>>
      /\ \A n \in TraceContext :
            headers'[n] = IF ValidTraceparent(headers) THEN headers[n] ELSE <<>>
      /\ headers'["x-forwarded-for"] = <<IpText[at - 1]>>
      /\ headers'["host"] = <<AddrText[at + 1]>>
      /\ headers["host"] # <<>> =>
            headers'["x-forwarded-host"] = <<Head(headers["host"])>>
      /\ \A n \in EndToEnd : headers'[n] = headers[n]
  <2>1. Rewrites(headers, headers', at - 1, at + 1)
    BY <1>1, <1>2, RewriteFacts
  <2> QED
    BY <2>1 DEF Rewrites
<1>4. TypeOK'
  BY <1>1, <1>3 DEF TypeOK
<1>5. Unhandled' /\ NoHopByHop'
  BY <1>1, <1>3 DEF Unhandled, NoHopByHop
<1>6. EndToEndUntouched'
  BY <1>1, <1>3 DEF HeadersInv, EndToEndUntouched
<1>7. TraceContextWhole'
  <2>1. CASE at = 2
    BY <1>1, <1>3, <2>1 DEF HeadersInv, Unhandled, TraceContextWhole
  <2>2. CASE at > 2 /\ ValidTraceparent(sent)
    <3>1. \A n \in TraceContext : headers[n] = sent[n]
      BY <1>1, <2>2 DEF HeadersInv, TraceContextWhole
    <3>2. ValidTraceparent(headers)
      BY <2>2, <3>1 DEF ValidTraceparent, TraceContext
    <3> QED
      BY <1>1, <1>3, <2>2, <3>1, <3>2 DEF TraceContextWhole
  <2>3. CASE at > 2 /\ ~ValidTraceparent(sent)
    <3>1. \A n \in TraceContext : headers[n] = <<>>
      BY <1>1, <2>3 DEF HeadersInv, TraceContextWhole
    <3> QED
      BY <1>1, <1>3, <2>3, <3>1 DEF TraceContextWhole
  <2> QED
    BY <1>1, <2>1, <2>2, <2>3
<1>8. ForwardedTruthfully'
  <2>1. CASE at = 2
    BY <1>1, <1>3, <2>1 DEF HeadersInv, Unhandled, ForwardedTruthfully
  <2>2. CASE at > 2
    <3>1. headers["host"] = <<AddrText[at]>>
      BY <1>1, <2>2 DEF HeadersInv, ForwardedTruthfully
    <3>2. headers["host"] # <<>> /\ Head(headers["host"]) = AddrText[at]
      BY <3>1
    <3> QED
      BY <1>1, <1>3, <2>2, <3>2 DEF ForwardedTruthfully
  <2> QED
    BY <1>1, <2>1, <2>2
<1> QED
  BY <1>4, <1>5, <1>6, <1>7, <1>8 DEF HeadersInv

\* A proxy handles a response.
LEMMA ReturnStep == HeadersInv /\ Return => HeadersInv'
<1> SUFFICES ASSUME HeadersInv, Return PROVE HeadersInv'
  OBVIOUS
<1> USE HeadersAssumption
<1>1. /\ kind = "response" /\ kind' = "response" /\ sent' = sent
      /\ at \in 2..Len(Path) /\ at' = at - 1
      /\ headers \in HeaderMap /\ sent \in HeaderMap
      /\ headers' = RemoveAll(headers, HopByHop)
  BY DEF HeadersInv, TypeOK, Return, StripHopByHop
<1>2. /\ headers' \in HeaderMap
      /\ \A n \in Names : headers'[n] = IF n \in HopByHop THEN <<>> ELSE headers[n]
  BY <1>1, RemoveAllFacts
<1>3. HopByHop \subseteq Names /\ EndToEnd \subseteq Names /\ EndToEnd \cap HopByHop = {}
  BY DEF Names
<1>4. TypeOK' /\ Unhandled' /\ NoHopByHop' /\ TraceContextWhole' /\ ForwardedTruthfully'
  BY <1>1, <1>2, <1>3
  DEF TypeOK, Unhandled, NoHopByHop, TraceContextWhole, ForwardedTruthfully
<1>5. EndToEndUntouched'
  BY <1>1, <1>2, <1>3 DEF HeadersInv, EndToEndUntouched
<1> QED
  BY <1>4, <1>5 DEF HeadersInv

\* A message that has just been sent satisfies whatever is said of it.
LEMMA SendStep == HeadersInv /\ (Send \/ Respond) => HeadersInv'
<1> SUFFICES ASSUME HeadersInv, Send \/ Respond PROVE HeadersInv'
  OBVIOUS
<1>1. /\ headers' \in HeaderMap /\ sent' = headers'
      /\ \/ kind' = "request" /\ at' = 2
         \/ kind' = "response" /\ at' = Len(Path) - 1
  BY HeadersAssumption DEF Send, Respond
<1> QED
  BY <1>1, HeadersAssumption
  DEF HeadersInv, TypeOK, Unhandled, NoHopByHop, TraceContextWhole, ForwardedTruthfully,
      EndToEndUntouched, Handled

\* The strengthened invariant holds throughout.
LEMMA HeadersInvariant == Spec => []HeadersInv
<1>1. HeadersInv /\ [Next]_vars => HeadersInv'
  <2> SUFFICES ASSUME HeadersInv, [Next]_vars PROVE HeadersInv'
    OBVIOUS
  <2>1. CASE UNCHANGED vars
    BY <2>1
    DEF vars, HeadersInv, TypeOK, Unhandled, NoHopByHop, TraceContextWhole,
        ForwardedTruthfully, EndToEndUntouched, Handled
  <2> QED
    BY <2>1, ForwardStep, ReturnStep, SendStep DEF Next
<1> QED
  BY <1>1, HeadersInvInit, PTL DEF Spec

---------------------------------------------------------------------------------
(***************************************************************************)
(* handle_request keeps header maps header maps, for any messages.         *)
(***************************************************************************)
THEOREM HeadersTypeCorrect == Spec => []TypeOK
<1>1. HeadersInv => TypeOK
  BY DEF HeadersInv
<1> QED
  BY <1>1, HeadersInvariant, PTL

(***************************************************************************)
(* No hop-by-hop header survives strip_hop_by_hop_headers at any proxy, in *)
(* either direction.                                                       *)
(***************************************************************************)
THEOREM HeadersNoHopByHop == Spec => []NoHopByHop
<1>1. HeadersInv => NoHopByHop
  BY DEF HeadersInv
<1> QED
  BY <1>1, HeadersInvariant, PTL

(***************************************************************************)
(* Any number of proxies passes the trace context as a whole or drops it   *)
(* as a whole, as propagate_or_strip_otel_context decides at the first.    *)
(***************************************************************************)
THEOREM HeadersTraceContextWhole == Spec => []TraceContextWhole
<1>1. HeadersInv => TraceContextWhole
  BY DEF HeadersInv
<1> QED
  BY <1>1, HeadersInvariant, PTL

(***************************************************************************)
(* insert_x_forwarded_headers says the truth at every proxy, whatever the  *)
(* client claimed.                                                         *)
(***************************************************************************)
THEOREM HeadersForwardedTruthfully == Spec => []ForwardedTruthfully
<1>1. HeadersInv => ForwardedTruthfully
  BY DEF HeadersInv
<1> QED
  BY <1>1, HeadersInvariant, PTL

(***************************************************************************)
(* The proxies change no header they do not mention.                       *)
(***************************************************************************)
THEOREM HeadersEndToEnd == Spec => []EndToEndUntouched
<1>1. HeadersInv => EndToEndUntouched
  BY DEF HeadersInv
<1> QED
  BY <1>1, HeadersInvariant, PTL
=================================================================================
