-------------------------------- MODULE MCService --------------------------------
(***************************************************************************)
(* Constant values for checking module Service: two clients behind one IP  *)
(* address, and files that list up to three backends, well formed with     *)
(* each strategy or broken in each way there is.                           *)
(***************************************************************************)
EXTENDS Service

CONSTANTS c1, c2

MCOctetsOf == [c \in Clients |-> <<10, 0, 0, 1>>]

MCSocketAddr == [text \in Text |->
    CASE text \in {"a", "alias of a"} -> "A"
      [] text = "b" -> "B"
      [] OTHER -> "none"]

Listed(texts) == [i \in DOMAIN texts |-> [addr |-> texts[i]]]

File(backends, settings) ==
    [readable |-> TRUE, toml |-> TRUE, backends |-> backends, settings |-> settings]

MCFiles ==
    {File(Listed(texts), [k \in {} |-> 0]) :
        texts \in {<<>>, <<"a", "a">>, <<"a", "b", "a">>, <<"bad", "b">>, <<"b", "alias of a", "bad">>}}
    \cup
    {File(Listed(texts), [algorithm |-> a, health_check |-> [interval |-> 1]]) :
        texts \in {<<"a">>, <<"a", "alias of a">>, <<"a", "b", "alias of a">>}, a \in Algorithms}
    \cup
    {File(<<[addr |-> "a", weight |-> 2], [weight |-> 1]>>, [timeouts |-> [read |-> 1]]),
     [File(Listed(<<"a">>), [k \in {} |-> 0]) EXCEPT !.readable = FALSE],
     [File(Listed(<<"a">>), [k \in {} |-> 0]) EXCEPT !.toml = FALSE]}

MCEnvironments == [set : {FALSE}, filter : {"invalid"}] \cup [set : {TRUE}, filter : {"warn", "invalid"}]
=================================================================================
