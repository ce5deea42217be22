---------------------------- MODULE MCConnector ----------------------------
(* Instances of Connector for TLC: the scripts of the clients. *)
EXTENDS Connector

Manage == [kind |-> "manage", host |-> "a", body |-> "none", ws |-> FALSE]
Connect == [kind |-> "connect", host |-> "a", body |-> "none", ws |-> FALSE]
Get(x) == [kind |-> "forward", host |-> x, body |-> "none", ws |-> FALSE]
Post(x) == [Get(x) EXCEPT !.body = "small"]
Upload(x) == [Get(x) EXCEPT !.body = "stream"]
WebSocket(x) == [Get(x) EXCEPT !.ws = TRUE]
Short(x) == [Get(x) EXCEPT !.kind = "short"]

\* One client, any two requests.
Pairs == {<<x, y>> : x \in {Manage, Connect, Get("a"), Upload("a")},
                     y \in {Manage, Get("a"), Post("a"), WebSocket("a")}}
OneClient == [c \in {"c"} |-> Pairs]

\* Requests that are handled at once: three answers for a channel of one, and an
\* upload that keeps the reading goroutine.
AtOnce == [c \in {"c"} |-> {<<Short("a"), Manage>>, <<Manage, Upload("a")>>}]
=============================================================================
