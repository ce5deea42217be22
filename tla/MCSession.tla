------------------------------ MODULE MCSession ------------------------------
(* Instances of Session for TLC: the scripts of the clients. *)
EXTENDS Session

Manage == [kind |-> "manage", host |-> "a", body |-> "small", ws |-> FALSE]
Short == [kind |-> "short", host |-> "a", body |-> "none", ws |-> FALSE]
ShortPost == [Short EXCEPT !.body = "small"]
Connect == [kind |-> "connect", host |-> "a", body |-> "none", ws |-> FALSE]
Get(h) == [kind |-> "forward", host |-> h, body |-> "none", ws |-> FALSE]
Post(h) == [Get(h) EXCEPT !.body = "small"]
Upload(h) == [Get(h) EXCEPT !.body = "stream"]
WebSocket(h) == [Get(h) EXCEPT !.ws = TRUE]

\* A client that waits for its answers: every pair of requests, the second of
\* which may reuse the upstream connection of the first.
Plain == {Manage, Short, Get("a"), Post("a"), Upload("a")}
Pairs == {<<x, y>> : x \in Plain \cup {Connect, Get("b")}, y \in Plain \cup {WebSocket("a")}}

\* Three requests to one server: a pooled connection is reused, replaced, and
\* reused again.
Triples == {<<Get("a"), y, Get("a")>> : y \in {Get("a"), Post("a"), Get("b")}}
Waiting == Pairs \cup Triples

\* A pipelining client whose answers come from the proxy itself, or from a
\* different server each time; a management request is the last (README.md,
\* "A write nobody checks").
Pipelined == {<<x, Short, z>> : x \in {Short, ShortPost}, z \in {Manage, Short}}
             \cup {<<Get("a"), Short, Short>>, <<Get("a"), Get("b")>>}

\* A smaller choice for the liveness properties.
LivePairs == {<<x, y>> : x \in {Manage, Get("a"), Post("a"), Connect},
                         y \in {Short, Get("a"), Upload("a"), WebSocket("a")}}

LiveScripts == LivePairs \cup Pipelined

OneSmallPost == {<<Get("a"), Post("a")>>}
=============================================================================
