----------------------------- MODULE MCTracker -----------------------------
(* Instances of Tracker for TLC. *)
EXTENDS Tracker, TLC

Get(host, path) == [method |-> "GET", host |-> host, url |-> host, path |-> path]

\* A route and a rewrite that make the two exchanges look the same, and a
\* configuration without the route that allows more records.
Base == [record |-> TRUE, max |-> 1,
         routes |-> <<[host |-> "b", paths |-> {"p"}, to |-> "a"]>>,
         rewrites |-> <<[id |-> "r", paths |-> {"old"}, path |-> "p", to |-> ""]>>]
Wider == [Base EXCEPT !.max = 3, !.routes = <<>>]
Off == [Base EXCEPT !.record = FALSE]

Two == (1 :> Get("a", "old")) @@ (2 :> Get("b", "p"))
Three == {Base, Wider, Off}
InTurn == {{"config"}, {"clear", "search"}}
=============================================================================
