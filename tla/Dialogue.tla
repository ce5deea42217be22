------------------------------ MODULE Dialogue ------------------------------
(***************************************************************************)
(* What a client connection of the proxy promises, whatever happens behind *)
(* it (core_refactor/session.go:14: requests are read one after the other, *)
(* responses are written in order).  Each request has one reply, a head    *)
(* and then a body; what the client has received is at any time an initial *)
(* part of the replies to what it has asked, and a connection that has     *)
(* ended says nothing more.                                                *)
(***************************************************************************)
EXTENDS Naturals, Sequences

VARIABLES asked,   \* the number of requests the client has made
          said,    \* the parts of replies the client has received
          ended    \* the connection is gone

dvars == <<asked, said, ended>>

Part(kind, r) == [part |-> kind, of |-> r]

\* The replies to the first n requests, in full.
Replies(n) ==
  [i \in 1..(2 * n) |-> IF i % 2 = 1 THEN Part("head", (i + 1) \div 2)
                                     ELSE Part("body", i \div 2)]

DInit == asked = 0 /\ said = <<>> /\ ended = FALSE

Ask ==
  /\ ~ended
  /\ asked' = asked + 1
  /\ UNCHANGED <<said, ended>>

\* One part, or both parts of a short reply at once.
Say ==
  /\ ~ended
  /\ \E n \in {1, 2} :
       /\ Len(said) + n <= 2 * asked
       /\ said' = SubSeq(Replies(asked), 1, Len(said) + n)
  /\ UNCHANGED <<asked, ended>>

End ==
  /\ ended' = TRUE
  /\ UNCHANGED <<asked, said>>

DNext == Ask \/ Say \/ End

DSpec == DInit /\ [][DNext]_dvars

=============================================================================
