------------------------------ MODULE MCProxy ------------------------------
(* Two pools with a proxy each; the components of the configuration file.  *)
EXTENDS Proxy

Components ==
  [near  |-> [pool |-> "A", named |-> TRUE,  up |-> TRUE],
   far   |-> [pool |-> "B", named |-> FALSE, up |-> TRUE],
   down  |-> [pool |-> "B", named |-> TRUE,  up |-> FALSE],
   other |-> [pool |-> "A", named |-> FALSE, up |-> TRUE],
   alone |-> [pool |-> "C", named |-> TRUE,  up |-> TRUE]]

Ask(style, via, dests) == [style : {style}, via : {via}, dest : dests]
Mixed ==
  [k |-> Ask("team", "A", {"far"}),
   l |-> Ask("team", "A", DOMAIN Components \cup {"nobody"})
           \cup Ask("team", "B", {"near"}) \cup Ask("p2p", "A", {"near"})]

\* The component k is connected to answers; what l sends is its handshake.
Answering == [e \in Ends |-> IF e = <<"server", "k">> THEN 1 ELSE 0]
=============================================================================
