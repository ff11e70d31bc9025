------------------------------ MODULE Handshake ------------------------------
(***************************************************************************)
(* The handshake (anchor/network/src/handshake): the side that dialed sends *)
(* its node info on the first connection of a peer and the other answers   *)
(* with its own.  Each verifies the domain of the other against the        *)
(* lifecycle at that moment.  Only failures have consequences: they are    *)
(* queued as events for the network task.                                  *)
(***************************************************************************)
EXTENDS Discovery

\* our_node_info: the domain; the metadata of the peer are for metrics.
our_node_info == lifecycle.current

verify_node_info(theirs) == theirs = our_node_info

\* verify_and_emit_event
verify_and_emit_event(p, theirs) ==
    failures' = IF verify_node_info(theirs) THEN failures ELSE failures \cup {p}

\* handle_request: a peer may ask at any time, whoever dialed, and again.
HandleRequest(p, theirs) ==
    /\ of_peer(p) # {}
    /\ verify_and_emit_event(p, theirs)
    /\ UNCHANGED <<monitorVars, serviceVars, discoveryVars>>
    /\ UNCHANGED <<connections, closing, dialing, shaking, gossip, peers>>

HandleResponse(p, theirs) ==
    /\ p \in shaking
    /\ shaking' = shaking \ {p}
    /\ verify_and_emit_event(p, theirs)
    /\ UNCHANGED <<monitorVars, serviceVars, discoveryVars>>
    /\ UNCHANGED <<connections, closing, dialing, gossip, peers>>

\* OutboundFailure: the request times out or cannot be sent or answered.
OutboundFailure(p) ==
    /\ p \in shaking
    /\ shaking' = shaking \ {p}
    /\ failures' = failures \cup {p}
    /\ UNCHANGED <<monitorVars, serviceVars, discoveryVars>>
    /\ UNCHANGED <<connections, closing, dialing, gossip, peers>>

\* InboundFailure: a request of the peer cannot be read or answered.
InboundFailure(p) ==
    /\ of_peer(p) # {}
    /\ failures' = failures \cup {p}
    /\ UNCHANGED <<monitorVars, serviceVars, discoveryVars>>
    /\ UNCHANGED <<connections, closing, dialing, shaking, gossip, peers>>
=============================================================================
