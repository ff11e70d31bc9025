------------------------------ MODULE Discovery ------------------------------
(***************************************************************************)
(* Discovery (anchor/network/src/discovery.rs): the node's own record, its  *)
(* domain and subnets, and the queries that look for records of peers.     *)
(* discv5 is modelled by what its queries may return.  The addresses and   *)
(* ports of a record, its sequence number and its copy on disk are left    *)
(* out; active queries are a set.                                          *)
(***************************************************************************)
EXTENDS PeerManager

CONSTANTS
    PeerDomains     \* the main and the next domain in the record of a peer

VARIABLES
    enr,        \* the node's record
    queries     \* active_queries

discoveryVars == <<enr, queries>>

FindPeers == [type |-> "FindPeers", subnets |-> {}]
SubnetQuery(subnets) == [type |-> "Subnet", subnets |-> subnets]

\* build_enr: the subnets are left to set_subscribed.
build_enr(domain) == [domain |-> domain, subnets |-> {}]

set_subscribed(record, s, subscribed) ==
    [record EXCEPT !.subnets = IF subscribed THEN @ \cup {s} ELSE @ \ {s}]

\* update_enr_domain_type: the insertion may fail, unless there is nothing
\* to change.
update_enr_domain_type(domain) == enr' = [enr EXCEPT !.domain = domain]
update_fails(domain) == enr.domain # domain /\ UNCHANGED enr

---------------------------------------------------------------------------
(* Queries.                                                                *)

enr_matches_current_domain(p) ==
    lifecycle.current \in {PeerDomains[p].main, PeerDomains[p].next}

subnet_predicate(subnets, p) == PeerEnr[p] \cap subnets # {}

\* What the predicates of start_query let through.  The domain is read when
\* a record is considered, which here is the end of the query.
admitted(query) ==
    {p \in config.peers :
        /\ enr_matches_current_domain(p)
        /\ query.type = "Subnet" => subnet_predicate(query.subnets, p)}

\* start_query: a query of a service that is not started is never polled.
start_query(query) == IF config.discovery THEN queries \cup {query} ELSE queries

\* discover_peers
discover_peers == start_query(FindPeers)

\* start_subnet_query for several groups of subnets, unless they are empty
start_subnet_queries(groups) ==
    queries \cup UNION {start_query(SubnetQuery(g)) : g \in groups \ {{}}}

\* poll_queries and process_completed_queries: a query fails, or ends with
\* some of the records it may let through.
process_completed_queries(query, found) ==
    /\ query \in queries
    /\ queries' = queries \ {query}
    /\ found \subseteq admitted(query)
    /\ UNCHANGED enr
=============================================================================
