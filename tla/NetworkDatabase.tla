------------------------- MODULE NetworkDatabase -------------------------
(***************************************************************************)
(* The database crate: the SQLite tables an operator keeps of the SSV      *)
(* contract (the record "disk"), the NetworkState every other component    *)
(* reads (the record "mem"), the operations of a transaction, which write  *)
(* the tables and queue one update of NetworkState each, and the rebuild   *)
(* of NetworkState from the tables when the process starts.                *)
(*                                                                         *)
(* A cluster id is the pair of its owner and its set of operators, of      *)
(* which the code takes the hash.  The rows of cluster_members and shares  *)
(* follow from it: one per operator of the cluster, and one per validator  *)
(* and operator of its cluster.                                            *)
(*                                                                         *)
(* A transaction is a record [disk, updates]; an operation maps one to     *)
(* the next.                                                               *)
(***************************************************************************)
EXTENDS Naturals, Sequences, FiniteSets, Functions

CONSTANTS None,     \* NULL in the tables, Option::None in memory
          OwnKey    \* the RSA public key of this operator

(***************************************************************************)
(* Tables and memory of a database that was just created.                  *)
(***************************************************************************)
EmptyDisk ==
    [block_number |-> 0, max_operator_id_seen |-> 0, operators |-> <<>>,
     skipped_operator_adds |-> {}, owners |-> <<>>, clusters |-> <<>>, validators |-> <<>>]

cluster_owner(cluster) == cluster[1]
cluster_members(cluster) == cluster[2]

\* Without the entries of the keys in S.
Without(f, S) == Restrict(f, DOMAIN f \ S)

\* A map of several indices, by its primary key, or a row that is replaced.
insert_or_update(f, key, value) == [k \in DOMAIN f \union {key} |-> IF k = key THEN value ELSE f[k]]

\* INSERT OR IGNORE, and INSERT of a key that is new.
insert_or_ignore(f, key, row) == [k \in DOMAIN f \union {key} |-> IF k \in DOMAIN f THEN f[k] ELSE row]

(***************************************************************************)
(* Reads.                                                                  *)
(***************************************************************************)
operator_exists_tx(disk, id) == id \in DOMAIN disk.operators /\ ~disk.operators[id].removed

\* GET_OPERATOR_ID sees active operators only.
own_operator(disk) ==
    LET own == {id \in DOMAIN disk.operators : operator_exists_tx(disk, id) /\ disk.operators[id].key = OwnKey}
    IN IF own = {} THEN None ELSE CHOOSE id \in own : TRUE

\* The id that memory knows goes first.
get_own_operator_id_tx(disk, known) == IF known # None THEN known ELSE own_operator(disk)

\* GET_ANY_OPERATOR_ID also sees the soft-deleted ones.
key_in_use_tx(disk, key) == \E id \in DOMAIN disk.operators : disk.operators[id].key = key

fee_recipient_for_owner(disk, owner) ==
    IF owner \in DOMAIN disk.owners /\ disk.owners[owner].fee_recipient # None
    THEN disk.owners[owner].fee_recipient ELSE owner

(***************************************************************************)
(* Writes of the block being processed and of operators.                   *)
(***************************************************************************)
processed_block_tx(tx, block) ==
    [disk |-> [tx.disk EXCEPT !.block_number = block],
     updates |-> Append(tx.updates, [kind |-> "SetLastProcessedBlock", block |-> block])]

set_max_operator_id_seen_tx(tx, id) ==
    [disk |-> [tx.disk EXCEPT !.max_operator_id_seen = id],
     updates |-> Append(tx.updates, [kind |-> "SetMaxOperatorIdSeen", id |-> id])]

insert_operator_tx(tx, id, key) ==
    [disk |-> [tx.disk EXCEPT !.operators = insert_or_ignore(@, id, [key |-> key, removed |-> FALSE])],
     updates |-> Append(tx.updates, [kind |-> "InsertOperator", id |-> id, key |-> key])]

insert_skipped_operator_add_tx(tx, id) ==
    [tx EXCEPT !.disk.skipped_operator_adds = @ \union {id}]

delete_skipped_operator_add_tx(tx, id) ==
    [tx EXCEPT !.disk.skipped_operator_adds = @ \ {id}]

\* DELETE_OPERATOR is refused by the foreign key of cluster_members; the
\* operator is then only marked.
delete_operator_tx(tx, id) ==
    LET member == \E cluster \in DOMAIN tx.disk.clusters : id \in cluster_members(cluster)
    IN [disk |-> [tx.disk EXCEPT !.operators =
                      IF member THEN [@ EXCEPT ![id].removed = TRUE] ELSE Without(@, {id})],
        updates |-> Append(tx.updates, [kind |-> "DeleteOperator", id |-> id])]

(***************************************************************************)
(* Writes of owners, clusters and validators.                              *)
(***************************************************************************)
bump_and_get_nonce_tx(tx, owner) ==
    LET row == IF owner \in DOMAIN tx.disk.owners THEN tx.disk.owners[owner]
               ELSE [fee_recipient |-> None, nonce |-> None]
        nonce == IF row.nonce = None THEN 0 ELSE row.nonce + 1
    IN [disk |-> [tx.disk EXCEPT !.owners = insert_or_update(@, owner, [row EXCEPT !.nonce = nonce])],
        updates |-> Append(tx.updates, [kind |-> "SetOwnerNonce", owner |-> owner, nonce |-> nonce])]

update_fee_recipient_tx(tx, owner, recipient) ==
    LET row == IF owner \in DOMAIN tx.disk.owners THEN tx.disk.owners[owner]
               ELSE [fee_recipient |-> None, nonce |-> None]
    IN [disk |-> [tx.disk EXCEPT !.owners = insert_or_update(@, owner, [row EXCEPT !.fee_recipient = recipient])],
        updates |-> Append(tx.updates,
                       [kind |-> "UpdateFeeRecipient", owner |-> owner, fee_recipient |-> recipient])]

\* INSERT OR IGNORE keeps the row, and with it the liquidated flag, of a
\* cluster that is already there; the update carries the new Cluster value.
insert_validator_tx(tx, cluster, pubkey, recipient, known) ==
    LET owner == cluster_owner(cluster)
        own == get_own_operator_id_tx(tx.disk, known) \in cluster_members(cluster)
    IN [disk |-> [tx.disk EXCEPT
                     !.clusters = insert_or_ignore(@, cluster, [liquidated |-> FALSE]),
                     !.validators = insert_or_ignore(@, pubkey, [cluster |-> cluster, index |-> None]),
                     !.owners = insert_or_ignore(@, owner, [fee_recipient |-> owner, nonce |-> None])],
        updates |-> Append(tx.updates,
                       [kind |-> "InsertValidator", cluster |-> cluster, validator |-> pubkey,
                        fee_recipient |-> recipient, own |-> own])]

update_status_tx(tx, cluster, liquidated) ==
    [disk |-> [tx.disk EXCEPT !.clusters =
                   IF cluster \in DOMAIN @ THEN [@ EXCEPT ![cluster].liquidated = liquidated] ELSE @],
     updates |-> Append(tx.updates,
                    [kind |-> "UpdateClusterStatus", cluster |-> cluster, liquidated |-> liquidated])]

\* Mutant: the tables have no triggers.
delete_validator_tx_alone(tx, pubkey) ==
    [disk |-> [tx.disk EXCEPT !.validators = Without(@, {pubkey})],
     updates |-> Append(tx.updates, [kind |-> "DeleteValidator", validator |-> pubkey])]

\* The triggers: the last validator takes its cluster along, and the cluster's
\* removed operators that are in no other cluster go with it.
delete_validator_tx(tx, pubkey) ==
    LET cluster == tx.disk.validators[pubkey].cluster
        left == Without(tx.disk.validators, {pubkey})
        last == \A v \in DOMAIN left : left[v].cluster # cluster
        clusters == IF last THEN Without(tx.disk.clusters, {cluster}) ELSE tx.disk.clusters
        orphans == {id \in DOMAIN tx.disk.operators :
                       /\ last /\ id \in cluster_members(cluster)
                       /\ tx.disk.operators[id].removed
                       /\ \A c \in DOMAIN clusters : id \notin cluster_members(c)}
    IN [disk |-> [tx.disk EXCEPT !.validators = left, !.clusters = clusters,
                                 !.operators = Without(@, orphans)],
        updates |-> Append(tx.updates, [kind |-> "DeleteValidator", validator |-> pubkey])]

(***************************************************************************)
(* NetworkState.  StateUpdate::apply, one disjunct of the CASE per variant.*)
(***************************************************************************)
apply(mem, u) ==
    CASE u.kind = "SetLastProcessedBlock" -> [mem EXCEPT !.last_processed_block = u.block]
      [] u.kind = "SetMaxOperatorIdSeen" -> [mem EXCEPT !.max_operator_id_seen = u.id]
      [] u.kind = "InsertOperator" ->
            [mem EXCEPT !.id = IF @ = None /\ u.key = OwnKey THEN u.id ELSE @,
                        !.operators = insert_or_update(@, u.id, u.key)]
      [] u.kind = "DeleteOperator" -> [mem EXCEPT !.operators = Without(@, {u.id})]
      [] u.kind = "InsertValidator" ->
            [mem EXCEPT
                !.own_clusters = IF u.own THEN @ \union {u.cluster} ELSE @,
                !.shares = IF u.own THEN @ \union {u.validator} ELSE @,
                !.clusters = insert_or_update(@, u.cluster,
                    [fee_recipient |-> u.fee_recipient, liquidated |-> FALSE]),
                !.metadata = insert_or_update(@, u.validator,
                    [cluster |-> u.cluster, index |-> None])]
      [] u.kind = "UpdateClusterStatus" ->
            [mem EXCEPT !.clusters =
                IF u.cluster \in DOMAIN @ THEN [@ EXCEPT ![u.cluster].liquidated = u.liquidated] ELSE @]
      [] u.kind = "DeleteValidator" ->
            LET cluster == mem.metadata[u.validator].cluster
                left == Without(mem.metadata, {u.validator})
                last == \A v \in DOMAIN left : left[v].cluster # cluster
                gone == IF last THEN {cluster} ELSE {}
            IN [mem EXCEPT !.shares = @ \ {u.validator}, !.metadata = left,
                           !.clusters = Without(@, gone), !.own_clusters = @ \ gone]
      [] u.kind = "SetOwnerNonce" -> [mem EXCEPT !.nonces = insert_or_update(@, u.owner, u.nonce)]
      [] u.kind = "UpdateFeeRecipient" ->
            [mem EXCEPT !.clusters = [c \in DOMAIN @ |->
                IF cluster_owner(c) = u.owner THEN [@[c] EXCEPT !.fee_recipient = u.fee_recipient] ELSE @[c]]]

\* NetworkState after 0, 1, ... of the updates of a transaction.
UpdatesApplied(mem, updates) ==
    LET after[i \in 0..Len(updates)] ==
            IF i = 0 THEN mem ELSE CHOOSE next \in {apply(m, updates[i]) : m \in {after[i - 1]}} : TRUE
    IN after

publish_pending_state_updates(mem, updates) == UpdatesApplied(mem, updates)[Len(updates)]

\* What a process that starts builds from the tables.
fetch_operators(disk) ==
    [o \in {p \in DOMAIN disk.operators : operator_exists_tx(disk, p)} |-> disk.operators[o].key]

\* The shares of this operator, by their validators
fetch_shares(disk, id) ==
    {v \in DOMAIN disk.validators : id # None /\ id \in cluster_members(disk.validators[v].cluster)}

fetch_clusters(disk) ==
    [c \in DOMAIN disk.clusters |->
        [fee_recipient |-> fee_recipient_for_owner(disk, cluster_owner(c)),
         liquidated |-> disk.clusters[c].liquidated]]

fetch_nonces(disk) ==
    [o \in {p \in DOMAIN disk.owners : disk.owners[p].nonce # None} |-> disk.owners[o].nonce]

fetch_validators(disk) == disk.validators

new_with_state(disk) ==
    LET id == own_operator(disk)
        own == fetch_shares(disk, id)
    IN [id |-> id,
        last_processed_block |-> disk.block_number,
        max_operator_id_seen |-> disk.max_operator_id_seen,
        operators |-> fetch_operators(disk),
        own_clusters |-> {disk.validators[v].cluster : v \in own},
        shares |-> own,
        nonces |-> fetch_nonces(disk),
        clusters |-> fetch_clusters(disk),
        metadata |-> fetch_validators(disk)]

(***************************************************************************)
(* set_validator_indices writes the tables and then memory, with the one   *)
(* connection of the pool in hand all the while.                           *)
(***************************************************************************)
set_index_on_disk(disk, pubkeys, index) ==
    [disk EXCEPT !.validators = [v \in DOMAIN @ |-> IF v \in pubkeys THEN [@[v] EXCEPT !.index = index[v]] ELSE @[v]]]

set_index_in_memory(mem, pubkeys, index) ==
    [mem EXCEPT !.metadata = [v \in DOMAIN @ |-> IF v \in pubkeys THEN [@[v] EXCEPT !.index = index[v]] ELSE @[v]]]
=============================================================================
