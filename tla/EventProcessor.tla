-------------------------- MODULE EventProcessor --------------------------
(***************************************************************************)
(* What the event processor does with the contract's logs of one block, in *)
(* node mode.  An event is a record; valid says whether its keys and       *)
(* shares can be parsed and fit together, and nonce is the owner nonce the *)
(* signature of a ValidatorAdded was made for.                             *)
(*                                                                         *)
(* A handler maps a context [tx, index_sync, exits, registered, abort].    *)
(* An error that LogErrorDisposition skips leaves what the handler wrote   *)
(* before it in the transaction; the one that aborts sets abort.           *)
(***************************************************************************)
EXTENDS NetworkDatabase

\* is_valid_committee_size: 3f + 1 operators, at most MAX_OPERATORS.
valid_committee_size(n) == n \in {4, 7, 10, 13}

\* validate_operators: MissingCommittedState or InvalidEvent otherwise, both skipped.
validate_operators(disk, operators) ==
    /\ valid_committee_size(Cardinality(operators))
    /\ \A id \in operators : operator_exists_tx(disk, id)

compute_cluster_id(e) == <<e.owner, e.operators>>

process_operator_added(ctx, e) ==
    LET disk == ctx.tx.disk
        seen == set_max_operator_id_seen_tx(ctx.tx, e.id)
    IN IF \/ operator_exists_tx(disk, e.id)
          \/ disk.max_operator_id_seen # None /\ disk.max_operator_id_seen # e.id - 1
       THEN ctx
       ELSE [ctx EXCEPT !.tx = IF e.valid /\ ~key_in_use_tx(disk, e.key)
                               THEN insert_operator_tx(seen, e.id, e.key)
                               ELSE insert_skipped_operator_add_tx(seen, e.id)]

process_operator_removed(ctx, e) ==
    IF e.id \in ctx.tx.disk.skipped_operator_adds
    THEN [ctx EXCEPT !.tx = delete_skipped_operator_add_tx(@, e.id)]
    ELSE IF operator_exists_tx(ctx.tx.disk, e.id)
    THEN [ctx EXCEPT !.tx = delete_operator_tx(@, e.id)]
    ELSE [ctx EXCEPT !.abort = TRUE]

\* The shares have their length and their keys interpolate to the validator's.
parse_shares(e) == e.valid

\* The event signs its owner's address and the nonce this event bumped.
verify_signature(disk, e) == disk.owners[e.owner].nonce = e.nonce

\* A validator is registered once, whoever its owner is.
validate_validator_added_conflict(disk, e) == e.validator \in DOMAIN disk.validators

\* The nonce is bumped whatever comes of the event.
process_validator_added(ctx, e, known) ==
    LET tx == bump_and_get_nonce_tx(ctx.tx, e.owner)
        recipient == fee_recipient_for_owner(tx.disk, e.owner)
        accepted == /\ parse_shares(e)
                    /\ validate_operators(tx.disk, e.operators)
                    /\ verify_signature(tx.disk, e)
                    /\ ~validate_validator_added_conflict(tx.disk, e)
    IN IF accepted
       THEN [ctx EXCEPT !.tx = insert_validator_tx(tx, compute_cluster_id(e), e.validator, recipient, known),
                        !.registered = @ \union {e.validator},
                        !.index_sync = @ \union {e.validator}]
       ELSE [ctx EXCEPT !.tx = tx]

\* Only the owner is compared: the cluster that counts is the stored one.
process_validator_removed(ctx, e) ==
    LET validators == ctx.tx.disk.validators
    IN IF /\ e.validator \in DOMAIN validators
          /\ cluster_owner(validators[e.validator].cluster) = e.owner
       THEN [ctx EXCEPT !.tx = delete_validator_tx(@, e.validator)] ELSE ctx

process_cluster_liquidated(ctx, e) ==
    [ctx EXCEPT !.tx = update_status_tx(@, compute_cluster_id(e), TRUE)]

process_cluster_reactivated(ctx, e) ==
    [ctx EXCEPT !.tx = update_status_tx(@, compute_cluster_id(e), FALSE)]

process_fee_recipient_updated(ctx, e) ==
    [ctx EXCEPT !.tx = update_fee_recipient_tx(@, e.owner, e.recipient)]

\* The validator is in the event's cluster, which is not liquidated.
verify_validator_owner(disk, e) ==
    /\ e.validator \in DOMAIN disk.validators
    /\ disk.validators[e.validator].cluster = compute_cluster_id(e)
    /\ ~disk.clusters[compute_cluster_id(e)].liquidated

\* An exit found in a historical sync is not requested.
process_validator_exited(ctx, e, live) ==
    LET disk == ctx.tx.disk
    IN IF /\ live
          /\ verify_validator_owner(disk, e)
          /\ validate_operators(disk, e.operators)
          /\ disk.validators[e.validator].index # None
       THEN [ctx EXCEPT !.exits = Append(@, e.validator)] ELSE ctx

process_log(ctx, e, known, live) ==
    IF ctx.abort THEN ctx ELSE
    CASE e.type = "OperatorAdded" -> process_operator_added(ctx, e)
      [] e.type = "OperatorRemoved" -> process_operator_removed(ctx, e)
      [] e.type = "ValidatorAdded" -> process_validator_added(ctx, e, known)
      [] e.type = "ValidatorRemoved" -> process_validator_removed(ctx, e)
      [] e.type = "ClusterLiquidated" -> process_cluster_liquidated(ctx, e)
      [] e.type = "ClusterReactivated" -> process_cluster_reactivated(ctx, e)
      [] e.type = "FeeRecipientAddressUpdated" -> process_fee_recipient_updated(ctx, e)
      [] e.type = "ValidatorExited" -> process_validator_exited(ctx, e, live)

\* The contexts after 0, 1, ... of the logs of a block.  The set of one element
\* makes TLC evaluate the context before a log once.
LogContexts(disk, logs, known, live) ==
    LET after[i \in 0..Len(logs)] ==
            IF i = 0
            THEN [tx |-> [disk |-> disk, updates |-> <<>>], index_sync |-> {}, exits |-> <<>>,
                  registered |-> {}, abort |-> FALSE]
            ELSE CHOOSE done \in {process_log(ctx, logs[i], known, live) : ctx \in {after[i - 1]}} : TRUE
    IN after

\* process_block_logs up to the commit.
process_block_logs(disk, logs, block, known, live) ==
    LET done == LogContexts(disk, logs, known, live)[Len(logs)]
    IN [done EXCEPT !.tx = processed_block_tx(@, block)]
=============================================================================
