---------------------------- MODULE SingleDuties ----------------------------
(***************************************************************************)
(* The duties signed without consensus (validator_store/src/lib.rs and     *)
(* registration_service.rs): payload attestations, proposer preferences,   *)
(* builder request auths and validator registrations.  Two services of     *)
(* Lighthouse ask for the signatures of the proposals ahead one after the  *)
(* other, in a pass over those not signed yet, so the store must answer    *)
(* also when the other operators never sign.                               *)
(***************************************************************************)
EXTENDS ValidatorStore

CONSTANTS
    SingleDuties,       \* records of kind, validator and slot
    CollectionSlots,    \* PROPOSER_PREFERENCES_ and REQUEST_AUTH_COLLECTION_TIMEOUT_SLOTS
    IndexOf,            \* the index of each validator
    RegistrationSlots   \* EPOCHS_PER_VALIDATOR_REGISTRATION_SUBMISSION, in slots

ASSUME SingleAssumption ==
    /\ IsFiniteSet(SingleDuties)
    /\ \A d \in SingleDuties : d.kind \in {"ptc", "preferences", "auth"} /\ d.slot \in Nat
    /\ \A c \in Scenarios : c.single \subseteq SingleDuties
    /\ CollectionSlots \in Nat \ {0}

VARIABLES
    requests,           \* what became of the calls, by duty
    passes,             \* the passes of Lighthouse's two services
    registrations,      \* the registrations collected, by slot
    registration_slot,  \* the slot the registration service wakes in
    registered          \* what was sent to the builders

singleDutyVars == <<requests, passes, registrations, registration_slot, registered>>

Loops == {"preferences", "auth"}
NoRequest == [st |-> "idle", until |-> 0]
NoPass(s) == [began |-> 0, size |-> 0, left |-> {}, slot |-> s]
NoRegistrations == [s \in Slots |-> [v \in Validators |-> "none"]]

SingleInit ==
    /\ requests = [d \in SingleDuties |-> NoRequest]
    /\ passes = [k \in Loops |-> NoPass(slot)]
    /\ registrations = NoRegistrations
    /\ registration_slot = slot /\ registered = {}

RestartSingle ==
    /\ requests' = [d \in SingleDuties |-> NoRequest]
    /\ passes' = [k \in Loops |-> NoPass(slot)]
    /\ registrations' = NoRegistrations
    /\ registration_slot' = slot
    /\ UNCHANGED registered

---------------------------------------------------------------------------
(* Payload attestations, proposer preferences and request auths.           *)

\* Mutant: the call waits for the quorum.
collect_within_unbounded(bound) ==
    IF bound <= 0 THEN [st |-> "failed", until |-> 0]
    ELSE [st |-> "collect", until |-> now + 100 * bound]

\* A bound of zero starts no collection.
collect_within(bound) ==
    IF bound <= 0 THEN [st |-> "failed", until |-> 0]
    ELSE [st |-> "collect", until |-> now + bound]

Declined == [st |-> "failed", until |-> 0]

\* The data may be of any slot; a past one has no time left.
sign_payload_attestation(d) ==
    IF d.slot > slot + 1 THEN Declined ELSE collect_within(3 * (d.slot + 1) - now)

sign_proposer_preferences(d) ==
    IF d.slot < slot THEN Declined ELSE collect_within(3 * CollectionSlots)

\* In the proposal's slot the bound is a second, here a third of the slot.
request_auth_collection_bound(d) == IF d.slot > slot THEN 3 * CollectionSlots ELSE 1

sign_request_auth_v1(d) ==
    IF d.slot < slot THEN Declined ELSE collect_within(request_auth_collection_bound(d))

\* get_validator_and_cluster comes first.
Answer(d) ==
    IF ~Active(d.validator) THEN Declined
    ELSE CASE d.kind = "ptc" -> sign_payload_attestation(d)
           [] d.kind = "preferences" -> sign_proposer_preferences(d)
           [] d.kind = "auth" -> sign_request_auth_v1(d)

SingleRunning == Running /\ "single" \in config.parts
InFlight(kind) == {d \in SingleDuties : d.kind = kind /\ requests[d].st = "collect"}

AttestPayload(d) ==
    /\ SingleRunning /\ d.kind = "ptc" /\ requests[d].st = "idle"
    /\ requests' = [requests EXCEPT ![d] = Answer(d)]
    /\ UNCHANGED <<clockVars, storeVars, passes, registrations, registration_slot,
                   registered>>

\* Once a slot, when the last pass is over; the builder preferences service
\* leaves out proposals that are past.
StartPass(kind) ==
    LET left == {d \in config.single : /\ d.kind = kind /\ requests[d].st # "signed"
                                       /\ kind = "auth" => d.slot >= slot}
    IN  /\ SingleRunning /\ passes[kind].left = {} /\ InFlight(kind) = {}
        /\ slot > passes[kind].slot
        /\ passes' = [passes EXCEPT ![kind] = [began |-> now, size |-> Cardinality(left),
                                               left |-> left, slot |-> slot]]
        /\ UNCHANGED <<clockVars, storeVars, requests, registrations, registration_slot,
                       registered>>

CallNext(d) ==
    /\ d.kind \in Loops /\ d \in passes[d.kind].left /\ InFlight(d.kind) = {}
    /\ passes' = [passes EXCEPT ![d.kind].left = @ \ {d}]
    /\ requests' = [requests EXCEPT ![d] = Answer(d)]
    /\ UNCHANGED <<clockVars, storeVars, registrations, registration_slot, registered>>

\* Until the slot in which the other operators prepare theirs, a timeout is
\* expected.
pending_peer_emission(proposal_slot) ==
    LET e == epoch_of(proposal_slot)
    IN  /\ e # 0
        /\ slot <= (e - 1) * SlotsPerEpoch + ((SlotsPerEpoch \div 2) - 1)

\* The report of a timeout: insufficient signatures, or an expected wait
report_collection_failure(d) ==
    IF d.kind \in Loops /\ pending_peer_emission(d.slot) THEN "pending" ELSE "failed"

\* The quorum of shares comes, the collector fails, or the bound is reached.
EndCollection(d) ==
    /\ requests[d].st = "collect"
    /\ \E st \in {"signed", "failed", report_collection_failure(d)} :
          /\ st = "pending" => now >= requests[d].until
          /\ requests' = [requests EXCEPT ![d] = [st |-> st, until |-> 0]]
    /\ UNCHANGED <<clockVars, storeVars, passes, registrations, registration_slot,
                   registered>>

---------------------------------------------------------------------------
(* Validator registrations.                                                *)

should_skip_for_gloas(s) == epoch_of(s) >= GloasEpoch

\* is_scheduled_for_slot answers whether the validator is left out.
is_scheduled_for_slot(s, v) == s % RegistrationSlots # IndexOf[v] % RegistrationSlots

\* register_validators: the active validators whose turn it is
collect_validator_registration_data(s) ==
    {v \in Validators : Active(v) /\ ~is_scheduled_for_slot(s, v)}

\* The loop of start_validator_registration_service, from the slot in which it
\* starts; from Gloas on it sleeps into the next epoch.
WakeRegistration ==
    /\ Running /\ "register" \in config.parts
    /\ slot >= registration_slot /\ slot \in Slots
    /\ IF should_skip_for_gloas(slot)
       THEN /\ registration_slot' = (epoch_of(slot) + 1) * SlotsPerEpoch
            /\ UNCHANGED registrations
       ELSE /\ registration_slot' = slot + 1
            /\ registrations' = [registrations EXCEPT ![slot] =
                  [v \in Validators |-> IF v \in collect_validator_registration_data(slot)
                                        THEN "collect" ELSE "none"]]
    /\ UNCHANGED <<clockVars, storeVars, requests, passes, registered>>

\* The timestamp is made the start of the epoch of the duty.
sign_validator_registration_data(s, v) ==
    [validator |-> v, slot |-> s, timestamp |-> 3 * SlotsPerEpoch * epoch_of(s)]

\* A registration is signed or fails; the validator may be gone by now.
EndRegistration(s, v) ==
    /\ registrations[s][v] = "collect"
    /\ \E st \in {"failed"} \cup (IF Active(v) THEN {"signed"} ELSE {}) :
          registrations' = [registrations EXCEPT ![s][v] = st]
    /\ UNCHANGED <<clockVars, storeVars, requests, passes, registration_slot, registered>>

\* join_all: the signed ones are sent when all have ended
broadcast_registration_data(s) ==
    LET signed == {v \in Validators : registrations[s][v] = "signed"}
    IN  /\ signed # {} /\ \A v \in Validators : registrations[s][v] # "collect"
        /\ registered' = registered \cup {sign_validator_registration_data(s, v) : v \in signed}
        /\ registrations' = [registrations EXCEPT ![s] = [v \in Validators |-> "none"]]
        /\ UNCHANGED <<clockVars, storeVars, requests, passes, registration_slot>>

---------------------------------------------------------------------------
\* The clock moves past no timer that has not fired, nor while a pass with no
\* call under way has the next one to make.
TimersFired ==
    /\ \A d \in SingleDuties : requests[d].st = "collect" => now' <= requests[d].until
    /\ \A k \in Loops : passes[k].left # {} => InFlight(k) # {}

SingleNext ==
    \/ \E d \in config.single : AttestPayload(d) \/ CallNext(d) \/ EndCollection(d)
    \/ \E k \in Loops : StartPass(k)
    \/ WakeRegistration
    \/ \E s \in Slots, v \in Validators : EndRegistration(s, v)
    \/ \E s \in Slots : broadcast_registration_data(s)

(***************************************************************************)
(* No head-of-line blocking: every proposal a pass has asked for so far    *)
(* held up the ones that are left by CollectionSlots slots at most, though *)
(* no other operator signs any of them (collect_within,                    *)
(* sign_proposer_preferences, request_auth_collection_bound).              *)
(***************************************************************************)
NoHeadOfLineBlocking ==
    \A k \in Loops :
        LET asked_for == passes[k].size - Cardinality(passes[k].left)
        IN  passes[k].left # {} => now <= passes[k].began + 3 * CollectionSlots * asked_for
=============================================================================
