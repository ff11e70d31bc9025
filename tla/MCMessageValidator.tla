------------------------- MODULE MCMessageValidator -------------------------
(* Instances of MessageValidator for TLC: a committee of four, epochs of   *)
(* four slots, Boole and Gloas active from slot 4 on.                      *)
EXTENDS MessageValidator

CONSTANTS A, B, C, D

Fork(slot) == IF slot < 4 THEN "Alan" ELSE "Boole"

Qbft(type, signers, slot, round, root, data, flaws) ==
    [kind |-> "Consensus", type |-> type, signers |-> signers, slot |-> slot,
     round |-> round, root |-> root, data |-> data, carries |-> {},
     entries |-> <<>>, topic |-> Fork(slot), domain |-> Fork(slot), flaws |-> flaws,
     honest |-> FALSE]

Partial(type, o, slot, roots, flaws) ==
    [kind |-> "Partial", type |-> type, signers |-> {o}, slot |-> slot,
     round |-> 1, root |-> NoRoot, data |-> NoRoot, carries |-> {},
     entries |-> [i \in DOMAIN roots |-> [validator |-> 1, root |-> roots[i]]],
     topic |-> Fork(slot), domain |-> Fork(slot), flaws |-> flaws,
     honest |-> FALSE]

\* A packet about several validators.
ForValidators(packet, validators) ==
    [packet EXCEPT !.entries = [i \in DOMAIN @ |-> [@[i] EXCEPT !.validator = validators[i]]]]

AsHonest(ms) == [i \in DOMAIN ms |-> [ms[i] EXCEPT !.honest = TRUE]]

Forged == {"SignatureVerificationFailed"}

\* Operator 3 prepares A in round 1, leads round 2 and proposes it again;
\* operator 4 leads round 3, locked on A, and has to propose B.  The leader of
\* round 1 sends two proposals, and others forge messages of 3.
HonestCommittee == <<
    Qbft("Prepare", {3}, 1, 1, A, NoRoot, {}),
    Qbft("Commit", {3}, 1, 1, A, NoRoot, {}),
    [Qbft("RoundChange", {3}, 1, 2, A, A, {}) EXCEPT !.carries = {"justifications"}],
    [Qbft("Proposal", {3}, 1, 2, A, A, {}) EXCEPT !.carries = {"justifications", "prepares"}],
    [Qbft("RoundChange", {4}, 1, 3, A, A, {}) EXCEPT !.carries = {"justifications"}],
    [Qbft("Proposal", {4}, 1, 3, B, B, {}) EXCEPT !.carries = {"justifications", "prepares"}],
    ForValidators(Partial("PostConsensus", 3, 1, <<A, A, B>>, {}), <<1, 2, 2>>) >>

OtherCommittee == <<
    Qbft("Proposal", {2}, 1, 1, A, A, {}),
    Qbft("Proposal", {2}, 1, 1, B, B, {}),
    Qbft("Commit", {1, 2, 3}, 1, 1, A, A, {}),
    Qbft("Prepare", {3}, 1, 1, B, NoRoot, Forged),
    Qbft("Proposal", {3}, 1, 2, B, B, Forged),
    Partial("PostConsensus", 3, 1, <<B>>, Forged) >>

\* One operator sends for every slot; the validator has one duty an epoch.
OtherAggregators ==
    [i \in 1..8 |-> Partial("PostConsensus", 1, i + 3, <<A>>, {})] \o
    << Qbft("Prepare", {2}, 3, 1, A, NoRoot, {}),
       [Qbft("Prepare", {2}, 3, 1, A, NoRoot, {}) EXCEPT !.topic = "Boole", !.domain = "Boole"] >>

HonestAggregators == <<Partial("PostConsensus", 3, 5, <<A>>, {})>>

\* The validator proposes in slots 2, 4 and 6.
HonestProposer == <<
    Partial("RandaoPartialSig", 1, 2, <<A>>, {}),
    Qbft("Prepare", {1}, 2, 1, B, NoRoot, {}),
    Partial("PostConsensus", 1, 2, <<B>>, {}),
    Partial("RandaoPartialSig", 1, 4, <<A>>, {}),
    Partial("PostConsensus", 1, 4, <<B, C>>, {}) >>

OtherProposer == <<
    Partial("PostConsensus", 2, 2, <<B, C>>, {}),
    Partial("RandaoPartialSig", 1, 6, <<A>>, Forged),
    Qbft("Prepare", {2}, 5, 1, B, NoRoot, {}) >>

HonestPreferences == <<
    Partial("ProposerPreferences", 1, 4, <<A>>, {}),
    Partial("RequestAuth", 1, 4, <<A, B>>, {}),
    Partial("ProposerPreferences", 1, 6, <<A>>, {}) >>

OtherPreferences == <<
    Partial("ProposerPreferences", 2, 4, <<A>>, {}),
    Partial("ProposerPreferences", 2, 4, <<B>>, {}),
    Partial("ProposerPreferences", 2, 4, <<C>>, {}),
    Partial("RequestAuth", 2, 4, <<A, B>>, {}),
    Partial("RequestAuth", 2, 4, <<B, C>>, {}),
    Partial("RequestAuth", 2, 4, <<C>>, {}),
    Partial("ProposerPreferences", 1, 6, <<B>>, Forged) >>

HonestPTC == <<Partial("PTCAttester", 1, 4, <<A>>, {}), Partial("PTCAttester", 1, 6, <<A>>, {})>>
OtherPTC == <<Partial("PTCAttester", 2, 4, <<A>>, {}), Partial("PTCAttester", 2, 4, <<B>>, {}),
              Partial("PTCAttester", 2, 5, <<B>>, {})>>

HonestRegistration == <<Partial("ValidatorRegistration", 1, 3, <<A>>, {})>>
OtherRegistration == [i \in 1..5 |-> Partial("ValidatorRegistration", 2, i - 1, <<A>>, {})]

HonestExit == <<Partial("VoluntaryExit", 1, 2, <<A>>, {})>>
OtherExit == <<Partial("VoluntaryExit", 2, 2, <<A>>, {}), Partial("VoluntaryExit", 2, 2, <<B>>, {}),
               Partial("VoluntaryExit", 2, 3, <<A>>, {})>>

MCHonest ==
    [r \in {"Committee", "AggregatorCommittee", "Proposer", "ProposerPreferences",
            "PTCAttester", "ValidatorRegistration", "VoluntaryExit"} |->
        CASE r = "Committee" -> HonestCommittee
          [] r = "AggregatorCommittee" -> HonestAggregators
          [] r = "Proposer" -> HonestProposer
          [] r = "ProposerPreferences" -> HonestPreferences
          [] r = "PTCAttester" -> HonestPTC
          [] r = "ValidatorRegistration" -> HonestRegistration
          [] OTHER -> HonestExit]

MCTraffic ==
    [r \in DOMAIN MCHonest |-> AsHonest(MCHonest[r]) \o
       (CASE r = "Committee" -> OtherCommittee
          [] r = "AggregatorCommittee" -> OtherAggregators
          [] r = "Proposer" -> OtherProposer
          [] r = "ProposerPreferences" -> OtherPreferences
          [] r = "PTCAttester" -> OtherPTC
          [] r = "ValidatorRegistration" -> OtherRegistration
          [] OTHER -> OtherExit)]

View(registered, indices, fetched) ==
    [registered |-> registered, indices |-> indices, fetched |-> fetched, local |-> {}]

\* The committee that attests has two validators; one of them is in the sync
\* committee and has two signatures in a packet.
MCValidators == [r \in DOMAIN MCHonest |-> IF r = "Committee" THEN {1, 2} ELSE {1}]

\* The large scenarios start with the duties known, and the larger one with
\* the index of one of its validators.
MCInitialViews ==
    [r \in DOMAIN MCHonest |->
        CASE r = "AggregatorCommittee" -> {View(TRUE, {}, 0..4)}
          [] r = "Committee" -> {View(TRUE, {1}, 0..4)}
          [] r = "ProposerPreferences" -> {View(FALSE, {}, {})}
          [] OTHER -> {View(FALSE, {}, {}), View(TRUE, {}, {0})}]

MCMaxTime ==
    [r \in DOMAIN MCHonest |->
        CASE r = "AggregatorCommittee" -> 51 [] r = "Committee" -> 23 [] OTHER -> 27]

MCDutySlots == {2, 4, 6}
=============================================================================
