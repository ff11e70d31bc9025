------------------------------ MODULE MCClient ------------------------------
(* Instances of Client: two validators, slots 4 to 6 of epochs of two slots, *)
(* and Boole and Gloas from slot 6 on.  v2 has two sync committee subnets.   *)
(* Every scenario lets some of the services work.                            *)
EXTENDS Client, TLC

CONSTANTS v1, v2

mc_SyncSubnets == v1 :> 1 @@ v2 :> 2
Vote(root, index, source, target) ==
    [root |-> root, index |-> index, source |-> source, target |-> target]
mc_Votes == {Vote("a", 0, 1, 2), Vote("b", 0, 1, 2), Vote("a", 0, 2, 3), Vote("b", 1, 0, 3)}
Block(root, s, builder) == [root |-> root, slot |-> s, builder |-> builder]
mc_Blocks == {Block("p", 5, "self"), Block("q", 5, "self"), Block("x", 6, "self"),
              Block("y", 6, "self"), Block("z", 6, "builder")}
Exit(v, block, own) == [validator |-> v, block |-> block, own |-> own]
mc_Exits == {Exit(v1, 3, TRUE), Exit(v2, 4, TRUE)}
Single(kind, v, s) == [kind |-> kind, validator |-> v, slot |-> s]
mc_SingleDuties ==
    {Single("preferences", v1, 5), Single("preferences", v1, 6), Single("preferences", v2, 7),
     Single("auth", v1, 4), Single("auth", v2, 6), Single("auth", v2, 7),
     Single("ptc", v1, 3), Single("ptc", v1, 4), Single("ptc", v2, 7)}
mc_IndexOf == v1 :> 4 @@ v2 :> 9
mc_PtcDuty == v1 :> 5 @@ v2 :> 6
mc_ProposerDuty == 4 :> v1 @@ 5 :> v1 @@ 6 :> v2

Duty(attesters) == [s \in Slots |-> {v \in Validators : <<s, v>> \in attesters}]
Every(from, to, step) == {t \in from .. to : (t - from) % step = 0}
Base ==
    [times |-> Every(9, 15, 3), stage |-> "running", slots |-> Slots,
     parts |-> {}, duties |-> Duty({}), registry |-> [v \in Validators |-> "active"],
     history |-> {}, sync |-> {}, heads |-> {"a"}, changes |-> 0, reorgs |-> 0,
     restarts |-> 0, proposal_slots |-> {}, proposer_delay |-> 0, operator_dg |-> FALSE, twin |-> FALSE,
     single |-> {}]

\* v1's duty moves to a later slot of its epoch, and the node restarts
Reorg ==
    [Base EXCEPT !.parts = {"attest"}, !.duties = Duty({<<4, v1>>}),
                 !.reorgs = 1, !.restarts = 1]
\* v1 attests in two epochs, over a record of epoch 1
TwoEpochs ==
    [Base EXCEPT !.parts = {"attest"}, !.duties = Duty({<<4, v1>>, <<6, v1>>}),
                 !.slots = {4, 6}, !.times = Every(9, 18, 3), !.heads = {"a", "b"},
                 !.history = {Attestation(v1, 2, Vote("a", 0, 0, 1))}]
\* attestations and sync committee messages of one slot; v1 may go
Batch ==
    [Base EXCEPT !.parts = {"attest", "sync"}, !.duties = Duty({<<4, v1>>, <<4, v2>>}),
                 !.sync = {v2}, !.slots = {4}, !.times = 9 .. 14]
BatchChange ==
    [Batch EXCEPT !.duties = Duty({<<4, v1>>}), !.times = Every(9, 15, 3), !.changes = 1]
\* v2's duty moves into the slot after its snapshot; the cleaner comes
BatchReorg ==
    [Base EXCEPT !.parts = {"attest"}, !.duties = Duty({<<4, v1>>, <<5, v2>>}),
                 !.slots = {4}, !.times = Every(9, 18, 3), !.reorgs = 1]
\* aggregation on both sides of the Boole fork
Before ==
    [Base EXCEPT !.parts = {"aggregate"}, !.duties = Duty({<<5, v1>>}), !.sync = {v2},
                 !.slots = {5}, !.times = 14 .. 17]
\* contributions are decided until the cleaner has come
Late ==
    [Before EXCEPT !.duties = Duty({}), !.times = {14, 15, 16, 17, 21}]
After ==
    [Before EXCEPT !.duties = Duty({<<6, v1>>}), !.slots = {6}, !.times = 17 .. 20]
AfterChange ==
    [After EXCEPT !.sync = {}, !.changes = 1]
Across ==
    [Before EXCEPT !.duties = Duty({<<5, v1>>, <<6, v1>>}), !.slots = {5, 6},
                   !.sync = {}, !.times = 14 .. 20]
Proposing ==
    [Base EXCEPT !.parts = {"propose"}, !.slots = {}, !.times = {12, 15},
                 !.proposal_slots = {5}, !.restarts = 1]
GloasProposing ==
    [Proposing EXCEPT !.times = {15, 18, 21}, !.proposal_slots = {6}]
Singles(kind) ==
    [Base EXCEPT !.parts = {"single"}, !.slots = {},
                 !.single = {d \in mc_SingleDuties : d.kind = kind}]
\* the passes over the proposals of two epochs, and the node restarts
Preferences ==
    [Singles("preferences") EXCEPT !.times = Every(9, 21, 3), !.restarts = 1]
Auths ==
    [Singles("auth") EXCEPT !.times = 11 .. 18]
Payloads ==
    [Singles("ptc") EXCEPT !.times = Every(9, 15, 3), !.changes = 1]
Registrations ==
    [Base EXCEPT !.parts = {"register"}, !.slots = {}, !.times = Every(12, 18, 3),
                 !.changes = 1, !.restarts = 1]
Exiting ==
    [Base EXCEPT !.parts = {"exits"}, !.slots = {}, !.times = Every(9, 24, 3), !.restarts = 1]
Twins ==
    {[Base EXCEPT !.slots = {}, !.stage = "syncing", !.operator_dg = TRUE, !.twin = t,
                  !.times = Every(9, 21, 3), !.restarts = 1] : t \in BOOLEAN}
Polls ==
    {[Base EXCEPT !.parts = {t}, !.slots = {5, 6}, !.times = {15, 18}, !.changes = 1,
                  !.registry = v1 :> "active" @@ v2 :> "removed", !.sync = {v1, v2}] : t \in Tasks}

mc_Scenarios ==
    {Reorg, TwoEpochs, Batch, BatchChange, BatchReorg, Before, Late, After, AfterChange,
     Across, Proposing, GloasProposing, Preferences, Auths, Payloads,
     Registrations, Exiting} \cup Twins \cup Polls
mc_Recording == {[TwoEpochs EXCEPT !.times = Every(9, 15, 3)]}
=============================================================================
