----------------------- MODULE MCSignatureCollector -----------------------
(* Instances of SignatureCollector for TLC.                                *)
EXTENDS SignatureCollector

CONSTANTS block, other_block, envelope, randao, c1, c2

job(kind, r, e, companion) ==
    [kind |-> kind, root |-> r, envelope |-> e, companion |-> companion]

share(r, o, sig, companion, packet) ==
    [root |-> r, op |-> o, sig |-> sig, companion |-> companion,
     packet |-> packet]

\* A Gloas proposal: c1 signs the block and its envelope as one packet, c2
\* publishes the envelope.  Operator 2 sends the packet of the decided block;
\* operator 3 sent the envelope with another block in an earlier round and
\* repeats it with the decided one; operator 4's share is bad.
GloasProposal ==
    [job |-> [c \in Callers |->
                 IF c = c1 THEN job("packet", block, envelope, None)
                           ELSE job("wait", envelope, None, block)],
     traffic |-> {share(envelope, 2, "good", block, TRUE),
                  share(envelope, 3, "good", other_block, TRUE),
                  share(envelope, 3, "good", block, TRUE),
                  share(envelope, 4, "bad", block, TRUE)}]

\* A proposal without an envelope; c2 waits for it as if there was one.
BlockProposal ==
    [job |-> [c \in Callers |->
                 IF c = c1 THEN job("packet", block, None, None)
                           ELSE job("wait", envelope, None, block)],
     traffic |-> {share(block, 2, "good", None, TRUE),
                  share(block, 3, "good", None, TRUE)}]

\* Two callers ask for the same reveal; operator 4's share is bad.
RandaoReveal ==
    [job |-> [c \in Callers |-> job("collect", randao, None, None)],
     traffic |-> {share(randao, 2, "good", None, FALSE),
                  share(randao, 3, "good", None, FALSE),
                  share(randao, 4, "bad", None, FALSE)}]

MCDuties == {GloasProposal, BlockProposal, RandaoReveal}
===========================================================================
